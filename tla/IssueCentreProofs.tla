-------------------------- MODULE IssueCentreProofs --------------------------
(***************************************************************************)
(* Theorems about IssueCentre, for any jobs, items, users and bounds.      *)
(***************************************************************************)
EXTENDS IssueCentre, FiniteSetTheorems, TLAPS

-----------------------------------------------------------------------------
(* The inductive invariant.                                                *)

Steps == {"idle", "next", "load", "write", "count", "setjob", "item", "setitem",
          "notice", "post"}
Cand == [key : Keys, item : Items \cup {None}, err : Errors, found : SUBSET Detections]
Maps(S) == UNION {[K -> S] : K \in SUBSET Keys}
Picks == Maps(Ids \cup {0})
Olds == Maps(Row \cup {None})
Thread == [pc : Steps, job : Jobs \cup {None}, cands : SUBSET Cand, pick : Picks, old : Olds,
           status : JobStatus \cup {None}, count : Nat, err : Errors \cup {None},
           items : SUBSET Items, active : SUBSET Ids, left : 0..2,
           seen : [Ids -> [job : Jobs, shown : BOOLEAN] \cup {None}],
           said : {"none", "ACTIVE", "STALE"},
           next : SUBSET Jobs, retry : SUBSET Jobs]

JobType == [status : JobStatus, err : Errors \cup {None}, count : Nat]
ItemType == [status : ItemStatus, err : Errors \cup {None}, count : Nat]

\* The tables.
DataOK ==
  /\ job \in [Jobs -> JobType]
  /\ item \in [Items -> ItemType]
  /\ issue \in [Ids -> Row \cup {None}]
  /\ nextId \in 1..(MaxIssues + 1)
  /\ \A n \in Ids : n >= nextId => issue[n] = None
  /\ notice \in [Ids -> [job : Jobs, shown : BOOLEAN] \cup {None}]
  /\ reminder \in [Jobs -> {"none", "ACTIVE", "STALE"}]
  /\ slips \subseteq Jobs

\* The items before the worker, and the one it executes, are those of its job.
WorkerOK ==
  /\ hand \in Jobs \cup {None}
  /\ due \subseteq todo /\ todo \subseteq Items
  /\ doing \in Items \cup {None}
  /\ \A i \in todo : hand \in Jobs /\ JobOf[i] = hand
  /\ doing # None => hand \in Jobs /\ JobOf[doing] = hand

\* A thread has a job, or further jobs, exactly while it is inside a call.
InPhase(r) ==
  /\ r.pc = "idle" => r.job = None /\ r.next = {} /\ r.retry = {}
  /\ r.pc = "next" => r.job = None /\ r.next \cup r.retry # {}
  /\ r.pc \notin {"idle", "next"} => r.job \in Jobs

ThreadsOK == th \in [Threads -> Thread] /\ \A t \in Threads : InPhase(th[t])

\* What a sync has read is still so, as far as its writes rely on it.
Seen(r) ==
  LET j == r.job
      failed == Having(j, {"FAILED"})
  IN /\ r.status = job[j].status
     /\ \A i \in failed : \E c \in r.cands : \E f \in c.found : f[1] = i
     /\ \A c \in r.cands : \A f \in c.found :
          \/ f[1] \in failed
          \/ f[1] = j
          \/ /\ f[1] \in ItemsOf(j)
             /\ item[f[1]].status = "CANCELED" /\ job[j].status = "CANCELED"

Picked(r) ==
  LET keys == {c.key : c \in r.cands}
  IN /\ \A c, d \in r.cands : c.key = d.key => c = d
     /\ IsFiniteSet(keys) /\ \A c \in r.cands : IsFiniteSet(c.found)
     /\ r.pick \in [keys -> Ids \cup {0}]
     /\ r.old \in [keys -> Row \cup {None}]
     /\ \A k \in keys :
          /\ r.pick[k] = 0 => \A n \in Rows : ~(issue[n].key = k /\ issue[n].by = r.job)
          /\ r.pick[k] # 0 => /\ r.old[k] \in Row
                              /\ r.pick[k] < nextId
                              /\ issue[r.pick[k]] # None => issue[r.pick[k]].key = k

Writing == \A t \in Threads : th[t].pc = "write" => Seen(th[t]) /\ Picked(th[t])

\* The lock on the row of the job.
Locked ==
  \A t, u \in Threads :
    th[t].pc = "write" /\ th[u].pc = "write" /\ th[t].job = th[u].job => t = u

IInv == DataOK /\ WorkerOK /\ ThreadsOK /\ Writing /\ Locked /\ OneIssuePerJobAndKey

-----------------------------------------------------------------------------
(* What a step may do under a sync.                                        *)

\* The statuses of a job stay, but its items may be cancelled if it is.
SameStatus(j) ==
  /\ job'[j].status = job[j].status
  /\ \A i \in ItemsOf(j) :
       \/ item'[i].status = item[i].status
       \/ item'[i].status = "CANCELED" /\ job[j].status = "CANCELED"

\* A row keeps its key and its author; a row that is new is not j's.
SameRows(j) ==
  /\ nextId' \in Nat /\ nextId' >= nextId
  /\ \A n \in Ids : issue'[n] # None =>
       \/ issue[n] # None /\ issue'[n].key = issue[n].key /\ issue'[n].by = issue[n].by
       \/ n >= nextId /\ issue'[n].by # j

\* No row is added, and rows keep their keys and authors.
NoNewRows ==
  /\ nextId' = nextId
  /\ \A n \in Ids : issue'[n] # None =>
       issue[n] # None /\ issue'[n].key = issue[n].key /\ issue'[n].by = issue[n].by

\* A sync that goes on finds what it has read unchanged.
Undisturbed ==
  \A t \in Threads : th'[t].pc = "write" =>
    th'[t] = th[t] /\ SameStatus(th[t].job) /\ SameRows(th[t].job)

\* What was seen stays seen while statuses stay.
LEMMA SeenStays ==
  ASSUME NEW r, r.job \in Jobs, Seen(r), SameStatus(r.job)
  PROVE  Seen(r)'
<1> DEFINE j == r.job
           failed == Having(j, {"FAILED"})
           Known(x) == \/ x \in failed
                       \/ x = j
                       \/ /\ x \in ItemsOf(j)
                          /\ item[x].status = "CANCELED" /\ job[j].status = "CANCELED"
<1>1. r.status = job'[j].status
  BY DEF Seen, SameStatus
<1>2. failed' \subseteq failed
  BY DEF Having, ItemsOf, SameStatus
<1>3. ASSUME NEW x, Known(x)
      PROVE  Known(x)'
  BY <1>3 DEF Having, ItemsOf, SameStatus
<1>4. \A i \in failed' : \E c \in r.cands : \E f \in c.found : f[1] = i
  BY <1>2 DEF Seen
<1>5. \A c \in r.cands : \A f \in c.found : Known(f[1])
  BY DEF Seen
<1>6. \A c \in r.cands : \A f \in c.found : Known(f[1])'
  BY <1>3, <1>5
<1> QED
  BY <1>1, <1>4, <1>6 DEF Seen

LEMMA PickedStays ==
  ASSUME NEW r, r.job \in Jobs, DataOK, Picked(r), SameRows(r.job)
  PROVE  Picked(r)'
<1> DEFINE keys == {c.key : c \in r.cands}
<1>1. ASSUME NEW k \in keys, r.pick[k] = 0, NEW n \in Ids, issue'[n] # None
      PROVE  ~(issue'[n].key = k /\ issue'[n].by = r.job)
  BY <1>1 DEF Picked, SameRows, Rows
<1>2. ASSUME NEW k \in keys, r.pick[k] # 0
      PROVE  /\ r.old[k] \in Row
             /\ r.pick[k] < nextId'
             /\ issue'[r.pick[k]] # None => issue'[r.pick[k]].key = k
  <2>1. r.pick[k] \in Ids /\ r.pick[k] < nextId /\ r.old[k] \in Row
    BY <1>2 DEF Picked
  <2>2. nextId \in Nat /\ nextId' >= nextId /\ nextId' \in Nat
    BY DEF DataOK, SameRows
  <2> QED
    BY <1>2, <2>1, <2>2 DEF Picked, SameRows, Ids
<1> QED
  BY <1>1, <1>2 DEF Picked, Rows

LEMMA WritingStays ==
  ASSUME DataOK, ThreadsOK, Writing, Undisturbed
  PROVE  Writing'
<1> SUFFICES ASSUME NEW t \in Threads, th'[t].pc = "write"
             PROVE  (Seen(th[t]) /\ Picked(th[t]))'
  BY DEF Writing
<1>1. PICK r : r = th[t]
  OBVIOUS
<1>2. th'[t] = r /\ SameStatus(r.job) /\ SameRows(r.job)
  BY <1>1 DEF Undisturbed
<1>3. r.pc = "write" /\ Seen(r) /\ Picked(r)
  BY <1>1, <1>2 DEF Writing
<1>4. r.job \in Jobs
  BY <1>1, <1>3 DEF ThreadsOK, InPhase
<1>5. Seen(r)' /\ Picked(r)'
  BY <1>2, <1>3, <1>4, SeenStays, PickedStays
<1> QED
  BY <1>2, <1>5 DEF Seen, Picked

LEMMA LockedStays ==
  ASSUME Locked, Undisturbed
  PROVE  Locked'
BY DEF Locked, Undisturbed

LEMMA UniqueStays ==
  ASSUME OneIssuePerJobAndKey, NoNewRows
  PROVE  OneIssuePerJobAndKey'
BY DEF OneIssuePerJobAndKey, NoNewRows, Rows

\* A step that inserts no issue, moves no status a sync has seen and starts no
\* write keeps what the invariant says of writes.
LEMMA SyncsStay ==
  ASSUME IInv, NoNewRows,
         \A t \in Threads : th'[t].pc = "write" =>
            th'[t] = th[t] /\ SameStatus(th[t].job)
  PROVE  Writing' /\ Locked' /\ OneIssuePerJobAndKey'
<1>1. \A j \in Jobs : SameRows(j)
  BY DEF NoNewRows, SameRows, IInv, DataOK
<1>2. Undisturbed
  BY <1>1 DEF Undisturbed, IInv, ThreadsOK, InPhase
<1> QED
  BY <1>2, WritingStays, LockedStays, UniqueStays DEF IInv

-----------------------------------------------------------------------------
(* Threads.                                                                *)

LEMMA NothingTyped == Nothing \in Picks /\ Nothing \in Olds
<1>1. Nothing \in [{} -> Ids \cup {0}] /\ Nothing \in [{} -> Row \cup {None}]
  BY DEF Nothing
<1>2. {} \in SUBSET Keys
  OBVIOUS
<1> QED
  BY <1>1, <1>2 DEF Picks, Olds, Maps

LEMMA AtTyped ==
  ASSUME NEW pc \in Steps, NEW j \in Jobs \cup {None}, NEW left \in 0..2,
         NEW next \in SUBSET Jobs, NEW retry \in SUBSET Jobs
  PROVE  /\ At(pc, j, left, next, retry) \in Thread
         /\ At(pc, j, left, next, retry).pc = pc
         /\ At(pc, j, left, next, retry).job = j
         /\ At(pc, j, left, next, retry).next = next
         /\ At(pc, j, left, next, retry).retry = retry
BY NothingTyped DEF At, Thread, Unread

LEMMA IdleTyped == Idle \in Thread /\ InPhase(Idle) /\ Idle.pc = "idle"
BY AtTyped DEF Idle, InPhase, Steps

LEMMA AtJobTyped ==
  ASSUME NEW pc \in Steps \ {"idle", "next"}, NEW j \in Jobs, NEW left \in 0..2,
         NEW next \in SUBSET Jobs, NEW retry \in SUBSET Jobs
  PROVE  LET r == At(pc, j, left, next, retry)
         IN r \in Thread /\ InPhase(r) /\ r.pc = pc
BY AtTyped DEF InPhase

LEMMA AtNextTyped ==
  ASSUME NEW next \in SUBSET Jobs, NEW retry \in SUBSET Jobs, next \cup retry # {}
  PROVE  LET r == At("next", None, 0, next, retry)
         IN r \in Thread /\ InPhase(r) /\ r.pc = "next"
<1> DEFINE r == At("next", None, 0, next, retry)
<1>1. "next" \in Steps /\ None \in Jobs \cup {None} /\ 0 \in 0..2
  BY DEF Steps
<1>2. r \in Thread /\ r.pc = "next" /\ r.job = None /\ r.next = next /\ r.retry = retry
  BY <1>1, AtTyped
<1> HIDE DEF r
<1>3. InPhase(r)
  BY <1>2 DEF InPhase
<1> QED
  BY <1>2, <1>3 DEF r

LEMMA SyncTyped ==
  ASSUME NEW j \in Jobs
  PROVE  Sync(j) \in Thread /\ InPhase(Sync(j)) /\ Sync(j).pc = "load"
BY AtJobTyped DEF Sync, Steps

LEMMA ReturnTyped ==
  ASSUME NEW r \in Thread
  PROVE  Return(r) \in Thread /\ InPhase(Return(r)) /\ Return(r).pc # "write"
<1>1. r.next \in SUBSET Jobs /\ r.retry \in SUBSET Jobs
  BY DEF Thread
<1> QED
  BY <1>1, IdleTyped, AtNextTyped DEF Return

LEMMA AbandonTyped ==
  ASSUME NEW r \in Thread, r.job \in Jobs
  PROVE  Abandon(r) \in Thread /\ InPhase(Abandon(r)) /\ Abandon(r).pc = "notice"
<1>1. r.next \in SUBSET Jobs /\ r.retry \in SUBSET Jobs
  BY DEF Thread
<1> QED
  BY <1>1, AtJobTyped DEF Abandon, Steps

LEMMA AfterNoticesTyped ==
  ASSUME NEW r \in Thread, r.job \in Jobs
  PROVE  AfterNotices(r) \in Thread /\ InPhase(AfterNotices(r)) /\ AfterNotices(r).pc # "write"
<1>1. r.next \in SUBSET Jobs /\ r.retry \in SUBSET Jobs /\ r.left \in 0..2
  BY DEF Thread
<1>2. r.left > 1 => r.left - 1 \in 0..2
  BY <1>1
<1> QED
  BY <1>1, <1>2, AtJobTyped, ReturnTyped DEF AfterNotices, Steps

\* A step of one thread that does not start a write, inserts no issue and moves
\* no status another thread has seen.
LEMMA Moves ==
  ASSUME IInv, NEW t \in Threads, NEW r \in Thread, InPhase(r), r.pc # "write", Set(t, r),
         NoNewRows,
         \A u \in Threads \ {t} : th[u].pc = "write" => SameStatus(th[u].job)
  PROVE  ThreadsOK' /\ Writing' /\ Locked' /\ OneIssuePerJobAndKey'
<1>1. th' = [th EXCEPT ![t] = r] /\ th \in [Threads -> Thread]
  BY DEF Set, IInv, ThreadsOK
<1>2. ThreadsOK'
  BY <1>1 DEF ThreadsOK, IInv, InPhase
<1>3. ASSUME NEW u \in Threads, th'[u].pc = "write"
      PROVE  th'[u] = th[u] /\ SameStatus(th[u].job)
  BY <1>1, <1>3
<1> QED
  BY <1>2, <1>3, SyncsStay

\* While the lock on j is free, a step on j alone moves no status that was seen.
LEMMA FreeMoves ==
  ASSUME IInv, NEW j \in Jobs, Free(j),
         \A k \in Jobs \ {j} : SameStatus(k)
  PROVE  \A u \in Threads : th[u].pc = "write" => SameStatus(th[u].job)
BY DEF Free, IInv, ThreadsOK, InPhase

-----------------------------------------------------------------------------
(* The engine.                                                             *)

LEMMA SetJobTyped ==
  ASSUME job \in [Jobs -> JobType], NEW j \in Jobs, NEW status \in JobStatus,
         NEW err \in Errors \cup {None}, SetJob(j, status, err)
  PROVE  /\ job' \in [Jobs -> JobType]
         /\ job'[j].status = status
         /\ \A k \in Jobs \ {j} : job'[k] = job[k]
BY DEF SetJob, JobType

LEMMA SetItemTyped ==
  ASSUME item \in [Items -> ItemType], NEW i \in Items, NEW status \in ItemStatus,
         NEW err \in Errors \cup {None}, SetItem(i, status, err)
  PROVE  /\ item' \in [Items -> ItemType]
         /\ \A k \in Items \ {i} : item'[k] = item[k]
BY DEF SetItem, ItemType

LEMMA SameIssues ==
  ASSUME UNCHANGED <<issue, nextId>>
  PROVE  NoNewRows
BY DEF NoNewRows

LEMMA ErrorsTyped ==
  ASSUME NEW m \in Messages
  PROVE  Executing(m) \in Errors \cup {None} /\ Failing(m) \in Errors \cup {None}
BY DEF Executing, Failing, Errors, Codes

\* A step of the worker on its job: the rows it writes are typed, the row of the
\* job is free, and it goes on to synchronise or stays where it is.
LEMMA OneJob ==
  ASSUME IInv, NEW j \in Jobs, Free(j), DataOK', WorkerOK', UNCHANGED <<issue, nextId>>,
         \A k \in Jobs \ {j} : job'[k] = job[k],
         \A i \in Items : JobOf[i] # j => item'[i] = item[i],
         NEW t \in Threads, th' = th \/ Set(t, Sync(j))
  PROVE  IInv'
<1>1. \A k \in Jobs \ {j} : SameStatus(k)
  BY DEF SameStatus, ItemsOf
<1>2. \A u \in Threads : th[u].pc = "write" => SameStatus(th[u].job)
  BY <1>1, FreeMoves
<1>3. NoNewRows
  BY SameIssues
<1>4. CASE th' = th
  <2>1. ThreadsOK'
    BY <1>4 DEF IInv, ThreadsOK, InPhase
  <2>2. \A u \in Threads : th'[u].pc = "write" => th'[u] = th[u] /\ SameStatus(th[u].job)
    BY <1>2, <1>4
  <2> QED
    BY <2>1, <2>2, <1>3, SyncsStay DEF IInv
<1>5. CASE Set(t, Sync(j))
  BY <1>2, <1>3, <1>5, SyncTyped, Moves DEF IInv
<1> QED
  BY <1>4, <1>5

LEMMA ClaimStays ==
  ASSUME IInv, NEW j \in Jobs, Claim(j)
  PROVE  IInv'
<1>1. SetJob(j, "RUNNING", job[j].err) /\ job[j].err \in Errors \cup {None}
  BY DEF Claim, IInv, DataOK, JobType
<1>2. "RUNNING" \in JobStatus
  BY DEF JobStatus
<1>3. job' \in [Jobs -> JobType] /\ \A k \in Jobs \ {j} : job'[k] = job[k]
  BY <1>1, <1>2, SetJobTyped DEF IInv, DataOK
<1>4. DataOK'
  BY <1>3 DEF Claim, IInv, DataOK
<1>5. WorkerOK'
  <2>1. hand' = j /\ todo' = ItemsOf(j) /\ due' \subseteq ItemsOf(j) /\ hand = None
    BY DEF Claim, Having
  <2>2. doing' = doing /\ doing = None
    BY <2>1, ConstantsAssumption DEF Claim, IInv, WorkerOK
  <2> QED
    BY <2>1, <2>2 DEF WorkerOK, ItemsOf
<1>6. Worker \in Threads
  BY DEF Threads
<1> QED
  BY <1>3, <1>4, <1>5, <1>6, OneJob DEF Claim

LEMMA SameTables ==
  ASSUME UNCHANGED <<job, item>>
  PROVE  \A k \in Jobs : SameStatus(k)
BY DEF SameStatus

\* Cancelling what is left of a job: each of its items stays, or is cancelled.
LEMMA CanceledTyped ==
  ASSUME item \in [Items -> ItemType], NEW j \in Jobs, item' = Canceled(j)
  PROVE  /\ item' \in [Items -> ItemType]
         /\ \A i \in Items : JobOf[i] # j => item'[i] = item[i]
         /\ \A i \in Items : item'[i].status \in {item[i].status, "CANCELED"}
BY DEF Canceled, ItemType, ItemStatus

LEMMA StartItemStays ==
  ASSUME IInv, NEW i \in Items, StartItem(i)
  PROVE  IInv'
<1>1. /\ hand \in Jobs /\ JobOf[i] = hand /\ Free(hand)
      /\ UNCHANGED <<job, issue, nextId, notice, reminder, hand, th, slips>>
  BY DEF StartItem, IInv, WorkerOK
<1>2. item[i].err \in Errors \cup {None} /\ "RUNNING" \in ItemStatus
  BY DEF IInv, DataOK, ItemType, ItemStatus
<1>3. item' \in [Items -> ItemType] /\ \A k \in Items \ {i} : item'[k] = item[k]
  BY <1>2, SetItemTyped DEF StartItem, IInv, DataOK
<1>4. DataOK'
  BY <1>1, <1>3 DEF IInv, DataOK
<1>5. PICK passed \in SUBSET (todo \ due) : todo' = todo \ (passed \cup {i})
  BY DEF StartItem
<1>6. due' = due \ {i} /\ doing' = i
  BY DEF StartItem
<1>7. WorkerOK'
  BY <1>1, <1>5, <1>6 DEF IInv, WorkerOK
<1>8. \A k \in Items : JobOf[k] # hand => item'[k] = item[k]
  BY <1>1, <1>3
<1>9. Worker \in Threads
  BY DEF Threads
<1> QED
  BY <1>1, <1>4, <1>7, <1>8, <1>9, OneJob

\* The executor returns: its job is in hand and free.
LEMMA FinishesMine ==
  ASSUME IInv, NEW i \in Items, Finish(i)
  PROVE  /\ hand \in Jobs /\ JobOf[i] = hand /\ Free(hand)
         /\ UNCHANGED <<issue, nextId, notice, reminder, hand>>
         /\ WorkerOK'
<1>1. i # None
  BY ConstantsAssumption
<1>2. hand \in Jobs /\ JobOf[i] = hand
  BY <1>1 DEF Finish, IInv, WorkerOK
<1>3. WorkerOK'
  BY DEF Finish, IInv, WorkerOK
<1> QED
  BY <1>2, <1>3 DEF Finish

LEMMA FinishStays ==
  ASSUME IInv, NEW i \in Items, Finish(i), NEW status \in ItemStatus,
         NEW err \in Errors \cup {None}, SetItem(i, status, err),
         job' \in [Jobs -> JobType], \A k \in Jobs \ {hand} : job'[k] = job[k],
         slips' \subseteq Jobs, th' = th \/ Set(Worker, Sync(hand))
  PROVE  IInv'
<1>1. /\ hand \in Jobs /\ JobOf[i] = hand /\ Free(hand)
      /\ UNCHANGED <<issue, nextId, notice, reminder, hand>>
      /\ WorkerOK'
  BY FinishesMine
<1>2. item' \in [Items -> ItemType] /\ \A k \in Items \ {i} : item'[k] = item[k]
  BY SetItemTyped DEF IInv, DataOK
<1>3. DataOK'
  BY <1>1, <1>2 DEF IInv, DataOK
<1>4. \A k \in Items : JobOf[k] # hand => item'[k] = item[k]
  BY <1>1, <1>2
<1>5. Worker \in Threads
  BY DEF Threads
<1> QED
  BY <1>1, <1>3, <1>4, <1>5, OneJob

LEMMA ItemCompletesStays ==
  ASSUME IInv, NEW i \in Items, ItemCompletes(i)
  PROVE  IInv'
<1>1. item[i].err \in Errors \cup {None} /\ "COMPLETED" \in ItemStatus
  BY DEF IInv, DataOK, ItemType, ItemStatus
<1>2. job' = job /\ job \in [Jobs -> JobType] /\ slips' \subseteq Jobs
  BY DEF ItemCompletes, IInv, DataOK
<1> QED
  BY <1>1, <1>2, FinishStays DEF ItemCompletes

LEMMA ItemFailsStays ==
  ASSUME IInv, NEW i \in Items, NEW m \in Messages, ItemFails(i, m)
  PROVE  IInv'
<1>1. Executing(m) \in Errors \cup {None} /\ "FAILED" \in ItemStatus
  BY ErrorsTyped DEF ItemStatus
<1>2. job' = job /\ job \in [Jobs -> JobType] /\ slips' \subseteq Jobs
  BY DEF ItemFails, IInv, DataOK
<1> QED
  BY <1>1, <1>2, FinishStays DEF ItemFails

LEMMA ItemIsDeferredStays ==
  ASSUME IInv, NEW i \in Items, NEW m \in Messages, ItemIsDeferred(i, m)
  PROVE  IInv'
<1>1. /\ Executing(m) \in Errors \cup {None}
      /\ "WAITING_RETRY" \in ItemStatus /\ "WAITING_RETRY" \in JobStatus
  BY ErrorsTyped DEF ItemStatus, JobStatus
<1>2. hand \in Jobs
  BY FinishesMine DEF ItemIsDeferred
<1>3. job' \in [Jobs -> JobType] /\ \A k \in Jobs \ {hand} : job'[k] = job[k]
  BY <1>1, <1>2, SetJobTyped DEF ItemIsDeferred, IInv, DataOK
<1>4. slips' \subseteq Jobs
  BY <1>2 DEF ItemIsDeferred, IInv, DataOK
<1> QED
  BY <1>1, <1>3, <1>4, FinishStays DEF ItemIsDeferred

\* A step that leaves rows and threads alone, and the statuses too but that it
\* may cancel items of a cancelled job.
LEMMA WorkerStays ==
  ASSUME IInv, DataOK', WorkerOK', UNCHANGED <<issue, nextId, th>>,
         \A k \in Jobs : SameStatus(k)
  PROVE  IInv'
<1>1. ThreadsOK'
  BY DEF IInv, ThreadsOK, InPhase
<1>2. \A u \in Threads : th'[u].pc = "write" => th'[u] = th[u] /\ SameStatus(th[u].job)
  BY DEF IInv, ThreadsOK, InPhase
<1> QED
  BY <1>1, <1>2, SameIssues, SyncsStay DEF IInv

LEMMA ItemIsInterruptedStays ==
  ASSUME IInv, NEW i \in Items, ItemIsInterrupted(i)
  PROVE  IInv'
<1>1. UNCHANGED <<job, item, issue, nextId, notice, reminder, th, slips>>
  BY DEF ItemIsInterrupted, database
<1>2. doing' = None /\ (UNCHANGED <<hand, todo, due>> \/ LetGo)
  BY DEF ItemIsInterrupted, LetGo
<1>3. DataOK' /\ WorkerOK'
  BY <1>1, <1>2 DEF IInv, DataOK, WorkerOK, LetGo
<1>4. \A k \in Jobs : SameStatus(k)
  BY <1>1, SameTables
<1> QED
  BY <1>1, <1>3, <1>4, WorkerStays

\* cancelPendingItems does not wait for a sync, but moves only items that the
\* sync may see cancelled.
LEMMA CancelPendingItemsStays ==
  ASSUME IInv, CancelPendingItems
  PROVE  IInv'
<1>1. hand \in Jobs /\ job[hand].status = "CANCELED" /\ item' = Canceled(hand)
  BY DEF CancelPendingItems, IInv, WorkerOK
<1>2. UNCHANGED <<job, issue, nextId, notice, reminder, th, slips>> /\ LetGo
  BY DEF CancelPendingItems
<1>3. /\ item' \in [Items -> ItemType]
      /\ \A i \in Items : JobOf[i] # hand => item'[i] = item[i]
      /\ \A i \in Items : item'[i].status \in {item[i].status, "CANCELED"}
  BY <1>1, CanceledTyped DEF IInv, DataOK
<1>4. DataOK' /\ WorkerOK'
  BY <1>2, <1>3 DEF IInv, DataOK, WorkerOK, LetGo
<1>5. \A k \in Jobs : SameStatus(k)
  BY <1>1, <1>2, <1>3 DEF SameStatus, ItemsOf
<1> QED
  BY <1>2, <1>4, <1>5, WorkerStays

LEMMA FinalizeJobStays ==
  ASSUME IInv, FinalizeJob
  PROVE  IInv'
<1>1. /\ hand \in Jobs /\ Free(hand) /\ LetGo
      /\ UNCHANGED <<issue, nextId, notice, reminder, slips>>
  BY DEF FinalizeJob, IInv, WorkerOK
<1>2. Verdict(hand) \in JobStatus
  BY DEF Verdict, JobStatus
<1>3. job[hand].err \in Errors \cup {None}
  BY <1>1 DEF IInv, DataOK, JobType
<1>4. job' \in [Jobs -> JobType] /\ \A k \in Jobs \ {hand} : job'[k] = job[k]
  <2>1. CASE job' = job
    BY <2>1 DEF IInv, DataOK
  <2>2. CASE SetJob(hand, Verdict(hand), job[hand].err)
    BY <1>1, <1>2, <1>3, <2>2, SetJobTyped DEF IInv, DataOK
  <2> QED
    BY <2>1, <2>2 DEF FinalizeJob
<1>5. item' \in [Items -> ItemType] /\ \A i \in Items : JobOf[i] # hand => item'[i] = item[i]
  <2>1. CASE item' = item
    BY <2>1 DEF IInv, DataOK
  <2>2. CASE item' = Canceled(hand)
    BY <1>1, <2>2, CanceledTyped DEF IInv, DataOK
  <2> QED
    BY <2>1, <2>2 DEF FinalizeJob
<1>6. DataOK' /\ WorkerOK'
  BY <1>1, <1>4, <1>5 DEF IInv, DataOK, WorkerOK, LetGo
<1>7. th' = th \/ Set(Worker, Sync(hand))
  BY DEF FinalizeJob
<1>8. Worker \in Threads
  BY DEF Threads
<1> QED
  BY <1>1, <1>4, <1>5, <1>6, <1>7, <1>8, OneJob

LEMMA JobFailsStays ==
  ASSUME IInv, NEW m \in Messages, JobFails(m)
  PROVE  IInv'
<1>1. /\ hand \in Jobs /\ Free(hand) /\ LetGo
      /\ UNCHANGED <<item, issue, nextId, notice, reminder, slips>>
  BY DEF JobFails, IInv, WorkerOK
<1>2. Failing(m) \in Errors \cup {None} /\ "FAILED" \in JobStatus
  BY ErrorsTyped DEF JobStatus
<1>3. job' \in [Jobs -> JobType] /\ \A k \in Jobs \ {hand} : job'[k] = job[k]
  BY <1>1, <1>2, SetJobTyped DEF JobFails, IInv, DataOK
<1>4. DataOK' /\ WorkerOK'
  BY <1>1, <1>3 DEF IInv, DataOK, WorkerOK, LetGo
<1>5. Worker \in Threads
  BY DEF Threads
<1> QED
  BY <1>1, <1>3, <1>4, <1>5, OneJob DEF JobFails

-----------------------------------------------------------------------------
(* The controls, and the crash.                                            *)

\* A step that moves no status at all.
LEMMA StatusesStay ==
  ASSUME IInv, NEW t \in Threads, NEW r \in Thread, InPhase(r), r.pc # "write", Set(t, r),
         NoNewRows, \A k \in Jobs : SameStatus(k), DataOK', WorkerOK'
  PROVE  IInv'
<1>1. \A u \in Threads \ {t} : th[u].pc = "write" => SameStatus(th[u].job)
  BY DEF IInv, ThreadsOK, InPhase
<1> QED
  BY <1>1, Moves DEF IInv

LEMMA CancelJobStays ==
  ASSUME IInv, NEW u \in Users, NEW j \in Jobs, CancelJob(u, j)
  PROVE  IInv'
<1>1. job[j].err \in Errors \cup {None} /\ "CANCELED" \in JobStatus
  BY DEF IInv, DataOK, JobType, JobStatus
<1>2. job' \in [Jobs -> JobType] /\ \A k \in Jobs \ {j} : job'[k] = job[k]
  BY <1>1, SetJobTyped DEF CancelJob, IInv, DataOK
<1>3. item' \in [Items -> ItemType] /\ \A i \in Items : JobOf[i] # j => item'[i] = item[i]
  BY CanceledTyped DEF CancelJob, IInv, DataOK
<1>4. DataOK' /\ WorkerOK'
  BY <1>2, <1>3 DEF CancelJob, IInv, DataOK, WorkerOK, worker
<1>5. u \in Threads
  BY DEF Threads
<1> QED
  BY <1>2, <1>3, <1>4, <1>5, OneJob DEF CancelJob

LEMMA RetryJobStays ==
  ASSUME IInv, NEW u \in Threads, NEW j \in Jobs, RetryJob(u, j)
  PROVE  IInv'
<1>1. /\ Free(j) /\ UNCHANGED <<issue, nextId, notice, reminder, slips, worker>>
      /\ th[u] \in Thread /\ th[u].retry \in SUBSET Jobs
  BY DEF RetryJob, worker, IInv, ThreadsOK, Thread
<1>2. CASE job[j].status \in {"FAILED", "PARTIAL_SUCCESS", "CANCELED"}
  <2>1. SetJob(j, "WAITING_RETRY", None) /\ "WAITING_RETRY" \in JobStatus
    BY <1>2 DEF RetryJob, JobStatus
  <2>2. job' \in [Jobs -> JobType] /\ \A k \in Jobs \ {j} : job'[k] = job[k]
    BY <2>1, SetJobTyped DEF IInv, DataOK
  <2>3. item' = [i \in Items |->
                   IF JobOf[i] # j THEN item[i]
                   ELSE [item[i] EXCEPT !.err = None,
                           !.status = IF @ = "COMPLETED" THEN @ ELSE "WAITING_RETRY"]]
    BY <1>2 DEF RetryJob
  <2>4. \A i \in Items : item[i] \in ItemType
    BY DEF IInv, DataOK
  <2>5. item' \in [Items -> ItemType] /\ \A i \in Items : JobOf[i] # j => item'[i] = item[i]
    BY <2>3, <2>4 DEF ItemType, ItemStatus
  <2>6. DataOK' /\ WorkerOK'
    BY <1>1, <2>2, <2>5 DEF IInv, DataOK, WorkerOK, worker
  <2>7. \A k \in Jobs \ {j} : SameStatus(k)
    BY <2>2, <2>5 DEF SameStatus, ItemsOf
  <2>8. \A t \in Threads \ {u} : th[t].pc = "write" => SameStatus(th[t].job)
    BY <1>1, <2>7, FreeMoves
  <2>9. LET r == At("load", j, 0, {}, th[u].retry \ {j})
        IN Set(u, r) /\ r \in Thread /\ InPhase(r) /\ r.pc # "write"
    <3>1. "load" \in Steps \ {"idle", "next"} /\ 0 \in 0..2 /\ {} \in SUBSET Jobs
      BY DEF Steps
    <3>2. th[u].retry \ {j} \in SUBSET Jobs
      BY <1>1
    <3>3. Set(u, At("load", j, 0, {}, th[u].retry \ {j}))
      BY <1>2 DEF RetryJob
    <3> QED
      BY <3>1, <3>2, <3>3, AtJobTyped
  <2> QED
    BY <1>1, <2>6, <2>8, <2>9, SameIssues, Moves DEF IInv
<1>3. CASE job[j].status \notin {"FAILED", "PARTIAL_SUCCESS", "CANCELED"}
  <2>1. Set(u, Idle) /\ UNCHANGED <<job, item>>
    BY <1>3 DEF RetryJob
  <2>2. DataOK' /\ WorkerOK'
    BY <1>1, <2>1 DEF IInv, DataOK, WorkerOK, worker
  <2> QED
    BY <1>1, <2>1, <2>2, IdleTyped, SameIssues, SameTables, StatusesStay
<1> QED
  BY <1>2, <1>3

LEMMA RequestRetryStays ==
  ASSUME IInv, NEW u \in Users, NEW j \in Jobs, RequestRetry(u, j)
  PROVE  IInv'
<1>1. LET r == At("next", None, 0, {}, {j})
      IN Set(u, r) /\ r \in Thread /\ InPhase(r) /\ r.pc # "write"
  BY AtNextTyped DEF RequestRetry
<1>2. UNCHANGED <<job, item, issue, nextId, notice, reminder, slips, worker>>
  BY DEF RequestRetry, database, worker
<1>3. DataOK' /\ WorkerOK'
  BY <1>2 DEF IInv, DataOK, WorkerOK, worker
<1>4. u \in Threads
  BY DEF Threads
<1>5. NoNewRows
  BY <1>2, SameIssues
<1>6. \A k \in Jobs : SameStatus(k)
  BY <1>2, SameTables
<1> QED
  BY <1>1, <1>3, <1>4, <1>5, <1>6, StatusesStay

LEMMA CrashStays ==
  ASSUME IInv, Crash
  PROVE  IInv'
<1>1. job' \in [Jobs -> JobType] /\ item' \in [Items -> ItemType]
  <2>1. \A j \in Jobs : job[j] \in JobType
    BY DEF IInv, DataOK
  <2>2. \A i \in Items : item[i] \in ItemType
    BY DEF IInv, DataOK
  <2>3. \A r \in JobType : [r EXCEPT !.status = "QUEUED"] \in JobType
    BY DEF JobType, JobStatus
  <2>4. \A r \in ItemType : [r EXCEPT !.status = "QUEUED"] \in ItemType
    BY DEF ItemType, ItemStatus
  <2>5. job' \in [Jobs -> JobType]
    BY <2>1, <2>3 DEF Crash
  <2>6. item' \in [Items -> ItemType]
    BY <2>2, <2>4 DEF Crash
  <2> QED
    BY <2>5, <2>6
<1>2. \A t \in Threads : th[t] \in Thread /\ InPhase(th[t])
  BY DEF IInv, ThreadsOK
<1>3. \A t \in Threads : Pending(t) \subseteq Jobs
  BY <1>2 DEF Pending, Thread
<1>4. slips' \subseteq Jobs
  BY <1>3 DEF Crash, IInv, DataOK
<1>5. DataOK' /\ WorkerOK'
  BY <1>1, <1>4 DEF Crash, IInv, DataOK, WorkerOK, LetGo
<1>6. ThreadsOK' /\ \A t \in Threads : th'[t].pc # "write"
  BY IdleTyped DEF Crash, ThreadsOK, InPhase
<1>7. NoNewRows
  BY SameIssues DEF Crash
<1> QED
  BY <1>5, <1>6, <1>7, SyncsStay DEF IInv

-----------------------------------------------------------------------------
(* Counters.                                                               *)

LEMMA SomeIssues ==
  ASSUME DataOK, NEW S \in SUBSET Rows
  PROVE  /\ Counted(S) \in Nat
         /\ LatestErr(S) \subseteq Errors \cup {None}
<1>1. IsFiniteSet(S)
  <2>1. S \in SUBSET (1..MaxIssues) /\ MaxIssues \in Nat
    BY ConstantsAssumption DEF Rows, Ids
  <2>2. IsFiniteSet(1..MaxIssues)
    BY <2>1, FS_Interval
  <2> QED
    BY <2>1, <2>2, FS_Subset
<1>2. Counted(S) \in Nat
  BY <1>1, FS_CardinalityType DEF Counted
<1>3. \A n \in S : issue[n].err \in Errors
  BY DEF DataOK, Rows, Row
<1> QED
  BY <1>2, <1>3 DEF LatestErr

LEMMA CountJobStays ==
  ASSUME IInv, NEW t \in Threads, CountJob(t)
  PROVE  IInv'
<1>1. th[t] \in Thread /\ th[t].pc = "count" /\ th[t].job \in Jobs
  BY DEF CountJob, IInv, ThreadsOK, InPhase
<1>2. PICK e \in LatestErr(ActiveOf(th[t].job)) :
        Set(t, [th[t] EXCEPT !.pc = "setjob", !.count = Counted(ActiveOf(th[t].job)), !.err = e])
  BY DEF CountJob
<1> DEFINE r == [th[t] EXCEPT !.pc = "setjob", !.count = Counted(ActiveOf(th[t].job)), !.err = e]
<1>3. ActiveOf(th[t].job) \in SUBSET Rows
  BY DEF ActiveOf
<1>4. Counted(ActiveOf(th[t].job)) \in Nat /\ e \in Errors \cup {None}
  BY <1>2, <1>3, SomeIssues DEF IInv
<1>5. r \in Thread /\ r.pc = "setjob" /\ r.job = th[t].job
  BY <1>1, <1>4 DEF Thread, Steps
<1> HIDE DEF r
<1>6. InPhase(r)
  BY <1>1, <1>5 DEF InPhase
<1>7. UNCHANGED <<job, item, issue, nextId, notice, reminder, worker>> /\ slips' \subseteq Jobs
  BY <1>1 DEF CountJob, database, worker, IInv, DataOK
<1>8. DataOK' /\ WorkerOK'
  BY <1>7 DEF IInv, DataOK, WorkerOK, worker
<1>9. Set(t, r)
  BY <1>2 DEF r
<1> QED
  BY <1>5, <1>6, <1>7, <1>8, <1>9, SameIssues, SameTables, StatusesStay

LEMMA CountItemStays ==
  ASSUME IInv, NEW t \in Threads, CountItem(t)
  PROVE  IInv'
<1> DEFINE i == CHOOSE i \in th[t].items : TRUE
<1>1. th[t] \in Thread /\ th[t].pc = "item" /\ th[t].job \in Jobs
  BY DEF CountItem, IInv, ThreadsOK, InPhase
<1>2. PICK e \in LatestErr(ActiveOfItem(i)) :
        Set(t, [th[t] EXCEPT !.pc = "setitem", !.count = Counted(ActiveOfItem(i)), !.err = e])
  BY DEF CountItem
<1> DEFINE r == [th[t] EXCEPT !.pc = "setitem", !.count = Counted(ActiveOfItem(i)), !.err = e]
<1>3. ActiveOfItem(i) \in SUBSET Rows
  BY DEF ActiveOfItem
<1>4. Counted(ActiveOfItem(i)) \in Nat /\ e \in Errors \cup {None}
  BY <1>2, <1>3, SomeIssues DEF IInv
<1>5. r \in Thread /\ r.pc = "setitem" /\ r.job = th[t].job
  BY <1>1, <1>4 DEF Thread, Steps
<1>9. Set(t, r)
  BY <1>2 DEF r
<1> HIDE DEF r, i
<1>6. InPhase(r)
  BY <1>1, <1>5 DEF InPhase
<1>7. UNCHANGED <<job, item, issue, nextId, notice, reminder, worker, slips>>
  BY DEF CountItem, database, worker
<1>8. DataOK' /\ WorkerOK'
  BY <1>7 DEF IInv, DataOK, WorkerOK, worker
<1>10. NoNewRows
  BY <1>7, SameIssues
<1>11. \A k \in Jobs : SameStatus(k)
  BY <1>7, SameTables
<1>12. r \in Thread /\ r.pc # "write"
  BY <1>5
<1> QED
  BY <1>6, <1>8, <1>9, <1>10, <1>11, <1>12, StatusesStay

LEMMA StoreJobCountStays ==
  ASSUME IInv, NEW t \in Threads, StoreJobCount(t)
  PROVE  IInv'
<1> DEFINE j == th[t].job
           r == [th[t] EXCEPT !.items = ItemsOf(j), !.count = 0, !.err = None,
                              !.pc = AfterCount(ItemsOf(j))]
<1>1. th[t] \in Thread /\ th[t].pc = "setjob" /\ j \in Jobs
  BY DEF StoreJobCount, IInv, ThreadsOK, InPhase
<1>2. /\ job' = [job EXCEPT ![j].count = th[t].count, ![j].err = th[t].err]
      /\ Set(t, r)
      /\ UNCHANGED <<item, issue, nextId, notice, reminder, worker, slips>>
  BY DEF StoreJobCount, worker
<1>3. r \in Thread /\ r.pc \in {"notice", "item"} /\ r.job = j
  BY <1>1 DEF Thread, Steps, ItemsOf, AfterCount
<1>4. th[t].count \in Nat /\ th[t].err \in Errors \cup {None}
  BY <1>1 DEF Thread
<1> HIDE DEF r, j
<1>5. job' \in [Jobs -> JobType] /\ \A k \in Jobs : job'[k].status = job[k].status
  <2>1. job \in [Jobs -> JobType]
    BY DEF IInv, DataOK
  <2>2. [job[j] EXCEPT !.count = th[t].count, !.err = th[t].err] \in JobType
    BY <1>1, <1>4, <2>1 DEF JobType
  <2>3. [job[j] EXCEPT !.count = th[t].count, !.err = th[t].err].status = job[j].status
    BY <1>1, <2>1 DEF JobType
  <2>4. job' = [job EXCEPT ![j] = [job[j] EXCEPT !.count = th[t].count, !.err = th[t].err]]
    BY <1>1, <1>2, <2>1 DEF JobType
  <2> QED
    BY <1>1, <2>1, <2>2, <2>3, <2>4
<1>6. \A k \in Jobs : SameStatus(k)
  BY <1>2, <1>5 DEF SameStatus
<1>7. InPhase(r)
  BY <1>1, <1>3 DEF InPhase
<1>8. DataOK' /\ WorkerOK'
  BY <1>2, <1>5 DEF IInv, DataOK, WorkerOK, worker
<1> QED
  BY <1>2, <1>3, <1>6, <1>7, <1>8, SameIssues, StatusesStay

LEMMA StoreItemCountStays ==
  ASSUME IInv, NEW t \in Threads, StoreItemCount(t)
  PROVE  IInv'
<1> DEFINE i == CHOOSE i \in th[t].items : TRUE
           r == [th[t] EXCEPT !.items = @ \ {i}, !.count = 0, !.err = None,
                              !.pc = AfterCount(th[t].items \ {i})]
<1>1. th[t] \in Thread /\ th[t].pc = "setitem" /\ th[t].job \in Jobs
  BY DEF StoreItemCount, IInv, ThreadsOK, InPhase
<1>2. /\ item' = [item EXCEPT ![i].count = th[t].count, ![i].err = th[t].err]
      /\ Set(t, r)
      /\ UNCHANGED <<job, issue, nextId, notice, reminder, worker, slips>>
  BY DEF StoreItemCount, worker
<1>3. r \in Thread /\ r.pc \in {"notice", "item"} /\ r.job = th[t].job
  BY <1>1 DEF Thread, Steps, AfterCount
<1>4. th[t].count \in Nat /\ th[t].err \in Errors \cup {None}
  BY <1>1 DEF Thread
<1> HIDE DEF r, i
<1>5. item' \in [Items -> ItemType] /\ \A k \in Items : item'[k].status = item[k].status
  <2>1. item \in [Items -> ItemType]
    BY DEF IInv, DataOK
  <2>2. \A k \in Items : [item[k] EXCEPT !.count = th[t].count, !.err = th[t].err] \in ItemType
    BY <1>4, <2>1 DEF ItemType
  <2>3. \A k \in Items : [item[k] EXCEPT !.count = th[t].count, !.err = th[t].err].status = item[k].status
    BY <2>1 DEF ItemType
  <2>4. item' = [item EXCEPT ![i] = [item[i] EXCEPT !.count = th[t].count, !.err = th[t].err]]
    BY <1>2, <2>1 DEF ItemType
  <2> QED
    BY <2>1, <2>2, <2>3, <2>4
<1>6. \A k \in Jobs : SameStatus(k)
  BY <1>2, <1>5 DEF SameStatus, ItemsOf
<1>7. InPhase(r)
  BY <1>1, <1>3 DEF InPhase
<1>8. DataOK' /\ WorkerOK'
  BY <1>2, <1>5 DEF IInv, DataOK, WorkerOK, worker
<1> QED
  BY <1>2, <1>3, <1>6, <1>7, <1>8, SameIssues, StatusesStay

-----------------------------------------------------------------------------
(* Notices, the next job of a call, and failing statements.                *)

LEMMA NoticeLoadStays ==
  ASSUME IInv, NEW t \in Threads, NoticeLoad(t)
  PROVE  IInv'
<1> DEFINE j == th[t].job
           r == [th[t] EXCEPT !.pc = "post", !.active = ActiveOf(j),
                              !.status = job[j].status, !.count = job[j].count,
                              !.seen = notice, !.said = reminder[j]]
<1>1. th[t] \in Thread /\ th[t].pc = "notice" /\ j \in Jobs
  BY DEF NoticeLoad, IInv, ThreadsOK, InPhase
<1>2. /\ ActiveOf(j) \in SUBSET Ids /\ job[j].status \in JobStatus /\ job[j].count \in Nat
      /\ notice \in [Ids -> [job : Jobs, shown : BOOLEAN] \cup {None}]
      /\ reminder[j] \in {"none", "ACTIVE", "STALE"}
  BY <1>1 DEF ActiveOf, Rows, IInv, DataOK, JobType
<1>3. r \in Thread /\ r.pc = "post" /\ r.job = j
  BY <1>1, <1>2 DEF Thread, Steps
<1>4. /\ Set(t, r) /\ UNCHANGED <<job, item, issue, nextId, notice, reminder, worker>>
      /\ slips' \subseteq Jobs
  BY <1>1 DEF NoticeLoad, database, worker, IInv, DataOK
<1> HIDE DEF r, j
<1>5. InPhase(r)
  BY <1>1, <1>3 DEF InPhase
<1>6. DataOK' /\ WorkerOK'
  BY <1>4 DEF IInv, DataOK, WorkerOK, worker
<1> QED
  BY <1>3, <1>4, <1>5, <1>6, SameIssues, SameTables, StatusesStay

LEMMA NoticePostStays ==
  ASSUME IInv, NEW t \in Threads, NoticePost(t)
  PROVE  IInv'
<1> DEFINE r == th[t]
<1>1. r \in Thread /\ r.pc = "post" /\ r.job \in Jobs
  BY DEF NoticePost, IInv, ThreadsOK, InPhase
<1>2. Set(t, AfterNotices(r)) /\ UNCHANGED <<job, item, issue, nextId, worker>>
  BY DEF NoticePost, worker
<1>3. /\ notice' \in [Ids -> [job : Jobs, shown : BOOLEAN] \cup {None}]
      /\ reminder' \in [Jobs -> {"none", "ACTIVE", "STALE"}]
      /\ slips' \subseteq Jobs
  <2>1. PICK old \in SUBSET Ids : Post(r, old) \/ UNCHANGED <<notice, reminder, slips>>
    BY DEF NoticePost, Stale
  <2>2. CASE Post(r, old)
    <3>1. ASSUME NEW n \in Ids
          PROVE  notice'[n] \in [job : Jobs, shown : BOOLEAN] \cup {None}
      <4>1. notice[n] \in [job : Jobs, shown : BOOLEAN] \cup {None}
        BY DEF IInv, DataOK
      <4>2. [job |-> r.job, shown |-> TRUE] \in [job : Jobs, shown : BOOLEAN]
        BY <1>1
      <4>3. notice[n] # None =>
              [notice[n] EXCEPT !.shown = FALSE] \in [job : Jobs, shown : BOOLEAN]
        BY <4>1
      <4> QED
        BY <2>2, <4>1, <4>2, <4>3 DEF Post
    <3>2. notice' \in [Ids -> [job : Jobs, shown : BOOLEAN] \cup {None}]
      BY <2>2, <3>1 DEF Post
    <3>3. \A n \in Rows : issue[n].task \in Jobs
      BY DEF Rows, IInv, DataOK, Row
    <3>4. slips' \subseteq Jobs
      BY <2>2, <3>3 DEF Post, Hit, IInv, DataOK
    <3>5. reminder' \in [Jobs -> {"none", "ACTIVE", "STALE"}]
      BY <2>2 DEF Post, IInv, DataOK
    <3> QED
      BY <3>2, <3>4, <3>5
  <2>3. CASE UNCHANGED <<notice, reminder, slips>>
    BY <2>3 DEF IInv, DataOK
  <2> QED
    BY <2>1, <2>2, <2>3
<1>4. DataOK' /\ WorkerOK'
  BY <1>2, <1>3 DEF IInv, DataOK, WorkerOK, worker
<1> QED
  BY <1>1, <1>2, <1>4, AfterNoticesTyped, SameIssues, SameTables, StatusesStay

LEMMA NextJobStays ==
  ASSUME IInv, NEW t \in Threads, NextJob(t)
  PROVE  IInv'
<1>1. PICK j \in th[t].next : Set(t, At("count", j, 1, th[t].next \ {j}, th[t].retry))
  BY DEF NextJob
<1>2. UNCHANGED <<job, item, issue, nextId, notice, reminder, worker, slips>>
  BY DEF NextJob, database, worker
<1>3. j \in Jobs /\ th[t].next \ {j} \in SUBSET Jobs /\ th[t].retry \in SUBSET Jobs
  BY DEF IInv, ThreadsOK, Thread
<1>4. "count" \in Steps \ {"idle", "next"} /\ 1 \in 0..2
  BY DEF Steps
<1>5. DataOK' /\ WorkerOK'
  BY <1>2 DEF IInv, DataOK, WorkerOK, worker
<1> QED
  BY <1>1, <1>2, <1>3, <1>4, <1>5, AtJobTyped, SameIssues, SameTables, StatusesStay

LEMMA FaultStays ==
  ASSUME IInv, NEW t \in Threads, Fault(t)
  PROVE  IInv'
<1> DEFINE r == th[t]
<1>1. r \in Thread /\ InPhase(r) /\ r.pc \in Steps
  BY DEF IInv, ThreadsOK, Thread
<1>2. UNCHANGED <<job, item, issue, nextId, notice, reminder, worker>>
  BY DEF Fault, database, worker
<1>3. SUFFICES ASSUME r.job \in Jobs,
                      Set(t, Abandon(r)) \/ Set(t, Idle) \/ Set(t, AfterNotices(r)),
                      slips' \subseteq Jobs
               PROVE  IInv'
  <2>1. slips \subseteq Jobs /\ r.next \subseteq Jobs
    BY <1>1 DEF IInv, DataOK, Thread
  <2>2. CASE r.pc \in {"load", "write"}
    BY <1>1, <1>3, <2>1, <2>2 DEF Fault, InPhase
  <2>3. CASE r.pc \in {"count", "setjob", "item", "setitem"}
    BY <1>1, <1>3, <2>1, <2>3 DEF Fault, InPhase
  <2>4. CASE r.pc \in {"notice", "post"}
    BY <1>1, <1>3, <2>1, <2>4 DEF Fault, InPhase
  <2>5. r.pc \in {"load", "write", "count", "setjob", "item", "setitem", "notice", "post"}
    BY DEF Fault
  <2> QED
    BY <2>2, <2>3, <2>4, <2>5
<1>4. DataOK' /\ WorkerOK'
  BY <1>2, <1>3 DEF IInv, DataOK, WorkerOK, worker
<1> QED
  BY <1>1, <1>2, <1>3, <1>4, AbandonTyped, IdleTyped, AfterNoticesTyped, SameIssues, SameTables,
     StatusesStay

-----------------------------------------------------------------------------
(* What users do to issues.                                                *)

LEMMA ApplyActionStays ==
  ASSUME IInv, NEW u \in Users, NEW action \in DOMAIN Outcome, NEW S \in SUBSET Rows,
         ApplyAction(u, action, S)
  PROVE  IInv'
<1> DEFINE tasks == {issue[n].task : n \in S}
           more == IF action = "retry" THEN tasks ELSE {}
<1>1. \A n \in Rows : n \in Ids /\ issue[n] \in Row /\ issue[n] # None
  BY DEF Rows, IInv, DataOK
<1>2. tasks \in SUBSET Jobs /\ more \in SUBSET Jobs /\ tasks # {}
  BY <1>1 DEF ApplyAction, Row
<1>3. Outcome[action] \in ActiveStatus \cup HistoricalStatus
  BY DEF Outcome, ActiveStatus, HistoricalStatus
<1>4. /\ issue' = [n \in Ids |-> IF n \in S THEN [issue[n] EXCEPT !.status = Outcome[action]]
                                 ELSE issue[n]]
      /\ Set(u, At("next", None, 0, tasks, more))
      /\ UNCHANGED <<job, item, nextId, notice, reminder, worker, slips>>
  BY DEF ApplyAction, worker
<1> HIDE DEF tasks, more
<1>5. \A n \in S : /\ [issue[n] EXCEPT !.status = Outcome[action]] \in Row
                   /\ [issue[n] EXCEPT !.status = Outcome[action]].key = issue[n].key
                   /\ [issue[n] EXCEPT !.status = Outcome[action]].by = issue[n].by
  BY <1>1, <1>3 DEF Row
<1>6. issue' \in [Ids -> Row \cup {None}] /\ \A n \in Ids : n >= nextId => issue'[n] = None
  BY <1>1, <1>4, <1>5 DEF IInv, DataOK
<1>7. NoNewRows
  BY <1>1, <1>4, <1>5 DEF NoNewRows
<1>8. DataOK' /\ WorkerOK'
  BY <1>4, <1>6 DEF IInv, DataOK, WorkerOK, worker
<1>9. u \in Threads
  BY DEF Threads
<1> QED
  BY <1>2, <1>4, <1>7, <1>8, <1>9, AtNextTyped, SameTables, StatusesStay

LEMMA ClearHistoryStays ==
  ASSUME IInv, NEW u \in Users, NEW S \in SUBSET Rows, ClearHistory(u, S)
  PROVE  IInv'
<1> DEFINE cleared == {n \in S : issue[n].status \in HistoricalStatus}
           tasks == {issue[n].task : n \in cleared}
<1>1. \A n \in Rows : issue[n] \in Row
  BY DEF Rows, IInv, DataOK
<1>2. tasks \in SUBSET Jobs /\ tasks # {}
  <2>1. S \subseteq Rows /\ cleared # {}
    BY DEF ClearHistory
  <2>2. \A n \in cleared : issue[n].task \in Jobs
    BY <1>1, <2>1 DEF Row
  <2> QED
    BY <2>1, <2>2
<1>3. /\ issue' = [n \in Ids |-> IF n \in cleared THEN None ELSE issue[n]]
      /\ notice' = [n \in Ids |-> IF n \in cleared THEN None ELSE notice[n]]
      /\ Set(u, At("next", None, 0, tasks, {}))
      /\ UNCHANGED <<job, item, nextId, reminder, worker, slips>>
  BY DEF ClearHistory, worker
<1> HIDE DEF tasks, cleared
<1>4. NoNewRows
  BY <1>3 DEF NoNewRows
<1>5. DataOK' /\ WorkerOK'
  BY <1>3 DEF IInv, DataOK, WorkerOK, worker
<1>6. u \in Threads
  BY DEF Threads
<1> QED
  BY <1>2, <1>3, <1>4, <1>5, <1>6, AtNextTyped, SameTables, StatusesStay

-----------------------------------------------------------------------------
(* SyncJobIssues.                                                          *)

LEMMA ItemKeyTyped ==
  ASSUME DataOK, NEW i \in Items
  PROVE  ItemKey(i) \in Keys /\ ItemKey(i)[3] \in Errors
<1>1. JobOf[i] \in Jobs
  BY ConstantsAssumption
<1>2. item[i].err \in Errors \cup {None} /\ job[JobOf[i]].err \in Errors \cup {None}
  BY <1>1 DEF DataOK, ItemType, JobType
<1>3. \A e \in Errors \cup {None} : CodeOf(e) \in Codes
  BY DEF CodeOf, Errors, Codes
<1>4. Detail(i) \in Messages \cup {Generic}
  BY <1>2 DEF Detail, Errors
<1>5. IssueType(i) \in Codes
  BY <1>2, <1>3 DEF IssueType
<1>6. <<CodeOf(item[i].err), Detail(i)>> \in Errors
  BY <1>2, <1>3, <1>4 DEF Errors
<1> QED
  BY <1>5, <1>6 DEF ItemKey, Keys

LEMMA FoundTyped ==
  ASSUME DataOK, NEW S \in SUBSET Items
  PROVE  LET found == {<<i, item[i].err>> : i \in S}
         IN found \in SUBSET Detections /\ IsFiniteSet(found)
<1> DEFINE found == {<<i, item[i].err>> : i \in S}
           f == [i \in S |-> <<i, item[i].err>>]
<1>1. found \in SUBSET Detections
  BY DEF DataOK, ItemType, Detections
<1>2. f \in Surjection(S, found)
  BY DEF Surjection
<1>3. IsFiniteSet(S)
  BY ConstantsAssumption, FS_Subset
<1> QED
  BY <1>1, <1>2, <1>3, FS_Surjection

LEMMA ItemCandidateTyped ==
  ASSUME DataOK, NEW S \in SUBSET Items, S # {}, NEW k \in Keys, k[3] \in Errors
  PROVE  /\ ItemCandidate(k, S) \in Cand
         /\ ItemCandidate(k, S).key = k
         /\ ItemCandidate(k, S).found = {<<i, item[i].err>> : i \in S}
         /\ IsFiniteSet(ItemCandidate(k, S).found)
<1>1. (CHOOSE i \in S : TRUE) \in Items
  OBVIOUS
<1> QED
  BY <1>1, FoundTyped DEF ItemCandidate, Cand

LEMMA CandidatesTyped ==
  ASSUME DataOK, NEW j \in Jobs
  PROVE  LET C == Candidates(j)
             failed == Having(j, {"FAILED"})
         IN /\ C \in SUBSET Cand
            /\ \A c, d \in C : c.key = d.key => c = d
            /\ IsFiniteSet({c.key : c \in C}) /\ \A c \in C : IsFiniteSet(c.found)
            /\ \A i \in failed : \E c \in C : \E f \in c.found : f[1] = i
            /\ \A c \in C : \A f \in c.found : f[1] \in failed \/ f[1] = j
<1> DEFINE failed == Having(j, {"FAILED"})
           same(k) == {i \in failed : ItemKey(i) = k}
           keys == {ItemKey(i) : i \in failed}
<1>1. failed \in SUBSET Items
  BY DEF Having, ItemsOf
<1>2. CASE failed # {}
  <2>1. Candidates(j) = {ItemCandidate(k, same(k)) : k \in keys}
    BY <1>2 DEF Candidates
  <2>2. \A k \in keys : /\ k \in Keys /\ k[3] \in Errors
                        /\ same(k) \in SUBSET Items /\ same(k) # {}
    BY <1>1, ItemKeyTyped
  <2>3. \A k \in keys : /\ ItemCandidate(k, same(k)) \in Cand
                        /\ ItemCandidate(k, same(k)).key = k
                        /\ ItemCandidate(k, same(k)).found = {<<i, item[i].err>> : i \in same(k)}
                        /\ IsFiniteSet(ItemCandidate(k, same(k)).found)
    BY <2>2, ItemCandidateTyped
  <2>4. ASSUME NEW i \in failed
        PROVE  \E c \in Candidates(j) : \E f \in c.found : f[1] = i
    <3>1. ItemKey(i) \in keys /\ i \in same(ItemKey(i))
      OBVIOUS
    <3>2. <<i, item[i].err>> \in ItemCandidate(ItemKey(i), same(ItemKey(i))).found
      BY <2>3, <3>1
    <3>3. ItemCandidate(ItemKey(i), same(ItemKey(i))) \in Candidates(j)
      BY <2>1, <3>1
    <3> QED
      BY <3>2, <3>3
  <2>5. \A c \in Candidates(j) : \A f \in c.found : f[1] \in failed
    <3>1. \A k \in keys : \A f \in ItemCandidate(k, same(k)).found : f[1] \in failed
      BY <2>3
    <3> HIDE DEF failed, same, keys
    <3> QED
      BY <2>1, <3>1
  <2> HIDE DEF failed, same, keys
  <2>6. \A c, d \in Candidates(j) : c.key = d.key => c = d
    BY <2>1, <2>3
  <2>7. Candidates(j) \in SUBSET Cand /\ \A c \in Candidates(j) : IsFiniteSet(c.found)
    BY <2>1, <2>3
  <2>8. {c.key : c \in Candidates(j)} = keys
    BY <2>1, <2>3
  <2>9. [i \in failed |-> ItemKey(i)] \in Surjection(failed, keys)
    BY DEF Surjection, keys
  <2>10. IsFiniteSet(keys)
    BY <1>1, <2>9, ConstantsAssumption, FS_Subset, FS_Surjection
  <2> QED
    BY <2>4, <2>5, <2>6, <2>7, <2>8, <2>10 DEF failed
<1>3. CASE failed = {} /\ job[j].status = "FAILED" /\ job[j].err # None
  <2> DEFINE c == [key |-> JobKey(j), item |-> None, err |-> job[j].err, found |-> {<<j, job[j].err>>}]
  <2>1. Candidates(j) = {c}
    BY <1>3 DEF Candidates
  <2>2. job[j].err \in Errors
    BY <1>3 DEF DataOK, JobType
  <2>3. c \in Cand
    BY <2>2 DEF JobKey, Keys, Codes, Detections, Cand
  <2>4. IsFiniteSet(c.found)
    BY FS_Singleton
  <2>7. \A f \in c.found : f[1] = j
    OBVIOUS
  <2> HIDE DEF c
  <2>5. {d.key : d \in Candidates(j)} = {c.key}
    BY <2>1
  <2>6. IsFiniteSet({d.key : d \in Candidates(j)})
    BY <2>5, FS_Singleton
  <2> QED
    BY <1>3, <2>1, <2>3, <2>4, <2>6, <2>7
<1>4. CASE failed = {} /\ ~(job[j].status = "FAILED" /\ job[j].err # None)
  <2>1. Candidates(j) = {}
    BY <1>4 DEF Candidates
  <2>2. {d.key : d \in Candidates(j)} = {}
    BY <2>1
  <2> QED
    BY <1>4, <2>1, <2>2, FS_EmptySet
<1> QED
  BY <1>2, <1>3, <1>4

LEMMA SyncLoadStays ==
  ASSUME IInv, NEW t \in Threads, SyncLoad(t)
  PROVE  IInv'
<1> DEFINE j == th[t].job
           cands == Candidates(j)
           keys == {c.key : c \in cands}
           same(k) == {n \in Rows : issue[n].key = k}
<1>1. th[t] \in Thread /\ th[t].pc = "load" /\ j \in Jobs
  BY DEF SyncLoad, IInv, ThreadsOK, InPhase
<1>2. PICK pick \in [keys -> Ids \cup {0}] :
        /\ \A k \in keys : IF same(k) = {} THEN pick[k] = 0 ELSE pick[k] \in same(k)
        /\ Set(t, [th[t] EXCEPT !.pc = "write", !.cands = cands, !.status = job[j].status,
                     !.pick = pick,
                     !.old = [k \in keys |-> IF pick[k] = 0 THEN None ELSE issue[pick[k]]]])
  BY DEF SyncLoad
<1> DEFINE old == [k \in keys |-> IF pick[k] = 0 THEN None ELSE issue[pick[k]]]
           r == [th[t] EXCEPT !.pc = "write", !.cands = cands, !.status = job[j].status,
                              !.pick = pick, !.old = old]
<1>3. /\ cands \in SUBSET Cand /\ IsFiniteSet(keys)
      /\ \A c, d \in cands : c.key = d.key => c = d
      /\ \A c \in cands : IsFiniteSet(c.found)
      /\ \A i \in Having(j, {"FAILED"}) : \E c \in cands : \E f \in c.found : f[1] = i
      /\ \A c \in cands : \A f \in c.found : f[1] \in Having(j, {"FAILED"}) \/ f[1] = j
  BY <1>1, CandidatesTyped DEF IInv
<1>4. UNCHANGED <<job, item, issue, nextId, notice, reminder, worker, slips>>
  BY DEF SyncLoad, database, worker
<1>5. Free(j)
  BY DEF SyncLoad
<1>6. job[j].status \in JobStatus
  BY <1>1 DEF IInv, DataOK, JobType
<1>7. Set(t, r)
  BY <1>2
<1> HIDE DEF j, cands, same
<1>8. \A k \in keys : k \in Keys
  BY <1>3 DEF Cand
<1>9. \A n \in Rows : n \in Ids /\ issue[n] \in Row /\ n < nextId
  BY DEF Rows, IInv, DataOK, Ids
<1>10. \A k \in keys : pick[k] # 0 => pick[k] \in Rows /\ issue[pick[k]].key = k
  BY <1>2 DEF same
<1>11. old \in [keys -> Row \cup {None}] /\ \A k \in keys : pick[k] # 0 => old[k] \in Row
  BY <1>9, <1>10
<1> HIDE DEF keys
<1>12. pick \in Picks /\ old \in Olds
  BY <1>2, <1>8, <1>11 DEF Picks, Olds, Maps
<1> HIDE DEF old
<1>13. /\ r \in Thread /\ r.pc = "write" /\ r.job = j /\ r.cands = cands
       /\ r.status = job[j].status /\ r.pick = pick /\ r.old = old
  BY <1>1, <1>3, <1>6, <1>12 DEF Thread, Steps, j
<1> HIDE DEF r
<1>14. Seen(r)
  BY <1>3, <1>13 DEF Seen
<1>15. \A k \in keys : pick[k] = 0 => \A n \in Rows : ~(issue[n].key = k /\ issue[n].by = j)
  BY <1>2, <1>9 DEF same, Ids
<1>16. Picked(r)
  BY <1>2, <1>3, <1>9, <1>10, <1>11, <1>13, <1>15 DEF Picked, keys
<1>17. \A k \in Jobs : SameStatus(k) /\ SameRows(k)
  BY <1>4 DEF SameStatus, SameRows, IInv, DataOK
<1>18. ASSUME NEW q \in Thread, q.job \in Jobs, Seen(q), Picked(q)
       PROVE  Seen(q)' /\ Picked(q)'
  BY <1>17, <1>18, SeenStays, PickedStays DEF IInv
<1>19. th' = [th EXCEPT ![t] = r] /\ th \in [Threads -> Thread]
  BY <1>7 DEF Set, IInv, ThreadsOK
<1>20. ThreadsOK'
  BY <1>1, <1>13, <1>19 DEF ThreadsOK, IInv, InPhase
<1>21. Writing'
  <2> SUFFICES ASSUME NEW u \in Threads, th'[u].pc = "write"
               PROVE  (Seen(th[u]) /\ Picked(th[u]))'
    BY DEF Writing
  <2>1. PICK q : q = th'[u]
    OBVIOUS
  <2>2. q \in Thread /\ q.job \in Jobs
    BY <1>20, <2>1 DEF ThreadsOK, InPhase
  <2>3. Seen(q) /\ Picked(q)
    BY <1>14, <1>16, <1>19, <2>1 DEF IInv, Writing
  <2>4. Seen(q)' /\ Picked(q)'
    BY <1>18, <2>2, <2>3
  <2> QED
    BY <2>1, <2>4 DEF Seen, Picked
<1>22. Locked'
  BY <1>5, <1>13, <1>19 DEF IInv, Locked, Free
<1>23. DataOK' /\ WorkerOK' /\ OneIssuePerJobAndKey'
  BY <1>4 DEF IInv, DataOK, WorkerOK, worker, OneIssuePerJobAndKey, Rows
<1> QED
  BY <1>20, <1>21, <1>22, <1>23 DEF IInv

LEMMA NewRowTyped ==
  ASSUME NEW j \in Jobs, NEW c \in Cand, IsFiniteSet(c.found)
  PROVE  /\ NewRow(j, c) \in Row
         /\ NewRow(j, c).key = c.key /\ NewRow(j, c).by = j
         /\ NewRow(j, c).task = j /\ NewRow(j, c).found = c.found
<1>1. Cardinality(c.found) \in Nat
  BY FS_CardinalityType
<1> QED
  BY <1>1 DEF NewRow, Row, Cand, ActiveStatus

LEMMA NextStatusTyped ==
  ASSUME NEW old \in Row, NEW jobStatus
  PROVE  /\ NextStatus(old.status, jobStatus) \in ActiveStatus \cup HistoricalStatus
         /\ old.status = "IGNORED" => NextStatus(old.status, jobStatus) = "IGNORED"
BY DEF NextStatus, Row, ActiveStatus, HistoricalStatus

LEMMA RefoundTyped ==
  ASSUME NEW row \in Row, NEW j \in Jobs, NEW c \in Cand, IsFiniteSet(c.found),
         NEW old \in Row, NEW jobStatus
  PROVE  LET new == Refound(row, j, c, old, jobStatus)
         IN /\ new \in Row
            /\ new.key = row.key /\ new.by = row.by
            /\ new.task = j /\ new.found = c.found
            /\ new.status = NextStatus(old.status, jobStatus)
<1> DEFINE status == NextStatus(old.status, jobStatus)
           more == Cardinality(c.found \ old.found)
<1>1. IsFiniteSet(c.found \ old.found)
  BY FS_Subset
<1>2. more \in Nat
  BY <1>1, FS_CardinalityType
<1>3. status \in ActiveStatus \cup HistoricalStatus
  BY NextStatusTyped
<1> HIDE DEF status, more
<1>4. old.occurrences + more \in Nat
  BY <1>2 DEF Row
<1>5. Refound(row, j, c, old, jobStatus) =
        [row EXCEPT !.task = j, !.item = c.item, !.err = c.err, !.status = status,
                    !.occurrences = old.occurrences + more, !.found = c.found]
  BY DEF Refound, status, more
<1> QED
  BY <1>3, <1>4, <1>5 DEF Row, Cand, status

\* What a sync that commits does to the rows; `at' gives the ids of the issues
\* it inserts.
KeysOf(r) == {c.key : c \in r.cands}
CandOf(r, k) == CHOOSE c \in r.cands : c.key = k
Fresh(r) == {k \in KeysOf(r) : r.pick[k] = 0}
Resolved(r) == NoLongerDetected(r.job, KeysOf(r), r.status)

Inserts(r, at, n) == \E k \in Fresh(r) : at[k] = n /\ issue'[n] = NewRow(r.job, CandOf(r, k))
Updates(r, n) ==
  \E k \in KeysOf(r) \ Fresh(r) :
    /\ r.pick[k] = n /\ issue[n] # None
    /\ issue'[n] = Refound(issue[n], r.job, CandOf(r, k), r.old[k], r.status)
Resolves(r, n) == n \in Resolved(r) /\ issue'[n] = [issue[n] EXCEPT !.status = "RESOLVED"]

Wrote(r, at) ==
  /\ nextId' = nextId + Cardinality(Fresh(r)) /\ nextId' <= MaxIssues + 1
  /\ at \in [Fresh(r) -> nextId..(nextId' - 1)]
  /\ \A k, l \in Fresh(r) : at[k] = at[l] => k = l
  /\ \A k \in Fresh(r) : issue'[at[k]] = NewRow(r.job, CandOf(r, k))
  /\ \A k \in KeysOf(r) \ Fresh(r) : Updates(r, r.pick[k])
  /\ issue' = [n \in Ids |-> issue'[n]]
  /\ \A n \in Ids :
       \/ Inserts(r, at, n)
       \/ Updates(r, n)
       \/ Resolves(r, n)
       \/ n \notin Resolved(r) /\ issue'[n] = issue[n]

LEMMA SyncWriteCases ==
  ASSUME IInv, NEW t \in Threads, SyncWrite(t)
  PROVE  \/ Set(t, Abandon(th[t])) /\ UNCHANGED <<issue, nextId, slips>>
         \/ /\ Set(t, At("count", th[t].job, 2, {}, th[t].retry))
            /\ slips' = slips \cup
                 ({issue[th[t].pick[k]].task : k \in KeysOf(th[t]) \ Fresh(th[t])} \ {th[t].job})
            /\ \A k \in KeysOf(th[t]) \ Fresh(th[t]) : issue[th[t].pick[k]] # None
            /\ \E at : Wrote(th[t], at)
<1> DEFINE r == th[t]
           keys == KeysOf(r)
           fresh == Fresh(r)
           found == keys \ fresh
           gone == \E k \in found : issue[r.pick[k]] = None
           refused == Streaming /\ Resolved(r) # {}
<1>1. CASE gone \/ refused
  BY <1>1 DEF SyncWrite, KeysOf, Fresh, Resolved
<1>2. CASE ~gone /\ ~refused
  <2>1. /\ nextId + Cardinality(fresh) <= MaxIssues + 1
        /\ nextId' = nextId + Cardinality(fresh)
        /\ slips' = slips \cup ({issue[r.pick[k]].task : k \in found} \ {r.job})
        /\ Set(t, At("count", r.job, 2, {}, r.retry))
    BY <1>2 DEF SyncWrite, KeysOf, Fresh, Resolved
  <2>2. PICK at \in [fresh -> nextId..(nextId' - 1)] :
          /\ \A k, l \in fresh : at[k] = at[l] => k = l
          /\ issue' = [n \in Ids |->
               IF \E k \in fresh : at[k] = n
               THEN NewRow(r.job, CandOf(r, CHOOSE k \in fresh : at[k] = n))
               ELSE IF \E k \in found : r.pick[k] = n
               THEN LET k == CHOOSE k \in found : r.pick[k] = n
                    IN Refound(issue[n], r.job, CandOf(r, k), r.old[k], r.status)
               ELSE IF n \in Resolved(r) THEN [issue[n] EXCEPT !.status = "RESOLVED"]
               ELSE issue[n]]
    BY <1>2 DEF SyncWrite, KeysOf, Fresh, Resolved, CandOf
  <2>3. r.pc = "write" /\ Picked(r)
    BY DEF SyncWrite, IInv, Writing
  <2>4. /\ IsFiniteSet(keys)
        /\ \A k \in found : r.pick[k] \in Ids /\ r.pick[k] < nextId
    BY <2>3 DEF Picked, KeysOf, Fresh
  <2>5. IsFiniteSet(fresh)
    BY <2>4, FS_Subset DEF Fresh
  <2>6. /\ Cardinality(fresh) \in Nat /\ nextId \in 1..(MaxIssues + 1) /\ MaxIssues \in Nat
    BY <2>5, FS_CardinalityType, ConstantsAssumption DEF IInv, DataOK
  <2>7. \A k \in fresh : at[k] \in Ids /\ at[k] >= nextId
    BY <2>1, <2>2, <2>6 DEF Ids
  <2> HIDE DEF r, keys, fresh, found
  <2>8. \A k \in fresh : issue'[at[k]] = NewRow(r.job, CandOf(r, k))
    <3> SUFFICES ASSUME NEW k \in fresh
                 PROVE  issue'[at[k]] = NewRow(r.job, CandOf(r, k))
      OBVIOUS
    <3>1. (CHOOSE l \in fresh : at[l] = at[k]) = k
      BY <2>2
    <3> QED
      BY <2>2, <2>7, <3>1
  <2>9. \A n \in Ids : (\E k \in found : r.pick[k] = n) => ~\E k \in fresh : at[k] = n
    BY <2>4, <2>6, <2>7 DEF Ids
  <2>10. ASSUME NEW n \in Ids, \E k \in found : r.pick[k] = n
         PROVE  \E k \in found : /\ r.pick[k] = n /\ issue[n] # None
                                 /\ issue'[n] = Refound(issue[n], r.job, CandOf(r, k), r.old[k], r.status)
    <3> DEFINE k == CHOOSE k \in found : r.pick[k] = n
    <3>1. k \in found /\ r.pick[k] = n
      BY <2>10
    <3>2. issue'[n] = Refound(issue[n], r.job, CandOf(r, k), r.old[k], r.status)
      BY <2>2, <2>9, <2>10
    <3> QED
      BY <1>2, <3>1, <3>2
  <2>11. ASSUME NEW n \in Ids
         PROVE  \/ \E k \in fresh : at[k] = n /\ issue'[n] = NewRow(r.job, CandOf(r, k))
                \/ \E k \in found : /\ r.pick[k] = n /\ issue[n] # None
                                   /\ issue'[n] = Refound(issue[n], r.job, CandOf(r, k), r.old[k], r.status)
                \/ n \in Resolved(r) /\ issue'[n] = [issue[n] EXCEPT !.status = "RESOLVED"]
                \/ n \notin Resolved(r) /\ issue'[n] = issue[n]
    <3>1. CASE \E k \in fresh : at[k] = n
      BY <2>8, <3>1
    <3>2. CASE \E k \in found : r.pick[k] = n
      BY <2>10, <3>2
    <3>3. CASE ~(\E k \in fresh : at[k] = n) /\ ~(\E k \in found : r.pick[k] = n)
      BY <2>2, <3>3
    <3> QED
      BY <3>1, <3>2, <3>3
  <2>12. issue' = [n \in Ids |-> issue'[n]]
    BY <2>2
  <2>13. \A k \in found : \E l \in found :
           /\ r.pick[l] = r.pick[k] /\ issue[r.pick[k]] # None
           /\ issue'[r.pick[k]] = Refound(issue[r.pick[k]], r.job, CandOf(r, l), r.old[l], r.status)
    BY <2>4, <2>10
  <2>14. \A k \in found : Updates(r, r.pick[k])
    BY <2>13, Zenon DEF Updates, found, fresh, keys
  <2>15. ASSUME NEW n \in Ids
         PROVE  \/ Inserts(r, at, n)
                \/ Updates(r, n)
                \/ Resolves(r, n)
                \/ n \notin Resolved(r) /\ issue'[n] = issue[n]
    BY <2>11, Zenon DEF Inserts, Updates, Resolves, found, fresh, keys
  <2>16. Wrote(r, at)
    BY <2>1, <2>2, <2>8, <2>12, <2>14, <2>15, Zenon DEF Wrote, found, fresh, keys
  <2> QED
    BY <1>2, <2>1, <2>16 DEF r, fresh, found, keys
<1> QED
  BY <1>1, <1>2

\* The candidate of a key.
LEMMA CandOfTyped ==
  ASSUME IInv, NEW t \in Threads, th[t].pc = "write", NEW k \in KeysOf(th[t])
  PROVE  /\ CandOf(th[t], k) \in Cand /\ CandOf(th[t], k) \in th[t].cands
         /\ CandOf(th[t], k).key = k
         /\ IsFiniteSet(CandOf(th[t], k).found)
<1>1. PICK r : r = th[t]
  OBVIOUS
<1>2. Picked(r) /\ r.cands \in SUBSET Cand
  BY <1>1 DEF IInv, Writing, ThreadsOK, Thread
<1>3. \E c \in r.cands : c.key = k
  BY <1>1 DEF KeysOf
<1>4. CandOf(r, k) \in r.cands /\ CandOf(r, k).key = k
  BY <1>3 DEF CandOf
<1> QED
  BY <1>1, <1>2, <1>4 DEF Picked

\* Each row after the writes: inserted, rewritten, or absent as before.
LEMMA RowsWritten ==
  ASSUME IInv, NEW t \in Threads, th[t].pc = "write", NEW at, Wrote(th[t], at), NEW n \in Ids
  PROVE  \/ /\ n >= nextId /\ n < nextId'
            /\ issue'[n] \in Row /\ issue'[n].by = th[t].job
            /\ issue'[n].task = th[t].job /\ issue'[n].status = "OPEN"
            /\ issue'[n].key \in Fresh(th[t]) /\ at[issue'[n].key] = n
         \/ /\ issue[n] # None /\ issue'[n] \in Row
            /\ issue'[n].key = issue[n].key /\ issue'[n].by = issue[n].by
         \/ issue[n] = None /\ issue'[n] = None
<1> DEFINE r == th[t]
<1>1. r.job \in Jobs /\ Picked(r)
  BY DEF IInv, ThreadsOK, InPhase, Writing
<1>2. issue[n] \in Row \cup {None}
  BY DEF IInv, DataOK
<1>3. CASE Inserts(r, at, n)
  <2>1. PICK k \in Fresh(r) : at[k] = n /\ issue'[n] = NewRow(r.job, CandOf(r, k))
    BY <1>3 DEF Inserts
  <2>2. k \in KeysOf(r)
    BY DEF Fresh
  <2>3. CandOf(r, k) \in Cand /\ CandOf(r, k).key = k /\ IsFiniteSet(CandOf(r, k).found)
    BY <2>2, CandOfTyped
  <2>4. NewRow(r.job, CandOf(r, k)) \in Row /\ NewRow(r.job, CandOf(r, k)).key = k
    BY <1>1, <2>3, NewRowTyped
  <2>5. NewRow(r.job, CandOf(r, k)).by = r.job /\ NewRow(r.job, CandOf(r, k)).task = r.job
        /\ NewRow(r.job, CandOf(r, k)).status = "OPEN"
    BY DEF NewRow
  <2>6. n >= nextId /\ n < nextId'
    <3>1. at[k] \in nextId..(nextId' - 1)
      BY DEF Wrote
    <3>2. nextId \in Nat /\ nextId' \in Int
      <4>1. IsFiniteSet(Fresh(r))
        BY <1>1, FS_Subset DEF Fresh, KeysOf, Picked
      <4>2. Cardinality(Fresh(r)) \in Nat
        BY <4>1, FS_CardinalityType
      <4> QED
        BY <4>2 DEF Wrote, IInv, DataOK
    <3> QED
      BY <2>1, <3>1, <3>2
  <2> QED
    BY <2>1, <2>4, <2>5, <2>6
<1>4. CASE Updates(r, n)
  <2>1. PICK k \in KeysOf(r) \ Fresh(r) :
          /\ r.pick[k] = n /\ issue[n] # None
          /\ issue'[n] = Refound(issue[n], r.job, CandOf(r, k), r.old[k], r.status)
    BY <1>4 DEF Updates
  <2>2. CandOf(r, k) \in Cand /\ IsFiniteSet(CandOf(r, k).found)
    BY CandOfTyped
  <2>3. r.old[k] \in Row
    BY <1>1 DEF Picked, KeysOf, Fresh
  <2> QED
    BY <1>1, <1>2, <2>1, <2>2, <2>3, RefoundTyped
<1>5. CASE Resolves(r, n)
  <2>1. issue[n] \in Row
    BY <1>2, <1>5 DEF Resolves, Resolved, NoLongerDetected, ActiveOf, Rows
  <2> QED
    BY <1>5, <2>1, ConstantsAssumption DEF Resolves, Row, HistoricalStatus, Resolved,
       NoLongerDetected, ActiveOf, Rows
<1>6. CASE issue'[n] = issue[n]
  BY <1>2, <1>6
<1> QED
  BY <1>3, <1>4, <1>5, <1>6 DEF Wrote

\* A sync that commits keeps the tables typed, and adds only rows of its job.
LEMMA WroteTyped ==
  ASSUME IInv, NEW t \in Threads, th[t].pc = "write", NEW at, Wrote(th[t], at)
  PROVE  /\ issue' \in [Ids -> Row \cup {None}]
         /\ nextId' \in 1..(MaxIssues + 1)
         /\ \A n \in Ids : n >= nextId' => issue'[n] = None
         /\ \A j \in Jobs \ {th[t].job} : SameRows(j)
<1> DEFINE r == th[t]
<1>1. r.job \in Jobs /\ Picked(r)
  BY DEF IInv, ThreadsOK, InPhase, Writing
<1>2. /\ nextId \in 1..(MaxIssues + 1) /\ MaxIssues \in Nat
      /\ \A n \in Ids : n >= nextId => issue[n] = None
  BY ConstantsAssumption DEF IInv, DataOK
<1>3. nextId' \in 1..(MaxIssues + 1) /\ nextId' >= nextId
  <2>1. IsFiniteSet(Fresh(r))
    BY <1>1, FS_Subset DEF Fresh, KeysOf, Picked
  <2>2. Cardinality(Fresh(r)) \in Nat
    BY <2>1, FS_CardinalityType
  <2> QED
    BY <1>2, <2>2 DEF Wrote
<1>4. issue' \in [Ids -> Row \cup {None}]
  <2>1. \A n \in Ids : issue'[n] \in Row \cup {None}
    BY RowsWritten
  <2>2. issue' = [n \in Ids |-> issue'[n]]
    BY DEF Wrote
  <2> QED
    BY <2>1, <2>2
<1>5. ASSUME NEW n \in Ids, n >= nextId'
      PROVE  issue'[n] = None
  <2>1. n \in Nat /\ ~(n < nextId') /\ issue[n] = None
    BY <1>2, <1>3, <1>5 DEF Ids
  <2> QED
    BY <2>1, RowsWritten
<1>6. ASSUME NEW j \in Jobs \ {r.job}
      PROVE  SameRows(j)
  <2>1. nextId' \in Nat
    BY <1>2, <1>3
  <2>2. ASSUME NEW n \in Ids, issue'[n] # None
        PROVE  \/ issue[n] # None /\ issue'[n].key = issue[n].key /\ issue'[n].by = issue[n].by
               \/ n >= nextId /\ issue'[n].by # j
    BY <2>2, RowsWritten
  <2> QED
    BY <1>3, <2>1, <2>2 DEF SameRows
<1> QED
  BY <1>3, <1>4, <1>5, <1>6

\* Its rows are the only ones of its job with their key: a key is inserted only
\* if the sync found no row for it, and each key once.
LEMMA WroteUnique ==
  ASSUME IInv, NEW t \in Threads, th[t].pc = "write", NEW at, Wrote(th[t], at)
  PROVE  OneIssuePerJobAndKey'
<1> DEFINE r == th[t]
           new(n) == /\ issue'[n].by = r.job /\ issue'[n].key \in Fresh(r)
                     /\ at[issue'[n].key] = n
           old(n) == /\ issue[n] # None
                     /\ issue'[n].key = issue[n].key /\ issue'[n].by = issue[n].by
<1>1. Picked(r)
  BY DEF IInv, Writing
<1>2. ASSUME NEW n \in Ids, issue'[n] # None
      PROVE  new(n) \/ old(n)
  BY <1>2, RowsWritten
<1>3. ASSUME NEW m \in Ids, NEW n \in Ids, new(m), old(n),
             issue'[m].key = issue'[n].key, issue'[m].by = issue'[n].by
      PROVE  FALSE
  <2>1. issue'[m].key \in KeysOf(r) /\ r.pick[issue'[m].key] = 0
    BY <1>3 DEF Fresh
  <2>2. \A k \in Rows : ~(issue[k].key = issue'[m].key /\ issue[k].by = r.job)
    BY <1>1, <2>1 DEF Picked, KeysOf
  <2> QED
    BY <1>3, <2>2 DEF Rows
<1>4. ASSUME NEW m \in Ids, NEW n \in Ids, old(m), old(n),
             issue'[m].key = issue'[n].key, issue'[m].by = issue'[n].by
      PROVE  m = n
  BY <1>4 DEF IInv, OneIssuePerJobAndKey, Rows
<1>5. ASSUME NEW m \in Ids, NEW n \in Ids, new(m), new(n), issue'[m].key = issue'[n].key
      PROVE  m = n
  BY <1>5
<1> HIDE DEF new, old
<1>6. ASSUME NEW m \in Ids, NEW n \in Ids, issue'[m] # None, issue'[n] # None,
             issue'[m].key = issue'[n].key, issue'[m].by = issue'[n].by
      PROVE  m = n
  BY <1>2, <1>3, <1>4, <1>5, <1>6
<1> QED
  BY <1>6 DEF OneIssuePerJobAndKey, Rows

LEMMA SyncWriteStays ==
  ASSUME IInv, NEW t \in Threads, SyncWrite(t)
  PROVE  IInv'
<1> DEFINE r == th[t]
<1>1. r \in Thread /\ r.pc = "write" /\ r.job \in Jobs /\ r.retry \in SUBSET Jobs
  BY DEF SyncWrite, IInv, ThreadsOK, InPhase, Thread
<1>2. UNCHANGED <<job, item, notice, reminder, worker>>
  BY DEF SyncWrite, worker
<1>3. WorkerOK'
  BY <1>2 DEF IInv, WorkerOK, worker
<1>4. CASE Set(t, Abandon(r)) /\ UNCHANGED <<issue, nextId, slips>>
  <2>1. DataOK'
    BY <1>2, <1>4 DEF IInv, DataOK
  <2> QED
    BY <1>1, <1>2, <1>3, <1>4, <2>1, AbandonTyped, SameIssues, SameTables, StatusesStay
<1>5. CASE /\ Set(t, At("count", r.job, 2, {}, r.retry))
           /\ slips' = slips \cup
                ({issue[r.pick[k]].task : k \in KeysOf(r) \ Fresh(r)} \ {r.job})
           /\ \A k \in KeysOf(r) \ Fresh(r) : issue[r.pick[k]] # None
           /\ \E at : Wrote(r, at)
  <2>1. PICK at : Wrote(r, at)
    BY <1>5
  <2>2. DataOK' /\ \A j \in Jobs \ {r.job} : SameRows(j)
    <3>1. slips' \subseteq Jobs
      <4>1. ASSUME NEW k \in KeysOf(r) \ Fresh(r)
            PROVE  issue[r.pick[k]].task \in Jobs
        <5>1. r.pick[k] \in Ids
          BY <1>1 DEF IInv, Writing, Picked, KeysOf, Fresh
        <5> QED
          BY <1>5, <5>1 DEF IInv, DataOK, Row
      <4> QED
        BY <1>5, <4>1 DEF IInv, DataOK
    <3> QED
      BY <1>1, <1>2, <2>1, <3>1, WroteTyped DEF IInv, DataOK
  <2>3. PICK q : q = At("count", r.job, 2, {}, r.retry)
    OBVIOUS
  <2>4. q \in Thread /\ InPhase(q) /\ q.pc = "count"
    <3>1. "count" \in Steps \ {"idle", "next"} /\ 2 \in 0..2 /\ {} \in SUBSET Jobs
      BY DEF Steps
    <3> QED
      BY <1>1, <2>3, <3>1, AtJobTyped
  <2>5. th' = [th EXCEPT ![t] = q] /\ th \in [Threads -> Thread]
    BY <1>5, <2>3 DEF Set, IInv, ThreadsOK
  <2>6. ThreadsOK'
    BY <2>4, <2>5 DEF ThreadsOK, IInv, InPhase
  <2>7. Undisturbed
    <3> SUFFICES ASSUME NEW u \in Threads, th'[u].pc = "write"
                 PROVE  th'[u] = th[u] /\ SameStatus(th[u].job) /\ SameRows(th[u].job)
      BY DEF Undisturbed
    <3>1. u # t /\ th'[u] = th[u]
      BY <2>4, <2>5
    <3>2. th[u].job \in Jobs \ {r.job}
      BY <1>1, <3>1 DEF IInv, Locked, ThreadsOK, InPhase
    <3> QED
      BY <1>2, <2>2, <3>1, <3>2, SameTables
  <2>8. OneIssuePerJobAndKey'
    BY <1>1, <2>1, WroteUnique
  <2> QED
    BY <1>3, <2>2, <2>6, <2>7, <2>8, WritingStays, LockedStays DEF IInv
<1> QED
  BY <1>4, <1>5, SyncWriteCases

-----------------------------------------------------------------------------
(* The invariant.                                                          *)

LEMMA IInvInit == Init => IInv
<1> SUFFICES ASSUME Init PROVE IInv
  OBVIOUS
<1>1. DataOK
  BY ConstantsAssumption DEF Init, DataOK, JobType, ItemType, JobStatus, ItemStatus, Ids
<1>2. WorkerOK
  BY DEF Init, WorkerOK
<1>3. ThreadsOK
  BY IdleTyped DEF Init, ThreadsOK
<1>4. \A t \in Threads : th[t].pc # "write"
  BY IdleTyped DEF Init
<1>5. Writing /\ Locked
  BY <1>4 DEF Writing, Locked
<1>6. OneIssuePerJobAndKey
  BY DEF Init, OneIssuePerJobAndKey, Rows
<1> QED
  BY <1>1, <1>2, <1>3, <1>5, <1>6 DEF IInv

LEMMA IInvNext == IInv /\ [Next]_vars => IInv'
<1> SUFFICES ASSUME IInv, [Next]_vars PROVE IInv'
  OBVIOUS
<1>1. CASE Engine
  BY <1>1, ClaimStays, StartItemStays, ItemCompletesStays, ItemIsInterruptedStays,
     ItemFailsStays, ItemIsDeferredStays, CancelPendingItemsStays, FinalizeJobStays,
     JobFailsStays DEF Engine
<1>2. ASSUME NEW t \in Threads, Pipeline(t)
      PROVE  IInv'
  <2>1. CASE SyncLoad(t) \/ SyncWrite(t)
    BY <2>1, SyncLoadStays, SyncWriteStays
  <2>2. CASE CountJob(t) \/ StoreJobCount(t) \/ CountItem(t) \/ StoreItemCount(t)
    BY <2>2, CountJobStays, StoreJobCountStays, CountItemStays, StoreItemCountStays
  <2>3. CASE NoticeLoad(t) \/ NoticePost(t)
    BY <2>3, NoticeLoadStays, NoticePostStays
  <2>4. CASE NextJob(t) \/ \E j \in Jobs : RetryJob(t, j)
    BY <2>4, NextJobStays, RetryJobStays
  <2> QED
    BY <1>2, <2>1, <2>2, <2>3, <2>4 DEF Pipeline
<1>3. ASSUME NEW t \in Threads, Fault(t)
      PROVE  IInv'
  BY <1>3, FaultStays
<1>4. ASSUME NEW u \in Users, Api(u)
      PROVE  IInv'
  <2>1. Choices \subseteq DOMAIN Outcome
    BY ConstantsAssumption DEF Outcome
  <2> QED
    BY <1>4, <2>1, CancelJobStays, RequestRetryStays, ApplyActionStays, ClearHistoryStays DEF Api
<1>5. CASE Crash
  BY <1>5, CrashStays
<1>6. CASE UNCHANGED vars
  <2>1. UNCHANGED <<job, item, issue, nextId, notice, reminder, worker, th, slips>>
    BY <1>6 DEF vars, database, worker
  <2>2. DataOK' /\ WorkerOK' /\ ThreadsOK'
    BY <2>1 DEF IInv, DataOK, WorkerOK, worker, ThreadsOK, InPhase
  <2>3. NoNewRows /\ \A k \in Jobs : SameStatus(k)
    BY <2>1, SameIssues, SameTables
  <2>4. \A t \in Threads : th'[t].pc = "write" => th'[t] = th[t] /\ SameStatus(th[t].job)
    BY <2>1, <2>3 DEF IInv, ThreadsOK, InPhase
  <2> QED
    BY <2>2, <2>3, <2>4, SyncsStay DEF IInv
<1>7. CASE Next
  <2>1. CASE \E t \in Threads : Pipeline(t) \/ Fault(t)
    BY <1>2, <1>3, <2>1
  <2>2. CASE \E u \in Users : Api(u)
    BY <1>4, <2>2
  <2> QED
    BY <1>1, <1>5, <1>7, <2>1, <2>2 DEF Next
<1> QED
  BY <1>6, <1>7

LEMMA IssueInvariance == Spec => []IInv
BY IInvInit, IInvNext, PTL DEF Spec

-----------------------------------------------------------------------------
(* The theorems.                                                           *)

\* Every variable keeps its type, ids above the sequence are unused, and a
\* thread has jobs left exactly while it is inside a call.
THEOREM IssuesTyped == Spec => []TypeOK
<1>1. IInv => TypeOK
  <2> SUFFICES ASSUME IInv PROVE TypeOK
    OBVIOUS
  <2>1. ASSUME NEW t \in Threads
        PROVE  (th[t].pc = "idle") <=> (Pending(t) = {})
    <3>1. th[t] \in Thread /\ InPhase(th[t])
      BY DEF IInv, ThreadsOK
    <3>2. th[t].next \subseteq Jobs /\ th[t].retry \subseteq Jobs /\ None \notin Jobs
      BY <3>1, ConstantsAssumption DEF Thread
    <3> QED
      BY <3>1, <3>2 DEF InPhase, Pending
  <2> QED
    BY <2>1 DEF IInv, DataOK, WorkerOK, ThreadsOK, TypeOK, JobType, ItemType
<1> QED
  BY <1>1, IssueInvariance, PTL

\* What a sync writes is decided from the job and its failed items as they are
\* at the commit: the lock taken by loadJobSnapshot holds off every change but
\* that of cancelPendingItems.
THEOREM SyncsSeeTheJob == Spec => []SyncSeesTheJob
<1>1. IInv => SyncSeesTheJob
  <2> SUFFICES ASSUME IInv, NEW t \in Threads, th[t].pc = "write"
               PROVE  LET j == th[t].job
                          failed == Having(j, {"FAILED"})
                          seen == UNION {{f[1] : f \in c.found} : c \in th[t].cands}
                      IN /\ th[t].status = job[j].status
                         /\ failed \subseteq seen
                         /\ \A i \in (seen \cap Items) \ failed :
                              item[i].status = "CANCELED" /\ job[j].status = "CANCELED"
    BY DEF SyncSeesTheJob
  <2>1. Seen(th[t]) /\ th[t].job \in Jobs
    BY DEF IInv, Writing, ThreadsOK, InPhase
  <2>2. th[t].job \notin Items
    BY <2>1, ConstantsAssumption
  <2> QED
    BY <2>1, <2>2 DEF Seen
<1> QED
  BY <1>1, IssueInvariance, PTL

\* No job inserts two issues with one dedupe key, whatever the syncs of other
\* jobs and the users do meanwhile.
THEOREM IssuesAreUnique == Spec => []OneIssuePerJobAndKey
<1>1. IInv => OneIssuePerJobAndKey
  BY DEF IInv
<1> QED
  BY <1>1, IssueInvariance, PTL

-----------------------------------------------------------------------------
(* What the commit of a sync guarantees.                                   *)

\* Only the writes of a sync lead from "write" to "count", and only they and the
\* calls of the API change issues.
LEMMA CommitsOnly ==
  ASSUME IInv, Next
  PROVE  /\ \A t \in Threads : th[t].pc = "write" /\ th'[t].pc = "count" => SyncWrite(t)
         /\ \A n \in Ids : issue'[n] # None /\ issue'[n] # issue[n] /\ actions' = actions =>
              \E t \in Threads : SyncWrite(t)
<1> DEFINE Commits == \A t \in Threads : th[t].pc = "write" /\ th'[t].pc = "count" => SyncWrite(t)
           Changes == \A n \in Ids :
                        issue'[n] # None /\ issue'[n] # issue[n] /\ actions' = actions =>
                          \E t \in Threads : SyncWrite(t)
<1>1. th \in [Threads -> Thread] /\ Worker \in Threads /\ Users \subseteq Threads
  BY DEF IInv, ThreadsOK, Threads
<1>2. CASE Engine
  <2>1. UNCHANGED issue
    BY <1>2 DEF Engine, Claim, StartItem, ItemCompletes, ItemFails, ItemIsDeferred, Finish,
       ItemIsInterrupted, CancelPendingItems, FinalizeJob, JobFails, database
  <2>2. th' = th \/ (th[Worker].pc = "idle" /\ \E r : Set(Worker, r))
    BY <1>2 DEF Engine, Claim, StartItem, ItemCompletes, ItemFails, ItemIsDeferred, Finish,
       ItemIsInterrupted, CancelPendingItems, FinalizeJob, JobFails, WorkerIdle
  <2> QED
    BY <1>1, <2>1, <2>2 DEF Set
<1>3. ASSUME NEW t \in Threads, Pipeline(t)
      PROVE  Commits /\ Changes
  <2>1. CASE SyncWrite(t)
    <3>1. \E r : Set(t, r)
      BY <2>1 DEF SyncWrite
    <3> QED
      BY <1>1, <2>1, <3>1 DEF Set
  <2>2. CASE ~SyncWrite(t)
    <3>1. UNCHANGED issue
      BY <1>3, <2>2 DEF Pipeline, SyncLoad, CountJob, StoreJobCount, CountItem, StoreItemCount,
         NoticeLoad, NoticePost, NextJob, RetryJob, database
    <3>2. th[t].pc # "write" /\ \E r : Set(t, r)
      BY <1>3, <2>2 DEF Pipeline, SyncLoad, CountJob, StoreJobCount, CountItem, StoreItemCount,
         NoticeLoad, NoticePost, NextJob, RetryJob
    <3> QED
      BY <1>1, <3>1, <3>2 DEF Set
  <2> QED
    BY <2>1, <2>2
<1>4. ASSUME NEW t \in Threads, Fault(t)
      PROVE  Commits /\ Changes
  <2>1. UNCHANGED issue
    BY <1>4 DEF Fault, database
  <2>2. th[t].pc = "write" => Set(t, Abandon(th[t]))
    BY <1>4 DEF Fault
  <2>3. \E r : Set(t, r)
    BY <1>4 DEF Fault
  <2>4. Abandon(th[t]).pc = "notice"
    BY DEF Abandon, At
  <2> QED
    BY <1>1, <2>1, <2>2, <2>3, <2>4 DEF Set
<1>5. ASSUME NEW u \in Users, Api(u)
      PROVE  Commits /\ Changes
  <2>1. th[u].pc = "idle" /\ \E r : Set(u, r)
    BY <1>5 DEF Api, CancelJob, RequestRetry, ApplyAction, ClearHistory, Call
  <2>2. Commits
    BY <1>1, <2>1 DEF Set
  <2>3. CASE \E S \in SUBSET Rows : ClearHistory(u, S)
    <3>1. PICK S \in SUBSET Rows : ClearHistory(u, S)
      BY <2>3
    <3>2. \A n \in Ids : issue'[n] = None \/ issue'[n] = issue[n]
      BY <3>1 DEF ClearHistory
    <3> QED
      BY <2>2, <3>2
  <2>4. CASE ~\E S \in SUBSET Rows : ClearHistory(u, S)
    <3>1. actions' = actions + 1 /\ actions < MaxActions
      BY <1>5, <2>4 DEF Api, CancelJob, RequestRetry, ApplyAction, Call
    <3> QED
      BY <2>2, <3>1
  <2> QED
    BY <2>3, <2>4
<1>6. CASE Crash
  BY <1>6, IdleTyped DEF Crash
<1> QED
  BY <1>2, <1>3, <1>4, <1>5, <1>6 DEF Next

\* An ignored issue comes back only through a user, or through a sync that had
\* loaded it before it was ignored: upsertExistingIssue keeps IGNORED, and the
\* resolution of issues looks at active ones only.
THEOREM IgnoredIssuesStay == Spec => IgnoredStays
<1>1. ASSUME IInv, [Next]_vars, NEW n \in Ids,
             issue[n] # None, issue'[n] # None,
             issue[n].status = "IGNORED", issue'[n].status # "IGNORED", actions' = actions
      PROVE  \E t \in Threads :
               /\ th[t].pc = "write" /\ th'[t].pc = "count"
               /\ \E k \in DOMAIN th[t].pick :
                    th[t].pick[k] = n /\ th[t].old[k].status # "IGNORED"
  <2>1. issue'[n] # issue[n]
    BY <1>1
  <2>2. PICK t \in Threads : SyncWrite(t)
    BY <1>1, <2>1, CommitsOnly DEF vars, database
  <2>3. PICK r : r = th[t]
    OBVIOUS
  <2>4. r.pc = "write" /\ Picked(r) /\ r.job \in Jobs /\ r.retry \in SUBSET Jobs
    BY <1>1, <2>2, <2>3 DEF SyncWrite, IInv, Writing, ThreadsOK, InPhase, Thread
  <2>5. Set(t, At("count", r.job, 2, {}, r.retry)) /\ \E at : Wrote(r, at)
    BY <1>1, <2>1, <2>2, <2>3, SyncWriteCases
  <2>6. th'[t].pc = "count"
    BY <1>1, <2>5 DEF Set, At, IInv, ThreadsOK
  <2>7. PICK at : Wrote(r, at)
    BY <2>5
  <2>8. issue[n] \in Row /\ n < nextId
    BY <1>1 DEF IInv, DataOK, Ids
  <2>9. CASE Inserts(r, at, n)
    <3>1. PICK k \in Fresh(r) : at[k] = n
      BY <2>9 DEF Inserts
    <3>2. at[k] \in nextId..(nextId' - 1)
      BY <2>7 DEF Wrote
    <3>3. nextId \in Nat /\ n \in Nat
      BY <1>1 DEF IInv, DataOK, Ids
    <3> QED
      BY <2>8, <3>1, <3>2, <3>3
  <2>10. CASE Updates(r, n)
    <3>1. PICK k \in KeysOf(r) \ Fresh(r) :
            /\ r.pick[k] = n
            /\ issue'[n] = Refound(issue[n], r.job, CandOf(r, k), r.old[k], r.status)
      BY <2>10 DEF Updates
    <3>2. CandOf(r, k) \in Cand /\ IsFiniteSet(CandOf(r, k).found)
      BY <1>1, <2>3, <2>4, CandOfTyped
    <3>3. r.old[k] \in Row /\ k \in DOMAIN r.pick
      BY <2>4 DEF Picked, KeysOf, Fresh
    <3>4. issue'[n].status = NextStatus(r.old[k].status, r.status)
      BY <2>4, <2>8, <3>1, <3>2, <3>3, RefoundTyped
    <3>5. r.old[k].status # "IGNORED"
      BY <1>1, <3>3, <3>4, NextStatusTyped
    <3> QED
      BY <2>3, <2>4, <2>6, <3>1, <3>3, <3>5
  <2>11. CASE Resolves(r, n)
    BY <1>1, <2>11 DEF Resolves, Resolved, NoLongerDetected, ActiveOf, ActiveStatus
  <2>12. CASE issue'[n] = issue[n]
    BY <1>1, <2>12
  <2> QED
    BY <2>7, <2>9, <2>10, <2>11, <2>12 DEF Wrote
<1>2. IInv /\ [Next]_vars =>
        [\A n \in Ids :
           LET back == /\ issue[n] # None /\ issue'[n] # None
                       /\ issue[n].status = "IGNORED" /\ issue'[n].status # "IGNORED"
           IN back => \/ actions' # actions
                      \/ \E t \in Threads :
                           /\ th[t].pc = "write" /\ th'[t].pc = "count"
                           /\ \E k \in DOMAIN th[t].pick :
                                th[t].pick[k] = n /\ th[t].old[k].status # "IGNORED"]_vars
  BY <1>1
<1> QED
  BY <1>2, IssueInvariance, PTL DEF Spec, IgnoredStays

\* When a sync commits, each failed item of the job is named by an issue of the
\* job, and each of its active issues that is not being retried has the key of
\* a failure the sync has found.
THEOREM SyncsExplain == Spec => SyncExplains
<1>1. ASSUME IInv, [Next]_vars, NEW t \in Threads, th[t].pc = "write", th'[t].pc = "count"
      PROVE  LET j == th[t].job
                 issues == {n \in Ids : issue'[n] # None /\ issue'[n].task = j}
             IN /\ \A i \in Having(j, {"FAILED"}) :
                     \E n \in issues : i \in {f[1] : f \in issue'[n].found}
                /\ \A n \in issues :
                     issue'[n].status \in {"OPEN", "AWAITING_CONFIRMATION"} =>
                       issue'[n].key \in {c.key : c \in th[t].cands}
  <2>1. SyncWrite(t)
    BY <1>1, CommitsOnly DEF vars
  <2>2. PICK r : r = th[t]
    OBVIOUS
  <2>3. r.pc = "write" /\ Seen(r) /\ Picked(r) /\ r.job \in Jobs
    BY <1>1, <2>2 DEF IInv, Writing, ThreadsOK, InPhase
  <2>4. \E at : Wrote(r, at)
    <3>1. Abandon(r).pc = "notice"
      BY DEF Abandon, At
    <3>2. ~Set(t, Abandon(r))
      BY <1>1, <3>1 DEF Set, IInv, ThreadsOK
    <3> QED
      BY <1>1, <2>1, <2>2, <3>2, SyncWriteCases
  <2>5. PICK at : Wrote(r, at)
    BY <2>4
  <2>6. ASSUME NEW k \in KeysOf(r)
        PROVE  \E n \in Ids : /\ issue'[n] # None /\ issue'[n].task = r.job
                              /\ issue'[n].found = CandOf(r, k).found
    <3>1. CandOf(r, k) \in Cand /\ IsFiniteSet(CandOf(r, k).found)
      BY <1>1, <2>2, <2>3, CandOfTyped
    <3>2. CASE k \in Fresh(r)
      <4>1. issue'[at[k]] = NewRow(r.job, CandOf(r, k)) /\ at[k] \in nextId..(nextId' - 1)
        BY <2>5, <3>2 DEF Wrote
      <4>2. at[k] \in Ids
        <5>1. nextId \in Nat /\ nextId >= 1 /\ MaxIssues \in Nat
          BY <1>1, ConstantsAssumption DEF IInv, DataOK
        <5>2. nextId' \in 1..(MaxIssues + 1)
          BY <1>1, <2>2, <2>5, WroteTyped
        <5> QED
          BY <4>1, <5>1, <5>2 DEF Ids
      <4>3. /\ NewRow(r.job, CandOf(r, k)) \in Row
            /\ NewRow(r.job, CandOf(r, k)).task = r.job
            /\ NewRow(r.job, CandOf(r, k)).found = CandOf(r, k).found
        BY <2>3, <3>1, NewRowTyped
      <4> QED
        BY <4>1, <4>2, <4>3, NullIsNoRow
    <3>3. CASE k \in KeysOf(r) \ Fresh(r)
      <4>1. r.pick[k] \in Ids /\ (issue[r.pick[k]] # None => issue[r.pick[k]].key = k)
        BY <2>3, <3>3 DEF Picked, KeysOf, Fresh
      <4>2. PICK l \in KeysOf(r) \ Fresh(r) :
              /\ r.pick[l] = r.pick[k] /\ issue[r.pick[k]] # None
              /\ issue'[r.pick[k]] = Refound(issue[r.pick[k]], r.job, CandOf(r, l), r.old[l], r.status)
        BY <2>5, <3>3 DEF Wrote, Updates
      <4>3. l = k
        BY <2>3, <4>1, <4>2 DEF Picked, KeysOf, Fresh
      <4>4. r.old[k] \in Row
        BY <2>3, <3>3 DEF Picked, KeysOf, Fresh
      <4>5. issue[r.pick[k]] \in Row
        BY <1>1, <4>1, <4>2 DEF IInv, DataOK
      <4>6. /\ issue'[r.pick[k]] \in Row /\ issue'[r.pick[k]].task = r.job
            /\ issue'[r.pick[k]].found = CandOf(r, k).found
        BY <2>3, <3>1, <4>2, <4>3, <4>4, <4>5, RefoundTyped
      <4> QED
        BY <4>1, <4>6, NullIsNoRow
    <3> QED
      BY <3>2, <3>3
  <2>7. ASSUME NEW i \in Having(r.job, {"FAILED"})
        PROVE  \E n \in Ids : /\ issue'[n] # None /\ issue'[n].task = r.job
                              /\ i \in {f[1] : f \in issue'[n].found}
    <3>1. PICK c \in r.cands : \E f \in c.found : f[1] = i
      BY <2>3 DEF Seen
    <3>2. c.key \in KeysOf(r)
      BY DEF KeysOf
    <3>3. CandOf(r, c.key) = c
      BY <2>3 DEF CandOf, Picked
    <3> QED
      BY <2>6, <3>1, <3>2, <3>3
  <2>8. ASSUME NEW n \in Ids, issue'[n] # None, issue'[n].task = r.job,
               issue'[n].status \in {"OPEN", "AWAITING_CONFIRMATION"}
        PROVE  issue'[n].key \in KeysOf(r)
    <3>1. CASE Inserts(r, at, n)
      <4>1. PICK k \in Fresh(r) : issue'[n] = NewRow(r.job, CandOf(r, k))
        BY <3>1 DEF Inserts
      <4>2. k \in KeysOf(r)
        BY DEF Fresh
      <4>3. CandOf(r, k).key = k
        BY <1>1, <2>2, <2>3, <4>2, CandOfTyped
      <4> QED
        BY <4>1, <4>2, <4>3 DEF NewRow
    <3>2. CASE Updates(r, n)
      <4>1. PICK k \in KeysOf(r) \ Fresh(r) :
              /\ r.pick[k] = n /\ issue[n] # None
              /\ issue'[n] = Refound(issue[n], r.job, CandOf(r, k), r.old[k], r.status)
        BY <3>2 DEF Updates
      <4>2. issue[n].key = k /\ r.old[k] \in Row /\ issue[n] \in Row
        BY <1>1, <2>3, <4>1 DEF Picked, KeysOf, Fresh, IInv, DataOK
      <4>3. CandOf(r, k) \in Cand /\ IsFiniteSet(CandOf(r, k).found)
        BY <1>1, <2>2, <2>3, CandOfTyped
      <4> QED
        BY <2>3, <4>1, <4>2, <4>3, RefoundTyped
    <3>3. CASE Resolves(r, n)
      <4>1. issue[n] \in Row
        BY <1>1, <3>3 DEF Resolves, Resolved, NoLongerDetected, ActiveOf, Rows, IInv, DataOK
      <4>2. issue'[n].status = "RESOLVED"
        BY <3>3, <4>1 DEF Resolves, Row
      <4> QED
        BY <2>8, <4>2
    <3>4. CASE n \notin Resolved(r) /\ issue'[n] = issue[n]
      BY <2>8, <3>4 DEF Resolved, NoLongerDetected, ActiveOf, ActiveStatus, Rows
    <3> QED
      BY <2>5, <3>1, <3>2, <3>3, <3>4 DEF Wrote
  <2> QED
    BY <2>2, <2>7, <2>8 DEF KeysOf
<1>2. IInv /\ [Next]_vars =>
        [\A t \in Threads : th[t].pc = "write" /\ th'[t].pc = "count" =>
           LET j == th[t].job
               issues == {n \in Ids : issue'[n] # None /\ issue'[n].task = j}
           IN /\ \A i \in Having(j, {"FAILED"}) :
                   \E n \in issues : i \in {f[1] : f \in issue'[n].found}
              /\ \A n \in issues :
                   issue'[n].status \in {"OPEN", "AWAITING_CONFIRMATION"} =>
                     issue'[n].key \in {c.key : c \in th[t].cands}]_vars
  BY <1>1
<1> QED
  BY <1>2, IssueInvariance, PTL DEF Spec, SyncExplains
=============================================================================
