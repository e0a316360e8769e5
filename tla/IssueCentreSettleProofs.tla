----------------------- MODULE IssueCentreSettleProofs -----------------------
(***************************************************************************)
(* The counters and the notices of IssueCentre are right once the          *)
(* pipelines of a job are through, and every pipeline comes to its end,    *)
(* for any jobs, items, users and bounds.                                  *)
(*                                                                         *)
(* The first are promises about a job at rest, and no step keeps a promise *)
(* of that kind by itself: while pipelines run, counters are stale and     *)
(* what a thread has read may be.  The invariant therefore says, for each  *)
(* job, who still has to repair what: either a thread owes the job a       *)
(* refresh, or what has been stored or read is right, or a thread on the   *)
(* job has the statement that writes it still before it.                   *)
(***************************************************************************)
EXTENDS IssueCentreProofs

On(t, j, pcs) == th[t].job = j /\ th[t].pc \in pcs

\* Some call has still to refresh the job from the beginning.
Owed(j) == \E t \in Threads : j \in th[t].next \/ On(t, j, {"count"})

\* The counter of the job, read or stored.
JobCounted(j) ==
  /\ \A t \in Threads : On(t, j, {"setjob"}) => th[t].count = Counted(ActiveOf(j))
  /\ (\E t \in Threads : On(t, j, {"setjob"})) \/ job[j].count = Counted(ActiveOf(j))

\* The counters of its items.
NextItem(S) == CHOOSE i \in S : TRUE
Refreshes(t, j, i) ==
  On(t, j, {"setjob"}) \/ (On(t, j, {"item", "setitem"}) /\ i \in th[t].items)
ItemsCounted(j) ==
  /\ \A t \in Threads : On(t, j, {"setitem"}) =>
        th[t].count = Counted(ActiveOfItem(NextItem(th[t].items)))
  /\ \A i \in ItemsOf(j) :
        \/ item[i].count = Counted(ActiveOfItem(i))
        \/ \E t \in Threads : Refreshes(t, j, i)

\* Its notices.
Shown(j) == {n \in Ids : notice[n] # None /\ notice[n].job = j /\ notice[n].shown}
Says(j) == ShouldExposeJobReminder(job[j].status, Counted(ActiveOf(j)))
BeforeNotices == {"load", "write", "setjob", "item", "setitem", "notice"}
NoticesRead(j) ==
  \A t \in Threads : On(t, j, {"post"}) =>
    /\ th[t].active = ActiveOf(j)
    /\ ShouldExposeJobReminder(th[t].status, th[t].count) <=> Says(j)
    /\ \A n \in ActiveOf(j) : th[t].seen[n] = None => notice[n] = None
    /\ \A n \in Shown(j) \ ActiveOf(j) : Shows(th[t].seen[n], j)
    /\ th[t].said = reminder[j]
    /\ \A u \in Threads : On(u, j, {"post"}) => u = t
NoticesShown(j) == Shown(j) = ActiveOf(j) /\ (reminder[j] = "ACTIVE" <=> Says(j))
Noticed(j) ==
  \/ \E t \in Threads : On(t, j, BeforeNotices)
  \/ /\ NoticesRead(j)
     /\ (\E t \in Threads : On(t, j, {"post"})) \/ NoticesShown(j)

Settled(j) == Owed(j) \/ (JobCounted(j) /\ ItemsCounted(j) /\ Noticed(j))
Settling == \A j \in Jobs : j \notin slips => Settled(j)

\* An issue about an item belongs to the job of the item.
RowsMine ==
  \A n \in Ids : issue[n] # None =>
    issue[n].item = None \/ JobOf[issue[n].item] = issue[n].task

\* A sync serves one job and writes issues of its items; a refresh goes through
\* the items of its job.
Mine(r) ==
  /\ r.pc \in {"load", "write"} => r.next = {}
  /\ r.pc = "write" => \A c \in r.cands : c.item = None \/ JobOf[c.item] = r.job
  /\ r.pc \in {"item", "setitem"} => r.items # {} /\ r.items \subseteq ItemsOf(r.job)
ThreadsMine == \A t \in Threads : Mine(th[t])

\* The job in hand has not ended, unless it was cancelled.
Ended == {"COMPLETED", "FAILED", "PARTIAL_SUCCESS", "CANCELED"}
HandLives == hand # None => job[hand].status \notin Ended \ {"CANCELED"}

Context == RowsMine /\ ThreadsMine /\ HandLives
SInv == IInv /\ Context /\ Settling

-----------------------------------------------------------------------------
(* What a step may do beside a job that is settled.                        *)

\* A thread stays where it is; or it works for other jobs, and may turn to this
\* one, but not forget that it owes it a refresh; or its sync goes on.
Aside(u, j) ==
  \/ th'[u] = th[u]
  \/ /\ th[u].job # j
     /\ j \in th[u].next => j \in th'[u].next \/ (th'[u].job = j /\ th'[u].pc = "count")
     /\ th'[u].job = j => th'[u].pc \in {"count", "load"}
  \/ /\ th[u].job = j /\ th[u].pc \in {"load", "write"}
     /\ th'[u].job = j /\ th'[u].pc \in {"write", "notice"}
     /\ j \in th[u].next => j \in th'[u].next

SameActive(j) ==
  /\ ActiveOf(j)' = ActiveOf(j)
  /\ \A i \in ItemsOf(j) : ActiveOfItem(i)' = ActiveOfItem(i)
SameCounts(j) ==
  /\ job'[j].count = job[j].count
  /\ \A i \in ItemsOf(j) : item'[i].count = item[i].count
NoticesStay(j) ==
  /\ Shown(j)' \subseteq Shown(j)
  /\ Shown(j) = ActiveOf(j) => Shown(j)' = ActiveOf(j)
  /\ \A n \in ActiveOf(j) : notice[n] = None => notice'[n] = None
SameNotices(j) ==
  /\ NoticesStay(j)
  /\ reminder'[j] = reminder[j]
  /\ job'[j].status = job[j].status \/ {job[j].status, job'[j].status} \cap Ended = {}
Resumes(j) == \E u \in Threads : th'[u].job = j /\ th'[u].pc \in {"load", "write", "notice"}
Beside(j) ==
  /\ \A u \in Threads : Aside(u, j)
  /\ SameActive(j) /\ SameCounts(j)
  /\ SameNotices(j) \/ Resumes(j)

LEMMA BesideSettled ==
  ASSUME ThreadsMine, NEW j \in Jobs, Settled(j), Beside(j)
  PROVE  Settled(j)'
<1>1. \A u \in Threads, pcs \in SUBSET {"setjob", "item", "setitem", "post"} :
        On(u, j, pcs) \/ (th'[u].job = j /\ th'[u].pc \in pcs) => th'[u] = th[u]
  BY DEF Beside, Aside, On
<1>2. CASE Owed(j)
  <2>1. PICK u \in Threads : j \in th[u].next \/ On(u, j, {"count"})
    BY <1>2 DEF Owed
  <2>2. j \in th'[u].next \/ (th'[u].job = j /\ th'[u].pc = "count")
    BY <2>1 DEF Beside, Aside, On
  <2> QED
    BY <2>2 DEF Settled, Owed, On
<1>3. CASE JobCounted(j) /\ ItemsCounted(j) /\ Noticed(j)
  <2>1. Counted(ActiveOf(j))' = Counted(ActiveOf(j))
    BY DEF Beside, SameActive, Counted
  <2>2. \A i \in ItemsOf(j) : Counted(ActiveOfItem(i))' = Counted(ActiveOfItem(i))
    BY DEF Beside, SameActive, Counted
  <2>3. JobCounted(j)'
    BY <1>1, <1>3, <2>1 DEF JobCounted, On, Beside, SameCounts
  <2>4. ItemsCounted(j)'
    <3>1. ASSUME NEW u \in Threads, On(u, j, {"setitem"})'
          PROVE  (th[u].count = Counted(ActiveOfItem(NextItem(th[u].items))))'
      <4>1. th'[u] = th[u] /\ On(u, j, {"setitem"})
        BY <1>1, <3>1 DEF On
      <4>2. PICK i : i = NextItem(th[u].items)
        OBVIOUS
      <4>3. i \in ItemsOf(j)
        BY <4>1, <4>2 DEF ThreadsMine, Mine, On, NextItem
      <4>4. th[u].count = Counted(ActiveOfItem(i))
        BY <1>3, <4>1, <4>2 DEF ItemsCounted
      <4>5. th'[u].count = Counted(ActiveOfItem(i))'
        BY <2>2, <4>1, <4>3, <4>4
      <4>6. i = NextItem(th'[u].items)
        BY <4>1, <4>2
      <4> QED
        BY <4>5, <4>6 DEF Counted, ActiveOfItem, Rows
    <3>2. ASSUME NEW i \in ItemsOf(j)
          PROVE  \/ item'[i].count = Counted(ActiveOfItem(i))'
                 \/ \E u \in Threads : Refreshes(u, j, i)'
      <4>1. CASE item[i].count = Counted(ActiveOfItem(i))
        BY <2>2, <4>1 DEF Beside, SameCounts
      <4>2. CASE \E u \in Threads : Refreshes(u, j, i)
        BY <1>1, <4>2 DEF Refreshes, On
      <4> QED
        BY <1>3, <4>1, <4>2 DEF ItemsCounted
    <3> QED
      BY <3>1, <3>2 DEF ItemsCounted
  <2>5. Noticed(j)'
    <3>1. CASE Resumes(j)
      BY <3>1 DEF Resumes, Noticed, On, BeforeNotices
    <3>2. CASE \E u \in Threads : On(u, j, BeforeNotices)
      <4>1. PICK u \in Threads : On(u, j, BeforeNotices)
        BY <3>2
      <4>2. th'[u].job = j /\ th'[u].pc \in BeforeNotices
        BY <4>1 DEF Beside, Aside, On, BeforeNotices
      <4> QED
        BY <4>2 DEF Noticed, On
    <3>3. CASE /\ SameNotices(j) /\ NoticesRead(j)
               /\ (\E u \in Threads : On(u, j, {"post"})) \/ NoticesShown(j)
      <4>1. Says(j)' <=> Says(j)
        BY <2>1, <3>3 DEF SameNotices, Says, ShouldExposeJobReminder, Ended
      <4>2. NoticesRead(j)'
        <5>1. ActiveOf(j)' = ActiveOf(j) /\ NoticesStay(j) /\ reminder'[j] = reminder[j]
          BY <3>3 DEF Beside, SameActive, SameNotices
        <5>2. \A u \in Threads : On(u, j, {"post"})' => th'[u] = th[u] /\ On(u, j, {"post"})
          BY <1>1 DEF On
        <5> QED
          BY <3>3, <4>1, <5>1, <5>2 DEF NoticesRead, NoticesStay
      <4>3. CASE \E u \in Threads : On(u, j, {"post"})
        BY <1>1, <4>2, <4>3 DEF Noticed, On
      <4>4. CASE NoticesShown(j)
        <5>1. NoticesShown(j)'
          BY <3>3, <4>1, <4>4 DEF NoticesShown, SameNotices, NoticesStay, Beside, SameActive
        <5> QED
          BY <4>2, <5>1 DEF Noticed
      <4> QED
        BY <3>3, <4>3, <4>4
    <3> QED
      BY <1>3, <3>1, <3>2, <3>3 DEF Noticed, Beside
  <2> QED
    BY <2>3, <2>4, <2>5 DEF Settled
<1> QED
  BY <1>2, <1>3 DEF Settled

\* A step is beside every job that is not disturbed by it, or owes it a refresh.
LEMMA BesideAll ==
  ASSUME ThreadsMine, Settling, slips \subseteq slips',
         \A j \in Jobs : j \notin slips' => Beside(j) \/ Owed(j)'
  PROVE  Settling'
<1> SUFFICES ASSUME NEW j \in Jobs, j \notin slips'
             PROVE  Settled(j)'
  BY DEF Settling
<1>1. Settled(j)
  BY DEF Settling
<1>2. CASE Beside(j)
  BY <1>1, <1>2, BesideSettled
<1>3. CASE Owed(j)'
  BY <1>3 DEF Settled
<1> QED
  BY <1>2, <1>3

-----------------------------------------------------------------------------
(* Threads.                                                                *)

LEMMA Moved ==
  ASSUME IInv, NEW t \in Threads, NEW r, Set(t, r)
  PROVE  th'[t] = r /\ \A u \in Threads : u # t => th'[u] = th[u]
BY DEF Set, IInv, ThreadsOK

LEMMA MineAt ==
  ASSUME NEW pc, pc \notin {"write", "item", "setitem"},
         NEW j, NEW left, NEW next, NEW retry, pc = "load" => next = {}
  PROVE  LET r == At(pc, j, left, next, retry)
         IN Mine(r) /\ r.pc = pc /\ r.job = j /\ r.next = next
BY DEF At, Mine

LEMMA MineIdle == Mine(Idle) /\ Idle.pc = "idle" /\ Idle.job = None /\ Idle.next = {}
BY MineAt DEF Idle

LEMMA MineAbandon ==
  ASSUME NEW r
  PROVE  /\ Mine(Abandon(r)) /\ Abandon(r).pc = "notice"
         /\ Abandon(r).job = r.job /\ Abandon(r).next = r.next
BY MineAt DEF Abandon

\* After its notices a thread goes to them again, or to the rest of its call.
LEMMA MineAfterNotices ==
  ASSUME NEW r
  PROVE  LET q == AfterNotices(r)
         IN /\ Mine(q) /\ q.next = r.next
            /\ \/ q.pc = "notice" /\ q.job = r.job
               \/ q.pc \in {"idle", "next"} /\ q.job = None
<1>1. CASE r.left > 1
  BY <1>1, MineAt DEF AfterNotices
<1>2. CASE ~(r.left > 1) /\ (r.next # {} \/ r.retry # {})
  BY <1>2, MineAt DEF AfterNotices, Return
<1>3. CASE ~(r.left > 1) /\ r.next = {} /\ r.retry = {}
  BY <1>3, MineIdle DEF AfterNotices, Return
<1> QED
  BY <1>1, <1>2, <1>3

LEMMA ThreadsMineStays ==
  ASSUME IInv, ThreadsMine, NEW t \in Threads, NEW r, Set(t, r), Mine(r)
  PROVE  ThreadsMine'
<1>1. \A u \in Threads : Mine(th'[u])
  BY Moved DEF ThreadsMine
<1> QED
  BY <1>1 DEF ThreadsMine, Mine

\* A step of the pipelines: no status moves, nor the worker.
LEMMA ContextStays ==
  ASSUME SInv, UNCHANGED <<issue, worker>>, \A j \in Jobs : job'[j].status = job[j].status,
         NEW t \in Threads, NEW r, Set(t, r), Mine(r)
  PROVE  Context'
<1>1. ThreadsMine'
  BY ThreadsMineStays DEF SInv, Context
<1>2. HandLives'
  BY DEF SInv, Context, HandLives, IInv, WorkerOK, worker
<1> QED
  BY <1>1, <1>2 DEF SInv, Context, RowsMine

LEMMA SameIssuesActive ==
  ASSUME UNCHANGED issue
  PROVE  \A j \in Jobs : SameActive(j)
BY DEF SameActive, ActiveOf, ActiveOfItem, Rows

LEMMA SameNoticesStay ==
  ASSUME UNCHANGED <<issue, notice, reminder>>, NEW j \in Jobs,
         job'[j].status = job[j].status \/ {job[j].status, job'[j].status} \cap Ended = {}
  PROVE  SameNotices(j)
BY DEF SameNotices, NoticesStay, Shown

-----------------------------------------------------------------------------
(* The engine.                                                             *)

\* A transaction of the engine or of a control touches no counter, and either
\* starts a pipeline or announces and withdraws no end of the job.
LEMMA EngineMoves ==
  ASSUME SInv, NEW t \in Threads, NEW k \in Jobs, NEW retry,
         UNCHANGED <<issue, notice, reminder>>, slips \subseteq slips',
         \A j \in Jobs : job'[j].count = job[j].count,
         \A i \in Items : item'[i].count = item[i].count,
         \A j \in Jobs \ {k} : job'[j].status = job[j].status,
         \/ /\ th' = th
            /\ \/ k \in slips'
               \/ job'[k].status = job[k].status
               \/ {job[k].status, job'[k].status} \cap Ended = {}
         \/ /\ th[t].job = None /\ th[t].next = {}
            /\ Set(t, At("load", k, 0, {}, retry))
  PROVE  Settling' /\ ThreadsMine' /\ RowsMine'
<1>1. RowsMine'
  BY DEF SInv, Context, RowsMine
<1>2. \A j \in Jobs : SameActive(j) /\ SameCounts(j)
  BY SameIssuesActive DEF SameCounts, ItemsOf
<1>3. CASE /\ th' = th
           /\ \/ k \in slips'
              \/ job'[k].status = job[k].status
              \/ {job[k].status, job'[k].status} \cap Ended = {}
  <2>1. ThreadsMine'
    BY <1>3 DEF SInv, Context, ThreadsMine, Mine
  <2>2. \A j \in Jobs : j \notin slips' => Beside(j)
    BY <1>2, <1>3, SameNoticesStay DEF Beside, Aside
  <2> QED
    BY <1>1, <2>1, <2>2, BesideAll DEF SInv, Context
<1>4. CASE /\ th[t].job = None /\ th[t].next = {}
           /\ Set(t, At("load", k, 0, {}, retry))
  <2> DEFINE r == At("load", k, 0, {}, retry)
  <2>1. Mine(r) /\ r.pc = "load" /\ r.job = k /\ r.next = {}
    BY MineAt
  <2>2. Set(t, r)
    BY <1>4
  <2> HIDE DEF r
  <2>3. th'[t] = r /\ \A u \in Threads : u # t => th'[u] = th[u]
    BY <2>2, Moved DEF SInv
  <2>4. ThreadsMine'
    BY <2>1, <2>2, ThreadsMineStays DEF SInv, Context
  <2>5. ASSUME NEW j \in Jobs
        PROVE  Beside(j)
    <3>1. th[t].job # j
      BY <1>4, ConstantsAssumption
    <3>2. \A u \in Threads : Aside(u, j)
      BY <1>4, <2>1, <2>3, <3>1 DEF Aside
    <3>3. SameNotices(j) \/ Resumes(j)
      BY <2>1, <2>3, SameNoticesStay DEF Resumes
    <3> QED
      BY <1>2, <3>2, <3>3 DEF Beside
  <2> QED
    BY <1>1, <2>4, <2>5, BesideAll DEF SInv, Context
<1> QED
  BY <1>3, <1>4

LEMMA SetJobKeeps ==
  ASSUME IInv, NEW j \in Jobs, NEW status, NEW err, SetJob(j, status, err)
  PROVE  /\ job'[j].status = status
         /\ \A k \in Jobs : job'[k].count = job[k].count
         /\ \A k \in Jobs \ {j} : job'[k].status = job[k].status
BY DEF SetJob, IInv, DataOK, JobType

LEMMA SetItemKeeps ==
  ASSUME IInv, NEW i \in Items, NEW status, NEW err, SetItem(i, status, err)
  PROVE  \A k \in Items : item'[k].count = item[k].count
BY DEF SetItem, IInv, DataOK, ItemType

LEMMA CanceledKeeps ==
  ASSUME IInv, NEW j \in Jobs, item' = Canceled(j)
  PROVE  \A k \in Items : item'[k].count = item[k].count
BY DEF Canceled, IInv, DataOK, ItemType

LEMMA WorkerAtRest ==
  ASSUME IInv, WorkerIdle
  PROVE  Worker \in Threads /\ th[Worker].job = None /\ th[Worker].next = {}
BY DEF IInv, ThreadsOK, InPhase, WorkerIdle, Threads

LEMMA ClaimSettles ==
  ASSUME SInv, NEW j \in Jobs, Claim(j)
  PROVE  Context' /\ Settling'
<1>1. SetJob(j, "RUNNING", job[j].err)
  BY DEF Claim
<1>2. /\ job'[j].status = "RUNNING"
      /\ \A k \in Jobs : job'[k].count = job[k].count
      /\ \A k \in Jobs \ {j} : job'[k].status = job[k].status
  BY <1>1, SetJobKeeps DEF SInv
<1>3. {job[j].status, job'[j].status} \cap Ended = {}
  BY <1>2 DEF Claim, Ended
<1>4. HandLives'
  BY <1>2 DEF Claim, HandLives, Ended
<1>5. UNCHANGED <<item, issue, notice, reminder, th, slips>> /\ Worker \in Threads
  BY DEF Claim, Threads
<1>6. Settling' /\ ThreadsMine' /\ RowsMine'
  BY <1>2, <1>3, <1>5, EngineMoves
<1> QED
  BY <1>4, <1>6 DEF Context

LEMMA StartItemSettles ==
  ASSUME SInv, NEW i \in Items, StartItem(i)
  PROVE  Context' /\ Settling'
<1>1. hand \in Jobs /\ Worker \in Threads
  BY DEF StartItem, SInv, IInv, WorkerOK, Threads
<1>2. /\ SetItem(i, "RUNNING", item[i].err)
      /\ UNCHANGED <<job, issue, notice, reminder, hand, th, slips>>
  BY DEF StartItem
<1>3. \A k \in Items : item'[k].count = item[k].count
  BY <1>2, SetItemKeeps DEF SInv
<1>4. Settling' /\ ThreadsMine' /\ RowsMine'
  BY <1>1, <1>2, <1>3, EngineMoves
<1> QED
  BY <1>2, <1>4 DEF Context, SInv, HandLives

\* The executor returns, and a pipeline starts.
LEMMA FinishSettles ==
  ASSUME SInv, NEW i \in Items, Finish(i), NEW status, NEW err, SetItem(i, status, err),
         Set(Worker, Sync(hand)), UNCHANGED <<job, slips>>
  PROVE  Context' /\ Settling'
<1>1. hand \in Jobs /\ UNCHANGED <<issue, notice, reminder, hand>>
  BY FinishesMine DEF SInv
<1>2. \A k \in Items : item'[k].count = item[k].count
  BY SetItemKeeps DEF SInv
<1>3. Worker \in Threads /\ th[Worker].job = None /\ th[Worker].next = {}
  BY WorkerAtRest DEF Finish, SInv
<1>4. Settling' /\ ThreadsMine' /\ RowsMine'
  BY <1>1, <1>2, <1>3, EngineMoves DEF Sync
<1> QED
  BY <1>1, <1>4 DEF Context, SInv, HandLives

LEMMA ItemCompletesSettles ==
  ASSUME SInv, NEW i \in Items, ItemCompletes(i)
  PROVE  Context' /\ Settling'
BY FinishSettles DEF ItemCompletes

LEMMA ItemFailsSettles ==
  ASSUME SInv, NEW i \in Items, NEW m \in Messages, ItemFails(i, m)
  PROVE  Context' /\ Settling'
BY FinishSettles DEF ItemFails

\* An automatic retry starts no pipeline: the job had not ended, or it had been
\* cancelled, and the disturbance is on record.
LEMMA ItemIsDeferredSettles ==
  ASSUME SInv, NEW i \in Items, NEW m \in Messages, ItemIsDeferred(i, m)
  PROVE  Context' /\ Settling'
<1>1. hand \in Jobs /\ UNCHANGED <<issue, notice, reminder, hand>> /\ hand # None
  BY FinishesMine, ConstantsAssumption DEF SInv, ItemIsDeferred
<1>2. \A k \in Items : item'[k].count = item[k].count
  BY SetItemKeeps DEF SInv, ItemIsDeferred
<1>3. SetJob(hand, "WAITING_RETRY", Executing(m)) /\ UNCHANGED th
  BY DEF ItemIsDeferred
<1>4. /\ job'[hand].status = "WAITING_RETRY"
      /\ \A k \in Jobs : job'[k].count = job[k].count
      /\ \A k \in Jobs \ {hand} : job'[k].status = job[k].status
  BY <1>1, <1>3, SetJobKeeps DEF SInv
<1>5. slips \subseteq slips'
  BY DEF ItemIsDeferred
<1>6. hand \in slips' \/ {job[hand].status, job'[hand].status} \cap Ended = {}
  BY <1>1, <1>4 DEF ItemIsDeferred, SInv, Context, HandLives, Ended
<1>7. Worker \in Threads
  BY DEF Threads
<1>8. Settling' /\ ThreadsMine' /\ RowsMine'
  BY <1>1, <1>2, <1>3, <1>4, <1>5, <1>6, <1>7, EngineMoves
<1>9. HandLives'
  BY <1>1, <1>4 DEF HandLives, Ended
<1> QED
  BY <1>8, <1>9 DEF Context

LEMMA ItemIsInterruptedSettles ==
  ASSUME SInv, NEW i \in Items, ItemIsInterrupted(i)
  PROVE  Context' /\ Settling'
<1>1. UNCHANGED <<job, item, issue, notice, reminder, th, slips>>
  BY DEF ItemIsInterrupted, database
<1>2. hand' = hand \/ hand' = None
  BY DEF ItemIsInterrupted, LetGo
<1>3. ThreadsMine' /\ RowsMine' /\ HandLives'
  BY <1>1, <1>2 DEF SInv, Context, ThreadsMine, Mine, RowsMine, HandLives
<1>4. \A j \in Jobs : Beside(j)
  BY <1>1, SameIssuesActive, SameNoticesStay DEF Beside, Aside, SameCounts
<1> QED
  BY <1>1, <1>3, <1>4, BesideAll DEF Context, SInv

LEMMA CancelPendingItemsSettles ==
  ASSUME SInv, CancelPendingItems
  PROVE  Context' /\ Settling'
<1>1. hand \in Jobs /\ Worker \in Threads
  BY DEF CancelPendingItems, SInv, IInv, WorkerOK, Threads
<1>2. \A k \in Items : item'[k].count = item[k].count
  BY <1>1, CanceledKeeps DEF CancelPendingItems, SInv
<1>3. UNCHANGED <<job, issue, notice, reminder, th, slips>> /\ hand' = None
  BY DEF CancelPendingItems, LetGo
<1>4. Settling' /\ ThreadsMine' /\ RowsMine'
  BY <1>1, <1>2, <1>3, EngineMoves
<1> QED
  BY <1>3, <1>4 DEF Context, HandLives

LEMMA FinalizeJobSettles ==
  ASSUME SInv, FinalizeJob
  PROVE  Context' /\ Settling'
<1>1. hand \in Jobs /\ hand # None
  BY ConstantsAssumption DEF FinalizeJob, SInv, IInv, WorkerOK
<1>2. UNCHANGED <<issue, notice, reminder, slips>> /\ hand' = None
  BY DEF FinalizeJob, LetGo
<1>3. Worker \in Threads /\ th[Worker].job = None /\ th[Worker].next = {}
  BY WorkerAtRest DEF FinalizeJob, SInv
<1>4. \A k \in Items : item'[k].count = item[k].count
  BY <1>1, CanceledKeeps DEF FinalizeJob, SInv
<1>5. CASE UNCHANGED <<job, th>>
  BY <1>1, <1>2, <1>3, <1>4, <1>5, EngineMoves DEF Context, HandLives
<1>6. CASE /\ job[hand].status # "CANCELED"
           /\ SetJob(hand, Verdict(hand), job[hand].err)
           /\ IF Verdict(hand) = "WAITING_RETRY" THEN UNCHANGED th ELSE Set(Worker, Sync(hand))
  <2>1. /\ job'[hand].status = Verdict(hand)
        /\ \A k \in Jobs : job'[k].count = job[k].count
        /\ \A k \in Jobs \ {hand} : job'[k].status = job[k].status
    BY <1>1, <1>6, SetJobKeeps DEF SInv
  <2>2. job[hand].status \notin Ended
    BY <1>1, <1>6 DEF SInv, Context, HandLives
  <2>3. CASE Verdict(hand) = "WAITING_RETRY"
    <3>1. {job[hand].status, job'[hand].status} \cap Ended = {}
      BY <2>1, <2>2, <2>3 DEF Ended
    <3> QED
      BY <1>1, <1>2, <1>3, <1>4, <1>6, <2>1, <2>3, <3>1, EngineMoves DEF Context, HandLives
  <2>4. CASE Verdict(hand) # "WAITING_RETRY"
    <3>1. Set(Worker, At("load", hand, 0, {}, {}))
      BY <1>6, <2>4 DEF Sync
    <3> QED
      BY <1>1, <1>2, <1>3, <1>4, <2>1, <3>1, EngineMoves DEF Context, HandLives
  <2> QED
    BY <2>3, <2>4
<1> QED
  BY <1>5, <1>6 DEF FinalizeJob

LEMMA JobFailsSettles ==
  ASSUME SInv, NEW m \in Messages, JobFails(m)
  PROVE  Context' /\ Settling'
<1>1. hand \in Jobs
  BY DEF JobFails, SInv, IInv, WorkerOK
<1>2. UNCHANGED <<item, issue, notice, reminder, slips>> /\ hand' = None
  BY DEF JobFails, LetGo
<1>3. Worker \in Threads /\ th[Worker].job = None /\ th[Worker].next = {}
  BY WorkerAtRest DEF JobFails, SInv
<1>4. SetJob(hand, "FAILED", Failing(m)) /\ Set(Worker, At("load", hand, 0, {}, {}))
  BY DEF JobFails, Sync
<1>5. /\ \A k \in Jobs : job'[k].count = job[k].count
      /\ \A k \in Jobs \ {hand} : job'[k].status = job[k].status
  BY <1>1, <1>4, SetJobKeeps DEF SInv
<1>6. Settling' /\ ThreadsMine' /\ RowsMine'
  BY <1>1, <1>2, <1>3, <1>4, <1>5, EngineMoves
<1> QED
  BY <1>2, <1>6 DEF Context, HandLives

-----------------------------------------------------------------------------
(* The controls, what users do to issues, the crash and failing statements. *)

LEMMA CancelJobSettles ==
  ASSUME SInv, NEW u \in Users, NEW j \in Jobs, CancelJob(u, j)
  PROVE  Context' /\ Settling'
<1>1. u \in Threads /\ th[u].job = None /\ th[u].next = {}
  BY DEF CancelJob, Call, SInv, IInv, ThreadsOK, InPhase, Threads
<1>2. SetJob(j, "CANCELED", job[j].err) /\ Set(u, At("load", j, 0, {}, {}))
  BY DEF CancelJob, Sync
<1>3. UNCHANGED <<issue, notice, reminder, hand, slips>>
  BY DEF CancelJob, worker
<1>4. /\ job'[j].status = "CANCELED"
      /\ \A k \in Jobs : job'[k].count = job[k].count
      /\ \A k \in Jobs \ {j} : job'[k].status = job[k].status
  BY <1>2, SetJobKeeps DEF SInv
<1>5. \A i \in Items : item'[i].count = item[i].count
  BY CanceledKeeps DEF CancelJob, SInv
<1>6. Settling' /\ ThreadsMine' /\ RowsMine'
  BY <1>1, <1>2, <1>3, <1>4, <1>5, EngineMoves
<1>7. HandLives'
  BY <1>3, <1>4 DEF SInv, Context, HandLives, IInv, WorkerOK
<1> QED
  BY <1>6, <1>7 DEF Context

LEMMA RequestRetrySettles ==
  ASSUME SInv, NEW u \in Users, NEW j \in Jobs, RequestRetry(u, j)
  PROVE  Context' /\ Settling'
<1> DEFINE r == At("next", None, 0, {}, {j})
<1>1. u \in Threads /\ th[u].job = None /\ th[u].next = {}
  BY DEF RequestRetry, Call, SInv, IInv, ThreadsOK, InPhase, Threads
<1>2. Mine(r) /\ r.pc = "next" /\ r.job = None /\ r.next = {}
  BY MineAt
<1>3. Set(u, r) /\ UNCHANGED <<job, item, issue, notice, reminder, worker, slips>>
  BY DEF RequestRetry, database
<1> HIDE DEF r
<1>4. th'[u] = r /\ \A v \in Threads : v # u => th'[v] = th[v]
  BY <1>1, <1>3, Moved DEF SInv
<1>5. Context'
  BY <1>1, <1>2, <1>3, ContextStays
<1>6. \A k \in Jobs, v \in Threads : Aside(v, k)
  BY <1>1, <1>2, <1>4, ConstantsAssumption DEF Aside
<1>7. \A k \in Jobs : Beside(k)
  BY <1>3, <1>6, SameIssuesActive, SameNoticesStay DEF Beside, SameCounts
<1> QED
  BY <1>3, <1>5, <1>7, BesideAll DEF SInv, Context

LEMMA RetryJobSettles ==
  ASSUME SInv, NEW u \in Threads, NEW j \in Jobs, RetryJob(u, j)
  PROVE  Context' /\ Settling'
<1>1. th[u].job = None /\ th[u].next = {}
  BY DEF RetryJob, SInv, IInv, ThreadsOK, InPhase
<1>2. UNCHANGED <<issue, notice, reminder, worker, slips>>
  BY DEF RetryJob
<1>3. CASE job[j].status \in {"FAILED", "PARTIAL_SUCCESS", "CANCELED"}
  <2>1. SetJob(j, "WAITING_RETRY", None) /\ Set(u, At("load", j, 0, {}, th[u].retry \ {j}))
    BY <1>3 DEF RetryJob
  <2>2. item' = [i \in Items |->
                   IF JobOf[i] # j THEN item[i]
                   ELSE [item[i] EXCEPT !.err = None,
                           !.status = IF @ = "COMPLETED" THEN @ ELSE "WAITING_RETRY"]]
    BY <1>3 DEF RetryJob
  <2>3. \A i \in Items : item[i] \in ItemType
    BY DEF SInv, IInv, DataOK
  <2>4. \A i \in Items : item'[i].count = item[i].count
    BY <2>2, <2>3 DEF ItemType
  <2>5. /\ job'[j].status = "WAITING_RETRY"
        /\ \A k \in Jobs : job'[k].count = job[k].count
        /\ \A k \in Jobs \ {j} : job'[k].status = job[k].status
    BY <2>1, SetJobKeeps DEF SInv
  <2>6. Settling' /\ ThreadsMine' /\ RowsMine'
    BY <1>1, <1>2, <2>1, <2>4, <2>5, EngineMoves
  <2>7. HandLives'
    BY <1>2, <2>5 DEF SInv, Context, HandLives, IInv, WorkerOK, worker, Ended
  <2> QED
    BY <2>6, <2>7 DEF Context
<1>4. CASE job[j].status \notin {"FAILED", "PARTIAL_SUCCESS", "CANCELED"}
  <2>1. Set(u, Idle) /\ UNCHANGED <<job, item>>
    BY <1>4 DEF RetryJob
  <2>2. th'[u] = Idle /\ \A v \in Threads : v # u => th'[v] = th[v]
    BY <2>1, Moved DEF SInv
  <2>3. Context'
    BY <1>2, <2>1, MineIdle, ContextStays
  <2>4. \A k \in Jobs, v \in Threads : Aside(v, k)
    BY <1>1, <2>2, MineIdle, ConstantsAssumption DEF Aside
  <2>5. \A k \in Jobs : Beside(k)
    BY <1>2, <2>1, <2>4, SameIssuesActive, SameNoticesStay DEF Beside, SameCounts
  <2> QED
    BY <1>2, <2>3, <2>5, BesideAll DEF SInv, Context
<1> QED
  BY <1>3, <1>4

\* The rows of a job stay; by RowsMine those of its items are among them.
RowsStay(j) ==
  \A n \in Ids : \/ issue'[n] = issue[n]
                 \/ /\ issue[n] # None => issue[n].task # j
                    /\ issue'[n] # None => issue'[n].task # j

LEMMA RowsStayActive ==
  ASSUME RowsMine, RowsMine', NEW j \in Jobs, RowsStay(j)
  PROVE  SameActive(j)
<1>1. ActiveOf(j)' = ActiveOf(j)
  BY DEF RowsStay, ActiveOf, Rows
<1>2. ASSUME NEW i \in ItemsOf(j)
      PROVE  ActiveOfItem(i)' = ActiveOfItem(i)
  <2>1. i # None /\ JobOf[i] = j
    BY ConstantsAssumption DEF ItemsOf
  <2>2. \A n \in Ids : /\ issue[n] # None /\ issue[n].item = i => issue[n].task = j
                       /\ issue'[n] # None /\ issue'[n].item = i => issue'[n].task = j
    BY <2>1 DEF RowsMine
  <2> QED
    BY <2>2 DEF RowsStay, ActiveOfItem, Rows
<1> QED
  BY <1>1, <1>2 DEF SameActive

\* A call that moves or deletes issues owes a refresh to each of their jobs.
LEMMA CallSettles ==
  ASSUME SInv, NEW u \in Threads, th[u].job = None, th[u].next = {},
         NEW tasks \in SUBSET Jobs, NEW retry, Set(u, At("next", None, 0, tasks, retry)),
         UNCHANGED <<job, item, reminder, worker, slips>>, RowsMine',
         \A j \in Jobs \ tasks : RowsStay(j) /\ NoticesStay(j)
  PROVE  Context' /\ Settling'
<1> DEFINE r == At("next", None, 0, tasks, retry)
<1>1. Mine(r) /\ r.pc = "next" /\ r.job = None /\ r.next = tasks
  BY MineAt
<1>2. Set(u, r)
  OBVIOUS
<1> HIDE DEF r
<1>3. th'[u] = r /\ \A v \in Threads : v # u => th'[v] = th[v]
  BY <1>2, Moved DEF SInv
<1>4. ThreadsMine' /\ HandLives'
  BY <1>1, <1>2, ThreadsMineStays DEF SInv, Context, HandLives, worker
<1>5. \A j \in tasks : Owed(j)'
  BY <1>1, <1>3 DEF Owed
<1>6. ASSUME NEW j \in Jobs \ tasks
      PROVE  Beside(j)
  <2>1. \A v \in Threads : Aside(v, j)
    BY <1>1, <1>3, ConstantsAssumption DEF Aside
  <2>2. SameActive(j)
    BY RowsStayActive DEF SInv, Context
  <2>3. SameNotices(j)
    BY <2>2 DEF SameNotices
  <2> QED
    BY <2>1, <2>2, <2>3 DEF Beside, SameCounts
<1> QED
  BY <1>4, <1>5, <1>6, BesideAll DEF SInv, Context

LEMMA ApplyActionSettles ==
  ASSUME SInv, NEW u \in Users, NEW action \in DOMAIN Outcome, NEW S \in SUBSET Rows,
         ApplyAction(u, action, S)
  PROVE  Context' /\ Settling'
<1> DEFINE tasks == {issue[n].task : n \in S}
           more == IF action = "retry" THEN tasks ELSE {}
<1>1. u \in Threads /\ th[u].job = None /\ th[u].next = {}
  BY DEF ApplyAction, Call, SInv, IInv, ThreadsOK, InPhase, Threads
<1>2. \A n \in Rows : n \in Ids /\ issue[n] \in Row
  BY DEF Rows, SInv, IInv, DataOK
<1>3. tasks \in SUBSET Jobs
  BY <1>2 DEF Row
<1>4. /\ issue' = [n \in Ids |-> IF n \in S THEN [issue[n] EXCEPT !.status = Outcome[action]]
                                 ELSE issue[n]]
      /\ Set(u, At("next", None, 0, tasks, more))
      /\ UNCHANGED <<job, item, notice, reminder, worker, slips>>
  BY DEF ApplyAction
<1>5. \A n \in Ids : \/ issue'[n] = issue[n]
                     \/ /\ n \in S /\ issue[n] # None
                        /\ issue'[n].task = issue[n].task /\ issue'[n].item = issue[n].item
  BY <1>2, <1>4 DEF Rows, Row
<1>6. RowsMine'
  BY <1>5 DEF RowsMine, SInv, Context
<1>7. \A j \in Jobs \ tasks : RowsStay(j)
  BY <1>5 DEF RowsStay
<1>8. \A j \in Jobs : NoticesStay(j)
  BY <1>4 DEF NoticesStay, Shown
<1> HIDE DEF tasks, more
<1> QED
  BY <1>1, <1>3, <1>4, <1>6, <1>7, <1>8, CallSettles

\* Only closed issues are deleted, so a job whose notices were right keeps them.
LEMMA ClearHistorySettles ==
  ASSUME SInv, NEW u \in Users, NEW S \in SUBSET Rows, ClearHistory(u, S)
  PROVE  Context' /\ Settling'
<1> DEFINE cleared == {n \in S : issue[n].status \in HistoricalStatus}
           tasks == {issue[n].task : n \in cleared}
<1>1. u \in Threads /\ th[u].job = None /\ th[u].next = {}
  BY DEF ClearHistory, SInv, IInv, ThreadsOK, InPhase, Threads
<1>2. \A n \in cleared : n \in Ids /\ issue[n] # None /\ issue[n] \in Row
  BY DEF Rows, SInv, IInv, DataOK
<1>3. tasks \in SUBSET Jobs
  BY <1>2 DEF Row
<1>4. /\ issue' = [n \in Ids |-> IF n \in cleared THEN None ELSE issue[n]]
      /\ notice' = [n \in Ids |-> IF n \in cleared THEN None ELSE notice[n]]
      /\ Set(u, At("next", None, 0, tasks, {}))
      /\ UNCHANGED <<job, item, reminder, worker, slips>>
  BY DEF ClearHistory
<1>5. \A j \in Jobs : cleared \cap ActiveOf(j) = {}
  BY DEF ActiveOf, ActiveStatus, HistoricalStatus
<1>6. \A j \in Jobs \ tasks : RowsStay(j)
  BY <1>2, <1>4 DEF RowsStay
<1> HIDE DEF cleared
<1>7. RowsMine'
  BY <1>4 DEF RowsMine, SInv, Context
<1>8. ASSUME NEW j \in Jobs
      PROVE  NoticesStay(j)
  <2>1. \A n \in Ids : notice'[n] = IF n \in cleared THEN None ELSE notice[n]
    BY <1>4
  <2>2. Shown(j)' \subseteq Shown(j)
    BY <2>1 DEF Shown
  <2>3. \A n \in ActiveOf(j) : notice'[n] = notice[n]
    BY <1>5, <2>1 DEF ActiveOf, Rows
  <2> QED
    BY <2>2, <2>3 DEF NoticesStay, Shown
<1> HIDE DEF tasks
<1> QED
  BY <1>1, <1>3, <1>4, <1>6, <1>7, <1>8, CallSettles

\* Whatever a crash leaves unfinished is on record.
LEMMA CrashSettles ==
  ASSUME SInv, Crash
  PROVE  Context' /\ Settling'
<1>1. UNCHANGED <<issue, notice, reminder>> /\ hand' = None /\ slips \subseteq slips'
  BY DEF Crash, LetGo
<1>2. \A t \in Threads : th'[t] = Idle
  BY DEF Crash
<1>3. Context'
  BY <1>1, <1>2, MineIdle DEF SInv, Context, RowsMine, ThreadsMine, Mine, HandLives
<1>4. \A j \in Jobs : /\ job'[j].count = job[j].count
                      /\ \/ job'[j].status = job[j].status
                         \/ {job[j].status, job'[j].status} \cap Ended = {}
  BY DEF Crash, SInv, IInv, DataOK, JobType, Ended
<1>5. \A i \in Items : item'[i].count = item[i].count
  BY DEF Crash, SInv, IInv, DataOK, ItemType
<1>6. ASSUME NEW j \in Jobs, j \notin slips'
      PROVE  Beside(j)
  <2>1. \A t \in Threads : j \notin Pending(t)
    BY <1>6 DEF Crash
  <2>2. \A t \in Threads : th[t].job # j /\ j \notin th[t].next
    BY <2>1, ConstantsAssumption DEF Pending
  <2>3. \A t \in Threads : Aside(t, j)
    BY <1>2, <2>2, MineIdle, ConstantsAssumption DEF Aside
  <2> QED
    BY <1>1, <1>4, <1>5, <2>3, SameIssuesActive, SameNoticesStay
       DEF Beside, SameCounts, ItemsOf
<1> QED
  BY <1>1, <1>3, <1>6, BesideAll DEF SInv, Context

LEMMA FaultSettles ==
  ASSUME SInv, NEW t \in Threads, Fault(t)
  PROVE  Context' /\ Settling'
<1>1. UNCHANGED <<job, item, issue, notice, reminder, worker>> /\ slips \subseteq slips'
  BY DEF Fault, database
<1>2. SUFFICES ASSUME NEW r, Set(t, r), Mine(r),
                      \A j \in Jobs : j \notin slips' => Aside(t, j)
               PROVE  Context' /\ Settling'
  <2>1. PICK q : q = th[t]
    OBVIOUS
  <2>2. CASE q.pc \in {"load", "write"}
    <3>1. Set(t, Abandon(q))
      BY <2>1, <2>2 DEF Fault
    <3>2. th'[t] = Abandon(q)
      BY <3>1, Moved DEF SInv
    <3>3. \A j \in Jobs : Aside(t, j)
      BY <2>1, <2>2, <3>2, MineAbandon DEF Aside
    <3> QED
      BY <1>2, <3>1, <3>3, MineAbandon
  <2>3. CASE q.pc \in {"count", "setjob", "item", "setitem"} /\ q.left = 2
    <3>1. Set(t, Abandon(q)) /\ q.job \in slips'
      BY <2>1, <2>3 DEF Fault
    <3>2. th'[t] = Abandon(q)
      BY <3>1, Moved DEF SInv
    <3>3. \A j \in Jobs : j \notin slips' => Aside(t, j)
      BY <2>1, <3>1, <3>2, MineAbandon DEF Aside
    <3> QED
      BY <1>2, <3>1, <3>3, MineAbandon
  <2>4. CASE q.pc \in {"count", "setjob", "item", "setitem"} /\ q.left # 2
    <3>1. Set(t, Idle) /\ q.job \in slips' /\ q.next \subseteq slips'
      BY <2>1, <2>4 DEF Fault
    <3>2. th'[t] = Idle
      BY <3>1, Moved DEF SInv
    <3>3. \A j \in Jobs : j \notin slips' => Aside(t, j)
      BY <2>1, <3>1, <3>2, MineIdle, ConstantsAssumption DEF Aside
    <3> QED
      BY <1>2, <3>1, <3>3, MineIdle
  <2>5. CASE q.pc \in {"notice", "post"}
    <3>1. Set(t, AfterNotices(q)) /\ q.job \in slips'
      BY <2>1, <2>5 DEF Fault
    <3>2. th'[t] = AfterNotices(q)
      BY <3>1, Moved DEF SInv
    <3>3. \A j \in Jobs : j \notin slips' => Aside(t, j)
      BY <2>1, <3>1, <3>2, MineAfterNotices, ConstantsAssumption DEF Aside
    <3> QED
      BY <1>2, <3>1, <3>3, MineAfterNotices
  <2>6. q.pc \in {"load", "write", "count", "setjob", "item", "setitem", "notice", "post"}
    BY <2>1 DEF Fault
  <2> QED
    BY <2>2, <2>3, <2>4, <2>5, <2>6
<1>3. th'[t] = r /\ \A u \in Threads : u # t => th'[u] = th[u]
  BY <1>2, Moved DEF SInv
<1>4. Context'
  BY <1>1, <1>2, ContextStays
<1>5. \A j \in Jobs : j \notin slips' => \A u \in Threads : Aside(u, j)
  BY <1>2, <1>3 DEF Aside
<1>6. \A j \in Jobs : j \notin slips' => Beside(j)
  BY <1>1, <1>5, SameIssuesActive, SameNoticesStay DEF Beside, SameCounts
<1> QED
  BY <1>1, <1>4, <1>6, BesideAll DEF SInv, Context

-----------------------------------------------------------------------------
(* A pipeline at work on its own job.                                      *)

\* A step of a pipeline for k is beside every other job whose issues, counters
\* and notices it leaves alone.
LEMMA OtherJobs ==
  ASSUME SInv, NEW t \in Threads, NEW k \in Jobs, th[t].job = k,
         NEW r, Set(t, r), r.job \in {k, None}, th[t].next \subseteq r.next,
         slips \subseteq slips' \cup {k},
         \A j \in Jobs \ {k} : j \notin slips' =>
            SameActive(j) /\ SameCounts(j) /\ SameNotices(j),
         k \notin slips' => Settled(k)'
  PROVE  Settling'
<1>1. th'[t] = r /\ \A u \in Threads : u # t => th'[u] = th[u]
  BY Moved DEF SInv
<1>2. ASSUME NEW j \in Jobs, j \notin slips', j # k
      PROVE  Settled(j)'
  <2>1. \A u \in Threads : Aside(u, j)
    BY <1>1, <1>2, ConstantsAssumption DEF Aside
  <2>2. Beside(j)
    BY <1>2, <2>1 DEF Beside
  <2>3. Settled(j)
    BY <1>2 DEF SInv, Settling
  <2> QED
    BY <2>2, <2>3, BesideSettled DEF SInv, Context
<1>3. \A j \in Jobs : j \notin slips' => Settled(j)'
  BY <1>2
<1> QED
  BY <1>3 DEF Settling, Settled, Owed, On, JobCounted, ItemsCounted, Refreshes, Noticed

\* What is owed by a thread in the middle of a pipeline stays owed.
LEMMA OwedStays ==
  ASSUME IInv, NEW t \in Threads, th[t].pc # "count", NEW r, Set(t, r),
         th[t].next \subseteq r.next, NEW k, Owed(k)
  PROVE  Owed(k)'
<1>1. th'[t] = r /\ \A u \in Threads : u # t => th'[u] = th[u]
  BY Moved
<1>2. PICK u \in Threads : k \in th[u].next \/ On(u, k, {"count"})
  BY DEF Owed
<1>3. k \in th'[u].next \/ (th'[u].job = k /\ th'[u].pc = "count")
  BY <1>1, <1>2 DEF On
<1> QED
  BY <1>3 DEF Owed, On

\* The count is read; no other pipeline of the job is at work, or it is on
\* record.
LEMMA CountJobSettles ==
  ASSUME SInv, NEW t \in Threads, CountJob(t)
  PROVE  Context' /\ Settling'
<1>1. PICK k : k = th[t].job
  OBVIOUS
<1>2. th[t] \in Thread /\ th[t].pc = "count" /\ k \in Jobs
  BY <1>1 DEF CountJob, SInv, IInv, ThreadsOK, InPhase
<1>3. PICK e : Set(t, [th[t] EXCEPT !.pc = "setjob", !.count = Counted(ActiveOf(k)), !.err = e])
  BY <1>1 DEF CountJob
<1>4. PICK r : r = [th[t] EXCEPT !.pc = "setjob", !.count = Counted(ActiveOf(k)), !.err = e]
  OBVIOUS
<1>5. /\ r.pc = "setjob" /\ r.job = k /\ r.next = th[t].next
      /\ r.count = Counted(ActiveOf(k))
  BY <1>1, <1>2, <1>4 DEF Thread
<1>6. /\ Set(t, r) /\ UNCHANGED <<job, item, issue, notice, reminder, worker>>
      /\ slips' = IF Overlapped(t, k) THEN slips \cup {k} ELSE slips \ {k}
  BY <1>1, <1>3, <1>4 DEF CountJob, database
<1>7. Mine(r)
  BY <1>5 DEF Mine
<1>8. Context'
  BY <1>6, <1>7, ContextStays
<1>9. th'[t] = r /\ \A u \in Threads : u # t => th'[u] = th[u]
  BY <1>6, Moved DEF SInv
<1>10. \A j \in Jobs : SameActive(j) /\ SameCounts(j) /\ SameNotices(j)
  BY <1>6, SameIssuesActive, SameNoticesStay DEF SameCounts
<1>11. ASSUME k \notin slips'
       PROVE  Settled(k)'
  <2>1. \A u \in Threads : u # t /\ th[u].job = k => th[u].pc \notin Busy
    BY <1>6, <1>11 DEF Overlapped
  <2>2. \A u \in Threads : th'[u].job = k /\ th'[u].pc \in Busy => u = t
    BY <1>9, <2>1
  <2>3. Counted(ActiveOf(k))' = Counted(ActiveOf(k))
    BY <1>2, <1>10 DEF SameActive, Counted
  <2>4. JobCounted(k)'
    BY <1>5, <1>9, <2>2, <2>3 DEF JobCounted, On, Busy
  <2>5. ItemsCounted(k)'
    BY <1>5, <1>9, <2>2 DEF ItemsCounted, Refreshes, On, Busy
  <2>6. Noticed(k)'
    BY <1>5, <1>9 DEF Noticed, On, BeforeNotices
  <2> QED
    BY <2>4, <2>5, <2>6 DEF Settled
<1>12. slips \subseteq slips' \cup {k} /\ th[t].job = k /\ th[t].next \subseteq r.next
  BY <1>1, <1>5, <1>6
<1> QED
  BY <1>2, <1>5, <1>6, <1>8, <1>10, <1>11, <1>12, OtherJobs

LEMMA StoreJobCountSettles ==
  ASSUME SInv, NEW t \in Threads, StoreJobCount(t)
  PROVE  Context' /\ Settling'
<1>1. PICK k : k = th[t].job
  OBVIOUS
<1>2. th[t] \in Thread /\ th[t].pc = "setjob" /\ k \in Jobs
  BY <1>1 DEF StoreJobCount, SInv, IInv, ThreadsOK, InPhase
<1>3. PICK r : r = [th[t] EXCEPT !.items = ItemsOf(k), !.count = 0, !.err = None,
                                 !.pc = AfterCount(ItemsOf(k))]
  OBVIOUS
<1>4. /\ r.pc = AfterCount(ItemsOf(k)) /\ r.job = k /\ r.next = th[t].next
      /\ r.items = ItemsOf(k)
  BY <1>1, <1>2, <1>3 DEF Thread
<1>5. /\ Set(t, r) /\ UNCHANGED <<item, issue, notice, reminder, worker, slips>>
      /\ job' = [job EXCEPT ![k].count = th[t].count, ![k].err = th[t].err]
  BY <1>1, <1>3 DEF StoreJobCount
<1>6. Mine(r)
  BY <1>4 DEF Mine, AfterCount
<1>7. /\ \A j \in Jobs : job'[j].status = job[j].status
      /\ \A j \in Jobs \ {k} : job'[j].count = job[j].count
      /\ job'[k].count = th[t].count
  <2>1. job \in [Jobs -> JobType]
    BY DEF SInv, IInv, DataOK
  <2>2. \A j \in Jobs \ {k} : job'[j] = job[j]
    BY <1>2, <1>5, <2>1 DEF JobType
  <2>3. job'[k] = [job[k] EXCEPT !.count = th[t].count, !.err = th[t].err]
    BY <1>2, <1>5, <2>1 DEF JobType
  <2>4. job'[k].count = th[t].count /\ job'[k].status = job[k].status
    BY <1>2, <2>1, <2>3 DEF JobType
  <2> QED
    BY <2>2, <2>4
<1>8. Context'
  BY <1>5, <1>6, <1>7, ContextStays
<1>9. th'[t] = r /\ \A u \in Threads : u # t => th'[u] = th[u]
  BY <1>5, Moved DEF SInv
<1>10. \A j \in Jobs : SameActive(j) /\ SameNotices(j)
  BY <1>5, <1>7, SameIssuesActive, SameNoticesStay
<1>11. \A j \in Jobs \ {k} : SameCounts(j)
  BY <1>5, <1>7 DEF SameCounts
<1>12. ASSUME k \notin slips'
       PROVE  Settled(k)'
  <2>1. Settled(k)
    BY <1>2, <1>5, <1>12 DEF SInv, Settling
  <2>2. CASE Owed(k)
    BY <1>2, <1>4, <1>5, <2>2, OwedStays DEF SInv, Settled
  <2>3. CASE JobCounted(k) /\ ItemsCounted(k)
    <3>1. Counted(ActiveOf(k))' = Counted(ActiveOf(k))
      BY <1>2, <1>10 DEF SameActive, Counted
    <3>2. r.pc \in {"item", "notice"}
      BY <1>4 DEF AfterCount
    <3>3. JobCounted(k)'
      BY <1>1, <1>2, <1>7, <1>9, <2>3, <3>1, <3>2 DEF JobCounted, On
    <3>4. ItemsCounted(k)'
      <4>1. ASSUME NEW u \in Threads, On(u, k, {"setitem"})'
            PROVE  (th[u].count = Counted(ActiveOfItem(NextItem(th[u].items))))'
        <5>1. th'[u] = th[u] /\ On(u, k, {"setitem"})
          BY <1>9, <3>2, <4>1 DEF On
        <5> QED
          BY <1>5, <2>3, <5>1 DEF ItemsCounted, Counted, ActiveOfItem, Rows
      <4>2. ASSUME NEW i \in ItemsOf(k)
            PROVE  Refreshes(t, k, i)'
        BY <1>4, <1>9 DEF Refreshes, On, AfterCount
      <4> QED
        BY <4>1, <4>2 DEF ItemsCounted
    <3>5. Noticed(k)'
      BY <1>4, <1>9, <3>2 DEF Noticed, On, BeforeNotices
    <3> QED
      BY <3>3, <3>4, <3>5 DEF Settled
  <2> QED
    BY <2>1, <2>2, <2>3 DEF Settled
<1> QED
  BY <1>1, <1>2, <1>4, <1>5, <1>8, <1>10, <1>11, <1>12, OtherJobs

LEMMA CountItemSettles ==
  ASSUME SInv, NEW t \in Threads, CountItem(t)
  PROVE  Context' /\ Settling'
<1>1. PICK k : k = th[t].job
  OBVIOUS
<1>2. th[t] \in Thread /\ th[t].pc = "item" /\ k \in Jobs
  BY <1>1 DEF CountItem, SInv, IInv, ThreadsOK, InPhase
<1>3. PICK i : i = NextItem(th[t].items)
  OBVIOUS
<1>4. PICK e : Set(t, [th[t] EXCEPT !.pc = "setitem", !.count = Counted(ActiveOfItem(i)),
                                    !.err = e])
  BY <1>3 DEF CountItem, NextItem
<1>5. PICK r : r = [th[t] EXCEPT !.pc = "setitem", !.count = Counted(ActiveOfItem(i)), !.err = e]
  OBVIOUS
<1>6. /\ r.pc = "setitem" /\ r.job = k /\ r.next = th[t].next /\ r.items = th[t].items
      /\ r.count = Counted(ActiveOfItem(i))
  BY <1>1, <1>2, <1>5 DEF Thread
<1>7. Set(t, r) /\ UNCHANGED <<job, item, issue, notice, reminder, worker, slips>>
  BY <1>4, <1>5 DEF CountItem, database
<1>8. Mine(r)
  BY <1>1, <1>2, <1>6 DEF SInv, Context, ThreadsMine, Mine
<1>9. Context'
  BY <1>7, <1>8, ContextStays
<1>10. th'[t] = r /\ \A u \in Threads : u # t => th'[u] = th[u]
  BY <1>7, Moved DEF SInv
<1>11. \A j \in Jobs : SameActive(j) /\ SameCounts(j) /\ SameNotices(j)
  BY <1>7, SameIssuesActive, SameNoticesStay DEF SameCounts
<1>12. ASSUME k \notin slips'
       PROVE  Settled(k)'
  <2>1. Settled(k)
    BY <1>2, <1>7, <1>12 DEF SInv, Settling
  <2>2. CASE Owed(k)
    BY <1>2, <1>6, <1>7, <2>2, OwedStays DEF SInv, Settled
  <2>3. CASE JobCounted(k) /\ ItemsCounted(k)
    <3>1. Counted(ActiveOf(k))' = Counted(ActiveOf(k))
      BY <1>2, <1>11 DEF SameActive, Counted
    <3>2. JobCounted(k)'
      BY <1>2, <1>6, <1>7, <1>10, <2>3, <3>1 DEF JobCounted, On
    <3>3. ItemsCounted(k)'
      <4>1. ASSUME NEW u \in Threads, On(u, k, {"setitem"})'
            PROVE  (th[u].count = Counted(ActiveOfItem(NextItem(th[u].items))))'
        <5>1. CASE u = t
          <6>1. i = NextItem(th'[t].items) /\ th'[t].count = Counted(ActiveOfItem(i))
            BY <1>3, <1>6, <1>10
          <6> QED
            BY <1>7, <5>1, <6>1 DEF Counted, ActiveOfItem, Rows
        <5>2. CASE u # t
          <6>1. th'[u] = th[u] /\ On(u, k, {"setitem"})
            BY <1>10, <4>1, <5>2 DEF On
          <6> QED
            BY <1>7, <2>3, <6>1 DEF ItemsCounted, Counted, ActiveOfItem, Rows
        <5> QED
          BY <5>1, <5>2
      <4>2. ASSUME NEW l \in ItemsOf(k)
            PROVE  (\/ item[l].count = Counted(ActiveOfItem(l))
                    \/ \E u \in Threads : Refreshes(u, k, l))'
        <5>1. CASE item[l].count = Counted(ActiveOfItem(l))
          BY <1>7, <5>1 DEF Counted, ActiveOfItem, Rows
        <5>2. CASE \E u \in Threads : Refreshes(u, k, l)
          BY <1>2, <1>6, <1>10, <5>2 DEF Refreshes, On
        <5> QED
          BY <2>3, <5>1, <5>2 DEF ItemsCounted
      <4> QED
        BY <4>1, <4>2 DEF ItemsCounted
    <3>4. Noticed(k)'
      BY <1>6, <1>10 DEF Noticed, On, BeforeNotices
    <3> QED
      BY <3>2, <3>3, <3>4 DEF Settled
  <2> QED
    BY <2>1, <2>2, <2>3 DEF Settled
<1> QED
  BY <1>1, <1>2, <1>6, <1>7, <1>9, <1>11, <1>12, OtherJobs

LEMMA StoreItemCountSettles ==
  ASSUME SInv, NEW t \in Threads, StoreItemCount(t)
  PROVE  Context' /\ Settling'
<1>1. PICK k : k = th[t].job
  OBVIOUS
<1>2. th[t] \in Thread /\ th[t].pc = "setitem" /\ k \in Jobs
  BY <1>1 DEF StoreItemCount, SInv, IInv, ThreadsOK, InPhase
<1>3. PICK i : i = NextItem(th[t].items)
  OBVIOUS
<1>4. i \in th[t].items /\ i \in ItemsOf(k) /\ th[t].items \subseteq ItemsOf(k)
  BY <1>1, <1>2, <1>3 DEF SInv, Context, ThreadsMine, Mine, NextItem
<1>5. PICK r : r = [th[t] EXCEPT !.items = @ \ {i}, !.count = 0, !.err = None,
                                 !.pc = AfterCount(th[t].items \ {i})]
  OBVIOUS
<1>6. /\ r.pc = AfterCount(th[t].items \ {i}) /\ r.job = k /\ r.next = th[t].next
      /\ r.items = th[t].items \ {i}
  BY <1>1, <1>2, <1>5 DEF Thread
<1>7. /\ Set(t, r) /\ UNCHANGED <<job, issue, notice, reminder, worker, slips>>
      /\ item' = [item EXCEPT ![i].count = th[t].count, ![i].err = th[t].err]
  BY <1>3, <1>5 DEF StoreItemCount, NextItem
<1>8. Mine(r)
  BY <1>4, <1>6 DEF Mine, AfterCount
<1>9. item'[i].count = th[t].count /\ \A l \in Items \ {i} : item'[l] = item[l]
  <2>1. item \in [Items -> ItemType] /\ i \in Items
    BY <1>4 DEF SInv, IInv, DataOK, ItemsOf
  <2>2. \A l \in Items \ {i} : item'[l] = item[l]
    BY <1>7, <2>1 DEF ItemType
  <2>3. item'[i] = [item[i] EXCEPT !.count = th[t].count, !.err = th[t].err]
    BY <1>7, <2>1 DEF ItemType
  <2>4. item'[i].count = th[t].count
    BY <2>1, <2>3 DEF ItemType
  <2> QED
    BY <2>2, <2>4
<1>10. Context'
  BY <1>7, <1>8, ContextStays
<1>11. th'[t] = r /\ \A u \in Threads : u # t => th'[u] = th[u]
  BY <1>7, Moved DEF SInv
<1>12. \A j \in Jobs : SameActive(j) /\ SameNotices(j)
  BY <1>7, SameIssuesActive, SameNoticesStay
<1>13. \A j \in Jobs \ {k} : SameCounts(j)
  BY <1>4, <1>7, <1>9 DEF SameCounts, ItemsOf
<1>14. ASSUME k \notin slips'
       PROVE  Settled(k)'
  <2>1. Settled(k)
    BY <1>2, <1>7, <1>14 DEF SInv, Settling
  <2>2. CASE Owed(k)
    BY <1>2, <1>6, <1>7, <2>2, OwedStays DEF SInv, Settled
  <2>3. CASE JobCounted(k) /\ ItemsCounted(k)
    <3>1. Counted(ActiveOf(k))' = Counted(ActiveOf(k))
      BY <1>2, <1>12 DEF SameActive, Counted
    <3>2. r.pc \in {"item", "notice"}
      BY <1>6 DEF AfterCount
    <3>3. JobCounted(k)'
      BY <1>2, <1>7, <1>11, <2>3, <3>1, <3>2 DEF JobCounted, On
    <3>4. ItemsCounted(k)'
      <4>1. ASSUME NEW u \in Threads, On(u, k, {"setitem"})'
            PROVE  (th[u].count = Counted(ActiveOfItem(NextItem(th[u].items))))'
        <5>1. th'[u] = th[u] /\ On(u, k, {"setitem"})
          BY <1>11, <3>2, <4>1 DEF On
        <5> QED
          BY <1>7, <2>3, <5>1 DEF ItemsCounted, Counted, ActiveOfItem, Rows
      <4>2. ASSUME NEW l \in ItemsOf(k)
            PROVE  (\/ item[l].count = Counted(ActiveOfItem(l))
                    \/ \E u \in Threads : Refreshes(u, k, l))'
        <5>1. Counted(ActiveOfItem(l))' = Counted(ActiveOfItem(l))
          BY <1>7 DEF Counted, ActiveOfItem, Rows
        <5>2. CASE l = i
          <6>1. th[t].count = Counted(ActiveOfItem(l))
            BY <1>1, <1>2, <1>3, <2>3, <5>2 DEF ItemsCounted, On
          <6> QED
            BY <1>9, <5>1, <5>2, <6>1
        <5>3. CASE l # i /\ item[l].count = Counted(ActiveOfItem(l))
          BY <1>9, <5>1, <5>3 DEF ItemsOf
        <5>4. CASE l # i /\ \E u \in Threads : Refreshes(u, k, l)
          <6>1. PICK u \in Threads : Refreshes(u, k, l)
            BY <5>4
          <6>2. Refreshes(u, k, l)'
            BY <1>2, <1>6, <1>11, <5>4, <6>1 DEF Refreshes, On, AfterCount
          <6> QED
            BY <6>2
        <5> QED
          BY <2>3, <5>2, <5>3, <5>4 DEF ItemsCounted
      <4> QED
        BY <4>1, <4>2 DEF ItemsCounted
    <3>5. Noticed(k)'
      BY <1>6, <1>11, <3>2 DEF Noticed, On, BeforeNotices
    <3> QED
      BY <3>3, <3>4, <3>5 DEF Settled
  <2> QED
    BY <2>1, <2>2, <2>3 DEF Settled
<1> QED
  BY <1>1, <1>2, <1>6, <1>7, <1>10, <1>12, <1>13, <1>14, OtherJobs

LEMMA NoticeLoadSettles ==
  ASSUME SInv, NEW t \in Threads, NoticeLoad(t)
  PROVE  Context' /\ Settling'
<1>1. PICK k : k = th[t].job
  OBVIOUS
<1>2. th[t] \in Thread /\ th[t].pc = "notice" /\ k \in Jobs
  BY <1>1 DEF NoticeLoad, SInv, IInv, ThreadsOK, InPhase
<1>3. PICK r : r = [th[t] EXCEPT !.pc = "post", !.active = ActiveOf(k),
                                 !.status = job[k].status, !.count = job[k].count,
                                 !.seen = notice, !.said = reminder[k]]
  OBVIOUS
<1>4. /\ r.pc = "post" /\ r.job = k /\ r.next = th[t].next
      /\ r.seen = notice /\ r.said = reminder[k]
      /\ r.active = ActiveOf(k) /\ r.status = job[k].status /\ r.count = job[k].count
  BY <1>1, <1>2, <1>3 DEF Thread
<1>5. /\ Set(t, r) /\ UNCHANGED <<job, item, issue, notice, reminder, worker>>
      /\ slips' = IF Overlapped(t, k) THEN slips \cup {k} ELSE slips
  BY <1>1, <1>3 DEF NoticeLoad, database
<1>6. Context'
  BY <1>4, <1>5, ContextStays DEF Mine
<1>7. th'[t] = r /\ \A u \in Threads : u # t => th'[u] = th[u]
  BY <1>5, Moved DEF SInv
<1>8. \A j \in Jobs : SameActive(j) /\ SameCounts(j) /\ SameNotices(j)
  BY <1>5, SameIssuesActive, SameNoticesStay DEF SameCounts
<1>9. ASSUME k \notin slips'
      PROVE  Settled(k)'
  <2>1. Settled(k)
    BY <1>2, <1>5, <1>9 DEF SInv, Settling
  <2>2. CASE Owed(k)
    BY <1>2, <1>4, <1>5, <2>2, OwedStays DEF SInv, Settled
  <2>3. CASE JobCounted(k) /\ ItemsCounted(k)
    <3>1. \A u \in Threads : u # t /\ th[u].job = k => th[u].pc \notin Busy
      BY <1>5, <1>9 DEF Overlapped
    <3>2. \A u \in Threads : th[u].job = k => th[u].pc \notin {"setjob", "item", "setitem"}
      BY <1>2, <3>1 DEF Busy
    <3>3. \A u \in Threads : th'[u].job = k /\ th'[u].pc \in Busy => u = t
      BY <1>7, <3>1
    <3>4. /\ job[k].count = Counted(ActiveOf(k))
          /\ \A i \in ItemsOf(k) : item[i].count = Counted(ActiveOfItem(i))
      BY <2>3, <3>2 DEF JobCounted, ItemsCounted, Refreshes, On
    <3>5. JobCounted(k)'
      BY <1>4, <1>5, <1>7, <3>3, <3>4 DEF JobCounted, On, Busy, Counted, ActiveOf, Rows
    <3>6. ItemsCounted(k)'
      BY <1>4, <1>5, <1>7, <3>3, <3>4 DEF ItemsCounted, On, Busy, Counted, ActiveOfItem, Rows
    <3>7. NoticesRead(k)'
      <4>1. ASSUME NEW u \in Threads, On(u, k, {"post"})'
            PROVE  /\ th'[u].active = ActiveOf(k)'
                   /\ ShouldExposeJobReminder(th'[u].status, th'[u].count) <=> Says(k)'
                   /\ \A n \in ActiveOf(k)' : th'[u].seen[n] = None => notice'[n] = None
                   /\ \A n \in Shown(k)' \ ActiveOf(k)' : Shows(th'[u].seen[n], k)
                   /\ th'[u].said = reminder'[k]
                   /\ \A v \in Threads : On(v, k, {"post"})' => v = u
        <5>1. th'[u] = r
          BY <1>7, <3>3, <4>1 DEF On, Busy
        <5>2. r.active = ActiveOf(k)'
          BY <1>4, <1>5 DEF ActiveOf, Rows
        <5>3. r.status = job'[k].status /\ r.count = Counted(ActiveOf(k))'
          BY <1>4, <1>5, <3>4 DEF ActiveOf, Rows, Counted
        <5>4. \A n \in Shown(k)' : Shows(r.seen[n], k)
          BY <1>4, <1>5 DEF Shown, Shows
        <5>5. \A v \in Threads : On(v, k, {"post"})' => v = t
          BY <3>3 DEF On, Busy
        <5>6. u = t
          BY <4>1, <5>5
        <5> QED
          BY <1>4, <1>5, <5>1, <5>2, <5>3, <5>4, <5>5, <5>6 DEF Says
      <4> QED
        BY <4>1 DEF NoticesRead
    <3>8. On(t, k, {"post"})'
      BY <1>4, <1>7 DEF On
    <3> QED
      BY <3>5, <3>6, <3>7, <3>8 DEF Settled, Noticed
  <2> QED
    BY <2>1, <2>2, <2>3 DEF Settled
<1>10. slips \subseteq slips' \cup {k} /\ th[t].job = k /\ th[t].next \subseteq r.next
  BY <1>1, <1>4, <1>5
<1> QED
  BY <1>2, <1>4, <1>5, <1>6, <1>8, <1>9, <1>10, OtherJobs

\* The notices are written from the issues that were read; one that another job
\* took over meanwhile is on record.
LEMMA NoticePostSettles ==
  ASSUME SInv, NEW t \in Threads, NoticePost(t)
  PROVE  Context' /\ Settling'
<1>1. PICK k : k = th[t].job
  OBVIOUS
<1>2. PICK q : q = th[t]
  OBVIOUS
<1>3. q \in Thread /\ q.pc = "post" /\ q.job = k /\ k \in Jobs
  BY <1>1, <1>2 DEF NoticePost, SInv, IInv, ThreadsOK, InPhase
<1>4. PICK r : r = AfterNotices(q)
  OBVIOUS
<1>5. /\ Mine(r) /\ r.next = q.next
      /\ \/ r.pc = "notice" /\ r.job = k
         \/ r.pc \in {"idle", "next"} /\ r.job = None
  BY <1>3, <1>4, MineAfterNotices
<1>6. Set(t, r) /\ UNCHANGED <<job, item, issue, worker>>
  BY <1>2, <1>4 DEF NoticePost
<1>7. Context'
  BY <1>5, <1>6, ContextStays
<1>8. th'[t] = r /\ \A u \in Threads : u # t => th'[u] = th[u]
  BY <1>6, Moved DEF SInv
<1>9. slips \subseteq slips'
  BY DEF NoticePost, Post
<1>10. \A j \in Jobs : SameActive(j) /\ SameCounts(j)
  BY <1>6, SameIssuesActive DEF SameCounts
<1>11. PICK late \in SUBSET Ids, said \in {q.said, reminder[k]} :
         \/ ~Refused(q, Lookup(q, late), said) /\ Post(q, Stale(q, Lookup(q, late)))
         \/ Refused(q, Lookup(q, late), said) /\ UNCHANGED <<notice, reminder, slips>>
  BY <1>2, <1>3 DEF NoticePost
<1>12. PICK old : old = Stale(q, Lookup(q, late))
  OBVIOUS
<1>13. /\ notice \in [Ids -> [job : Jobs, shown : BOOLEAN] \cup {None}]
       /\ reminder \in [Jobs -> {"none", "ACTIVE", "STALE"}]
  BY DEF SInv, IInv, DataOK
<1>14. ASSUME NEW j \in Jobs \ {k}, j \notin slips'
       PROVE  SameNotices(j)
  <2>1. CASE Post(q, old)
    <3>1. ASSUME NEW n \in ActiveOf(j)
          PROVE  n \notin Hit(q, old)
      <4>1. issue[n].task = j
        BY DEF ActiveOf
      <4> QED
        BY <1>3, <1>14, <2>1, <4>1 DEF Post
    <3>2. ASSUME NEW n \in Ids
          PROVE  \/ notice'[n] = notice[n]
                 \/ notice'[n] = [job |-> k, shown |-> TRUE] /\ n \in Hit(q, old)
                 \/ /\ notice[n] # None /\ notice'[n] = [notice[n] EXCEPT !.shown = FALSE]
                    /\ n \in old
      BY <1>3, <1>12, <2>1 DEF Post, Hit
    <3>3. Shown(j)' \subseteq Shown(j)
      <4>1. ASSUME NEW n \in Ids, notice[n] # None,
                   notice'[n] = [notice[n] EXCEPT !.shown = FALSE]
            PROVE  ~notice'[n].shown
        <5>1. notice[n] \in [job : Jobs, shown : BOOLEAN]
          BY <1>13, <4>1
        <5> QED
          BY <4>1, <5>1
      <4>2. ASSUME NEW n \in Ids, notice'[n] # None, notice'[n].job = j, notice'[n].shown
            PROVE  notice'[n] = notice[n]
        <5>1. notice'[n] # [job |-> k, shown |-> TRUE]
          BY <1>14, <4>2
        <5>2. notice[n] = None \/ notice'[n] # [notice[n] EXCEPT !.shown = FALSE]
          BY <4>1, <4>2
        <5> QED
          BY <3>2, <5>1, <5>2
      <4> QED
        BY <4>2 DEF Shown
    <3>4. ASSUME NEW n \in ActiveOf(j)
          PROVE  /\ notice[n] = None => notice'[n] = None
                 /\ n \in Shown(j) => n \in Shown(j)'
      <4>1. n \in Rows /\ n \in Ids
        BY DEF ActiveOf, Rows
      <4>2. CASE n \in Shown(j)
        <5>1. n \notin old
          BY <1>3, <1>14, <3>1, <4>1, <4>2 DEF Hit, Shown
        <5> QED
          BY <3>1, <3>2, <4>1, <4>2, <5>1 DEF Shown
      <4>3. CASE n \notin Shown(j)
        BY <3>1, <3>2, <4>1, <4>3
      <4> QED
        BY <4>2, <4>3
    <3>5. reminder'[j] = reminder[j]
      BY <1>3, <1>13, <1>14, <2>1 DEF Post
    <3>6. NoticesStay(j)
      BY <3>3, <3>4 DEF NoticesStay
    <3> QED
      BY <1>6, <3>5, <3>6 DEF SameNotices
  <2>2. CASE UNCHANGED <<notice, reminder, slips>>
    BY <1>6, <2>2, SameNoticesStay
  <2> QED
    BY <1>11, <1>12, <2>1, <2>2
<1>15. ASSUME k \notin slips'
       PROVE  Settled(k)'
  <2>1. Settled(k)
    BY <1>3, <1>9, <1>15 DEF SInv, Settling
  <2>2. CASE Owed(k)
    BY <1>2, <1>3, <1>5, <1>6, <2>2, OwedStays DEF SInv, Settled
  <2>3. CASE JobCounted(k) /\ ItemsCounted(k) /\ Noticed(k)
    <3>1. JobCounted(k)'
      BY <1>2, <1>3, <1>5, <1>6, <1>8, <2>3 DEF JobCounted, On, Counted, ActiveOf, Rows
    <3>2. ItemsCounted(k)'
      <4>1. ASSUME NEW u \in Threads, On(u, k, {"setitem"})'
            PROVE  (th[u].count = Counted(ActiveOfItem(NextItem(th[u].items))))'
        <5>1. th'[u] = th[u] /\ On(u, k, {"setitem"})
          BY <1>5, <1>8, <4>1 DEF On
        <5> QED
          BY <1>6, <2>3, <5>1 DEF ItemsCounted, Counted, ActiveOfItem, Rows
      <4>2. ASSUME NEW i \in ItemsOf(k)
            PROVE  (\/ item[i].count = Counted(ActiveOfItem(i))
                    \/ \E u \in Threads : Refreshes(u, k, i))'
        <5>1. CASE item[i].count = Counted(ActiveOfItem(i))
          BY <1>6, <5>1 DEF Counted, ActiveOfItem, Rows
        <5>2. CASE \E u \in Threads : Refreshes(u, k, i)
          BY <1>2, <1>3, <1>8, <5>2 DEF Refreshes, On
        <5> QED
          BY <2>3, <5>1, <5>2 DEF ItemsCounted
      <4> QED
        BY <4>1, <4>2 DEF ItemsCounted
    <3>3. CASE \E u \in Threads : On(u, k, BeforeNotices)
      <4>1. PICK u \in Threads : On(u, k, BeforeNotices)
        BY <3>3
      <4>2. u # t
        BY <1>2, <1>3, <4>1 DEF On, BeforeNotices
      <4>3. Noticed(k)'
        BY <1>8, <4>1, <4>2 DEF Noticed, On
      <4> QED
        BY <3>1, <3>2, <4>3 DEF Settled
    <3>4. CASE NoticesRead(k)
      <4>1. Says(k)' <=> Says(k)
        BY <1>6 DEF Says, Counted, ActiveOf, Rows
      <4>2. ActiveOf(k)' = ActiveOf(k)
        BY <1>6 DEF ActiveOf, Rows
      <4>3. NoticesRead(k)'
        BY <1>2, <1>3, <1>5, <1>8, <3>4 DEF NoticesRead, On
      <4>4. /\ q.active = ActiveOf(k)
            /\ ShouldExposeJobReminder(q.status, q.count) <=> Says(k)
            /\ \A n \in ActiveOf(k) : q.seen[n] = None => notice[n] = None
            /\ \A n \in Shown(k) \ ActiveOf(k) : Shows(q.seen[n], k)
            /\ q.said = reminder[k]
        BY <1>2, <1>3, <3>4 DEF NoticesRead, On
      <4>5. q.active \subseteq Rows /\ q.active \subseteq Ids
        BY <4>4 DEF ActiveOf, Rows
      <4>6. Post(q, old)
        <5>1. \A n \in q.active : Lookup(q, late)[n] = None => notice[n] = None
          BY <4>4, <4>5 DEF Lookup
        <5>2. ~Refused(q, Lookup(q, late), said)
          BY <1>3, <4>4, <4>5, <5>1 DEF Refused
        <5> QED
          BY <1>11, <1>12, <5>2
      <4>7. Shown(k)' = q.active
        <5>1. ASSUME NEW n \in Ids
              PROVE  notice'[n] # None /\ notice'[n].job = k /\ notice'[n].shown <=> n \in q.active
          <6>1. CASE n \in q.active
            <7>1. notice'[n] = [job |-> k, shown |-> TRUE]
              BY <1>3, <4>5, <4>6, <6>1 DEF Post
            <7>2. [job |-> k, shown |-> TRUE] \in [job : Jobs, shown : BOOLEAN]
              BY <1>3
            <7>3. notice'[n] # None
              BY <7>1, <7>2, NullIsNoNotice
            <7> QED
              BY <6>1, <7>1, <7>3
          <6>2. CASE n \notin q.active
            <7>1. notice[n] # None => notice[n] \in [job : Jobs, shown : BOOLEAN]
              BY <1>13
            <7>2. CASE n \in old /\ notice[n] # None
              <8>1. notice'[n] = [notice[n] EXCEPT !.shown = FALSE]
                BY <1>12, <4>6, <6>2, <7>2 DEF Post
              <8>2. notice'[n].shown = FALSE
                BY <7>1, <7>2, <8>1
              <8> QED
                BY <6>2, <8>2
            <7>3. CASE ~(n \in old /\ notice[n] # None)
              <8>1. notice'[n] = notice[n]
                BY <1>12, <4>6, <6>2, <7>3 DEF Post
              <8>2. ASSUME n \in Shown(k) PROVE FALSE
                <9>1. Shows(Lookup(q, late)[n], k)
                  BY <4>4, <6>2, <8>2 DEF Lookup, Shown, Shows
                <9> QED
                  BY <1>3, <1>12, <6>2, <7>3, <8>2, <9>1 DEF Stale, Shown
              <8> QED
                BY <6>2, <8>1, <8>2 DEF Shown
            <7> QED
              BY <7>2, <7>3
          <6> QED
            BY <6>1, <6>2
        <5> QED
          BY <4>5, <5>1 DEF Shown
      <4>8. reminder'[k] = "ACTIVE" <=> Says(k)
        BY <1>3, <1>13, <4>4, <4>6 DEF Post
      <4>9. Noticed(k)'
        BY <4>1, <4>2, <4>3, <4>4, <4>7, <4>8 DEF Noticed, NoticesShown
      <4> QED
        BY <3>1, <3>2, <4>9 DEF Settled
    <3> QED
      BY <2>3, <3>3, <3>4 DEF Noticed
  <2> QED
    BY <2>1, <2>2, <2>3 DEF Settled
<1>16. r.job \in {k, None} /\ th[t].job = k /\ th[t].next \subseteq r.next
  BY <1>1, <1>2, <1>5
<1> QED
  BY <1>3, <1>6, <1>7, <1>9, <1>10, <1>14, <1>15, <1>16, OtherJobs

LEMMA NextJobSettles ==
  ASSUME SInv, NEW t \in Threads, NextJob(t)
  PROVE  Context' /\ Settling'
<1>1. PICK k \in th[t].next : Set(t, At("count", k, 1, th[t].next \ {k}, th[t].retry))
  BY DEF NextJob
<1>2. PICK r : r = At("count", k, 1, th[t].next \ {k}, th[t].retry)
  OBVIOUS
<1>3. Mine(r) /\ r.pc = "count" /\ r.job = k /\ r.next = th[t].next \ {k}
  BY <1>2, MineAt
<1>4. Set(t, r) /\ UNCHANGED <<job, item, issue, notice, reminder, worker, slips>>
  BY <1>1, <1>2 DEF NextJob, database
<1>5. th'[t] = r /\ \A u \in Threads : u # t => th'[u] = th[u]
  BY <1>4, Moved DEF SInv
<1>6. th[t].job = None
  BY DEF NextJob, SInv, IInv, ThreadsOK, InPhase
<1>7. \A j \in Jobs, u \in Threads : Aside(u, j)
  BY <1>3, <1>5, <1>6, ConstantsAssumption DEF Aside
<1>8. \A j \in Jobs : Beside(j)
  BY <1>4, <1>7, SameIssuesActive, SameNoticesStay DEF Beside, SameCounts
<1>9. Context'
  BY <1>3, <1>4, ContextStays
<1> QED
  BY <1>4, <1>8, <1>9, BesideAll DEF SInv, Context

-----------------------------------------------------------------------------
(* SyncJobIssues.                                                          *)

LEMMA CandidatesMine ==
  ASSUME NEW j \in Jobs
  PROVE  \A c \in Candidates(j) : c.item = None \/ JobOf[c.item] = j
<1>1. ASSUME NEW S \in SUBSET Having(j, {"FAILED"}), S # {}, NEW key
      PROVE  JobOf[ItemCandidate(key, S).item] = j
  BY <1>1 DEF ItemCandidate, Having, ItemsOf
<1>2. CASE Having(j, {"FAILED"}) # {}
  <2> DEFINE failed == Having(j, {"FAILED"})
             same(k) == {i \in failed : ItemKey(i) = k}
             keys == {ItemKey(i) : i \in failed}
  <2>1. Candidates(j) = {ItemCandidate(k, same(k)) : k \in keys}
    BY <1>2 DEF Candidates
  <2>2. \A k \in keys : same(k) \in SUBSET failed /\ same(k) # {}
    OBVIOUS
  <2>3. \A k \in keys : JobOf[ItemCandidate(k, same(k)).item] = j
    BY <1>1, <2>2
  <2> HIDE DEF failed, same, keys
  <2> QED
    BY <2>1, <2>3
<1>3. CASE Having(j, {"FAILED"}) = {}
  BY <1>3 DEF Candidates
<1> QED
  BY <1>2, <1>3

LEMMA SyncLoadSettles ==
  ASSUME SInv, NEW t \in Threads, SyncLoad(t)
  PROVE  Context' /\ Settling'
<1>1. PICK k : k = th[t].job
  OBVIOUS
<1>2. th[t] \in Thread /\ th[t].pc = "load" /\ k \in Jobs
  BY <1>1 DEF SyncLoad, SInv, IInv, ThreadsOK, InPhase
<1>3. PICK pick, old : Set(t, [th[t] EXCEPT !.pc = "write", !.cands = Candidates(k),
                                 !.status = job[k].status, !.pick = pick, !.old = old])
  BY <1>1, Zenon DEF SyncLoad
<1>4. PICK r : r = [th[t] EXCEPT !.pc = "write", !.cands = Candidates(k),
                      !.status = job[k].status, !.pick = pick, !.old = old]
  OBVIOUS
<1>5. r.pc = "write" /\ r.job = k /\ r.next = th[t].next /\ r.cands = Candidates(k)
  BY <1>1, <1>2, <1>4 DEF Thread
<1>6. Set(t, r) /\ UNCHANGED <<job, item, issue, notice, reminder, worker, slips>>
  BY <1>3, <1>4 DEF SyncLoad, database
<1>7. th[t].next = {}
  BY <1>2 DEF SInv, Context, ThreadsMine, Mine
<1>8. Mine(r)
  BY <1>2, <1>5, <1>7, CandidatesMine DEF Mine
<1>9. Context'
  BY <1>6, <1>8, ContextStays
<1>10. th'[t] = r /\ \A u \in Threads : u # t => th'[u] = th[u]
  BY <1>6, Moved DEF SInv
<1>11. \A j \in Jobs, u \in Threads : Aside(u, j)
  BY <1>1, <1>2, <1>5, <1>10 DEF Aside
<1>12. \A j \in Jobs : Beside(j)
  BY <1>6, <1>11, SameIssuesActive, SameNoticesStay DEF Beside, SameCounts
<1> QED
  BY <1>6, <1>9, <1>12, BesideAll DEF SInv, Context

\* A commit leaves alone the rows of the jobs it takes no issue from, and files
\* the rows it writes under its job.
LEMMA WroteRows ==
  ASSUME SInv, NEW t \in Threads, th[t].pc = "write", NEW at, Wrote(th[t], at),
         \A k \in KeysOf(th[t]) \ Fresh(th[t]) :
           issue[th[t].pick[k]].task \in slips' \cup {th[t].job}
  PROVE  /\ RowsMine'
         /\ \A j \in Jobs : j # th[t].job /\ j \notin slips' => RowsStay(j)
<1>1. PICK q : q = th[t]
  OBVIOUS
<1>2. q.job \in Jobs /\ Picked(q) /\ q.cands \in SUBSET Cand
  BY <1>1 DEF SInv, IInv, ThreadsOK, InPhase, Writing, Thread
<1>3. \A c \in q.cands : c.item = None \/ JobOf[c.item] = q.job
  BY <1>1 DEF SInv, Context, ThreadsMine, Mine
<1>4. ASSUME NEW n \in Ids
      PROVE  \/ issue'[n] = issue[n]
             \/ /\ issue[n] # None => issue[n].task \in slips' \cup {q.job}
                /\ issue'[n].task = q.job
                /\ issue'[n].item = None \/ JobOf[issue'[n].item] = q.job
  <2>1. CASE Inserts(q, at, n)
    <3>1. PICK k \in Fresh(q) : at[k] = n /\ issue'[n] = NewRow(q.job, CandOf(q, k))
      BY <2>1 DEF Inserts
    <3>2. CandOf(q, k) \in q.cands
      <4>1. k \in KeysOf(q)
        BY DEF Fresh
      <4> QED
        BY <1>1, <4>1, CandOfTyped DEF SInv
    <3>3. issue[n] = None
      <4>1. at[k] \in nextId..(nextId' - 1)
        BY <1>1 DEF Wrote
      <4>2. nextId \in Nat /\ \A m \in Ids : m >= nextId => issue[m] = None
        BY DEF SInv, IInv, DataOK
      <4> QED
        BY <3>1, <4>1, <4>2
    <3> QED
      BY <1>3, <3>1, <3>2, <3>3 DEF NewRow
  <2>2. CASE Updates(q, n)
    <3>1. PICK k \in KeysOf(q) \ Fresh(q) :
            /\ q.pick[k] = n /\ issue[n] # None
            /\ issue'[n] = Refound(issue[n], q.job, CandOf(q, k), q.old[k], q.status)
      BY <2>2 DEF Updates
    <3>2. CandOf(q, k) \in q.cands
      BY <1>1, CandOfTyped DEF SInv
    <3>3. issue[n] \in Row
      BY <3>1 DEF SInv, IInv, DataOK
    <3>4. issue'[n].task = q.job /\ issue'[n].item = CandOf(q, k).item
      BY <3>1, <3>3 DEF Refound, Row
    <3> QED
      BY <1>1, <1>3, <3>1, <3>2, <3>4
  <2>3. CASE Resolves(q, n)
    <3>1. n \in ActiveOf(q.job) /\ issue'[n] = [issue[n] EXCEPT !.status = "RESOLVED"]
      BY <2>3 DEF Resolves, Resolved, NoLongerDetected
    <3>2. issue[n] # None /\ issue[n].task = q.job /\ issue[n] \in Row
      BY <3>1 DEF ActiveOf, Rows, SInv, IInv, DataOK
    <3>3. issue'[n].task = q.job /\ issue'[n].item = issue[n].item
      BY <3>1, <3>2 DEF Row
    <3> QED
      BY <3>2, <3>3 DEF SInv, Context, RowsMine
  <2> QED
    BY <1>1, <2>1, <2>2, <2>3 DEF Wrote
<1>5. RowsMine'
  BY <1>4 DEF SInv, Context, RowsMine
<1>6. \A j \in Jobs : j # q.job /\ j \notin slips' => RowsStay(j)
  BY <1>4 DEF RowsStay
<1> QED
  BY <1>1, <1>5, <1>6

LEMMA SyncWriteSettles ==
  ASSUME SInv, NEW t \in Threads, SyncWrite(t)
  PROVE  Context' /\ Settling'
<1>1. PICK q : q = th[t]
  OBVIOUS
<1>2. q.pc = "write" /\ q.job \in Jobs /\ q.next = {}
  BY <1>1 DEF SyncWrite, SInv, IInv, ThreadsOK, InPhase, Context, ThreadsMine, Mine
<1>3. UNCHANGED <<job, item, notice, reminder, worker>>
  BY DEF SyncWrite
<1>4. CASE Set(t, Abandon(q)) /\ UNCHANGED <<issue, nextId, slips>>
  <2>1. th'[t] = Abandon(q) /\ \A u \in Threads : u # t => th'[u] = th[u]
    BY <1>4, Moved DEF SInv
  <2>2. \A j \in Jobs, u \in Threads : Aside(u, j)
    BY <1>1, <1>2, <2>1, MineAbandon DEF Aside
  <2>3. \A j \in Jobs : Beside(j)
    BY <1>3, <1>4, <2>2, SameIssuesActive, SameNoticesStay DEF Beside, SameCounts
  <2>4. Context'
    BY <1>3, <1>4, MineAbandon, ContextStays
  <2> QED
    BY <1>4, <2>3, <2>4, BesideAll DEF SInv, Context
<1>5. CASE /\ Set(t, At("count", q.job, 2, {}, q.retry))
           /\ slips' = slips \cup
                ({issue[q.pick[k]].task : k \in KeysOf(q) \ Fresh(q)} \ {q.job})
           /\ \E at : Wrote(q, at)
  <2>1. PICK r : r = At("count", q.job, 2, {}, q.retry)
    OBVIOUS
  <2>2. Mine(r) /\ r.pc = "count" /\ r.job = q.job /\ r.next = {}
    BY <2>1, MineAt
  <2>3. Set(t, r)
    BY <1>5, <2>1
  <2>4. th'[t] = r /\ \A u \in Threads : u # t => th'[u] = th[u]
    BY <2>3, Moved DEF SInv
  <2>5. RowsMine' /\ \A j \in Jobs : j # q.job /\ j \notin slips' => RowsStay(j)
    BY <1>1, <1>2, <1>5, WroteRows
  <2>6. ThreadsMine' /\ HandLives'
    BY <1>3, <2>2, <2>3, ThreadsMineStays DEF SInv, Context, HandLives, worker
  <2>7. Owed(q.job)'
    BY <2>2, <2>4 DEF Owed, On
  <2>8. ASSUME NEW j \in Jobs, j # q.job, j \notin slips'
        PROVE  Beside(j)
    <3>1. \A u \in Threads : Aside(u, j)
      BY <1>1, <1>2, <2>2, <2>4, <2>8 DEF Aside
    <3>2. SameActive(j)
      BY <2>5, <2>8, RowsStayActive DEF SInv, Context
    <3>3. SameNotices(j)
      BY <1>3, <3>2 DEF SameNotices, NoticesStay, Shown
    <3> QED
      BY <1>3, <3>1, <3>2, <3>3 DEF Beside, SameCounts
  <2> QED
    BY <1>5, <2>5, <2>6, <2>7, <2>8, BesideAll DEF SInv, Context
<1> QED
  BY <1>1, <1>4, <1>5, SyncWriteCases DEF SInv

-----------------------------------------------------------------------------
(* The invariant and the theorems.                                         *)

LEMMA SInvInit == Init => SInv
<1> SUFFICES ASSUME Init PROVE SInv
  OBVIOUS
<1>1. \A t \in Threads : th[t] = Idle
  BY DEF Init
<1>2. Context
  BY <1>1, MineIdle DEF Init, Context, RowsMine, ThreadsMine, HandLives
<1>3. \A j \in Jobs : ActiveOf(j) = {} /\ Shown(j) = {}
  BY DEF Init, ActiveOf, Rows, Shown
<1>4. \A i \in Items : ActiveOfItem(i) = {}
  BY DEF Init, ActiveOfItem, Rows
<1>5. Counted({}) = 0
  BY FS_EmptySet DEF Counted
<1>6. ASSUME NEW j \in Jobs
      PROVE  Settled(j)
  <2>1. \A t \in Threads : th[t].job # j
    BY <1>1, MineIdle, ConstantsAssumption
  <2>2. JobCounted(j)
    BY <1>3, <1>5, <2>1 DEF Init, JobCounted, On
  <2>3. ItemsCounted(j)
    BY <1>4, <1>5, <2>1 DEF Init, ItemsCounted, On, ItemsOf
  <2>4. ~Says(j) /\ reminder[j] = "none"
    BY DEF Init, Says, ShouldExposeJobReminder
  <2>5. Noticed(j)
    BY <1>3, <2>1, <2>4 DEF Noticed, NoticesRead, NoticesShown, On
  <2> QED
    BY <2>2, <2>3, <2>5 DEF Settled
<1> QED
  BY <1>2, <1>6, IInvInit DEF SInv, Settling

LEMMA SInvNext == SInv /\ [Next]_vars => SInv'
<1> SUFFICES ASSUME SInv, [Next]_vars PROVE Context' /\ Settling'
  BY IInvNext DEF SInv
<1>1. CASE Engine
  BY <1>1, ClaimSettles, StartItemSettles, ItemCompletesSettles, ItemIsInterruptedSettles,
     ItemFailsSettles, ItemIsDeferredSettles, CancelPendingItemsSettles, FinalizeJobSettles,
     JobFailsSettles DEF Engine
<1>2. ASSUME NEW t \in Threads, Pipeline(t)
      PROVE  Context' /\ Settling'
  <2>1. CASE SyncLoad(t) \/ SyncWrite(t)
    BY <2>1, SyncLoadSettles, SyncWriteSettles
  <2>2. CASE CountJob(t) \/ StoreJobCount(t) \/ CountItem(t) \/ StoreItemCount(t)
    BY <2>2, CountJobSettles, StoreJobCountSettles, CountItemSettles, StoreItemCountSettles
  <2>3. CASE NoticeLoad(t) \/ NoticePost(t)
    BY <2>3, NoticeLoadSettles, NoticePostSettles
  <2>4. CASE NextJob(t) \/ \E j \in Jobs : RetryJob(t, j)
    BY <2>4, NextJobSettles, RetryJobSettles
  <2> QED
    BY <1>2, <2>1, <2>2, <2>3, <2>4 DEF Pipeline
<1>3. ASSUME NEW t \in Threads, Fault(t)
      PROVE  Context' /\ Settling'
  BY <1>3, FaultSettles
<1>4. ASSUME NEW u \in Users, Api(u)
      PROVE  Context' /\ Settling'
  <2>1. Choices \subseteq DOMAIN Outcome
    BY ConstantsAssumption DEF Outcome
  <2> QED
    BY <1>4, <2>1, CancelJobSettles, RequestRetrySettles, ApplyActionSettles, ClearHistorySettles
       DEF Api
<1>5. CASE Crash
  BY <1>5, CrashSettles
<1>6. CASE UNCHANGED vars
  <2>1. UNCHANGED <<job, item, issue, notice, reminder, hand, th, slips>>
    BY <1>6 DEF vars, database, worker
  <2>2. Context'
    BY <2>1 DEF SInv, Context, RowsMine, ThreadsMine, Mine, HandLives
  <2>3. \A j \in Jobs : Beside(j)
    BY <2>1, SameIssuesActive, SameNoticesStay DEF Beside, Aside, SameCounts
  <2> QED
    BY <2>1, <2>2, <2>3, BesideAll DEF SInv, Context
<1>7. CASE Next
  <2>1. CASE \E t \in Threads : Pipeline(t) \/ Fault(t)
    BY <1>2, <1>3, <2>1
  <2>2. CASE \E u \in Users : Api(u)
    BY <1>4, <2>2
  <2> QED
    BY <1>1, <1>5, <1>7, <2>1, <2>2 DEF Next
<1> QED
  BY <1>6, <1>7

LEMMA SettlingInvariance == Spec => []SInv
BY SInvInit, SInvNext, PTL DEF Spec

\* Where no thread has the job before it, nothing is owed and all is stored.
LEMMA QuietSettled ==
  ASSUME SInv, NEW j \in Jobs, Quiet(j), j \notin slips
  PROVE  /\ job[j].count = Counted(ActiveOf(j))
         /\ \A i \in ItemsOf(j) : item[i].count = Counted(ActiveOfItem(i))
         /\ NoticesShown(j)
<1>1. \A t \in Threads : th[t].job # j /\ j \notin th[t].next
  BY ConstantsAssumption DEF Quiet, Pending
<1>2. ~Owed(j) /\ \A t \in Threads : \A pcs : ~On(t, j, pcs)
  BY <1>1 DEF Owed, On
<1>3. JobCounted(j) /\ ItemsCounted(j) /\ Noticed(j)
  BY <1>2 DEF SInv, Settling, Settled
<1> QED
  BY <1>2, <1>3 DEF JobCounted, ItemsCounted, Refreshes, Noticed

\* Once the pipelines of a job are through and the last of them was not
\* disturbed, refreshJobIssueCounters has left the number of active issues in
\* the job and in each of its items.
THEOREM CountersAreSettled == Spec => []CountersSettle
<1>1. SInv => CountersSettle
  BY QuietSettled DEF CountersSettle, Counted
<1> QED
  BY <1>1, SettlingInvariance, PTL

\* Likewise SyncJobNotifications: the notices shown under the job are those of
\* its active issues, and its end is announced exactly when no issue says it.
THEOREM NoticesAreSettled == Spec => []NoticesSettle
<1>1. SInv => NoticesSettle
  BY QuietSettled DEF NoticesSettle, NoticesShown, Shown, Says, Counted
<1> QED
  BY <1>1, SettlingInvariance, PTL

-----------------------------------------------------------------------------
(* Pipelines end.                                                          *)

\* The steps a thread has still to make for its job at most: a refresh stores
\* the job and each item, the notices are synchronised left times.
StepsOf(r) ==
  LET posts == 2 * r.left
  IN CASE r.pc = "load" -> 2 * Cardinality(Items) + 8
       [] r.pc = "write" -> 2 * Cardinality(Items) + 7
       [] r.pc = "count" -> 2 * Cardinality(Items) + 2 + posts
       [] r.pc = "setjob" -> 2 * Cardinality(Items) + 1 + posts
       [] r.pc = "item" -> 2 * Cardinality(r.items) + posts
       [] r.pc = "setitem" -> 2 * Cardinality(r.items) + posts - 1
       [] r.pc = "notice" -> posts
       [] r.pc = "post" -> posts - 1
       [] OTHER -> 0

\* What any one further job of a call may cost.
Round == 2 * Cardinality(Items) + 9
JobsLeft(r) == Cardinality(r.next) + Cardinality(r.retry)
ToGo(r) == Round * JobsLeft(r) + StepsOf(r)

\* A pipeline only moves towards its end: what users do to issues, other
\* pipelines, failed statements and crashes may cut it short, but never lead it
\* back, and each of its steps brings it nearer.
PipelinesEnd ==
  [][\A t \in Threads : th[t].pc # "idle" =>
       /\ ToGo(th[t]) \in Nat /\ ToGo(th'[t]) \in Nat
       /\ th'[t] # th[t] => ToGo(th'[t]) < ToGo(th[t])
       /\ Pipeline(t) => th'[t] # th[t]]_vars

\* A call has finitely many jobs before it, and a thread that has got to the
\* counters synchronises the notices at least once.
Steady(r) ==
  /\ IsFiniteSet(r.next) /\ IsFiniteSet(r.retry)
  /\ r.pc \in {"count", "setjob", "item", "setitem", "notice", "post"} => r.left >= 1
ThreadsSteady == \A t \in Threads : Steady(th[t])

LEMMA Size ==
  /\ Cardinality(Items) \in Nat /\ Round \in Nat
  /\ \A S \in SUBSET Items : /\ Cardinality(S) \in Nat /\ Cardinality(S) <= Cardinality(Items)
                             /\ S # {} => Cardinality(S) >= 1
                             /\ \A i \in S : Cardinality(S \ {i}) = Cardinality(S) - 1
<1>1. Cardinality(Items) \in Nat
  BY ConstantsAssumption, FS_CardinalityType
<1>2. ASSUME NEW S \in SUBSET Items
      PROVE  /\ IsFiniteSet(S) /\ Cardinality(S) \in Nat /\ Cardinality(S) <= Cardinality(Items)
             /\ S # {} => Cardinality(S) >= 1
             /\ \A i \in S : Cardinality(S \ {i}) = Cardinality(S) - 1
  <2>1. IsFiniteSet(S) /\ Cardinality(S) \in Nat /\ Cardinality(S) <= Cardinality(Items)
    BY ConstantsAssumption, FS_Subset, FS_CardinalityType
  <2>2. \A i \in S : Cardinality(S \ {i}) = Cardinality(S) - 1
    BY <2>1, FS_RemoveElement
  <2>3. S # {} => Cardinality(S) # 0
    BY <2>1, FS_EmptySet
  <2> QED
    BY <2>1, <2>2, <2>3
<1> QED
  BY <1>1, <1>2 DEF Round

LEMMA StepsOfValues ==
  ASSUME NEW r
  PROVE  /\ r.pc = "load" => StepsOf(r) = 2 * Cardinality(Items) + 8
         /\ r.pc = "write" => StepsOf(r) = 2 * Cardinality(Items) + 7
         /\ r.pc = "count" => StepsOf(r) = 2 * Cardinality(Items) + 2 + 2 * r.left
         /\ r.pc = "setjob" => StepsOf(r) = 2 * Cardinality(Items) + 1 + 2 * r.left
         /\ r.pc = "item" => StepsOf(r) = 2 * Cardinality(r.items) + 2 * r.left
         /\ r.pc = "setitem" => StepsOf(r) = 2 * Cardinality(r.items) + 2 * r.left - 1
         /\ r.pc = "notice" => StepsOf(r) = 2 * r.left
         /\ r.pc = "post" => StepsOf(r) = 2 * r.left - 1
         /\ r.pc \in {"idle", "next"} => StepsOf(r) = 0
BY DEF StepsOf

LEMMA ToGoTyped ==
  ASSUME NEW r \in Thread, Mine(r), Steady(r)
  PROVE  /\ StepsOf(r) \in Nat /\ JobsLeft(r) \in Nat /\ ToGo(r) \in Nat
         /\ StepsOf(r) = 0 => r.pc \in {"idle", "next"}
<1>1. /\ r.pc \in Steps /\ r.items \in SUBSET Items /\ r.left \in 0..2
  BY DEF Thread
<1>2. /\ Cardinality(r.items) \in Nat
      /\ r.pc \in {"item", "setitem"} => Cardinality(r.items) >= 1
  BY <1>1, Size DEF Mine
<1>3. StepsOf(r) \in Nat /\ (StepsOf(r) = 0 => r.pc \in {"idle", "next"})
  <2>1. Cardinality(Items) \in Nat /\ r.left \in Nat
    BY <1>1, Size
  <2>2. r.pc \in Steps \ {"idle", "next", "load", "write"} => r.left >= 1
    BY DEF Steps, Steady
  <2>3. CASE r.pc \in {"load", "write", "count", "setjob"}
    BY <2>1, <2>3, StepsOfValues
  <2>4. CASE r.pc \in {"item", "setitem"}
    BY <1>2, <2>1, <2>2, <2>4, StepsOfValues DEF Steps
  <2>5. CASE r.pc \in {"notice", "post"}
    BY <2>1, <2>2, <2>5, StepsOfValues DEF Steps
  <2>6. CASE r.pc \in {"idle", "next"}
    BY <2>6, StepsOfValues
  <2> QED
    BY <1>1, <2>3, <2>4, <2>5, <2>6 DEF Steps
<1>4. JobsLeft(r) \in Nat
  BY FS_CardinalityType DEF Steady, JobsLeft
<1>5. Round * JobsLeft(r) \in Nat
  BY <1>4, Size
<1> QED
  BY <1>3, <1>4, <1>5 DEF ToGo

\* Nearer to the end of a job; one job less; and the return.
LEMMA Shorter ==
  ASSUME NEW r \in Thread, NEW q \in Thread, Mine(r), Mine(q), Steady(r), Steady(q),
         \/ JobsLeft(q) = JobsLeft(r) /\ StepsOf(q) < StepsOf(r)
         \/ JobsLeft(q) = JobsLeft(r) - 1 /\ StepsOf(q) < StepsOf(r) + Round
  PROVE  ToGo(q) < ToGo(r)
<1>1. /\ StepsOf(r) \in Nat /\ JobsLeft(r) \in Nat
      /\ StepsOf(q) \in Nat /\ JobsLeft(q) \in Nat
  BY ToGoTyped
<1>2. Round \in Nat
  BY Size
<1>3. CASE JobsLeft(q) = JobsLeft(r) /\ StepsOf(q) < StepsOf(r)
  <2>1. Round * JobsLeft(q) = Round * JobsLeft(r) /\ Round * JobsLeft(r) \in Nat
    BY <1>1, <1>2, <1>3
  <2> QED
    BY <1>1, <1>3, <2>1 DEF ToGo
<1>4. CASE JobsLeft(q) = JobsLeft(r) - 1 /\ StepsOf(q) < StepsOf(r) + Round
  <2>1. Round * JobsLeft(q) = Round * JobsLeft(r) - Round /\ Round * JobsLeft(r) \in Nat
    BY <1>1, <1>2, <1>4
  <2> QED
    BY <1>1, <1>2, <1>4, <2>1 DEF ToGo
<1> QED
  BY <1>3, <1>4

LEMMA GivesUp ==
  ASSUME NEW r \in Thread, Mine(r), Steady(r), InPhase(r), r.pc # "idle"
  PROVE  Steady(Idle) /\ ToGo(Idle) = 0 /\ ToGo(r) > 0
<1>1. Steady(Idle) /\ ToGo(Idle) = 0
  <2>1. Cardinality({}) = 0 /\ IsFiniteSet({})
    BY FS_EmptySet
  <2>2. JobsLeft(Idle) = 0 /\ StepsOf(Idle) = 0
    BY <2>1 DEF JobsLeft, StepsOf, Idle, At
  <2>3. Round * 0 = 0
    BY Size
  <2> QED
    BY <2>1, <2>2, <2>3 DEF Steady, Idle, At, ToGo
<1>2. StepsOf(r) \in Nat /\ JobsLeft(r) \in Nat /\ Round * JobsLeft(r) \in Nat
  BY ToGoTyped, Size
<1>3. CASE r.pc # "next"
  <2>1. StepsOf(r) > 0
    BY <1>2, <1>3, ToGoTyped
  <2> QED
    BY <1>1, <1>2, <2>1 DEF ToGo
<1>4. CASE r.pc = "next"
  <2>1. r.next # {} \/ r.retry # {}
    BY <1>4 DEF InPhase
  <2>2. /\ Cardinality(r.next) \in Nat /\ Cardinality(r.retry) \in Nat
        /\ (r.next # {} => Cardinality(r.next) # 0) /\ (r.retry # {} => Cardinality(r.retry) # 0)
    BY FS_CardinalityType, FS_EmptySet DEF Steady
  <2>3. JobsLeft(r) >= 1
    BY <2>1, <2>2 DEF JobsLeft
  <2>4. Round \in Nat /\ Round >= 9
    BY Size DEF Round
  <2>5. Round * JobsLeft(r) > 0
    BY <1>2, <2>3, <2>4
  <2> QED
    BY <1>1, <1>2, <2>5 DEF ToGo
<1> QED
  BY <1>3, <1>4, <1>1

-----------------------------------------------------------------------------
\* What a step is to do to the thread that makes it, from r to q.
Ends(r, q) == Steady(q) /\ ToGo(q) < ToGo(r)

LEMMA AtSteady ==
  ASSUME NEW pc, NEW j, NEW left, NEW next, NEW retry,
         IsFiniteSet(next), IsFiniteSet(retry), pc \in {"count", "notice"} => left >= 1,
         pc \notin {"setjob", "item", "setitem", "post"}
  PROVE  LET q == At(pc, j, left, next, retry)
         IN /\ Steady(q) /\ q.pc = pc /\ q.left = left
            /\ JobsLeft(q) = Cardinality(next) + Cardinality(retry)
BY DEF At, Steady, JobsLeft

LEMMA AbandonEnds ==
  ASSUME NEW r \in Thread, Mine(r), Steady(r), Abandon(r) \in Thread,
         \/ r.pc \in {"load", "write"}
         \/ r.pc \in {"count", "setjob", "item", "setitem"} /\ r.left = 2
  PROVE  Ends(r, Abandon(r))
<1> DEFINE q == Abandon(r)
<1>1. Steady(q) /\ q.pc = "notice" /\ q.left = 1 /\ JobsLeft(q) = JobsLeft(r)
  BY AtSteady DEF Abandon, Steady, JobsLeft
<1>2. StepsOf(q) = 2 /\ Mine(q)
  BY <1>1, StepsOfValues, MineAbandon
<1>3. StepsOf(r) > 2
  <2>1. r.items \in SUBSET Items
    BY DEF Thread
  <2>2. r.pc \in {"item", "setitem"} => Cardinality(r.items) >= 1
    BY <2>1, Size DEF Mine
  <2> QED
    BY <2>1, <2>2, Size, StepsOfValues
<1> HIDE DEF q
<1> QED
  BY <1>1, <1>2, <1>3, Shorter DEF Ends, q

LEMMA AfterNoticesEnds ==
  ASSUME NEW r \in Thread, Mine(r), Steady(r), InPhase(r), AfterNotices(r) \in Thread,
         r.pc \in {"notice", "post"}
  PROVE  Ends(r, AfterNotices(r))
<1> DEFINE q == AfterNotices(r)
<1>1. r.left \in 1..2 /\ StepsOf(r) = IF r.pc = "notice" THEN 2 * r.left ELSE 2 * r.left - 1
  BY StepsOfValues DEF Thread, Steady
<1>2. Mine(q)
  BY MineAfterNotices
<1>3. CASE r.left = 2
  <2>1. q = At("notice", r.job, 1, r.next, r.retry)
    BY <1>3 DEF AfterNotices
  <2> HIDE DEF q
  <2>2. Steady(q) /\ q.pc = "notice" /\ q.left = 1 /\ JobsLeft(q) = JobsLeft(r)
    BY <2>1, AtSteady DEF Steady, JobsLeft
  <2>3. StepsOf(q) = 2
    BY <2>2, StepsOfValues
  <2> QED
    BY <1>1, <1>2, <1>3, <2>2, <2>3, Shorter DEF Ends, q
<1>4. CASE r.left = 1 /\ (r.next # {} \/ r.retry # {})
  <2>1. q = At("next", None, 0, r.next, r.retry)
    BY <1>4 DEF AfterNotices, Return
  <2> HIDE DEF q
  <2>2. Steady(q) /\ q.pc = "next" /\ JobsLeft(q) = JobsLeft(r)
    BY <2>1, AtSteady DEF Steady, JobsLeft
  <2>3. StepsOf(q) = 0
    BY <2>2, StepsOfValues
  <2> QED
    BY <1>1, <1>2, <1>4, <2>2, <2>3, Shorter DEF Ends, q
<1>5. CASE r.left = 1 /\ r.next = {} /\ r.retry = {}
  <2>1. q = Idle
    BY <1>5 DEF AfterNotices, Return
  <2> QED
    BY <2>1, GivesUp DEF Ends
<1> QED
  BY <1>1, <1>3, <1>4, <1>5

\* Steps that only read or store: the rest of the call stays as it is.
LEMMA StaysEnds ==
  ASSUME NEW r \in Thread, NEW q \in Thread, Mine(r), Mine(q), Steady(r),
         q.next = r.next, q.retry = r.retry,
         q.pc \in {"setjob", "item", "setitem", "notice", "post"} => q.left >= 1,
         q.pc # "count", StepsOf(q) < StepsOf(r)
  PROVE  Ends(r, q)
<1>1. Steady(q) /\ JobsLeft(q) = JobsLeft(r)
  BY DEF Steady, JobsLeft
<1> QED
  BY <1>1, Shorter DEF Ends

\* The thread of the step moves on, and no other moves.
Advances(t) ==
  Ends(th[t], th'[t]) /\ \A u \in Threads : u # t => th'[u] = th[u]

\* What is known before and after a step.
Known == SInv /\ SInv' /\ ThreadsSteady

LEMMA ThreadsKnown ==
  ASSUME Known, NEW t \in Threads
  PROVE  /\ th[t] \in Thread /\ InPhase(th[t]) /\ Mine(th[t]) /\ Steady(th[t])
         /\ th'[t] \in Thread /\ Mine(th'[t])
         /\ \A r : Set(t, r) => th'[t] = r /\ \A u \in Threads : u # t => th'[u] = th[u]
<1>1. IInv /\ IInv' /\ ThreadsMine /\ ThreadsMine'
  BY DEF Known, SInv, Context
<1>2. th[t] \in Thread /\ InPhase(th[t]) /\ th'[t] \in Thread
  BY <1>1 DEF IInv, ThreadsOK
<1>3. Mine(th[t]) /\ Mine(th'[t]) /\ Steady(th[t])
  BY <1>1 DEF ThreadsMine, Mine, Known, ThreadsSteady
<1> QED
  BY <1>1, <1>2, <1>3, Moved

LEMMA SyncEnds ==
  ASSUME Known, NEW t \in Threads, SyncLoad(t) \/ SyncWrite(t)
  PROVE  Advances(t)
<1> DEFINE r == th[t]
           q == th'[t]
<1>1. /\ r \in Thread /\ Mine(r) /\ Steady(r) /\ q \in Thread /\ Mine(q)
  BY ThreadsKnown
<1>2. CASE SyncLoad(t)
  <2>1. PICK c, st, p, o :
          Set(t, [th[t] EXCEPT !.pc = "write", !.cands = c, !.status = st, !.pick = p, !.old = o])
    BY <1>2 DEF SyncLoad
  <2>2. /\ q = [r EXCEPT !.pc = "write", !.cands = c, !.status = st, !.pick = p, !.old = o]
        /\ \A u \in Threads : u # t => th'[u] = th[u]
    BY <2>1, ThreadsKnown
  <2>3. q.pc = "write" /\ q.next = r.next /\ q.retry = r.retry /\ r.pc = "load"
    BY <1>1, <1>2, <2>2 DEF Thread, SyncLoad
  <2>4. StepsOf(q) < StepsOf(r)
    BY <2>3, Size, StepsOfValues
  <2> HIDE DEF r, q
  <2>5. Ends(r, q)
    BY <1>1, <2>3, <2>4, StaysEnds
  <2> QED
    BY <2>2, <2>5 DEF Advances, r, q
<1>3. CASE SyncWrite(t)
  <2>1. r.pc = "write" /\ r.next = {}
    BY <1>1, <1>3 DEF SyncWrite, Mine
  <2>2. Set(t, Abandon(r)) \/ Set(t, At("count", r.job, 2, {}, r.retry))
    BY <1>3 DEF SyncWrite
  <2>3. \A u \in Threads : u # t => th'[u] = th[u]
    BY <2>2, ThreadsKnown
  <2>4. CASE q = Abandon(r)
    BY <1>1, <2>1, <2>3, <2>4, AbandonEnds DEF Advances
  <2>5. CASE q = At("count", r.job, 2, {}, r.retry)
    <3>1. IsFiniteSet({}) /\ IsFiniteSet(r.retry)
      BY <1>1, FS_EmptySet DEF Steady
    <3>2. Steady(q) /\ q.pc = "count" /\ q.left = 2 /\ JobsLeft(q) = JobsLeft(r)
      BY <2>1, <2>5, <3>1, AtSteady DEF JobsLeft
    <3>3. StepsOf(q) < StepsOf(r)
      BY <2>1, <3>2, Size, StepsOfValues
    <3> HIDE DEF r, q
    <3>4. Ends(r, q)
      BY <1>1, <3>2, <3>3, Shorter DEF Ends
    <3> QED
      BY <2>3, <3>4 DEF Advances, r, q
  <2> QED
    BY <2>2, <2>4, <2>5, ThreadsKnown
<1> QED
  BY <1>2, <1>3

LEMMA CountEnds ==
  ASSUME Known, NEW t \in Threads, CountJob(t) \/ StoreJobCount(t)
  PROVE  Advances(t)
<1> DEFINE r == th[t]
           q == th'[t]
<1>1. /\ r \in Thread /\ Mine(r) /\ Steady(r) /\ q \in Thread /\ Mine(q) /\ r.left \in 0..2
  BY ThreadsKnown DEF Thread
<1>2. CASE CountJob(t)
  <2>1. PICK c, e : Set(t, [th[t] EXCEPT !.pc = "setjob", !.count = c, !.err = e])
    BY <1>2 DEF CountJob
  <2>2. /\ q = [r EXCEPT !.pc = "setjob", !.count = c, !.err = e]
        /\ \A u \in Threads : u # t => th'[u] = th[u]
    BY <2>1, ThreadsKnown
  <2>3. /\ q.pc = "setjob" /\ q.next = r.next /\ q.retry = r.retry /\ q.left = r.left
        /\ r.pc = "count"
    BY <1>1, <1>2, <2>2 DEF Thread, CountJob
  <2>4. StepsOf(q) < StepsOf(r) /\ q.left >= 1
    BY <1>1, <2>3, Size, StepsOfValues DEF Steady
  <2> HIDE DEF r, q
  <2>5. Ends(r, q)
    BY <1>1, <2>3, <2>4, StaysEnds
  <2> QED
    BY <2>2, <2>5 DEF Advances, r, q
<1>3. CASE StoreJobCount(t)
  <2>1. /\ q = [r EXCEPT !.items = ItemsOf(r.job), !.count = 0, !.err = None,
                         !.pc = AfterCount(ItemsOf(r.job))]
        /\ \A u \in Threads : u # t => th'[u] = th[u]
    BY <1>3, ThreadsKnown DEF StoreJobCount
  <2>2. /\ q.pc = AfterCount(ItemsOf(r.job)) /\ q.items = ItemsOf(r.job)
        /\ q.next = r.next /\ q.retry = r.retry /\ q.left = r.left /\ r.pc = "setjob"
    BY <1>1, <1>3, <2>1 DEF Thread, StoreJobCount
  <2>3. q.pc \in {"item", "notice"} /\ q.left >= 1
    BY <1>1, <2>2 DEF AfterCount, Steady
  <2>4. Cardinality(q.items) \in Nat /\ Cardinality(q.items) <= Cardinality(Items)
    BY <2>2, Size DEF ItemsOf
  <2>5. StepsOf(q) < StepsOf(r)
    BY <1>1, <2>2, <2>3, <2>4, Size, StepsOfValues
  <2> HIDE DEF r, q
  <2>6. Ends(r, q)
    BY <1>1, <2>2, <2>3, <2>5, StaysEnds
  <2> QED
    BY <2>1, <2>6 DEF Advances, r, q
<1> QED
  BY <1>2, <1>3

LEMMA ItemsEnd ==
  ASSUME Known, NEW t \in Threads, CountItem(t) \/ StoreItemCount(t)
  PROVE  Advances(t)
<1> DEFINE r == th[t]
           q == th'[t]
<1>1. /\ r \in Thread /\ Mine(r) /\ Steady(r) /\ q \in Thread /\ Mine(q)
      /\ r.left \in 0..2 /\ r.items \in SUBSET Items
  BY ThreadsKnown DEF Thread
<1>2. r.pc \in {"item", "setitem"} /\ r.left >= 1 /\ r.items # {}
  BY <1>1 DEF CountItem, StoreItemCount, Steady, Mine
<1>3. Cardinality(r.items) \in Nat
  BY <1>1, Size
<1>4. CASE CountItem(t)
  <2>1. PICK c, e : Set(t, [th[t] EXCEPT !.pc = "setitem", !.count = c, !.err = e])
    BY <1>4 DEF CountItem
  <2>2. /\ q = [r EXCEPT !.pc = "setitem", !.count = c, !.err = e]
        /\ \A u \in Threads : u # t => th'[u] = th[u]
    BY <2>1, ThreadsKnown
  <2>3. /\ q.pc = "setitem" /\ q.next = r.next /\ q.retry = r.retry /\ q.left = r.left
        /\ q.items = r.items /\ r.pc = "item"
    BY <1>1, <1>4, <2>2 DEF Thread, CountItem
  <2>4. StepsOf(q) < StepsOf(r)
    BY <1>1, <1>3, <2>3, StepsOfValues
  <2> HIDE DEF r, q
  <2>5. Ends(r, q)
    BY <1>1, <1>2, <2>3, <2>4, StaysEnds
  <2> QED
    BY <2>2, <2>5 DEF Advances, r, q
<1>5. CASE StoreItemCount(t)
  <2>0. PICK i : i = CHOOSE k \in r.items : TRUE
    OBVIOUS
  <2>1. /\ q = [r EXCEPT !.items = @ \ {i}, !.count = 0, !.err = None,
                         !.pc = AfterCount(r.items \ {i})]
        /\ \A u \in Threads : u # t => th'[u] = th[u]
    BY <1>5, <2>0, ThreadsKnown DEF StoreItemCount
  <2>2. i \in r.items
    BY <1>2, <2>0
  <2>3. /\ q.pc = AfterCount(r.items \ {i}) /\ q.items = r.items \ {i}
        /\ q.next = r.next /\ q.retry = r.retry /\ q.left = r.left /\ r.pc = "setitem"
    BY <1>1, <1>5, <2>1 DEF Thread, StoreItemCount
  <2>4. q.pc \in {"item", "notice"} /\ q.left >= 1
    BY <1>2, <2>3 DEF AfterCount
  <2>5. Cardinality(q.items) = Cardinality(r.items) - 1 /\ Cardinality(r.items) >= 1
    BY <1>1, <1>2, <2>2, <2>3, Size
  <2>6. StepsOf(r) = 2 * Cardinality(r.items) + 2 * r.left - 1
    BY <2>3, StepsOfValues
  <2>7. \/ StepsOf(q) = 2 * Cardinality(q.items) + 2 * r.left
        \/ StepsOf(q) = 2 * r.left
    BY <2>3, <2>4, StepsOfValues
  <2>8. StepsOf(q) < StepsOf(r)
    BY <1>1, <1>3, <2>5, <2>6, <2>7
  <2> HIDE DEF r, q
  <2>9. Ends(r, q)
    BY <1>1, <2>3, <2>4, <2>8, StaysEnds
  <2> QED
    BY <2>1, <2>9 DEF Advances, r, q
<1> QED
  BY <1>4, <1>5

LEMMA NoticesEnd ==
  ASSUME Known, NEW t \in Threads, NoticeLoad(t) \/ NoticePost(t)
  PROVE  Advances(t)
<1> DEFINE r == th[t]
           q == th'[t]
<1>1. /\ r \in Thread /\ Mine(r) /\ Steady(r) /\ InPhase(r) /\ q \in Thread /\ Mine(q)
      /\ r.left \in 0..2
  BY ThreadsKnown DEF Thread
<1>2. CASE NoticeLoad(t)
  <2>1. PICK a, st, c, n, s :
          Set(t, [th[t] EXCEPT !.pc = "post", !.active = a, !.status = st, !.count = c,
                               !.seen = n, !.said = s])
    BY <1>2 DEF NoticeLoad
  <2>2. /\ q = [r EXCEPT !.pc = "post", !.active = a, !.status = st, !.count = c,
                      !.seen = n, !.said = s]
        /\ \A u \in Threads : u # t => th'[u] = th[u]
    BY <2>1, ThreadsKnown
  <2>3. /\ q.pc = "post" /\ q.next = r.next /\ q.retry = r.retry /\ q.left = r.left
        /\ r.pc = "notice"
    BY <1>1, <1>2, <2>2 DEF Thread, NoticeLoad
  <2>4. StepsOf(q) < StepsOf(r) /\ q.left >= 1
    BY <1>1, <2>3, StepsOfValues DEF Steady
  <2> HIDE DEF r, q
  <2>5. Ends(r, q)
    BY <1>1, <2>3, <2>4, StaysEnds
  <2> QED
    BY <2>2, <2>5 DEF Advances, r, q
<1>3. CASE NoticePost(t)
  <2>1. q = AfterNotices(r) /\ r.pc = "post" /\ \A u \in Threads : u # t => th'[u] = th[u]
    BY <1>3, ThreadsKnown DEF NoticePost
  <2> QED
    BY <1>1, <2>1, AfterNoticesEnds DEF Advances
<1> QED
  BY <1>2, <1>3

LEMMA OneLess ==
  ASSUME NEW S, IsFiniteSet(S), NEW j \in S
  PROVE  IsFiniteSet(S \ {j}) /\ Cardinality(S \ {j}) = Cardinality(S) - 1
BY FS_RemoveElement

LEMMA NextEnds ==
  ASSUME Known, NEW t \in Threads, NextJob(t) \/ \E j \in Jobs : RetryJob(t, j)
  PROVE  Advances(t)
<1> DEFINE r == th[t]
           q == th'[t]
<1>1. /\ r \in Thread /\ Mine(r) /\ Steady(r) /\ InPhase(r) /\ q \in Thread /\ Mine(q)
      /\ r.pc = "next"
  BY ThreadsKnown DEF NextJob, RetryJob
<1>2. /\ IsFiniteSet(r.next) /\ Cardinality(r.next) \in Nat
      /\ IsFiniteSet(r.retry) /\ Cardinality(r.retry) \in Nat
  BY <1>1, FS_CardinalityType DEF Steady
<1>3. CASE NextJob(t)
  <2>1. PICK j \in r.next : Set(t, At("count", j, 1, r.next \ {j}, r.retry))
    BY <1>3 DEF NextJob
  <2>2. /\ q = At("count", j, 1, r.next \ {j}, r.retry)
        /\ \A u \in Threads : u # t => th'[u] = th[u]
    BY <2>1, ThreadsKnown
  <2>3. IsFiniteSet(r.next \ {j}) /\ Cardinality(r.next \ {j}) = Cardinality(r.next) - 1
    BY <1>2, OneLess
  <2>4. /\ Steady(q) /\ q.pc = "count" /\ q.left = 1
        /\ JobsLeft(q) = Cardinality(r.next) - 1 + Cardinality(r.retry)
    BY <1>2, <2>2, <2>3, AtSteady
  <2>5. JobsLeft(q) = JobsLeft(r) - 1
    BY <1>2, <2>4 DEF JobsLeft
  <2>6. StepsOf(q) < StepsOf(r) + Round
    BY <1>1, <2>4, Size, StepsOfValues DEF Round
  <2> HIDE DEF r, q
  <2>7. Ends(r, q)
    BY <1>1, <2>4, <2>5, <2>6, Shorter DEF Ends
  <2> QED
    BY <2>2, <2>7 DEF Advances, r, q
<1>4. ASSUME NEW j \in Jobs, RetryJob(t, j)
      PROVE  Advances(t)
  <2>1. /\ r.next = {} /\ j \in r.retry
        /\ Set(t, At("load", j, 0, {}, r.retry \ {j})) \/ Set(t, Idle)
    BY <1>4 DEF RetryJob
  <2>2. \A u \in Threads : u # t => th'[u] = th[u]
    BY <2>1, ThreadsKnown
  <2>3. CASE q = At("load", j, 0, {}, r.retry \ {j})
    <3>1. IsFiniteSet(r.retry \ {j}) /\ Cardinality(r.retry \ {j}) = Cardinality(r.retry) - 1
      BY <1>2, <2>1, OneLess
    <3>2. IsFiniteSet({}) /\ Cardinality({}) = 0
      BY FS_EmptySet
    <3>3. /\ Steady(q) /\ q.pc = "load"
          /\ JobsLeft(q) = 0 + (Cardinality(r.retry) - 1)
      BY <1>2, <2>3, <3>1, <3>2, AtSteady
    <3>4. JobsLeft(q) = JobsLeft(r) - 1
      BY <1>2, <2>1, <3>2, <3>3 DEF JobsLeft
    <3>5. StepsOf(q) < StepsOf(r) + Round
      BY <1>1, <3>3, Size, StepsOfValues DEF Round
    <3> HIDE DEF r, q
    <3>6. Ends(r, q)
      BY <1>1, <3>3, <3>4, <3>5, Shorter DEF Ends
    <3> QED
      BY <2>2, <3>6 DEF Advances, r, q
  <2>4. CASE q = Idle
    BY <1>1, <2>2, <2>4, GivesUp DEF Advances, Ends
  <2> QED
    BY <2>1, <2>3, <2>4, ThreadsKnown
<1> QED
  BY <1>3, <1>4

LEMMA FaultEnds ==
  ASSUME Known, NEW t \in Threads, Fault(t)
  PROVE  Advances(t) /\ th[t].pc # "idle"
<1> DEFINE r == th[t]
           q == th'[t]
<1>1. /\ r \in Thread /\ Mine(r) /\ Steady(r) /\ InPhase(r) /\ q \in Thread
  BY ThreadsKnown
<1>2. CASE r.pc \in {"load", "write"}
  <2>1. q = Abandon(r) /\ \A u \in Threads : u # t => th'[u] = th[u]
    BY <1>2, ThreadsKnown DEF Fault
  <2> QED
    BY <1>1, <1>2, <2>1, AbandonEnds DEF Advances
<1>3. CASE r.pc \in {"count", "setjob", "item", "setitem"}
  <2>1. /\ \/ r.left = 2 /\ q = Abandon(r)
           \/ q = Idle
        /\ \A u \in Threads : u # t => th'[u] = th[u]
    BY <1>3, ThreadsKnown DEF Fault
  <2> QED
    BY <1>1, <1>3, <2>1, AbandonEnds, GivesUp DEF Advances, Ends
<1>4. CASE r.pc \in {"notice", "post"}
  <2>1. q = AfterNotices(r) /\ \A u \in Threads : u # t => th'[u] = th[u]
    BY <1>4, ThreadsKnown DEF Fault
  <2> QED
    BY <1>1, <1>4, <2>1, AfterNoticesEnds DEF Advances
<1>5. r.pc \in {"load", "write", "count", "setjob", "item", "setitem", "notice", "post"}
  BY DEF Fault
<1> QED
  BY <1>2, <1>3, <1>4, <1>5

\* The engine and the API start pipelines where there is none.
Starts(t) ==
  /\ th[t].pc = "idle" /\ Steady(th'[t])
  /\ \A u \in Threads : u # t => th'[u] = th[u]

LEMMA EngineStarts ==
  ASSUME Known, Engine
  PROVE  th' = th \/ \E t \in Threads : Starts(t)
<1>1. \/ th' = th
      \/ WorkerIdle /\ Set(Worker, Sync(hand))
  BY DEF Engine, Claim, StartItem, ItemCompletes, ItemIsInterrupted, ItemFails, ItemIsDeferred,
         Finish, CancelPendingItems, FinalizeJob, JobFails
<1>2. Worker \in Threads /\ IsFiniteSet({})
  BY FS_EmptySet DEF Threads
<1>3. Steady(Sync(hand))
  BY <1>2, AtSteady DEF Sync
<1> QED
  BY <1>1, <1>2, <1>3, ThreadsKnown DEF WorkerIdle, Starts

LEMMA ApiStarts ==
  ASSUME Known, NEW u \in Users, Api(u)
  PROVE  Starts(u)
<1>1. u \in Threads /\ IsFiniteSet({}) /\ (\A j : IsFiniteSet({j}))
  BY FS_EmptySet, FS_Singleton DEF Threads
<1>2. ASSUME NEW S \in SUBSET Rows
      PROVE  IsFiniteSet(S) /\ IsFiniteSet({issue[n].task : n \in S})
  <2>1. IsFiniteSet(Ids)
    BY FS_Interval, ConstantsAssumption DEF Ids
  <2>2. IsFiniteSet(S)
    BY <2>1, FS_Subset DEF Rows
  <2> DEFINE tasks == {issue[n].task : n \in S}
             f == [n \in S |-> issue[n].task]
  <2>3. f \in Surjection(S, tasks)
    BY DEF Surjection
  <2> QED
    BY <2>2, <2>3, FS_Surjection
<1>3. ASSUME NEW j \in Jobs, CancelJob(u, j) \/ RequestRetry(u, j)
      PROVE  Starts(u)
  <2>1. th[u].pc = "idle" /\ (Set(u, Sync(j)) \/ Set(u, At("next", None, 0, {}, {j})))
    BY <1>3 DEF CancelJob, RequestRetry, Call
  <2>2. Steady(Sync(j)) /\ Steady(At("next", None, 0, {}, {j}))
    BY <1>1, AtSteady DEF Sync
  <2> QED
    BY <1>1, <2>1, <2>2, ThreadsKnown DEF Starts
<1>4. ASSUME NEW S \in SUBSET Rows, NEW action, ApplyAction(u, action, S)
      PROVE  Starts(u)
  <2> DEFINE tasks == {issue[n].task : n \in S}
             more == IF action = "retry" THEN tasks ELSE {}
  <2>1. th[u].pc = "idle" /\ Set(u, At("next", None, 0, tasks, more))
    BY <1>4 DEF ApplyAction, Call
  <2>2. IsFiniteSet(tasks) /\ IsFiniteSet(more)
    BY <1>1, <1>2
  <2> HIDE DEF tasks, more
  <2>3. Steady(At("next", None, 0, tasks, more))
    BY <2>2, AtSteady
  <2> QED
    BY <1>1, <2>1, <2>3, ThreadsKnown DEF Starts
<1>5. ASSUME NEW S \in SUBSET Rows, ClearHistory(u, S)
      PROVE  Starts(u)
  <2> DEFINE cleared == {n \in S : issue[n].status \in HistoricalStatus}
             tasks == {issue[n].task : n \in cleared}
  <2>1. th[u].pc = "idle" /\ Set(u, At("next", None, 0, tasks, {}))
    BY <1>5 DEF ClearHistory
  <2>2. cleared \in SUBSET Rows
    OBVIOUS
  <2> HIDE DEF cleared
  <2>3. IsFiniteSet(tasks)
    BY <1>2, <2>2
  <2> HIDE DEF tasks
  <2>4. Steady(At("next", None, 0, tasks, {}))
    BY <1>1, <2>3, AtSteady
  <2> QED
    BY <1>1, <2>1, <2>4, ThreadsKnown DEF Starts
<1> QED
  BY <1>3, <1>4, <1>5 DEF Api

LEMMA PipelineEnds ==
  ASSUME Known, NEW t \in Threads, Pipeline(t)
  PROVE  Advances(t) /\ th[t].pc # "idle"
<1>1. Advances(t)
  BY SyncEnds, CountEnds, ItemsEnd, NoticesEnd, NextEnds DEF Pipeline
<1>2. th[t].pc # "idle"
  BY DEF Pipeline, SyncLoad, SyncWrite, CountJob, StoreJobCount, CountItem, StoreItemCount,
         NoticeLoad, NoticePost, NextJob, RetryJob
<1> QED
  BY <1>1, <1>2

\* What any step does to a thread.
LEMMA ThreadStep ==
  ASSUME Known, [Next]_vars, NEW t \in Threads
  PROVE  \/ th'[t] = th[t]
         \/ th[t].pc # "idle" /\ Ends(th[t], th'[t])
         \/ th[t].pc = "idle" /\ Steady(th'[t])
<1> DEFINE Goal == \/ th'[t] = th[t]
                   \/ th[t].pc # "idle" /\ Ends(th[t], th'[t])
                   \/ th[t].pc = "idle" /\ Steady(th'[t])
<1>1. ASSUME NEW u \in Threads, Pipeline(u) \/ Fault(u) PROVE Goal
  BY <1>1, PipelineEnds, FaultEnds DEF Advances
<1>2. Engine => Goal
  BY EngineStarts DEF Starts
<1>3. ASSUME NEW u \in Users, Api(u) PROVE Goal
  BY <1>3, ApiStarts DEF Starts
<1>4. ASSUME Crash PROVE Goal
  <2>1. th'[t] = Idle
    BY <1>4 DEF Crash
  <2>2. /\ th[t] \in Thread /\ Mine(th[t]) /\ Steady(th[t]) /\ InPhase(th[t])
    BY ThreadsKnown
  <2>3. Steady(Idle)
    BY FS_EmptySet DEF Steady, Idle, At
  <2> QED
    BY <2>1, <2>2, <2>3, GivesUp DEF Ends
<1>5. UNCHANGED vars => Goal
  BY DEF vars
<1> HIDE DEF Goal
<1>6. Goal
  BY <1>1, <1>2, <1>3, <1>4, <1>5 DEF Next
<1> QED
  BY <1>6 DEF Goal

LEMMA SteadyInit == Init => ThreadsSteady
<1> SUFFICES ASSUME Init, NEW t \in Threads PROVE Steady(th[t])
  BY DEF ThreadsSteady
<1> QED
  BY FS_EmptySet DEF Init, Idle, At, Steady

LEMMA SteadyNext == SInv /\ ThreadsSteady /\ [Next]_vars => ThreadsSteady'
<1> SUFFICES ASSUME SInv, ThreadsSteady, [Next]_vars, NEW t \in Threads PROVE Steady(th'[t])
  BY DEF ThreadsSteady, Steady
<1>1. Known
  BY SInvNext DEF Known
<1> QED
  BY <1>1, ThreadStep, ThreadsKnown DEF Ends

\* Every pipeline and every call of the API is over after finitely many of its
\* own steps, for any jobs, items and callers: whatever users, other pipelines,
\* failures and crashes do, ToGo never grows, and no step leaves it as it is.
THEOREM EveryPipelineEnds == Spec => PipelinesEnd
<1> DEFINE Ending ==
      \A t \in Threads : th[t].pc # "idle" =>
        /\ ToGo(th[t]) \in Nat /\ ToGo(th'[t]) \in Nat
        /\ th'[t] # th[t] => ToGo(th'[t]) < ToGo(th[t])
        /\ Pipeline(t) => th'[t] # th[t]
<1>1. SInv /\ ThreadsSteady /\ [Next]_vars => Ending
  <2> SUFFICES ASSUME SInv, ThreadsSteady, [Next]_vars, NEW t \in Threads, th[t].pc # "idle"
               PROVE  /\ ToGo(th[t]) \in Nat /\ ToGo(th'[t]) \in Nat
                      /\ th'[t] # th[t] => ToGo(th'[t]) < ToGo(th[t])
                      /\ Pipeline(t) => th'[t] # th[t]
    OBVIOUS
  <2>1. Known
    BY SInvNext DEF Known
  <2>2. th'[t] = th[t] \/ Ends(th[t], th'[t])
    BY <2>1, ThreadStep
  <2>3. ToGo(th[t]) \in Nat /\ ToGo(th'[t]) \in Nat
    BY <2>1, <2>2, ThreadsKnown, ToGoTyped DEF Ends
  <2>4. Pipeline(t) => ToGo(th'[t]) < ToGo(th[t])
    BY <2>1, PipelineEnds DEF Advances, Ends
  <2> QED
    BY <2>2, <2>3, <2>4 DEF Ends
<1> HIDE DEF Ending
<1>2. Spec => [](SInv /\ ThreadsSteady)
  BY SInvInit, SInvNext, SteadyInit, SteadyNext, PTL DEF Spec
<1> QED
  BY <1>1, <1>2, PTL DEF Spec, PipelinesEnd, Ending
=============================================================================
