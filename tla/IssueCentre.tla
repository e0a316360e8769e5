----------------------------- MODULE IssueCentre -----------------------------
(***************************************************************************)
(* The issue centre and the notices it drives                              *)
(* (services/center/internal/issues and .../notifications).                *)
(*                                                                         *)
(* After each of its transactions the job engine calls SyncJobIssues, which *)
(* in one transaction turns the failed items of the job into issues, then  *)
(* refreshes the issue counters of the job and its items statement by      *)
(* statement, and then projects job and issues onto notices in a third     *)
(* transaction.  Users act on issues through transitionIssues, which goes  *)
(* through the same counters and notices.  The worker and the callers of   *)
(* the API run these pipelines concurrently: a variable `th' holds, for    *)
(* each of them, the step it is at and what it has read so far.            *)
(*                                                                         *)
(* The engine itself is module JobEngine; here it is reduced to the        *)
(* transactions that start a pipeline or change what a pipeline reads.     *)
(***************************************************************************)
EXTENDS Naturals, FiniteSets

CONSTANTS
  Jobs, Items,     \* jobs and their items
  JobOf,           \* job_items.job_id
  ObjectOf,        \* the object an item, or a job, is about: label, endpoint, path
  Messages,        \* error messages of executors
  Users,           \* concurrent callers of the API
  Worker,          \* the one worker goroutine of the engine
  None,            \* SQL NULL
  Generic,         \* the message given to a failure that has none
  Choices,         \* what users may do to issues
  Streaming,       \* TRUE: the driver refuses a second statement on a
                   \* connection whose result rows are still being read
  MaxIssues,       \* bound: rows ever inserted into issues
  MaxFailures,     \* bound: failures of items, jobs and statements, and crashes
  MaxActions       \* bound: calls of the API

Threads == Users \cup {Worker}
Ids == 1..MaxIssues

ASSUME ConstantsAssumption ==
  /\ JobOf \in [Items -> Jobs]
  /\ IsFiniteSet(Items)
  /\ Jobs \cap Items = {}
  /\ Worker \notin Users
  /\ None \notin Messages \cup Jobs \cup Items \cup {Generic}
  /\ Generic \notin Messages
  /\ Choices \subseteq {"confirm", "ignore", "archive", "retry"}
  /\ Streaming \in BOOLEAN
  /\ {MaxIssues, MaxFailures, MaxActions} \subseteq Nat

VARIABLES
  job,        \* job -> [status, err, count]: the columns of jobs used here
  item,       \* item -> [status, err, count]: the same of job_items
  issue,      \* id -> row of issues, or None
  nextId,     \* the next unused id
  notice,     \* id -> the notice of the issue: [job, shown], or None
  reminder,   \* job -> the notice of the job: "none", "ACTIVE" or "STALE"
  hand,       \* the worker's job, or None
  todo, due,  \* the items its loop has not come to yet; those of them to execute
  doing,      \* the item the worker executes, or None
  th,         \* thread -> step and what it has read
  slips,      \* history: jobs whose last pipeline was disturbed
  failures, actions   \* counted against the bounds

database == <<job, item, issue, nextId, notice, reminder>>
worker == <<hand, todo, due, doing>>
bounds == <<failures, actions>>
vars == <<database, worker, th, slips, bounds>>

ItemsOf(j) == {i \in Items : JobOf[i] = j}
Having(j, statuses) == {i \in ItemsOf(j) : item[i].status \in statuses}

-----------------------------------------------------------------------------
(* Issues.                                                                 *)

ActiveStatus == {"OPEN", "AWAITING_CONFIRMATION", "IN_PROGRESS"}
HistoricalStatus == {"IGNORED", "RESOLVED", "ARCHIVED"}

Rows == {n \in Ids : issue[n] # None}
ActiveOf(j) == {n \in Rows : issue[n].task = j /\ issue[n].status \in ActiveStatus}
ActiveOfItem(i) == {n \in Rows : issue[n].item = i /\ issue[n].status \in ActiveStatus}

\* The message of the latest active issue.  Which of several is the latest is
\* a matter of clock readings, left open here.
LatestErr(S) == IF S = {} THEN {None} ELSE {issue[n].err : n \in S}

\* An error is a code and a message; both columns are NULL, or the code alone.
CodeOf(err) == IF err = None THEN "none" ELSE err[1]
Executing(m) == <<"execution", m>>
Failing(m) == <<"engine", m>>

\* The detail of an item's failure: its own message, or its job's, or a
\* general one.
Detail(i) ==
  LET own == item[i].err  jobs == job[JobOf[i]].err
  IN IF own # None THEN own[2] ELSE IF jobs # None THEN jobs[2] ELSE Generic

\* deriveIssueType: the code of the item, or of its job, or the job's intent.
IssueType(i) == IF CodeOf(item[i].err) # "none" THEN CodeOf(item[i].err) ELSE CodeOf(job[JobOf[i]].err)

\* buildIssueDedupeKey: what is concerned, the type, the error.  Category
\* and domain are taken to follow from these.
ItemKey(i) == <<ObjectOf[i], IssueType(i), <<CodeOf(item[i].err), Detail(i)>>>>
JobKey(j) == <<ObjectOf[j], "none", job[j].err>>

\* One candidate per key (normalizeIssueCandidates): of the items that share
\* the key it carries the first and the detection keys of all.
ItemCandidate(key, S) ==
  [key |-> key, item |-> CHOOSE i \in S : TRUE, err |-> key[3],
   found |-> {<<i, item[i].err>> : i \in S}]

Candidates(j) ==
  LET failed == Having(j, {"FAILED"})
  IN IF failed # {}
     THEN {ItemCandidate(k, {i \in failed : ItemKey(i) = k}) : k \in {ItemKey(i) : i \in failed}}
     ELSE IF job[j].status = "FAILED" /\ job[j].err # None
          THEN {[key |-> JobKey(j), item |-> None, err |-> job[j].err,
                 found |-> {<<j, job[j].err>>}]}
          ELSE {}

\* Mutant: an ignored issue is opened again too.
NextStatusOpens(status, jobStatus) == "OPEN"

\* The status upsertExistingIssue gives to an issue that is found again.
NextStatus(status, jobStatus) ==
  IF \/ status \in {"RESOLVED", "ARCHIVED"}
     \/ status = "IN_PROGRESS" /\ jobStatus \in {"FAILED", "PARTIAL_SUCCESS"}
  THEN "OPEN" ELSE status

-----------------------------------------------------------------------------
(* Threads.                                                                *)

Nothing == [k \in {} |-> None]
Unread == [n \in Ids |-> None]

\* A thread that has read nothing yet: its step, its job, how often the notices
\* are still to be synchronised, and the jobs its call has still to refresh and
\* to retry.
At(pc, j, left, next, retry) ==
  [pc |-> pc, job |-> j, cands |-> {}, pick |-> Nothing, old |-> Nothing,
   status |-> None, count |-> 0, err |-> None, items |-> {}, active |-> {},
   seen |-> Unread, said |-> "none", left |-> left, next |-> next, retry |-> retry]

Idle == At("idle", None, 0, {}, {})

\* A pipeline for j that begins with SyncJobIssues, on behalf of a control or
\* of the worker.
Sync(j) == At("load", j, 0, {}, {})

\* Mutant: the sync reads the job without a lock.
FreeAlways(j) == TRUE
\* The row of the job is locked from the load of a sync to its commit.
Free(j) == \A t \in Threads : ~(th[t].pc = "write" /\ th[t].job = j)

\* Jobs the thread still has to refresh.
Pending(t) == ({th[t].job} \cup th[t].next \cup th[t].retry) \ {None}
Quiet(j) == \A t \in Threads : j \notin Pending(t)

\* Threads between a read of j's issues and the end of the write it is for.
Busy == {"setjob", "item", "setitem", "notice", "post"}
Overlapped(t, j) == \E u \in Threads \ {t} : th[u].pc \in Busy /\ th[u].job = j

Set(t, r) == th' = [th EXCEPT ![t] = r]

\* Mutant: a call returns after its first job.
ReturnEarly(r) == At("idle", None, 0, r.next, r.retry)
\* The end of a pipeline: the next job of the same call, its next retry, or
\* the return.
Return(r) ==
  IF r.next # {} \/ r.retry # {} THEN At("next", None, 0, r.next, r.retry) ELSE Idle

\* A failed sync is ignored by the engine, which synchronises the notices anyway.
Abandon(r) == At("notice", r.job, 1, r.next, r.retry)

Init ==
  /\ job = [j \in Jobs |-> [status |-> "QUEUED", err |-> None, count |-> 0]]
  /\ item = [i \in Items |-> [status |-> "QUEUED", err |-> None, count |-> 0]]
  /\ issue = [n \in Ids |-> None]
  /\ nextId = 1
  /\ notice = [n \in Ids |-> None]
  /\ reminder = [j \in Jobs |-> "none"]
  /\ hand = None /\ todo = {} /\ due = {} /\ doing = None
  /\ th = [t \in Threads |-> Idle]
  /\ slips = {}
  /\ failures = 0 /\ actions = 0

-----------------------------------------------------------------------------
(* The engine: the transactions of the worker and of the controls.         *)

Fails == failures < MaxFailures /\ failures' = failures + 1

WorkerIdle == th[Worker].pc = "idle"
SetJob(j, status, err) == job' = [job EXCEPT ![j].status = status, ![j].err = err]
SetItem(i, status, err) == item' = [item EXCEPT ![i].status = status, ![i].err = err]
Canceled(j) == [i \in Items |-> IF JobOf[i] = j /\ item[i].status # "COMPLETED"
                                THEN [item[i] EXCEPT !.status = "CANCELED"] ELSE item[i]]
LetGo == hand' = None /\ todo' = {} /\ due' = {} /\ doing' = None

Claim(j) ==
  /\ WorkerIdle /\ hand = None
  /\ job[j].status \in {"QUEUED", "WAITING_RETRY"}
  /\ Free(j)
  /\ SetJob(j, "RUNNING", job[j].err)
  /\ hand' = j /\ todo' = ItemsOf(j)
  /\ \E late \in SUBSET Having(j, {"WAITING_RETRY"}) :
        due' = Having(j, {"QUEUED", "WAITING_RETRY"}) \ late
  /\ UNCHANGED <<item, issue, nextId, notice, reminder, doing, th, slips, bounds>>

\* The loop checks its job and starts an item; it may have passed some that are
\* not due.  (A cancellation between check and start is JobEngine's matter; here
\* it comes right after, and the executor's result is written all the same.)
StartItem(i) ==
  /\ WorkerIdle /\ doing = None /\ i \in due
  /\ job[hand].status # "CANCELED"
  /\ Free(hand)
  /\ SetItem(i, "RUNNING", item[i].err)
  /\ due' = due \ {i} /\ doing' = i
  /\ \E passed \in SUBSET (todo \ due) : todo' = todo \ (passed \cup {i})
  /\ UNCHANGED <<job, issue, nextId, notice, reminder, hand, th, slips, bounds>>

\* The executor returns, and its result is written whatever has become of the
\* item: it completes, it fails for good, or it fails and is left for an
\* automatic retry, which starts no pipeline, even if it takes the job out of
\* CANCELED.
Finish(i) ==
  /\ WorkerIdle /\ doing = i
  /\ Free(hand)
  /\ doing' = None
  /\ UNCHANGED <<issue, nextId, notice, reminder, hand, todo, due, actions>>

ItemCompletes(i) ==
  /\ Finish(i)
  /\ SetItem(i, "COMPLETED", item[i].err)
  /\ Set(Worker, Sync(hand))
  /\ UNCHANGED <<job, slips, failures>>

ItemFails(i, m) ==
  /\ Finish(i)
  /\ Fails
  /\ SetItem(i, "FAILED", Executing(m))
  /\ Set(Worker, Sync(hand))
  /\ UNCHANGED <<job, slips>>

ItemIsDeferred(i, m) ==
  /\ Finish(i)
  /\ Fails
  /\ SetItem(i, "WAITING_RETRY", Executing(m))
  /\ SetJob(hand, "WAITING_RETRY", Executing(m))
  /\ slips' = IF job[hand].status = "CANCELED" THEN slips \cup {hand} ELSE slips
  /\ UNCHANGED th

\* The executor returns with an error after the item was cancelled, and perhaps
\* retried: nothing is written, and a retried job is left to the next claim.
ItemIsInterrupted(i) ==
  /\ WorkerIdle /\ doing = i
  /\ \/ /\ item[i].status = "CANCELED"
        /\ doing' = None
        /\ UNCHANGED <<hand, todo, due>>
     \/ item[i].status = "WAITING_RETRY" /\ LetGo
  /\ UNCHANGED <<database, th, slips, bounds>>

\* cancelPendingItems, when the loop comes to the next item of a job that has
\* been cancelled: it does not wait for the lock on the job.
CancelPendingItems ==
  /\ WorkerIdle /\ hand # None /\ doing = None
  /\ todo # {} /\ job[hand].status = "CANCELED"
  /\ item' = Canceled(hand)
  /\ LetGo
  /\ UNCHANGED <<job, issue, nextId, notice, reminder, th, slips, bounds>>

Verdict(j) ==
  CASE Having(j, {"WAITING_RETRY"}) # {} -> "WAITING_RETRY"
    [] OTHER -> IF Having(j, {"FAILED"}) # {}
                THEN IF Having(j, {"COMPLETED"}) = {} THEN "FAILED" ELSE "PARTIAL_SUCCESS"
                ELSE IF Having(j, {"COMPLETED"}) = {} /\ Having(j, {"CANCELED"}) # {}
                     THEN "CANCELED" ELSE "COMPLETED"

FinalizeJob ==
  /\ WorkerIdle /\ hand # None /\ doing = None /\ due = {}
  /\ Free(hand)
  /\ LetGo
  /\ \/ /\ job[hand].status = "CANCELED"
        /\ item' = Canceled(hand)
        /\ UNCHANGED <<job, th>>
     \/ /\ job[hand].status # "CANCELED"
        /\ Having(hand, {"QUEUED", "RUNNING"}) # {}
        /\ UNCHANGED <<job, item, th>>
     \/ /\ job[hand].status # "CANCELED"
        /\ Having(hand, {"QUEUED", "RUNNING"}) = {}
        /\ SetJob(hand, Verdict(hand), job[hand].err)
        /\ IF Verdict(hand) = "WAITING_RETRY" THEN UNCHANGED th ELSE Set(Worker, Sync(hand))
        /\ UNCHANGED item
  /\ UNCHANGED <<issue, nextId, notice, reminder, slips, bounds>>

\* failJobWithError: the job fails, whatever it and its items are.
JobFails(m) ==
  /\ WorkerIdle /\ hand # None
  /\ Fails
  /\ Free(hand)
  /\ SetJob(hand, "FAILED", Failing(m))
  /\ LetGo
  /\ Set(Worker, Sync(hand))
  /\ UNCHANGED <<item, issue, nextId, notice, reminder, slips, actions>>

Call(u) == /\ th[u].pc = "idle"
           /\ actions < MaxActions /\ actions' = actions + 1

CancelJob(u, j) ==
  /\ Call(u)
  /\ job[j].status \notin {"COMPLETED", "FAILED", "PARTIAL_SUCCESS", "CANCELED"}
  /\ Free(j)
  /\ SetJob(j, "CANCELED", job[j].err)
  /\ item' = Canceled(j)
  /\ Set(u, Sync(j))
  /\ UNCHANGED <<issue, nextId, notice, reminder, worker, slips, failures>>

\* RetryJob, called by itself or, after the issues have been set to
\* IN_PROGRESS, for each of their jobs; the first refusal ends the call.
RequestRetry(u, j) ==
  /\ Call(u)
  /\ Set(u, At("next", None, 0, {}, {j}))
  /\ UNCHANGED <<database, worker, slips, failures>>

RetryJob(u, j) ==
  /\ th[u].pc = "next" /\ th[u].next = {} /\ j \in th[u].retry
  /\ Free(j)
  /\ IF job[j].status \in {"FAILED", "PARTIAL_SUCCESS", "CANCELED"}
     THEN /\ SetJob(j, "WAITING_RETRY", None)
          /\ item' = [i \in Items |->
                        IF JobOf[i] # j THEN item[i]
                        ELSE [item[i] EXCEPT !.err = None,
                                !.status = IF @ = "COMPLETED" THEN @ ELSE "WAITING_RETRY"]]
          /\ Set(u, At("load", j, 0, {}, th[u].retry \ {j}))
     ELSE /\ Set(u, Idle)
          /\ UNCHANGED <<job, item>>
  /\ UNCHANGED <<issue, nextId, notice, reminder, worker, slips, bounds>>

-----------------------------------------------------------------------------
(* SyncJobIssues.                                                          *)

\* The transaction begins: the job is locked and read, its items are read, the
\* candidates are built, and for each key the latest issue that has it is
\* read, without a lock.  The last read stands for all: nothing the earlier
\* ones saw can change in between but the messages a refresh rewrites.
SyncLoad(t) ==
  LET j == th[t].job
      cands == Candidates(j)
      keys == {c.key : c \in cands}
      same(k) == {n \in Rows : issue[n].key = k}
  IN /\ th[t].pc = "load"
     /\ Free(j)
     /\ \E pick \in [keys -> Ids \cup {0}] :
          /\ \A k \in keys : IF same(k) = {} THEN pick[k] = 0 ELSE pick[k] \in same(k)
          /\ Set(t, [th[t] EXCEPT !.pc = "write", !.cands = cands, !.status = job[j].status,
                       !.pick = pick,
                       !.old = [k \in keys |-> IF pick[k] = 0 THEN None ELSE issue[pick[k]]]])
     /\ UNCHANGED <<database, worker, slips, bounds>>

NewRow(j, c) ==
  [task |-> j, item |-> c.item, key |-> c.key, status |-> "OPEN",
   occurrences |-> Cardinality(c.found), found |-> c.found, err |-> c.err, by |-> j]

\* Mutant: the detection keys are not stored.
RefoundForgets(row, j, c, old, jobStatus) ==
  [row EXCEPT !.task = j, !.item = c.item, !.err = c.err,
              !.status = NextStatus(old.status, jobStatus),
              !.occurrences = old.occurrences + Cardinality(c.found \ old.found)]
\* upsertExistingIssue: status and count start from the row as it was loaded.
Refound(row, j, c, old, jobStatus) ==
  [row EXCEPT !.task = j, !.item = c.item, !.err = c.err,
              !.status = NextStatus(old.status, jobStatus),
              !.occurrences = old.occurrences + Cardinality(c.found \ old.found),
              !.found = c.found]

\* The active issues of the job that its candidates no longer explain.  Those
\* IN_PROGRESS are left alone while the job may still answer.
NoLongerDetected(j, keys, jobStatus) ==
  {n \in ActiveOf(j) :
     /\ issue[n].key \notin keys
     /\ ~ (issue[n].status = "IN_PROGRESS"
           /\ jobStatus \in {"WAITING_RETRY", "QUEUED", "RUNNING", "PENDING"})}

\* The writes and the commit.  The transaction rolls back if an issue found by
\* the load has been deleted (its event violates the foreign key) or if an
\* issue must be resolved: the UPDATE is sent while the rows of the SELECT are
\* still open on the same connection.
SyncWrite(t) ==
  LET r == th[t]
      j == r.job
      keys == {c.key : c \in r.cands}
      cand(k) == CHOOSE c \in r.cands : c.key = k
      fresh == {k \in keys : r.pick[k] = 0}
      found == keys \ fresh
      gone == \E k \in found : issue[r.pick[k]] = None
      resolved == NoLongerDetected(j, keys, r.status)
      refused == Streaming /\ resolved # {}
  IN /\ r.pc = "write"
     /\ IF gone \/ refused
        THEN Set(t, Abandon(r)) /\ UNCHANGED <<issue, nextId, slips>>
        ELSE /\ nextId + Cardinality(fresh) <= MaxIssues + 1
             /\ nextId' = nextId + Cardinality(fresh)
             /\ \E at \in [fresh -> nextId..(nextId' - 1)] :
                  /\ \A k, l \in fresh : at[k] = at[l] => k = l
                  /\ issue' = [n \in Ids |->
                       IF \E k \in fresh : at[k] = n
                       THEN NewRow(j, cand(CHOOSE k \in fresh : at[k] = n))
                       ELSE IF \E k \in found : r.pick[k] = n
                       THEN LET k == CHOOSE k \in found : r.pick[k] = n
                            IN Refound(issue[n], j, cand(k), r.old[k], r.status)
                       ELSE IF n \in resolved THEN [issue[n] EXCEPT !.status = "RESOLVED"]
                       ELSE issue[n]]
             /\ slips' = slips \cup ({issue[r.pick[k]].task : k \in found} \ {j})
             /\ Set(t, At("count", j, 2, {}, r.retry))
     /\ UNCHANGED <<job, item, notice, reminder, worker, bounds>>

-----------------------------------------------------------------------------
(* refreshJobIssueCounters: every statement on a connection of its own.    *)

\* Mutant: issues being retried are not counted.
CountedOpen(S) == Cardinality({n \in S : issue[n].status = "OPEN"})
Counted(S) == Cardinality(S)

\* Mutant: the items are not refreshed.
SkipItems(items) == "notice"
\* What follows: the next of the items left, or the notices.
AfterCount(items) == IF items = {} THEN "notice" ELSE "item"

CountJob(t) ==
  LET j == th[t].job
  IN /\ th[t].pc = "count"
     /\ \E e \in LatestErr(ActiveOf(j)) :
          Set(t, [th[t] EXCEPT !.pc = "setjob", !.count = Counted(ActiveOf(j)), !.err = e])
     /\ slips' = IF Overlapped(t, j) THEN slips \cup {j} ELSE slips \ {j}
     /\ UNCHANGED <<database, worker, bounds>>

StoreJobCount(t) ==
  LET r == th[t]
  IN /\ r.pc = "setjob"
     /\ Free(r.job)
     /\ job' = [job EXCEPT ![r.job].count = r.count, ![r.job].err = r.err]
     /\ Set(t, [r EXCEPT !.items = ItemsOf(r.job), !.count = 0, !.err = None,
                         !.pc = AfterCount(ItemsOf(r.job))])
     /\ UNCHANGED <<item, issue, nextId, notice, reminder, worker, slips, bounds>>

\* The items are taken one after the other, in a fixed order.
CountItem(t) ==
  LET r == th[t]
      i == CHOOSE i \in r.items : TRUE
  IN /\ r.pc = "item"
     /\ \E e \in LatestErr(ActiveOfItem(i)) :
          Set(t, [r EXCEPT !.pc = "setitem", !.count = Counted(ActiveOfItem(i)), !.err = e])
     /\ UNCHANGED <<database, worker, slips, bounds>>

StoreItemCount(t) ==
  LET r == th[t]
      i == CHOOSE i \in r.items : TRUE
  IN /\ r.pc = "setitem"
     /\ item' = [item EXCEPT ![i].count = r.count, ![i].err = r.err]
     /\ Set(t, [r EXCEPT !.items = @ \ {i}, !.count = 0, !.err = None,
                         !.pc = AfterCount(r.items \ {i})])
     /\ UNCHANGED <<job, issue, nextId, notice, reminder, worker, slips, bounds>>

-----------------------------------------------------------------------------
(* SyncJobNotifications: called by the pipeline and, after a sync, once     *)
(* more by the engine.                                                     *)

NoticeLoad(t) ==
  LET j == th[t].job
  IN /\ th[t].pc = "notice"
     /\ Set(t, [th[t] EXCEPT !.pc = "post", !.active = ActiveOf(j),
                             !.status = job[j].status, !.count = job[j].count,
                             !.seen = notice, !.said = reminder[j]])
     /\ slips' = IF Overlapped(t, j) THEN slips \cup {j} ELSE slips
     /\ UNCHANGED <<database, worker, bounds>>

ShouldExposeJobReminder(status, count) ==
  \/ status = "COMPLETED"
  \/ status \in {"FAILED", "PARTIAL_SUCCESS", "CANCELED"} /\ count = 0

Shows(row, j) == row # None /\ row.job = j /\ row.shown

\* Mutant: notices of issues that are no longer active stay.
StaleNever(r, seen) == {}
\* staleIssueNotices: the notices filed under the job whose issue is not active.
Stale(r, seen) == {n \in Ids \ r.active : Shows(seen[n], r.job)}

\* A notice that was not found is inserted, which fails if the issue was deleted
\* meanwhile (foreign key) or another pipeline was first (primary key).
Refused(r, seen, said) ==
  \/ \E n \in r.active : seen[n] = None /\ (n \notin Rows \/ notice[n] # None)
  \/ ShouldExposeJobReminder(r.status, r.count) /\ said = "none" /\ reminder[r.job] # "none"

AfterNotices(r) ==
  IF r.left > 1 THEN At("notice", r.job, r.left - 1, r.next, r.retry) ELSE Return(r)

\* The notices are looked up one by one: each as it was when the issues were
\* loaded, or as it is now.
Lookup(r, late) == [n \in Ids |-> IF n \in late THEN notice[n] ELSE r.seen[n]]

\* Notices of issues of other jobs are written as well.
Hit(r, old) == {n \in Rows : \/ n \in r.active
                             \/ n \in old /\ notice[n] # None /\ notice[n].job # r.job}

\* One that was found is written whatever has become of it; it never `matches',
\* for JSONB is not returned as it was stored.
Post(r, old) ==
  /\ notice' = [n \in Ids |->
       IF n \in r.active /\ n \in Rows THEN [job |-> r.job, shown |-> TRUE]
       ELSE IF n \in old /\ notice[n] # None THEN [notice[n] EXCEPT !.shown = FALSE]
       ELSE notice[n]]
  /\ reminder' = [reminder EXCEPT ![r.job] =
       IF ShouldExposeJobReminder(r.status, r.count) THEN "ACTIVE"
       ELSE IF @ = "ACTIVE" THEN "STALE" ELSE @]
  /\ slips' = slips \cup ({issue[n].task : n \in Hit(r, old)} \ {r.job})

NoticePost(t) ==
  LET r == th[t]
  IN /\ r.pc = "post"
     /\ \E late \in SUBSET Ids, said \in {r.said, reminder[r.job]} :
          LET seen == Lookup(r, late)
          IN \/ ~Refused(r, seen, said) /\ Post(r, Stale(r, seen))
             \/ Refused(r, seen, said) /\ UNCHANGED <<notice, reminder, slips>>
     /\ Set(t, AfterNotices(r))
     /\ UNCHANGED <<job, item, issue, nextId, worker, bounds>>

-----------------------------------------------------------------------------
(* What users do to issues.                                                *)

\* ApplyAction and transitionIssues: the service moves the issues whatever
\* status they have; a retry then retries their jobs.
Outcome == [confirm |-> "RESOLVED", ignore |-> "IGNORED", archive |-> "ARCHIVED",
            retry |-> "IN_PROGRESS"]

ApplyAction(u, action, S) ==
  LET tasks == {issue[n].task : n \in S}
  IN /\ Call(u)
     /\ S \subseteq Rows /\ S # {}
     /\ issue' = [n \in Ids |-> IF n \in S THEN [issue[n] EXCEPT !.status = Outcome[action]]
                                ELSE issue[n]]
     /\ Set(u, At("next", None, 0, tasks, IF action = "retry" THEN tasks ELSE {}))
     /\ UNCHANGED <<job, item, nextId, notice, reminder, worker, slips, failures>>

\* ClearHistory: closed issues are deleted, and their notices with them.  It
\* needs no bound, for no id is used twice.
ClearHistory(u, S) ==
  LET cleared == {n \in S : issue[n].status \in HistoricalStatus}
  IN /\ th[u].pc = "idle"
     /\ S \subseteq Rows /\ cleared # {}
     /\ issue' = [n \in Ids |-> IF n \in cleared THEN None ELSE issue[n]]
     /\ notice' = [n \in Ids |-> IF n \in cleared THEN None ELSE notice[n]]
     /\ Set(u, At("next", None, 0, {issue[n].task : n \in cleared}, {}))
     /\ UNCHANGED <<job, item, nextId, reminder, worker, slips, bounds>>

NextJob(t) ==
  /\ th[t].pc = "next"
  /\ \E j \in th[t].next : Set(t, At("count", j, 1, th[t].next \ {j}, th[t].retry))
  /\ UNCHANGED <<database, worker, slips, bounds>>

-----------------------------------------------------------------------------
(* Failures.                                                               *)

\* A statement fails.  The engine ignores what SyncJobIssues returns and every
\* caller ignores what SyncJobNotifications returns; a call of the API that
\* fails in its counters returns at once.
Fault(t) ==
  LET r == th[t]
  IN /\ Fails
     /\ CASE r.pc \in {"load", "write"} -> Set(t, Abandon(r)) /\ UNCHANGED slips
          [] r.pc \in {"count", "setjob", "item", "setitem"} ->
               IF r.left = 2
               THEN Set(t, Abandon(r)) /\ slips' = slips \cup {r.job}
               ELSE Set(t, Idle) /\ slips' = slips \cup {r.job} \cup r.next
          [] r.pc \in {"notice", "post"} ->
               Set(t, AfterNotices(r)) /\ slips' = slips \cup {r.job}
          [] OTHER -> FALSE
     /\ UNCHANGED <<database, worker, actions>>

\* The process dies and comes back; recoverQueuedJobs queues its jobs again.
Crash ==
  /\ Fails
  /\ th' = [t \in Threads |-> Idle]
  /\ slips' = slips \cup UNION {Pending(t) : t \in Threads}
  /\ LetGo
  /\ job' = [j \in Jobs |-> IF job[j].status = "RUNNING"
                            THEN [job[j] EXCEPT !.status = "QUEUED"] ELSE job[j]]
  /\ item' = [i \in Items |-> IF item[i].status = "RUNNING"
                              THEN [item[i] EXCEPT !.status = "QUEUED"] ELSE item[i]]
  /\ UNCHANGED <<issue, nextId, notice, reminder, actions>>

-----------------------------------------------------------------------------

Engine ==
  \/ \E j \in Jobs : Claim(j)
  \/ \E i \in Items : StartItem(i) \/ ItemCompletes(i) \/ ItemIsInterrupted(i)
  \/ \E i \in Items, m \in Messages : ItemFails(i, m) \/ ItemIsDeferred(i, m)
  \/ CancelPendingItems \/ FinalizeJob
  \/ \E m \in Messages : JobFails(m)

Pipeline(t) ==
  \/ SyncLoad(t) \/ SyncWrite(t)
  \/ CountJob(t) \/ StoreJobCount(t) \/ CountItem(t) \/ StoreItemCount(t)
  \/ NoticeLoad(t) \/ NoticePost(t)
  \/ NextJob(t)
  \/ \E j \in Jobs : RetryJob(t, j)

Api(u) ==
  \/ \E j \in Jobs : CancelJob(u, j) \/ RequestRetry(u, j)
  \/ \E S \in SUBSET Rows :
       \/ \E action \in Choices : ApplyAction(u, action, S)
       \/ ClearHistory(u, S)

Next ==
  \/ Engine
  \/ \E t \in Threads : Pipeline(t) \/ Fault(t)
  \/ \E u \in Users : Api(u)
  \/ Crash

Spec == Init /\ [][Next]_vars

-----------------------------------------------------------------------------
(* Properties.                                                             *)

Codes == {"none", "execution", "engine"}
Errors == Codes \X (Messages \cup {Generic})
Keys == {ObjectOf[x] : x \in Items \cup Jobs} \X Codes \X Errors
Detections == (Items \cup Jobs) \X (Errors \cup {None})
Row == [task : Jobs, item : Items \cup {None}, key : Keys,
        status : ActiveStatus \cup HistoricalStatus, occurrences : Nat,
        found : SUBSET Detections, err : Errors, by : Jobs]
\* NULL is neither a row of issues nor a notice.
ASSUME NullIsNoRow == None \notin Row
ASSUME NullIsNoNotice == None \notin [job : Jobs, shown : BOOLEAN]

JobStatus == {"QUEUED", "RUNNING", "WAITING_RETRY", "COMPLETED", "FAILED",
              "PARTIAL_SUCCESS", "CANCELED"}
ItemStatus == {"QUEUED", "RUNNING", "WAITING_RETRY", "COMPLETED", "FAILED", "CANCELED"}

TypeOK ==
  /\ job \in [Jobs -> [status : JobStatus, err : Errors \cup {None}, count : Nat]]
  /\ item \in [Items -> [status : ItemStatus, err : Errors \cup {None}, count : Nat]]
  /\ issue \in [Ids -> Row \cup {None}]
  /\ nextId \in 1..(MaxIssues + 1)
  /\ \A n \in Ids : n >= nextId => issue[n] = None
  /\ notice \in [Ids -> [job : Jobs, shown : BOOLEAN] \cup {None}]
  /\ reminder \in [Jobs -> {"none", "ACTIVE", "STALE"}]
  /\ hand \in Jobs \cup {None} /\ doing \in Items \cup {None}
  /\ due \subseteq todo /\ todo \subseteq Items
  /\ DOMAIN th = Threads
  /\ \A t \in Threads : (th[t].pc = "idle") <=> (Pending(t) = {})
  /\ slips \subseteq Jobs

\* The lock on the row of the job makes its syncs one: two issues with one key
\* are never the work of one job.  (loadExistingIssuesByDedupe reads without a
\* lock and the column has no unique index, so syncs of two jobs may.)
OneIssuePerJobAndKey ==
  \A m, n \in Rows : issue[m].key = issue[n].key /\ issue[m].by = issue[n].by => m = n

\* What a sync writes is decided from the job and the failed items as they are
\* at the commit, however long ago it read them; only cancelPendingItems, which
\* takes no lock on the job, may have cancelled some of the items meanwhile.
SyncSeesTheJob ==
  \A t \in Threads : th[t].pc = "write" =>
    LET j == th[t].job
        failed == Having(j, {"FAILED"})
        seen == UNION {{f[1] : f \in c.found} : c \in th[t].cands}
    IN /\ th[t].status = job[j].status
       /\ failed \subseteq seen
       /\ \A i \in (seen \cap Items) \ failed :
            item[i].status = "CANCELED" /\ job[j].status = "CANCELED"

\* Once the pipelines of a job are through, its counter and those of its items
\* count its active issues, unless the last of them was disturbed: by another
\* pipeline of the job, by a failure, by another job that took over an issue or wrote to its notice, or
\* by an automatic retry of a job that had been cancelled.
CountersSettle ==
  \A j \in Jobs : Quiet(j) /\ j \notin slips =>
    /\ job[j].count = Cardinality(ActiveOf(j))
    /\ \A i \in ItemsOf(j) : item[i].count = Cardinality(ActiveOfItem(i))

\* Likewise for the notices: those shown under the job are those of its active
\* issues, and its end is announced exactly when there is no issue to say it.
NoticesSettle ==
  \A j \in Jobs : Quiet(j) /\ j \notin slips =>
    /\ {n \in Ids : notice[n] # None /\ notice[n].job = j /\ notice[n].shown} = ActiveOf(j)
    /\ reminder[j] = "ACTIVE" <=>
         ShouldExposeJobReminder(job[j].status, Cardinality(ActiveOf(j)))

\* When a sync commits, each failed item of the job is named by an issue of
\* the job, and each of the job's active issues that is not being retried has
\* the key of a failure the sync has found, though the errors on record may
\* have changed since.
SyncExplains ==
  [][\A t \in Threads : th[t].pc = "write" /\ th'[t].pc = "count" =>
       LET j == th[t].job
           issues == {n \in Ids : issue'[n] # None /\ issue'[n].task = j}
       IN /\ \A i \in Having(j, {"FAILED"}) :
               \E n \in issues : i \in {f[1] : f \in issue'[n].found}
          /\ \A n \in issues :
               issue'[n].status \in {"OPEN", "AWAITING_CONFIRMATION"} =>
                 issue'[n].key \in {c.key : c \in th[t].cands}]_vars

\* An ignored issue comes back only through a user, or through a sync that had
\* loaded it before it was ignored.
IgnoredStays ==
  [][\A n \in Ids :
       LET back == /\ issue[n] # None /\ issue'[n] # None
                   /\ issue[n].status = "IGNORED" /\ issue'[n].status # "IGNORED"
       IN back => \/ actions' # actions
                  \/ \E t \in Threads :
                       /\ th[t].pc = "write" /\ th'[t].pc = "count"
                       /\ \E k \in DOMAIN th[t].pick :
                            th[t].pick[k] = n /\ th[t].old[k].status # "IGNORED"]_vars

=============================================================================
