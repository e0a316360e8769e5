------------------------------ MODULE JobEngine ------------------------------
(***************************************************************************)
(* The job engine of the central service: services/center/internal/jobs.   *)
(*                                                                         *)
(* A job owns a fixed set of items.  Users create, pause, resume, cancel   *)
(* and retry jobs, and pause, resume and cancel single items, each in one  *)
(* database transaction.  One background worker claims a job, reads its    *)
(* items once, and then runs them one after the other from that snapshot,  *)
(* every database access of the worker being a transaction of its own.     *)
(* The two meet in the tables and in runningItems, the in-memory map from  *)
(* an executing item to the function that cancels its context.             *)
(*                                                                         *)
(* A transaction is one step, but for refreshJobAggregate, whose SELECT    *)
(* and UPDATE lock nothing in between and are two.  The worker's position  *)
(* between steps is pc; what a handler does after its commit               *)
(* (interruptRunningItem) is a step of its own, and so is a crash between  *)
(* any two of them.                                                        *)
(***************************************************************************)
EXTENDS Naturals, Sequences, FiniteSets

CONSTANTS
  Jobs,              \* job ids; numbers, so that j < k says j was created first
  Items,             \* item ids of all jobs
  JobOf,             \* the job of each item (job_items.job_id)
  None,              \* no job, no item
  Runnable,          \* jobs whose intent has a registered executor
  AutoRetry,         \* jobs whose intent shouldAutoRetry accepts
  RetryMaxAttempts,  \* Service.retryMaxAttempts
  Priorities,        \* ranks of jobs.priority: HIGH = 0, NORMAL = 1, LOW = 2
  Offered,           \* the control operations clients call in this instance
  MaxControls,       \* bound: control operations accepted
  MaxCrashes,        \* bound: crashes of the central service
  MaxFaults          \* bound: database calls of the worker that fail

ASSUME JobsAssumption ==
  /\ Jobs \subseteq Nat
  /\ JobOf \in [Items -> Jobs]
  /\ None \notin Jobs \cup Items
  /\ IsFiniteSet(Items)
ASSUME PolicyAssumption ==
  /\ RetryMaxAttempts \in Nat
  /\ Priorities \subseteq Nat
ASSUME BoundsAssumption ==
  /\ MaxControls \in Nat
  /\ MaxCrashes \in Nat
  /\ MaxFaults \in Nat

VARIABLES
  job,         \* jobs.status, "NONE" before the job is created
  prio,        \* jobs.priority
  item,        \* job_items.status, "NONE" before the job is created
  attempts,    \* item-level job_attempts.status in the order of attempt_no
  backoff,     \* items whose next_retry_at lies in the future
  counts,      \* jobs.success_items and jobs.failed_items
  openRuns,    \* jobs with a job-level job_attempts row still RUNNING
  pc,          \* where the worker stands between two transactions
  wjob,        \* the job executeJob works on
  witem,       \* the item of the current loop iteration
  todo,        \* loaded items the loop has not visited yet
  ready,       \* those the snapshot shows as PENDING, QUEUED or WAITING_RETRY
  late,        \* those of ready whose snapshot next_retry_at is in the future
  outcome,     \* why the executor returned an error
  sums,        \* the counters refreshJobAggregate has read and not yet written
  running,     \* runningItems: items whose context can be cancelled
  stopped,     \* the context of the executing item is cancelled
  signals,     \* interruptRunningItem calls that committed handlers still owe
  controls, crashes, faults  \* how much of each bound is used up

database == <<job, prio, item, attempts, backoff, counts, openRuns>>
loop     == <<wjob, witem, todo, ready, late, outcome, sums>>
memory   == <<running, stopped, signals>>
bounds   == <<controls, crashes, faults>>
vars     == <<database, pc, loop, memory, bounds>>

JobStatus == {"PENDING", "QUEUED", "RUNNING", "PAUSED", "WAITING_RETRY",
              "PARTIAL_SUCCESS", "FAILED", "COMPLETED", "CANCELED"}
ItemStatus == {"PENDING", "QUEUED", "RUNNING", "PAUSED", "WAITING_RETRY",
               "FAILED", "COMPLETED", "CANCELED"}
AttemptStatus == {"RUNNING", "SUCCEEDED", "FAILED", "CANCELED"}
PC == {"down", "boot", "idle", "claimed", "load", "loop", "start", "started",
       "exec", "returned", "refreshItem", "storeItem", "recheck", "fail",
       "succeed", "cancelPending", "refresh", "store", "finalize", "failJob"}

ItemsOf(j) == {i \in Items : JobOf[i] = j}
Having(j, statuses) == {i \in ItemsOf(j) : item[i] \in statuses}

(***************************************************************************)
(* refreshJobAggregateTx: the counters are recomputed from the items the   *)
(* transaction sees, its own changes included.  Everything else that moves *)
(* an item into or out of COMPLETED or FAILED waits for a row lock of the  *)
(* transaction, but where refreshJobAggregate opens it (SelectCounts).     *)
(***************************************************************************)
Tally(st, j) ==
  [success |-> Cardinality({i \in ItemsOf(j) : st[i] = "COMPLETED"}),
   failed  |-> Cardinality({i \in ItemsOf(j) : st[i] = "FAILED"})]

NoSums == [success |-> 0, failed |-> 0]

Refresh(j) == counts' = [counts EXCEPT ![j] = Tally(item', j)]

SetItems(S, status) ==
  item' = [i \in Items |-> IF i \in S THEN status ELSE item[i]]

\* Mutant: the condition on the attempt's status is forgotten.
CancelEveryAttempt(S) ==
  attempts' = [i \in Items |->
    IF i \in S THEN [n \in DOMAIN attempts[i] |-> "CANCELED"] ELSE attempts[i]]

\* UPDATE job_attempts SET status = 'CANCELED' WHERE ... AND status = 'RUNNING'
CancelAttempts(S) ==
  attempts' = [i \in Items |->
    IF i \in S
    THEN [n \in DOMAIN attempts[i] |->
            IF attempts[i][n] = "RUNNING" THEN "CANCELED" ELSE attempts[i][n]]
    ELSE attempts[i]]

\* Mutant: the item's first attempt is closed.
CloseFirstAttempt(i, status) ==
  attempts' = [attempts EXCEPT ![i] = [@ EXCEPT ![1] = status]]

\* UPDATE job_attempts SET status = ... WHERE id = attemptID, the attempt that
\* startItem returned; no other attempt of the item starts meanwhile.
CloseAttempt(i, status) ==
  attempts' = [attempts EXCEPT ![i] = [@ EXCEPT ![Len(attempts[i])] = status]]

Init ==
  /\ job = [j \in Jobs |-> "NONE"]
  /\ prio \in [Jobs -> Priorities]   \* what the creating request will ask for
  /\ item = [i \in Items |-> "NONE"]
  /\ attempts = [i \in Items |-> <<>>]
  /\ backoff = {}
  /\ counts = [j \in Jobs |-> NoSums]
  /\ openRuns = {}
  /\ pc = "boot"
  /\ wjob = None /\ witem = None
  /\ todo = {} /\ ready = {} /\ late = {}
  /\ outcome = "none" /\ sums = NoSums
  /\ running = {} /\ stopped = FALSE /\ signals = {}
  /\ controls = 0 /\ crashes = 0 /\ faults = 0

-----------------------------------------------------------------------------
(***************************************************************************)
(* Control operations.  A request is served while the process is up; one   *)
(* whose guard is false is rejected and changes nothing.                   *)
(***************************************************************************)
Control(op) ==
  /\ op \in Offered
  /\ pc # "down"
  /\ controls < MaxControls
  /\ controls' = controls + 1
  /\ UNCHANGED <<crashes, faults, pc, loop, running, stopped>>

CreateJob(j) ==
  /\ pc # "down"
  /\ job[j] = "NONE"
  /\ \A k \in Jobs : k < j => job[k] # "NONE"
  /\ ItemsOf(j) # {}
  /\ job' = [job EXCEPT ![j] = "PENDING"]
  /\ SetItems(ItemsOf(j), "PENDING")
  /\ UNCHANGED <<prio, attempts, backoff, counts, openRuns, pc, loop, memory, bounds>>

\* Items keep their status unless they are RUNNING; every item that may still
\* run is interrupted after the commit.
PauseJob(j) ==
  /\ Control("PauseJob")
  /\ job[j] \in {"PENDING", "QUEUED", "RUNNING", "WAITING_RETRY"}
  /\ job' = [job EXCEPT ![j] = "PAUSED"]
  /\ LET live == Having(j, ItemStatus \ {"COMPLETED", "CANCELED"})
     IN  /\ SetItems(Having(j, {"RUNNING"}), "PAUSED")
         /\ IF live # {}
            THEN CancelAttempts(ItemsOf(j)) /\ openRuns' = openRuns \ {j}
            ELSE UNCHANGED <<attempts, openRuns>>
         /\ signals' = signals \cup live
  /\ Refresh(j)
  /\ UNCHANGED <<prio, backoff>>

ResumeJob(j) ==
  /\ Control("ResumeJob")
  /\ job[j] = "PAUSED"
  /\ job' = [job EXCEPT ![j] = "QUEUED"]
  /\ SetItems(Having(j, {"PAUSED"}), "QUEUED")
  /\ Refresh(j)
  /\ UNCHANGED <<prio, attempts, backoff, openRuns, signals>>

\* Attempts are closed and executors interrupted only if the job row said
\* RUNNING, whether or not an item is executing.
CancelJob(j) ==
  /\ Control("CancelJob")
  /\ job[j] \in {"PENDING", "QUEUED", "RUNNING", "WAITING_RETRY", "PAUSED"}
  /\ job' = [job EXCEPT ![j] = "CANCELED"]
  /\ LET live == Having(j, ItemStatus \ {"COMPLETED", "CANCELED"})
     IN  IF job[j] = "RUNNING" /\ live # {}
         THEN /\ CancelAttempts(ItemsOf(j))
              /\ openRuns' = openRuns \ {j}
              /\ signals' = signals \cup live
         ELSE UNCHANGED <<attempts, openRuns, signals>>
  /\ SetItems(Having(j, ItemStatus \ {"COMPLETED"}), "CANCELED")
  /\ Refresh(j)
  /\ UNCHANGED <<prio, backoff>>

RetryJob(j) ==
  /\ Control("RetryJob")
  /\ job[j] \in {"FAILED", "PARTIAL_SUCCESS", "CANCELED"}
  /\ job' = [job EXCEPT ![j] = "WAITING_RETRY"]
  /\ SetItems(Having(j, ItemStatus \ {"COMPLETED"}), "WAITING_RETRY")
  /\ backoff' = backoff \ ItemsOf(j)
  /\ Refresh(j)
  /\ UNCHANGED <<prio, attempts, openRuns, signals>>

UpdatePriority(j) ==
  /\ Control("UpdatePriority")
  /\ job[j] # "NONE"
  /\ \E p \in Priorities \ {prio[j]} : prio' = [prio EXCEPT ![j] = p]
  /\ UNCHANGED <<job, item, attempts, backoff, counts, openRuns, signals>>

\* The attempt is closed and the executor interrupted only if the item row
\* said RUNNING; the whole job becomes PAUSED with the item.
PauseJobItem(i) ==
  LET j == JobOf[i] IN
  /\ Control("PauseJobItem")
  /\ item[i] \in {"PENDING", "QUEUED", "RUNNING", "WAITING_RETRY"}
  /\ job[j] \notin {"COMPLETED", "FAILED", "CANCELED"}
  /\ item' = [item EXCEPT ![i] = "PAUSED"]
  /\ job' = [job EXCEPT ![j] = "PAUSED"]
  /\ IF item[i] = "RUNNING"
     THEN CancelAttempts({i}) /\ signals' = signals \cup {i}
     ELSE UNCHANGED <<attempts, signals>>
  /\ Refresh(j)
  /\ UNCHANGED <<prio, backoff, openRuns>>

ResumeJobItem(i) ==
  LET j == JobOf[i] IN
  /\ Control("ResumeJobItem")
  /\ item[i] = "PAUSED"
  /\ job[j] \notin {"COMPLETED", "FAILED", "CANCELED"}
  /\ item' = [item EXCEPT ![i] = "QUEUED"]
  /\ job' = [job EXCEPT ![j] = "QUEUED"]
  /\ Refresh(j)
  /\ UNCHANGED <<prio, attempts, backoff, openRuns, signals>>

CancelJobItem(i) ==
  LET j == JobOf[i] IN
  /\ Control("CancelJobItem")
  /\ item[i] \in {"PENDING", "QUEUED", "RUNNING", "WAITING_RETRY", "PAUSED"}
  /\ job[j] \notin {"COMPLETED", "FAILED", "CANCELED"}
  /\ item' = [item EXCEPT ![i] = "CANCELED"]
  /\ IF item[i] = "RUNNING"
     THEN CancelAttempts({i}) /\ signals' = signals \cup {i}
     ELSE UNCHANGED <<attempts, signals>>
  /\ Refresh(j)
  /\ UNCHANGED <<job, prio, backoff, openRuns>>

ControlStep ==
  \/ \E j \in Jobs : \/ PauseJob(j) \/ ResumeJob(j) \/ CancelJob(j)
                     \/ RetryJob(j) \/ UpdatePriority(j)
  \/ \E i \in Items : PauseJobItem(i) \/ ResumeJobItem(i) \/ CancelJobItem(i)

\* interruptRunningItem: removes the entry and cancels the context, if there
\* is one; a call that finds none has no effect.
Interrupt(i) ==
  /\ i \in signals
  /\ signals' = signals \ {i}
  /\ running' = running \ {i}
  /\ stopped' = (stopped \/ i \in running)
  /\ UNCHANGED <<database, pc, loop, bounds>>

\* next_retry_at passes: for the row, and for the worker's copy of it.
RetryDue(i) ==
  /\ i \in backoff \cup late
  /\ backoff' = backoff \ {i}
  /\ late' = late \ {i}
  /\ UNCHANGED <<job, prio, item, attempts, counts, openRuns, pc, wjob, witem,
                 todo, ready, outcome, sums, memory, bounds>>

-----------------------------------------------------------------------------
(***************************************************************************)
(* The worker: run, claimNextJob and executeJob.                           *)
(***************************************************************************)
Goto(next) == pc' = next /\ UNCHANGED bounds

\* executeJob returns; its local variables are gone.
Leave ==
  /\ Goto("idle")
  /\ wjob' = None /\ witem' = None
  /\ todo' = {} /\ ready' = {} /\ late' = {} /\ outcome' = "none" /\ sums' = NoSums

\* The loop goes on to its next item.
NextTurn ==
  /\ Goto("loop")
  /\ witem' = None /\ outcome' = "none"
  /\ UNCHANGED <<wjob, todo, ready, late, sums>>

\* Mutants: only the jobs, or only the items, are requeued.
RecoverJobsOnly ==
  /\ pc = "boot"
  /\ Goto("idle")
  /\ job' = [j \in Jobs |-> IF job[j] = "RUNNING" THEN "QUEUED" ELSE job[j]]
  /\ UNCHANGED <<prio, item, attempts, backoff, counts, openRuns, loop, memory>>

RecoverItemsOnly ==
  /\ pc = "boot"
  /\ Goto("idle")
  /\ SetItems({i \in Items : item[i] = "RUNNING"}, "QUEUED")
  /\ UNCHANGED <<job, prio, attempts, backoff, counts, openRuns, loop, memory>>

\* recoverQueuedJobs: items are requeued whatever the status of their job,
\* attempts are left as they are.
Recover ==
  /\ pc = "boot"
  /\ Goto("idle")
  /\ job' = [j \in Jobs |-> IF job[j] = "RUNNING" THEN "QUEUED" ELSE job[j]]
  /\ SetItems({i \in Items : item[i] = "RUNNING"}, "QUEUED")
  /\ UNCHANGED <<prio, attempts, backoff, counts, openRuns, loop, memory>>

\* Mutant: jobs that were resumed are not looked for.
ClaimableUnlessQueued(j) ==
  \/ job[j] = "PENDING"
  \/ job[j] = "WAITING_RETRY" /\ Having(j, {"WAITING_RETRY"}) \ backoff # {}

Claimable(j) ==
  \/ job[j] \in {"PENDING", "QUEUED"}
  \/ /\ job[j] = "WAITING_RETRY"
     /\ Having(j, {"WAITING_RETRY"}) \ backoff # {}

Before(j, k) == prio[j] < prio[k] \/ (prio[j] = prio[k] /\ j < k)

\* FOR UPDATE SKIP LOCKED: a job whose row a request holds is passed over.
MayBeLocked == controls < MaxControls

Claim(j) ==
  /\ pc = "idle"
  /\ Claimable(j)
  /\ \A k \in Jobs \ {j} : Claimable(k) => Before(j, k) \/ MayBeLocked
  /\ job' = [job EXCEPT ![j] = "RUNNING"]
  /\ wjob' = j
  /\ Goto("claimed")
  /\ UNCHANGED <<prio, item, attempts, backoff, counts, openRuns, witem, todo,
                 ready, late, outcome, sums, memory>>

\* The job-level attempt row; nothing but PauseJob and CancelJob closes it.
CreateJobAttempt ==
  /\ pc = "claimed"
  /\ wjob \in Runnable
  /\ openRuns' = openRuns \cup {wjob}
  /\ Goto("load")
  /\ UNCHANGED <<job, prio, item, attempts, backoff, counts, loop, memory>>

NoExecutor ==
  /\ pc = "claimed"
  /\ wjob \notin Runnable
  /\ Goto("failJob")
  /\ UNCHANGED <<database, loop, memory>>

\* Mutant: the check of the item's status is dropped.
LoadAllItems ==
  /\ pc = "load"
  /\ todo' = ItemsOf(wjob) /\ ready' = ItemsOf(wjob) /\ late' = {}
  /\ Goto("loop")
  /\ UNCHANGED <<database, wjob, witem, outcome, sums, memory>>

LoadItems ==
  /\ pc = "load"
  /\ todo' = ItemsOf(wjob)
  /\ ready' = Having(wjob, {"PENDING", "QUEUED", "WAITING_RETRY"})
  /\ late' = Having(wjob, {"WAITING_RETRY"}) \cap backoff
  /\ Goto("loop")
  /\ UNCHANGED <<database, wjob, witem, outcome, sums, memory>>

\* One turn of the loop: the job is read again, the item is not.
Visit(i) ==
  /\ pc = "loop"
  /\ i \in todo
  /\ job[wjob] \notin {"PAUSED", "CANCELED"}
  /\ todo' = todo \ {i}
  /\ IF i \in ready \ late
     THEN Goto("start") /\ witem' = i
     ELSE Goto("loop") /\ UNCHANGED witem
  /\ UNCHANGED <<database, wjob, ready, late, outcome, sums, memory>>

\* Mutants: the worker waits for the paused job to be resumed; it returns from
\* a cancelled one without cancelling its items.
VisitWaits ==
  /\ pc = "loop"
  /\ todo # {}
  /\ job[wjob] = "CANCELED"
  /\ Goto("cancelPending")
  /\ UNCHANGED <<database, loop, memory>>

VisitLeaves ==
  /\ pc = "loop"
  /\ todo # {}
  /\ job[wjob] \in {"PAUSED", "CANCELED"}
  /\ Leave
  /\ UNCHANGED <<database, memory>>

VisitHeld ==
  /\ pc = "loop"
  /\ todo # {}
  /\ \/ /\ job[wjob] = "PAUSED"
        /\ Leave
     \/ /\ job[wjob] = "CANCELED"
        /\ Goto("cancelPending")
        /\ UNCHANGED loop
  /\ UNCHANGED <<database, memory>>

LoopDone ==
  /\ pc = "loop"
  /\ todo = {}
  /\ Goto("finalize")
  /\ UNCHANGED <<database, loop, memory>>

\* startItem does not look at the status it overwrites.
StartItem ==
  /\ pc = "start"
  /\ item' = [item EXCEPT ![witem] = "RUNNING"]
  /\ attempts' = [attempts EXCEPT ![witem] = Append(@, "RUNNING")]
  /\ backoff' = backoff \ {witem}
  /\ Refresh(wjob)
  /\ Goto("started")
  /\ UNCHANGED <<job, prio, openRuns, loop, memory>>

\* The item becomes interruptible only now, after startItem has committed.
RegisterRunningItem ==
  /\ pc = "started"
  /\ running' = running \cup {witem}
  /\ stopped' = FALSE
  /\ Goto("exec")
  /\ UNCHANGED <<database, loop, signals>>

\* The executor returns and its entry is cleared.  It may fail by itself, and
\* it may still succeed after its context was cancelled.
ExecutorReturns ==
  /\ pc = "exec"
  /\ running' = running \ {witem}
  /\ stopped' = FALSE
  /\ \/ Goto("succeed") /\ UNCHANGED outcome
     \/ Goto("returned") /\ outcome' = "error"
     \/ stopped /\ Goto("returned") /\ outcome' = "interrupted"
  /\ UNCHANGED <<database, wjob, witem, todo, ready, late, sums, signals>>

\* handleItemExecutionInterruption: has a control operation claimed the item?
InspectInterruption ==
  /\ pc = "returned"
  /\ Goto(CASE item[witem] = "CANCELED" -> "refreshItem"
            [] item[witem] \in {"PAUSED", "QUEUED", "PENDING", "WAITING_RETRY"} -> "recheck"
            [] OTHER -> "fail")
  /\ UNCHANGED <<database, loop, memory>>

\* refreshJobAggregate, called for an item found CANCELED and at the end of
\* cancelPendingItems: the items are counted, ...
SelectCounts ==
  /\ pc \in {"refreshItem", "refresh"}
  /\ sums' = Tally(item, wjob)
  /\ Goto(IF pc = "refresh" THEN "store" ELSE "storeItem")
  /\ UNCHANGED <<database, wjob, witem, todo, ready, late, outcome, memory>>

\* ... and then the job's row is updated, whatever was committed meanwhile.
UpdateCounts ==
  /\ counts' = [counts EXCEPT ![wjob] = sums]
  /\ \/ pc = "store" /\ Leave
     \/ /\ pc = "storeItem" /\ Goto("recheck")
        /\ sums' = NoSums
        /\ UNCHANGED <<wjob, witem, todo, ready, late, outcome>>
  /\ UNCHANGED <<job, prio, item, attempts, backoff, openRuns, memory>>

\* Mutant: the worker lets go of the job whatever the interruption was.
RecheckLeaves ==
  /\ pc = "recheck"
  /\ Leave
  /\ UNCHANGED <<database, memory>>

RecheckInterrupted ==
  /\ pc = "recheck"
  /\ IF item[witem] \in {"QUEUED", "PENDING", "WAITING_RETRY"}
     THEN Leave
     ELSE NextTurn
  /\ UNCHANGED <<database, memory>>

\* Mutant: the attempt's status is written into the item.
FinishItemSucceeded ==
  /\ pc = "succeed"
  /\ item' = [item EXCEPT ![witem] = "SUCCEEDED"]
  /\ CloseAttempt(witem, "SUCCEEDED")
  /\ Refresh(wjob)
  /\ NextTurn
  /\ UNCHANGED <<job, prio, backoff, openRuns, memory>>

FinishItemCompleted ==
  /\ pc = "succeed"
  /\ item' = [item EXCEPT ![witem] = "COMPLETED"]
  /\ CloseAttempt(witem, "SUCCEEDED")
  /\ Refresh(wjob)
  /\ NextTurn
  /\ UNCHANGED <<job, prio, backoff, openRuns, memory>>

\* shouldAutoRetry: attempt_count is the number of attempts; whether the error
\* message is one of those that are retried is left open.
MayAutoRetry == wjob \in AutoRetry /\ Len(attempts[witem]) < RetryMaxAttempts

FinishItemFailed ==
  /\ pc = "fail"
  /\ \/ /\ MayAutoRetry
        /\ item' = [item EXCEPT ![witem] = "WAITING_RETRY"]
        /\ backoff' = backoff \cup {witem}
        /\ job' = [job EXCEPT ![wjob] = "WAITING_RETRY"]
     \/ /\ item' = [item EXCEPT ![witem] = "FAILED"]
        /\ backoff' = backoff \ {witem}
        /\ UNCHANGED job
  /\ CloseAttempt(witem, "FAILED")
  /\ Refresh(wjob)
  /\ NextTurn
  /\ UNCHANGED <<prio, openRuns, memory>>

\* Mutant: a job whose items have all come to an end counts as completed.
VerdictOptimistic(j) ==
  IF Having(j, {"WAITING_RETRY"}) # {} THEN "WAITING_RETRY" ELSE "COMPLETED"

\* The outcome finalizeJob gives a job none of whose items is active.
Verdict(j) ==
  CASE Having(j, {"WAITING_RETRY"}) # {} -> "WAITING_RETRY"
    [] OTHER ->
       IF Having(j, {"FAILED"}) # {}
       THEN IF Having(j, {"COMPLETED"}) = {} THEN "FAILED" ELSE "PARTIAL_SUCCESS"
       ELSE IF Having(j, {"COMPLETED"}) = {} /\ Having(j, {"CANCELED"}) # {}
            THEN "CANCELED" ELSE "COMPLETED"

Active == {"PENDING", "QUEUED", "RUNNING", "PAUSED"}

FinalizeJob ==
  /\ pc = "finalize"
  /\ Leave
  /\ \/ /\ job[wjob] = "PAUSED"
        /\ UNCHANGED <<job, item, counts>>
     \/ /\ job[wjob] = "CANCELED"
        /\ SetItems(Having(wjob, ItemStatus \ {"COMPLETED"}), "CANCELED")
        /\ Refresh(wjob)
        /\ UNCHANGED job
     \/ /\ job[wjob] \notin {"PAUSED", "CANCELED"}
        /\ IF Having(wjob, Active) # {}
           THEN UNCHANGED job
           ELSE job' = [job EXCEPT ![wjob] = Verdict(wjob)]
        /\ UNCHANGED item
        /\ Refresh(wjob)
  /\ UNCHANGED <<prio, attempts, backoff, openRuns, memory>>

\* Mutant: completed items are cancelled too.
CancelAllItems ==
  /\ pc = "cancelPending"
  /\ SetItems(ItemsOf(wjob), "CANCELED")
  /\ Goto("refresh")
  /\ UNCHANGED <<job, prio, attempts, backoff, counts, openRuns, loop, memory>>

\* cancelPendingItems updates the items in a statement of its own before it
\* calls refreshJobAggregate.
CancelPendingItems ==
  /\ pc = "cancelPending"
  /\ SetItems(Having(wjob, ItemStatus \ {"COMPLETED"}), "CANCELED")
  /\ Goto("refresh")
  /\ UNCHANGED <<job, prio, attempts, backoff, counts, openRuns, loop, memory>>

\* failJobWithError overwrites whatever status the job has by now.
FailJob ==
  /\ pc = "failJob"
  /\ job' = [job EXCEPT ![wjob] = "FAILED"]
  /\ Leave
  /\ UNCHANGED <<prio, item, attempts, backoff, counts, openRuns, memory>>

WorkerStep ==
  \/ Recover
  \/ \E j \in Jobs : Claim(j)
  \/ CreateJobAttempt \/ NoExecutor \/ LoadItems
  \/ \E i \in Items : Visit(i)
  \/ VisitHeld \/ LoopDone
  \/ StartItem \/ RegisterRunningItem
  \/ InspectInterruption \/ SelectCounts \/ UpdateCounts \/ RecheckInterrupted
  \/ FinishItemCompleted \/ FinishItemFailed
  \/ FinalizeJob \/ CancelPendingItems \/ FailJob

-----------------------------------------------------------------------------
(***************************************************************************)
(* Failures.  A failed database call of the worker is rolled back; where   *)
(* executeJob goes from there depends on the call.  A crash loses the      *)
(* worker's position and all in-memory state.                              *)
(***************************************************************************)
Fault ==
  /\ faults < MaxFaults
  /\ faults' = faults + 1
  /\ \/ /\ pc \in {"load", "loop", "start", "started", "refreshItem", "storeItem",
                  "recheck", "finalize"}
        /\ pc = "loop" => todo # {}
        /\ pc' = "failJob"
        /\ UNCHANGED loop
     \/ \* a missing job-level attempt is ignored
        /\ pc = "claimed"
        /\ wjob \in Runnable
        /\ pc' = "load"
        /\ UNCHANGED loop
     \/ \* the status could not be read: the error is taken as a failure
        /\ pc = "returned"
        /\ pc' = "fail"
        /\ UNCHANGED loop
     \/ \* errors of finishItemFailed and finishItemCompleted are ignored
        /\ pc \in {"fail", "succeed"}
        /\ pc' = "loop"
        /\ witem' = None /\ outcome' = "none"
        /\ UNCHANGED <<wjob, todo, ready, late, sums>>
     \/ \* so are those of cancelPendingItems, failJobWithError, recoverQueuedJobs
        /\ pc \in {"cancelPending", "refresh", "store", "failJob", "boot"}
        /\ pc' = "idle"
        /\ wjob' = None /\ witem' = None
        /\ todo' = {} /\ ready' = {} /\ late' = {} /\ outcome' = "none" /\ sums' = NoSums
  /\ UNCHANGED <<database, memory, controls, crashes>>

Crash ==
  /\ pc # "down"
  /\ crashes < MaxCrashes
  /\ crashes' = crashes + 1
  /\ pc' = "down"
  /\ wjob' = None /\ witem' = None
  /\ todo' = {} /\ ready' = {} /\ late' = {} /\ outcome' = "none" /\ sums' = NoSums
  /\ running' = {} /\ stopped' = FALSE /\ signals' = {}
  /\ UNCHANGED <<database, controls, faults>>

Restart ==
  /\ pc = "down"
  /\ Goto("boot")
  /\ UNCHANGED <<database, loop, memory>>

Next ==
  \/ \E j \in Jobs : CreateJob(j)
  \/ ControlStep
  \/ \E i \in Items : Interrupt(i) \/ RetryDue(i)
  \/ WorkerStep
  \/ ExecutorReturns
  \/ Fault \/ Crash \/ Restart

Spec == Init /\ [][Next]_vars

(***************************************************************************)
(* The worker goroutine keeps running and its ticker polls for work, every *)
(* executor returns, a committed handler makes its interrupt call, time    *)
(* passes and a dead service is started again.  Users promise nothing.     *)
(***************************************************************************)
Fairness ==
  /\ WF_vars(WorkerStep)
  /\ WF_vars(ExecutorReturns)
  /\ \A i \in Items : WF_vars(Interrupt(i)) /\ WF_vars(RetryDue(i))
  /\ WF_vars(Restart)

FairSpec == Spec /\ Fairness

-----------------------------------------------------------------------------
(***************************************************************************)
(* Properties.                                                             *)
(***************************************************************************)

\* Every variable holds a value its column or Go variable can hold.
TypeOK ==
  /\ job \in [Jobs -> JobStatus \cup {"NONE"}]
  /\ prio \in [Jobs -> Priorities]
  /\ item \in [Items -> ItemStatus \cup {"NONE"}]
  /\ attempts \in [Items -> Seq(AttemptStatus)]
  /\ backoff \subseteq Items
  /\ counts \in [Jobs -> [success : Nat, failed : Nat]]
  /\ openRuns \subseteq Jobs
  /\ pc \in PC
  /\ wjob \in Jobs \cup {None} /\ witem \in Items \cup {None}
  /\ todo \subseteq Items /\ ready \subseteq Items /\ late \subseteq Items
  /\ outcome \in {"none", "error", "interrupted"}
  /\ sums \in [success : Nat, failed : Nat]
  /\ running \subseteq Items /\ stopped \in BOOLEAN /\ signals \subseteq Items
  /\ controls \in Nat /\ crashes \in Nat /\ faults \in Nat

\* An item is COMPLETED exactly when its latest attempt SUCCEEDED, and no
\* earlier attempt ever succeeded: pauses, cancellations, retries, crashes and
\* the worker's stale snapshot never make finished work run a second time.
SucceedsOnce ==
  \A i \in Items :
    /\ item[i] = "COMPLETED" <=>
         attempts[i] # <<>> /\ attempts[i][Len(attempts[i])] = "SUCCEEDED"
    /\ \A n \in 1 .. Len(attempts[i]) - 1 : attempts[i][n] # "SUCCEEDED"

\* What finalizeJob concluded stays true of the items: a COMPLETED job has a
\* completed item and no failed or unfinished one, a PARTIAL_SUCCESS job has
\* both completed and failed items and no unfinished one.
VerdictHolds ==
  \A j \in Jobs :
    /\ job[j] = "COMPLETED" =>
         /\ Having(j, {"COMPLETED"}) # {}
         /\ Having(j, {"COMPLETED", "CANCELED"}) = ItemsOf(j)
    /\ job[j] = "PARTIAL_SUCCESS" =>
         /\ Having(j, {"COMPLETED"}) # {} /\ Having(j, {"FAILED"}) # {}
         /\ Having(j, {"COMPLETED", "FAILED", "CANCELED"}) = ItemsOf(j)

Settled == {"COMPLETED", "PARTIAL_SUCCESS", "FAILED", "CANCELED"}

\* jobs.success_items always agrees with the items.  jobs.failed_items does too,
\* but for one case: what it counts were failures once, none is left, and the
\* job is still on its way (the worker has it, or it is to be run again), unless
\* a crash or a fault cut short the refresh that would have set it right.  So no
\* failure goes uncounted, and a job that has come to rest says what became of
\* its items, although controls overtake the worker between the SELECT and the
\* UPDATE of its refresh.
CountersAgree ==
  \A j \in Jobs :
    /\ counts[j].success = Tally(item, j).success
    /\ \/ counts[j].failed = Tally(item, j).failed
       \/ /\ Having(j, {"FAILED"}) = {}
          /\ wjob = j \/ job[j] \notin Settled \/ crashes > 0 \/ faults > 0

\* An item shown as RUNNING is the one the worker is busy with, or the service
\* has crashed and has not yet recovered: no control operation and no crash
\* leaves an item RUNNING that nobody executes.
NoGhostRunning ==
  faults = 0 =>
    \A i \in Items : item[i] = "RUNNING" =>
      \/ pc \in {"down", "boot"}
      \/ witem = i /\ pc \in {"started", "exec", "returned", "fail", "succeed"}

\* A job shown as RUNNING is the one the worker has in hand, or the service has
\* crashed and has not yet recovered.  Only where users pause single items is a
\* job left RUNNING with nobody to finish it, and then for such an item (which
\* may have been cancelled since): no work that could go on is left behind.
RunningIsWorked ==
  faults = 0 =>
    \A j \in Jobs : job[j] = "RUNNING" =>
      \/ wjob = j \/ pc \in {"down", "boot"}
      \/ /\ "PauseJobItem" \in Offered
         /\ Having(j, {"PENDING", "QUEUED", "RUNNING"}) = {}
         /\ Having(j, {"PAUSED", "CANCELED"}) # {}

\* A finished item stays finished and a COMPLETED job stays COMPLETED; a
\* PARTIAL_SUCCESS job changes only when the user retries it.
FinishedIsFinal ==
  [][/\ \A i \in Items : item[i] = "COMPLETED" => item'[i] = "COMPLETED"
     /\ \A j \in Jobs :
          /\ job[j] = "COMPLETED" => job'[j] = "COMPLETED"
          /\ job[j] = "PARTIAL_SUCCESS" => job'[j] \in {"PARTIAL_SUCCESS", "WAITING_RETRY"}]_vars

(***************************************************************************)
(* The engine implements the ledger of executions: an item is active from  *)
(* the commit of startItem until the loop goes on without it.              *)
(***************************************************************************)
Executing == {"started", "exec", "returned", "refreshItem", "storeItem", "recheck",
              "fail", "succeed"}

Ledger == INSTANCE ExecutionLedger
  WITH log    <- attempts,
       done   <- {i \in Items : item[i] = "COMPLETED"},
       active <- IF pc \in Executing THEN witem ELSE None

\* Whatever users do and wherever the service crashes, items are attempted one
\* at a time, never again once completed, and only the attempt in progress is
\* ever recorded as succeeded or failed.
ImplementsLedger == Ledger!Spec

\* A job that waits for the worker is served: it is claimed and the worker
\* lets go of it in a status that tells the user how it stands.
JobsAreServed ==
  \A j \in Jobs : job[j] \in {"PENDING", "QUEUED"} ~>
                  job[j] \notin {"NONE", "PENDING", "QUEUED", "RUNNING"}

\* After a cancellation every item of the job ends up COMPLETED or CANCELED,
\* whatever the executor that was running at the time still writes, unless the
\* job leaves CANCELED again.
CancellationSettles ==
  \A j \in Jobs : job[j] = "CANCELED" ~>
    \/ job[j] # "CANCELED"
    \/ Having(j, {"COMPLETED", "CANCELED"}) = ItemsOf(j)

\* A paused job comes to rest: the worker lets go of it, unless it is resumed.
PauseQuiesces ==
  \A j \in Jobs : job[j] = "PAUSED" ~> (job[j] # "PAUSED" \/ wjob # j)
=============================================================================
