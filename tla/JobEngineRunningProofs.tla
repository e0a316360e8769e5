------------------------ MODULE JobEngineRunningProofs ------------------------
(***************************************************************************)
(* A RUNNING job is one that the worker of the job engine has in hand, for *)
(* every set of jobs and items and whatever control operations are served, *)
(* as long as no database call of the worker fails.  The one exception is  *)
(* a job in which the user has paused a single item: it may be left        *)
(* RUNNING, but only with nothing in it that could go on by itself.        *)
(*                                                                         *)
(* The worker can let go of a RUNNING job in one place only: finalizeJob   *)
(* returns without a verdict when it still sees an active item.  The proof *)
(* is that only a PAUSED one can be there: whatever else was active when   *)
(* the items were loaded is still to be visited, or is the item of the     *)
(* current turn; and without the operation on single items no PAUSED one   *)
(* either, because an item that PauseJob pauses was the only one RUNNING.  *)
(***************************************************************************)
EXTENDS JobEngineProofs

\* The statuses of an item that the engine still has to see to.
Undone == {"PENDING", "QUEUED", "RUNNING"}

\* A job that is left RUNNING: its single items have been paused.
Stranded(j) ==
  /\ "PauseJobItem" \in Offered
  /\ Having(j, Undone) = {}
  /\ Having(j, {"PAUSED", "CANCELED"}) # {}

InHand ==
  pc \notin {"down", "boot"} => \A j \in Jobs : job[j] = "RUNNING" => wjob = j \/ Stranded(j)

\* Without PauseJobItem a PAUSED item is one of a PAUSED job, or of one that
\* failed since.  No two items of a job are RUNNING or PAUSED, so that resuming
\* one, or the retry of the item in hand, leaves no PAUSED item behind.
Unpaused ==
  "PauseJobItem" \notin Offered =>
    /\ \A i \in Items : item[i] = "PAUSED" => job[JobOf[i]] \in {"PAUSED", "FAILED"}
    /\ pc \in Turn => \A i \in ItemsOf(wjob) \ {witem} : item[i] # "PAUSED"
    /\ \A i, k \in Items :
         JobOf[i] = JobOf[k] /\ {item[i], item[k]} \subseteq {"RUNNING", "PAUSED"} => i = k

\* While the job is RUNNING, all that users have done to its items is to cancel
\* some: the one in hand is RUNNING or CANCELED, the others that have to be seen
\* to are still to come.
Attended ==
  /\ pc \in {"cancelPending", "refresh", "store"} => job[wjob] # "RUNNING"
  /\ pc \in {"refreshItem", "storeItem", "recheck"} /\ job[wjob] = "RUNNING" =>
       item[witem] = "CANCELED"
  /\ pc \in Executing /\ job[wjob] = "RUNNING" => item[witem] \in {"RUNNING", "CANCELED"}
  /\ pc \in {"loop"} \cup Turn /\ job[wjob] = "RUNNING" =>
       \A i \in ItemsOf(wjob) : item[i] \in Undone =>
         (i \in todo /\ i \in ready \ late) \/ (pc \in Turn /\ i = witem)
  /\ pc = "finalize" /\ job[wjob] = "RUNNING" =>
       \A i \in ItemsOf(wjob) : item[i] \notin Undone

WorkedInv == InHand /\ Unpaused /\ Attended

\* What is known before a step that is not a fault.
Sound == IInv /\ HandInv /\ NoGhostRunning /\ faults = 0 /\ WorkedInv

-----------------------------------------------------------------------------
(***************************************************************************)
(* What the steps of others, and the steps of the worker, may do.          *)
(***************************************************************************)
LEMMA FaultFree ==
  ASSUME TypeInv, [Next]_vars, faults' = 0
  PROVE  faults = 0 /\ ~Fault
<1>0. faults \in Nat
  BY DEF TypeInv, TypeOK
<1>1. ~Fault
  BY <1>0 DEF Fault
<1>2. Crash => UNCHANGED faults
  BY DEF Crash
<1>3. ControlStep => UNCHANGED faults
  BY DEF ControlStep, PauseJob, ResumeJob, CancelJob, RetryJob, UpdatePriority,
         PauseJobItem, ResumeJobItem, CancelJobItem, Control
<1>4. WorkerStep => UNCHANGED faults
  BY DEF WorkerStep, Recover, Claim, CreateJobAttempt, NoExecutor, LoadItems, Visit, VisitHeld,
         LoopDone, StartItem, RegisterRunningItem, InspectInterruption, SelectCounts,
         UpdateCounts, RecheckInterrupted, FinishItemCompleted, FinishItemFailed, FinalizeJob,
         CancelPendingItems, FailJob, Goto, Leave, NextTurn, bounds
<1>5. ASSUME NEW i \in Items, Interrupt(i) \/ RetryDue(i) PROVE UNCHANGED faults
  BY <1>5 DEF Interrupt, RetryDue, bounds
<1>6. ASSUME NEW j \in Jobs, CreateJob(j) PROVE UNCHANGED faults
  BY <1>6 DEF CreateJob, bounds
<1>7. ExecutorReturns \/ Restart \/ UNCHANGED vars => UNCHANGED faults
  BY DEF ExecutorReturns, Restart, Goto, bounds, vars
<1>. QED
  BY <1>1, <1>2, <1>3, <1>4, <1>5, <1>6, <1>7 DEF Next

\* Only a claim makes a job RUNNING.
LEMMA RunningJobs ==
  ASSUME TypeInv, [Next]_vars, NEW j \in Jobs, job'[j] = "RUNNING"
  PROVE  job[j] = "RUNNING" \/ Claim(j)
<1>. USE DEF TypeInv, TypeOK, Holds
<1>1. ASSUME NEW k \in Jobs, CreateJob(k) \/ Claim(k) PROVE job[j] = "RUNNING" \/ Claim(j)
  BY <1>1 DEF CreateJob, Claim
<1>2. ControlStep => job[j] = "RUNNING"
  BY DEF ControlStep, PauseJob, ResumeJob, CancelJob, RetryJob, UpdatePriority,
         PauseJobItem, ResumeJobItem, CancelJobItem
<1>3. Recover => FALSE
  BY DEF Recover
<1>4. FinishItemFailed \/ FailJob => job[j] = "RUNNING"
  BY DEF FinishItemFailed, FailJob
<1>5. FinalizeJob => job[j] = "RUNNING"
  <2>1. Verdict(wjob) # "RUNNING"
    BY DEF Verdict
  <2>. QED
    BY <2>1 DEF FinalizeJob
<1>. QED
  BY <1>1, <1>2, <1>3, <1>4, <1>5, JobWriters

\* To the items of a job that stays RUNNING users can do one thing only: cancel
\* them.
LEMMA RunningItems ==
  ASSUME IInv, Attended, [Next]_vars, NEW j \in Jobs, job[j] = "RUNNING", job'[j] = "RUNNING",
         NEW i \in ItemsOf(j)
  PROVE  \/ item'[i] = item[i]
         \/ item'[i] = "CANCELED" /\ ControlStep
         \/ (StartItem \/ FinishItemCompleted \/ FinishItemFailed) /\ i = witem /\ j = wjob
<1>. USE DEF IInv, TypeInv, TypeOK, Holds
<1>b. i \in Items /\ JobOf[i] = j
  BY DEF ItemsOf
<1>1. ASSUME NEW k \in Jobs, CreateJob(k) PROVE item'[i] = item[i]
  BY <1>1, <1>b DEF CreateJob, SetItems, ItemsOf
<1>2. ControlStep => item'[i] \in {item[i], "CANCELED"}
  <2>1. ASSUME NEW k \in Jobs, UpdatePriority(k) PROVE item'[i] = item[i]
    BY <2>1 DEF UpdatePriority
  <2>2. ASSUME NEW k \in Jobs, PauseJob(k) \/ ResumeJob(k) \/ CancelJob(k) \/ RetryJob(k)
        PROVE  item'[i] = item[i]
    <3>1. k # j
      BY <2>2 DEF PauseJob, ResumeJob, CancelJob, RetryJob
    <3>. QED
      BY <1>b, <2>2, <3>1
      DEF PauseJob, ResumeJob, CancelJob, RetryJob, SetItems, Having, ItemsOf
  <2>3. ASSUME NEW k \in Items, PauseJobItem(k) \/ ResumeJobItem(k) PROVE item'[i] = item[i]
    <3>1. JobOf[k] # j
      BY <2>3 DEF PauseJobItem, ResumeJobItem
    <3>. QED
      BY <1>b, <2>3, <3>1 DEF PauseJobItem, ResumeJobItem
  <2>4. ASSUME NEW k \in Items, CancelJobItem(k) PROVE item'[i] \in {item[i], "CANCELED"}
    BY <1>b, <2>4 DEF CancelJobItem
  <2>. QED
    BY <2>1, <2>2, <2>3, <2>4 DEF ControlStep
<1>3. ~Recover
  BY DEF Recover
<1>4. StartItem \/ FinishItemCompleted \/ FinishItemFailed =>
        (i = witem /\ j = wjob) \/ item'[i] = item[i]
  <2>1. StartItem \/ FinishItemCompleted \/ FinishItemFailed => pc \in Turn
    BY DEF StartItem, FinishItemCompleted, FinishItemFailed, Turn, Executing
  <2>2. pc \in Turn => JobOf[witem] = wjob
    BY DEF WorkInv
  <2>. QED
    BY <1>b, <2>1, <2>2 DEF StartItem, FinishItemCompleted, FinishItemFailed
<1>5. FinalizeJob => item'[i] = item[i]
  <2>1. FinalizeJob /\ j = wjob => UNCHANGED item
    BY DEF FinalizeJob
  <2>2. FinalizeJob /\ j # wjob => item'[i] = item[i]
    BY <1>b DEF FinalizeJob, SetItems, Having, ItemsOf
  <2>. QED
    BY <2>1, <2>2
<1>6. CancelPendingItems => item'[i] = item[i]
  <2>1. CancelPendingItems => j # wjob
    BY DEF CancelPendingItems, Attended
  <2>. QED
    BY <1>b, <2>1 DEF CancelPendingItems, SetItems, Having, ItemsOf
<1>. QED
  BY <1>1, <1>2, <1>3, <1>4, <1>5, <1>6, ItemWriters

\* Where users cannot pause single items, the items that get PAUSED are RUNNING
\* ones and their job is PAUSED with them; the others keep their job's status.
LEMMA PausedControls ==
  ASSUME IInv, Unpaused, "PauseJobItem" \notin Offered, ControlStep,
         NEW i \in Items, item'[i] = "PAUSED"
  PROVE  \/ job'[JobOf[i]] = "PAUSED" /\ item[i] \in {"PAUSED", "RUNNING"}
         \/ job'[JobOf[i]] = job[JobOf[i]] /\ item[i] = "PAUSED"
<1>. DEFINE j == JobOf[i]
            Goal == \/ job'[j] = "PAUSED" /\ item[i] \in {"PAUSED", "RUNNING"}
                    \/ job'[j] = job[j] /\ item[i] = "PAUSED"
<1>. USE DEF IInv, TypeInv, TypeOK
<1>. USE JobsAssumption
<1>1. ASSUME NEW k \in Jobs, UpdatePriority(k) PROVE Goal
  BY <1>1 DEF UpdatePriority
<1>2. ASSUME NEW k \in Jobs, PauseJob(k) PROVE Goal
  BY <1>2 DEF PauseJob, SetItems, Having, ItemsOf
<1>3. ASSUME NEW k \in Jobs, ResumeJob(k) PROVE Goal
  <2>1. k # j /\ item[i] = "PAUSED"
    BY <1>3 DEF ResumeJob, SetItems, Having, ItemsOf
  <2>. QED
    BY <1>3, <2>1 DEF ResumeJob
<1>4. ASSUME NEW k \in Jobs, CancelJob(k) \/ RetryJob(k) PROVE Goal
  <2>1. k # j /\ item[i] = "PAUSED"
    BY <1>4 DEF CancelJob, RetryJob, SetItems, Having, ItemsOf, ItemStatus
  <2>. QED
    BY <1>4, <2>1 DEF CancelJob, RetryJob
<1>5. ASSUME NEW k \in Items, PauseJobItem(k) PROVE FALSE
  BY <1>5 DEF PauseJobItem, Control
<1>6. ASSUME NEW k \in Items, ResumeJobItem(k) PROVE Goal
  <2>1. k # i /\ item[i] = "PAUSED" /\ item[k] = "PAUSED"
    BY <1>6 DEF ResumeJobItem
  <2>2. JobOf[k] # j
    BY <2>1 DEF Unpaused
  <2>. QED
    BY <1>6, <2>1, <2>2 DEF ResumeJobItem
<1>7. ASSUME NEW k \in Items, CancelJobItem(k) PROVE Goal
  BY <1>7 DEF CancelJobItem
<1>. HIDE DEF Goal
<1>8. Goal
  BY <1>1, <1>2, <1>3, <1>4, <1>5, <1>6, <1>7 DEF ControlStep
<1>. QED
  BY <1>8 DEF Goal

\* Only a control operation makes an item PAUSED.
LEMMA PausedItems ==
  ASSUME TypeInv, [Next]_vars, ~ControlStep, NEW i \in Items, item'[i] = "PAUSED"
  PROVE  item[i] = "PAUSED"
<1>. USE DEF TypeInv, TypeOK, Holds
<1>1. ASSUME NEW j \in Jobs, CreateJob(j) PROVE item[i] = "PAUSED"
  BY <1>1 DEF CreateJob, SetItems
<1>2. Recover \/ FinalizeJob \/ CancelPendingItems => item[i] = "PAUSED"
  BY DEF Recover, FinalizeJob, CancelPendingItems, SetItems
<1>3. StartItem \/ FinishItemCompleted \/ FinishItemFailed => item[i] = "PAUSED"
  BY DEF StartItem, FinishItemCompleted, FinishItemFailed
<1>. QED
  BY <1>1, <1>2, <1>3, ItemWriters

\* How the worker lets go of its job.
LEMMA LettingGo ==
  ASSUME [Next]_vars, ~Fault, pc \in Busy, pc' # "down"
  PROVE  \/ wjob' = wjob
         \/ VisitHeld /\ job[wjob] = "PAUSED"
         \/ RecheckInterrupted \/ FinalizeJob \/ FailJob
         \/ UpdateCounts /\ pc = "store"
<1>. USE DEF Busy
<1>1. ~Crash /\ ~Restart
  BY DEF Crash, Restart
<1>2. ExecutorReturns => wjob' = wjob
  BY DEF ExecutorReturns
<1>3. ASSUME NEW i \in Items, Visit(i) PROVE wjob' = wjob
  BY <1>3 DEF Visit
<1>4. CreateJobAttempt \/ NoExecutor \/ LoadItems \/ LoopDone => wjob' = wjob
  BY DEF CreateJobAttempt, NoExecutor, LoadItems, LoopDone, loop
<1>5. VisitHeld => wjob' = wjob \/ job[wjob] = "PAUSED"
  BY DEF VisitHeld, loop
<1>6. \/ StartItem \/ RegisterRunningItem \/ InspectInterruption \/ SelectCounts
      \/ FinishItemCompleted \/ FinishItemFailed \/ CancelPendingItems
      => wjob' = wjob
  BY DEF StartItem, RegisterRunningItem, InspectInterruption, SelectCounts,
         FinishItemCompleted, FinishItemFailed, CancelPendingItems, NextTurn, loop
<1>7. UpdateCounts => wjob' = wjob \/ pc = "store"
  BY DEF UpdateCounts
<1>8. ~Recover /\ \A j \in Jobs : ~Claim(j)
  BY DEF Recover, Claim
<1>. QED
  BY <1>1, <1>2, <1>3, <1>4, <1>5, <1>6, <1>7, <1>8, Bystanders DEF WorkerStep

\* How the worker gets where the invariant says something about its job.
LEMMA Arrivals ==
  ASSUME [Next]_vars, ~Fault
  PROVE  /\ pc' \in {"cancelPending", "refresh", "store"} =>
              \/ pc \in {"cancelPending", "refresh", "store"}
              \/ VisitHeld /\ job[wjob] = "CANCELED"
         /\ pc' \in {"refreshItem", "storeItem", "recheck"} =>
              \/ pc \in {"refreshItem", "storeItem", "recheck"}
              \/ InspectInterruption
         /\ pc' = "loop" =>
              \/ pc \in {"loop"} \cup Turn
              \/ LoadItems
         /\ pc' = "finalize" => pc = "finalize" \/ LoopDone
<1>. DEFINE Goal ==
         /\ pc' \in {"cancelPending", "refresh", "store"} =>
              \/ pc \in {"cancelPending", "refresh", "store"}
              \/ VisitHeld /\ job[wjob] = "CANCELED"
         /\ pc' \in {"refreshItem", "storeItem", "recheck"} =>
              \/ pc \in {"refreshItem", "storeItem", "recheck"}
              \/ InspectInterruption
         /\ pc' = "loop" =>
              \/ pc \in {"loop"} \cup Turn
              \/ LoadItems
         /\ pc' = "finalize" => pc = "finalize" \/ LoopDone
<1>0. UNCHANGED pc => Goal
  BY DEF Turn, Executing
<1>4. ASSUME NEW i \in Items, Visit(i) PROVE Goal
  BY <1>4 DEF Visit, Goto, Turn, Executing
<1>5. ASSUME NEW j \in Jobs, Claim(j) PROVE Goal
  BY <1>5 DEF Claim, Goto
<1>6. CreateJobAttempt \/ NoExecutor \/ LoadItems \/ LoopDone => Goal
  BY DEF CreateJobAttempt, NoExecutor, LoadItems, LoopDone, Goto
<1>7. VisitHeld => Goal
  BY DEF VisitHeld, Leave, Goto
<1>8. StartItem \/ RegisterRunningItem \/ ExecutorReturns \/ InspectInterruption => Goal
  BY DEF StartItem, RegisterRunningItem, ExecutorReturns, InspectInterruption, Goto
<1>9. RecheckInterrupted \/ FinishItemCompleted \/ FinishItemFailed => Goal
  BY DEF RecheckInterrupted, FinishItemCompleted, FinishItemFailed, Leave, NextTurn, Goto,
         Turn, Executing
<1>10. FinalizeJob \/ CancelPendingItems \/ FailJob \/ Recover => Goal
  BY DEF FinalizeJob, CancelPendingItems, FailJob, Recover, Leave, Goto
<1>11. SelectCounts \/ UpdateCounts => Goal
  BY DEF SelectCounts, UpdateCounts, Leave, Goto
<1>12. Crash \/ Restart => Goal
  BY DEF Crash, Restart, Goto
<1>. HIDE DEF Goal
<1>13. Goal
  BY <1>0, <1>4, <1>5, <1>6, <1>7, <1>8, <1>9, <1>10, <1>11, <1>12, Bystanders DEF WorkerStep
<1>. QED
  BY <1>13 DEF Goal

-----------------------------------------------------------------------------
(***************************************************************************)
(* The three parts of the invariant, one step on.                          *)
(***************************************************************************)
LEMMA UnpausedStep ==
  ASSUME Sound, [Next]_vars, ~Fault
  PROVE  Unpaused'
<1>. USE JobsAssumption
<1>a. TypeInv /\ WorkInv /\ HandInv /\ Unpaused /\ IInv
  BY DEF Sound, WorkedInv, IInv
<1>. SUFFICES ASSUME "PauseJobItem" \notin Offered
              PROVE  Unpaused'
  BY DEF Unpaused
<1>1. ASSUME NEW i \in Items, item'[i] = "PAUSED"
      PROVE  job'[JobOf[i]] \in {"PAUSED", "FAILED"}
  <2>. DEFINE j == JobOf[i]
  <2>0. j \in Jobs /\ i \in ItemsOf(j)
    BY DEF ItemsOf
  <2>1. CASE ControlStep
    <3>1. \/ job'[j] = "PAUSED"
          \/ job'[j] = job[j] /\ item[i] = "PAUSED"
      BY <1>1, <1>a, <2>1, PausedControls
    <3>. QED
      BY <3>1, <1>a DEF Unpaused
  <2>2. CASE ~ControlStep
    <3>1. item[i] = "PAUSED"
      BY <1>1, <1>a, <2>2, PausedItems
    <3>2. job[j] \in {"PAUSED", "FAILED"}
      BY <1>a, <3>1 DEF Unpaused
    <3>3. ASSUME NEW k \in Jobs, CreateJob(k) \/ Claim(k)
          PROVE  job'[j] \in {"PAUSED", "FAILED"}
      BY <3>2, <3>3, <1>a DEF CreateJob, Claim, Claimable, TypeInv, TypeOK
    <3>4. Recover => job'[j] \in {"PAUSED", "FAILED"}
      BY <2>0, <3>2 DEF Recover
    <3>5. CASE FinishItemFailed
      <4>1. pc \in Turn /\ item'[witem] # "PAUSED"
        BY <3>5, <1>a DEF FinishItemFailed, Turn, Executing, TypeInv, TypeOK, Holds
      <4>2. j # wjob
        BY <1>1, <2>0, <3>1, <4>1, <1>a DEF Unpaused
      <4>. QED
        BY <2>0, <3>2, <3>5, <4>2, <1>a DEF FinishItemFailed, TypeInv, TypeOK
    <3>6. CASE FinalizeJob
      <4>1. j = wjob => job[j] = "PAUSED"
        BY <3>2, <3>6, <1>a DEF FinalizeJob, HandInv, Busy, PC
      <4>. QED
        BY <2>0, <3>2, <3>6, <4>1, <1>a DEF FinalizeJob, TypeInv, TypeOK
    <3>7. FailJob => job'[j] \in {"PAUSED", "FAILED"}
      BY <2>0, <3>2, <1>a DEF FailJob, TypeInv, TypeOK
    <3>. QED
      BY <2>2, <3>2, <3>3, <3>4, <3>5, <3>6, <3>7, JobWriters
  <2>. QED
    BY <2>1, <2>2
<1>2. ASSUME pc' \in Turn, NEW i \in ItemsOf(wjob') \ {witem'} PROVE item'[i] # "PAUSED"
  <2>0. i \in Items /\ JobOf[i] = wjob'
    BY DEF ItemsOf
  <2>1. CASE \E k \in Items : Visit(k)
    <3>1. /\ UNCHANGED <<item, wjob>>
          /\ pc \in Busy
          /\ job[wjob] # "PAUSED"
      BY <2>1 DEF Visit, database, Busy, PC
    <3>. QED
      BY <2>0, <3>1, <1>a DEF HandInv, Unpaused
  <2>2. CASE pc \in Turn /\ UNCHANGED <<witem, wjob, todo>>
    <3>1. i \in ItemsOf(wjob) \ {witem} /\ item[i] # "PAUSED"
      BY <1>2, <2>0, <2>2, <1>a DEF Unpaused, ItemsOf
    <3>2. item[i] # "RUNNING"
      BY <2>0, <2>2, <3>1 DEF Sound, NoGhostRunning, Turn, Executing
    <3>. QED
      BY <2>0, <3>1, <3>2, <1>a, PausedControls, PausedItems
  <2>. QED
    BY <1>2, <2>1, <2>2, <1>a, WorkerMoves
<1>3. ASSUME NEW i \in Items, NEW k \in Items, JobOf[i] = JobOf[k],
             {item'[i], item'[k]} \subseteq {"RUNNING", "PAUSED"}
      PROVE  i = k
  <2>1. ASSUME NEW x \in Items, item'[x] \in {"RUNNING", "PAUSED"}
        PROVE  item[x] \in {"RUNNING", "PAUSED"} \/ (StartItem /\ x = witem)
    BY <2>1, <1>a, RunningStarted, PausedControls, PausedItems
  <2>2. ASSUME StartItem, NEW x \in Items, x # witem, JobOf[x] = JobOf[witem]
        PROVE  item'[x] \notin {"RUNNING", "PAUSED"}
    <3>1. pc = "start" /\ pc \in Turn /\ item'[x] = item[x]
      BY <2>2 DEF StartItem, Turn
    <3>2. x \in ItemsOf(wjob) \ {witem}
      BY <2>2, <3>1, <1>a DEF WorkInv, ItemsOf
    <3>3. item[x] # "PAUSED"
      BY <3>1, <3>2, <1>a DEF Unpaused
    <3>4. item[x] # "RUNNING"
      BY <3>1 DEF Sound, NoGhostRunning
    <3>. QED
      BY <3>1, <3>3, <3>4
  <2>3. CASE StartItem /\ witem \in {i, k}
    BY <1>3, <2>2, <2>3
  <2>4. CASE ~(StartItem /\ witem \in {i, k})
    <3>1. {item[i], item[k]} \subseteq {"RUNNING", "PAUSED"}
      BY <1>3, <2>1, <2>4
    <3>. QED
      BY <1>3, <3>1, <1>a DEF Unpaused
  <2>. QED
    BY <2>3, <2>4
<1>. QED
  BY <1>1, <1>2, <1>3 DEF Unpaused, ItemsOf

\* A job that is left RUNNING stays one with nothing to go on with.
LEMMA StrandedStays ==
  ASSUME Sound, [Next]_vars, NEW j \in Jobs, wjob # j, job[j] = "RUNNING", job'[j] = "RUNNING",
         Stranded(j)
  PROVE  Stranded(j)'
<1>1. ASSUME NEW i \in ItemsOf(j) PROVE item'[i] \in {item[i], "CANCELED"}
  BY <1>1, RunningItems DEF Sound, WorkedInv
<1>2. \A i \in ItemsOf(j) : item'[i] \notin Undone
  BY <1>1 DEF Stranded, Having, Undone
<1>3. PICK i \in ItemsOf(j) : item[i] \in {"PAUSED", "CANCELED"}
  BY DEF Stranded, Having
<1>4. item'[i] \in {"PAUSED", "CANCELED"}
  BY <1>1, <1>3
<1>. QED
  BY <1>2, <1>4 DEF Stranded, Having, ItemsOf

LEMMA InHandStep ==
  ASSUME Sound, [Next]_vars, ~Fault
  PROVE  InHand'
<1>a. TypeInv /\ WorkInv /\ HandInv /\ InHand /\ Unpaused /\ Attended /\ IInv
  BY DEF Sound, WorkedInv, IInv
<1>. SUFFICES ASSUME pc' \notin {"down", "boot"}, NEW j \in Jobs, job'[j] = "RUNNING"
              PROVE  wjob' = j \/ Stranded(j)'
  BY DEF InHand, Stranded, Having, ItemsOf
<1>1. CASE Claim(j)
  BY <1>1 DEF Claim
<1>2. CASE ~Claim(j)
  <2>1. job[j] = "RUNNING"
    BY <1>2, <1>a, RunningJobs
  <2>2. pc \notin {"down", "boot"}
    <3>. SUFFICES ASSUME pc \in {"down", "boot"} PROVE Recover
      BY <1>a DEF Recover
    <3>1. ~ExecutorReturns /\ ~Crash /\ (Restart => pc' = "boot")
      BY DEF ExecutorReturns, Crash, Restart, Goto
    <3>2. WorkerStep => Recover
      BY DEF WorkerStep, Claim, CreateJobAttempt, NoExecutor, LoadItems, Visit, VisitHeld,
         LoopDone, StartItem, RegisterRunningItem, InspectInterruption, SelectCounts,
         UpdateCounts, RecheckInterrupted, FinishItemCompleted, FinishItemFailed, FinalizeJob,
         CancelPendingItems, FailJob
    <3>. QED
      BY <3>1, <3>2, Bystanders
  <2>3. CASE wjob # j
    BY <2>1, <2>2, <2>3, <1>a, StrandedStays DEF InHand
  <2>4. CASE wjob = j
    <3>1. pc \in Busy
      BY <2>4, <1>a, JobsAssumption DEF HandInv
    <3>2. ~(VisitHeld /\ job[wjob] = "PAUSED")
      BY <2>1, <2>4
    <3>3. RecheckInterrupted => wjob' = wjob
      BY <2>1, <2>4, <1>a DEF RecheckInterrupted, Attended, NextTurn
    <3>4. ~(UpdateCounts /\ pc = "store")
      BY <2>1, <2>4, <1>a DEF Attended
    <3>5. ~FailJob
      BY <2>4, <1>a DEF FailJob, TypeInv, TypeOK
    <3>6. FinalizeJob => Stranded(j)'
      <4>. SUFFICES ASSUME FinalizeJob PROVE Stranded(j)'
        OBVIOUS
      <4>1. UNCHANGED item /\ \A i \in ItemsOf(j) : item[i] \notin Undone
        BY <2>1, <2>4, <1>a DEF FinalizeJob, Attended
      <4>2. Having(j, Active) # {}
        <5>1. Verdict(wjob) # "RUNNING"
          BY DEF Verdict
        <5>. QED
          BY <2>1, <2>4, <5>1, <1>a DEF FinalizeJob, TypeInv, TypeOK
      <4>3. PICK i \in ItemsOf(j) : item[i] = "PAUSED"
        BY <4>1, <4>2 DEF Having, Active, Undone
      <4>4. "PauseJobItem" \in Offered
        BY <2>1, <4>3, <1>a DEF Unpaused, ItemsOf
      <4>. QED
        BY <4>1, <4>3, <4>4 DEF Stranded, Having, ItemsOf
    <3>. QED
      BY <2>4, <3>1, <3>2, <3>3, <3>4, <3>5, <3>6, LettingGo
  <2>. QED
    BY <2>3, <2>4
<1>. QED
  BY <1>1, <1>2

LEMMA AttendedStep ==
  ASSUME Sound, [Next]_vars, ~Fault
  PROVE  Attended'
<1>. USE JobsAssumption
<1>a. TypeInv /\ WorkInv /\ HandInv /\ Attended /\ IInv
  BY DEF Sound, WorkedInv, IInv
\* A step between two places where the worker has a RUNNING job.
<1>b. ASSUME pc \in Busy, pc' \in Busy \ {"claimed"}, job'[wjob'] = "RUNNING"
      PROVE  wjob' = wjob /\ wjob \in Jobs /\ job[wjob] = "RUNNING" /\ job'[wjob] = "RUNNING"
  <2>1. ASSUME NEW j \in Jobs PROVE ~Claim(j)
    BY <1>b DEF Claim, Busy
  <2>2. wjob' = wjob /\ wjob \in Jobs
    BY <1>b, <2>1, <1>a, WorkerMoves DEF TypeInv, Holds
  <2>. QED
    BY <1>b, <2>1, <2>2, <1>a, RunningJobs
<1>1. ASSUME pc' \in {"cancelPending", "refresh", "store"} PROVE job'[wjob'] # "RUNNING"
  <2>. SUFFICES ASSUME job'[wjob'] = "RUNNING" PROVE FALSE
    OBVIOUS
  <2>1. \/ pc \in {"cancelPending", "refresh", "store"}
        \/ VisitHeld /\ job[wjob] = "CANCELED"
    BY <1>1, Arrivals
  <2>2. pc \in Busy
    BY <2>1 DEF VisitHeld, Busy, PC
  <2>3. job[wjob] = "RUNNING"
    BY <1>1, <2>2, <1>b DEF Busy, PC
  <2>. QED
    BY <2>1, <2>3, <1>a DEF Attended
\* The item in hand, from one place within its execution to the next.
<1>2. ASSUME pc' \in Executing, job'[wjob'] = "RUNNING"
      PROVE  /\ witem' = witem /\ (pc \in Executing \/ StartItem)
             /\ pc \in Executing => job[wjob] = "RUNNING" /\ item'[witem] \in {item[witem], "CANCELED"}
             /\ StartItem => item'[witem] = "RUNNING"
  <2>1. witem' = witem /\ (pc \in Executing \/ StartItem) /\ pc \in Turn
    BY <1>2, <1>a, WorkerMoves DEF Turn, StartItem
  <2>2. pc \in Busy /\ pc' \in Busy \ {"claimed"}
    BY <1>2, <2>1 DEF Turn, Executing, Busy, PC
  <2>3. wjob' = wjob /\ wjob \in Jobs /\ job[wjob] = "RUNNING" /\ job'[wjob] = "RUNNING"
    BY <1>2, <2>2, <1>b
  <2>4. witem \in ItemsOf(wjob) /\ witem \in Items
    BY <2>1, <1>a DEF TypeInv, Holds, WorkInv, ItemsOf
  <2>5. StartItem => item'[witem] = "RUNNING"
    BY <2>1, <2>4, <1>a DEF StartItem, TypeInv, TypeOK
  <2>6. ASSUME pc \in Executing PROVE item'[witem] \in {item[witem], "CANCELED"}
    <3>2. ~StartItem /\ ~FinishItemCompleted /\ ~FinishItemFailed
      BY <1>2, <2>6 DEF StartItem, FinishItemCompleted, FinishItemFailed, NextTurn, Goto, Executing
    <3>. QED
      BY <2>3, <2>4, <3>2, <1>a, RunningItems
  <2>. QED
    BY <2>1, <2>3, <2>5, <2>6
<1>3. ASSUME pc' \in Executing, job'[wjob'] = "RUNNING"
      PROVE  item'[witem'] \in {"RUNNING", "CANCELED"}
  BY <1>2, <1>3, <1>a DEF Attended
<1>4. ASSUME pc' \in {"refreshItem", "storeItem", "recheck"}, job'[wjob'] = "RUNNING"
      PROVE  item'[witem'] = "CANCELED"
  <2>0. pc' \in Executing
    BY <1>4 DEF Executing
  <2>1. CASE pc \in {"refreshItem", "storeItem", "recheck"}
    BY <1>2, <1>4, <2>0, <2>1, <1>a DEF Attended, Executing
  <2>2. CASE InspectInterruption
    <3>1. pc = "returned" /\ UNCHANGED <<item, job, wjob, witem>>
      BY <2>2 DEF InspectInterruption, Goto, database, loop
    <3>2. item[witem] \in {"RUNNING", "CANCELED"}
      BY <1>4, <3>1, <1>a DEF Attended, Executing
    <3>3. item[witem] = "RUNNING" => pc' = "fail"
      BY <2>2 DEF InspectInterruption, Goto
    <3>. QED
      BY <1>4, <3>1, <3>2, <3>3
  <2>. QED
    BY <1>4, <2>1, <2>2, Arrivals
<1>5. ASSUME pc' \in {"loop"} \cup Turn, job'[wjob'] = "RUNNING",
             NEW i \in ItemsOf(wjob'), item'[i] \in Undone
      PROVE  (i \in todo' /\ i \in ready' \ late') \/ (pc' \in Turn /\ i = witem')
  <2>0. pc' \in Busy \ {"claimed"} /\ i \in Items
    BY <1>5 DEF Turn, Executing, Busy, PC, ItemsOf
  <2>1. CASE LoadItems
    <3>1. /\ pc = "load" /\ pc \in Busy
          /\ UNCHANGED <<job, item, wjob>>
          /\ todo' = ItemsOf(wjob)
          /\ ready' = Having(wjob, {"PENDING", "QUEUED", "WAITING_RETRY"})
          /\ late' = Having(wjob, {"WAITING_RETRY"}) \cap backoff
      BY <2>1 DEF LoadItems, database, Busy, PC
    <3>2. item[i] # "RUNNING"
      BY <2>0, <3>1 DEF Sound, NoGhostRunning
    <3>3. item[i] \in {"PENDING", "QUEUED"} /\ i \in ItemsOf(wjob)
      BY <1>5, <3>1, <3>2 DEF Undone, ItemsOf
    <3>. QED
      BY <3>1, <3>3 DEF Having
  <2>2. CASE ~LoadItems
    <3>1. pc \in {"loop"} \cup Turn
      <4>1. ASSUME NEW k \in Items, Visit(k) PROVE pc = "loop"
        BY <4>1 DEF Visit
      <4>. QED
        BY <1>5, <2>2, <4>1, <1>a, Arrivals, WorkerMoves
    <3>2. pc \in Busy
      BY <3>1 DEF Turn, Executing, Busy, PC
    <3>3. wjob' = wjob /\ wjob \in Jobs /\ job[wjob] = "RUNNING" /\ job'[wjob] = "RUNNING"
      BY <1>5, <2>0, <3>2, <1>b
    <3>4. i \in ItemsOf(wjob)
      BY <3>3 DEF ItemsOf
    <3>. DEFINE ToCome == i \in todo /\ i \in ready \ late
                Goal == (i \in todo' /\ i \in ready' \ late') \/ (pc' \in Turn /\ i = witem')
    <3>. SUFFICES Goal
      OBVIOUS
    <3>5. item[i] \in Undone => ToCome \/ (pc \in Turn /\ i = witem)
      BY <3>1, <3>3, <3>4, <1>a DEF Attended
    <3>6. \/ item'[i] = item[i]
          \/ (StartItem \/ FinishItemCompleted \/ FinishItemFailed) /\ i = witem
      BY <1>5, <3>3, <3>4, <1>a, RunningItems DEF Undone
    <3>7. CASE UNCHANGED <<pc, witem, todo, ready>> /\ late' \subseteq late /\ item'[i] = item[i]
      BY <1>5, <3>5, <3>7
    <3>8. ASSUME NEW k \in Items, Visit(k) PROVE Goal
      BY <1>5, <3>5, <3>8 DEF Visit, Goto, database, Turn, Executing
    <3>9. CASE StartItem
      BY <1>5, <3>5, <3>6, <3>9
      DEF StartItem, FinishItemCompleted, FinishItemFailed, Goto, loop, Turn, Executing
    <3>10. CASE RegisterRunningItem \/ ExecutorReturns \/ InspectInterruption
      BY <1>5, <3>5, <3>10
      DEF RegisterRunningItem, ExecutorReturns, InspectInterruption, Goto, loop, database,
          Turn, Executing
    <3>22. CASE SelectCounts
      BY <1>5, <3>5, <3>22 DEF SelectCounts, Goto, database, Turn, Executing
    <3>23. CASE UpdateCounts
      <4>1. pc = "storeItem" /\ pc' = "recheck"
        BY <3>3, <3>23, <1>a DEF UpdateCounts, Attended, Goto
      <4>2. UNCHANGED <<item, witem, todo, ready, late>>
        BY <3>23, <4>1 DEF UpdateCounts
      <4>. QED
        BY <1>5, <3>5, <4>1, <4>2 DEF Turn, Executing
    <3>11. CASE RecheckInterrupted
      <4>1. item[witem] = "CANCELED" /\ UNCHANGED item
        BY <3>3, <3>11, <1>a DEF RecheckInterrupted, Attended, database
      <4>2. i # witem
        BY <1>5, <4>1 DEF Undone
      <4>3. UNCHANGED <<todo, ready, late>>
        BY <3>11, <4>1 DEF RecheckInterrupted, NextTurn
      <4>. QED
        BY <1>5, <3>5, <4>1, <4>2, <4>3
    <3>12. CASE FinishItemCompleted \/ FinishItemFailed
      <4>1. i # witem
        <5>1. pc \in Turn /\ witem \in Items
          BY <3>12, <1>a DEF FinishItemCompleted, FinishItemFailed, Turn, Executing, TypeInv, Holds
        <5>. QED
          BY <1>5, <3>12, <5>1, <1>a
          DEF FinishItemCompleted, FinishItemFailed, Undone, TypeInv, TypeOK
      <4>2. item'[i] = item[i]
        BY <3>6, <4>1
      <4>3. UNCHANGED <<todo, ready, late>>
        BY <3>12 DEF FinishItemCompleted, FinishItemFailed, NextTurn
      <4>. QED
        BY <1>5, <3>5, <4>1, <4>2, <4>3
    <3>13. ASSUME NEW j \in Jobs, CreateJob(j) \/ Claim(j) PROVE Goal
      <4>1. ~Claim(j)
        BY <3>2 DEF Claim, Busy
      <4>2. UNCHANGED <<pc, witem, todo, ready, late>>
        BY <3>13, <4>1 DEF CreateJob, loop
      <4>3. ~StartItem /\ ~FinishItemCompleted /\ ~FinishItemFailed
        BY <4>2 DEF StartItem, FinishItemCompleted, FinishItemFailed, NextTurn, Goto
      <4>. QED
        BY <3>6, <3>7, <4>2, <4>3
    <3>14. CASE ControlStep
      <4>1. UNCHANGED <<pc, witem, todo, ready, late>>
        BY <3>14
        DEF ControlStep, PauseJob, ResumeJob, CancelJob, RetryJob, UpdatePriority,
            PauseJobItem, ResumeJobItem, CancelJobItem, Control, loop
      <4>2. ~StartItem /\ ~FinishItemCompleted /\ ~FinishItemFailed
        BY <4>1 DEF StartItem, FinishItemCompleted, FinishItemFailed, NextTurn, Goto
      <4>. QED
        BY <3>6, <3>7, <4>1, <4>2
    <3>15. ASSUME NEW k \in Items, Interrupt(k) \/ RetryDue(k) PROVE Goal
      <4>1. UNCHANGED <<pc, witem, todo, ready>> /\ late' \subseteq late
        BY <3>15 DEF Interrupt, RetryDue, loop
      <4>2. UNCHANGED item
        BY <3>15 DEF Interrupt, RetryDue, database
      <4>. QED
        BY <3>7, <4>1, <4>2
    <3>16. CASE UNCHANGED vars
      BY <3>7, <3>16 DEF vars, loop, database
    <3>17. CreateJobAttempt \/ NoExecutor \/ Recover \/ Restart => FALSE
      BY <3>1 DEF CreateJobAttempt, NoExecutor, Recover, Restart, Turn, Executing
    <3>18. VisitHeld => FALSE
      BY <3>3 DEF VisitHeld
    <3>19. LoopDone \/ FinalizeJob \/ CancelPendingItems \/ FailJob \/ Crash
           => pc' \in {"finalize", "idle", "refresh", "down"}
      BY DEF LoopDone, FinalizeJob, CancelPendingItems, FailJob, Crash, Leave, Goto
    <3>20. pc' \notin {"finalize", "idle", "refresh", "down"}
      BY <1>5 DEF Turn, Executing
    <3>. HIDE DEF Goal
    <3>21. WorkerStep => Goal
      BY <2>2, <3>8, <3>9, <3>10, <3>11, <3>12, <3>13, <3>17, <3>18, <3>19, <3>20, <3>22, <3>23
      DEF WorkerStep
    <3>. QED
      BY <3>21, <3>10, <3>13, <3>14, <3>15, <3>16, <3>17, <3>19, <3>20 DEF Next
  <2>. QED
    BY <2>1, <2>2
<1>6. ASSUME pc' = "finalize", job'[wjob'] = "RUNNING", NEW i \in ItemsOf(wjob')
      PROVE  item'[i] \notin Undone
  <2>1. pc = "finalize" \/ LoopDone
    BY <1>6, Arrivals
  <2>2. pc \in Busy /\ pc' \in Busy \ {"claimed"}
    BY <1>6, <2>1 DEF LoopDone, Busy, PC
  <2>3. wjob' = wjob /\ wjob \in Jobs /\ job[wjob] = "RUNNING" /\ job'[wjob] = "RUNNING"
    BY <1>6, <2>2, <1>b
  <2>4. i \in ItemsOf(wjob)
    BY <2>3 DEF ItemsOf
  <2>5. item[i] \notin Undone
    <3>1. CASE pc = "finalize"
      BY <2>3, <2>4, <3>1, <1>a DEF Attended
    <3>2. CASE LoopDone
      <4>1. pc = "loop" /\ todo = {} /\ pc \notin Turn
        BY <3>2 DEF LoopDone, Turn, Executing
      <4>. QED
        BY <2>3, <2>4, <4>1, <1>a DEF Attended
    <3>. QED
      BY <2>1, <3>1, <3>2
  <2>6. ~StartItem /\ ~FinishItemCompleted /\ ~FinishItemFailed
    BY <1>6 DEF StartItem, FinishItemCompleted, FinishItemFailed, NextTurn, Goto
  <2>7. item'[i] \in {item[i], "CANCELED"}
    BY <2>3, <2>4, <2>6, <1>a, RunningItems
  <2>. QED
    BY <2>5, <2>7 DEF Undone
<1>. QED
  BY <1>1, <1>3, <1>4, <1>5, <1>6 DEF Attended, ItemsOf

-----------------------------------------------------------------------------
\* As long as no database call of the worker fails, a job shown as RUNNING is
\* the one the worker has in hand, or the service is down or recovering.  Only
\* where users pause single items can a job be left RUNNING, and then nothing
\* in it could go on: no item that waits for the worker is left behind.
THEOREM RunningJobsAreWorked == Spec => []RunningIsWorked
<1>. DEFINE Worked == HandInv /\ (faults = 0 => WorkedInv)
<1>1. Init => Worked
  <2>. SUFFICES ASSUME Init PROVE HandInv /\ WorkedInv
    OBVIOUS
  <2>1. HandInv
    BY DEF Init, HandInv, Busy, PC
  <2>2. InHand /\ Unpaused
    BY JobsAssumption DEF Init, InHand, Unpaused, Turn, Executing
  <2>3. Attended
    BY DEF Init, Attended, Turn, Executing
  <2>. QED
    BY <2>1, <2>2, <2>3 DEF WorkedInv
<1>2. IInv /\ NoGhostRunning /\ Worked /\ [Next]_vars => Worked'
  <2>. SUFFICES ASSUME IInv, NoGhostRunning, Worked, [Next]_vars PROVE Worked'
    OBVIOUS
  <2>1. HandInv'
    BY HandStep
  <2>2. ASSUME faults' = 0 PROVE WorkedInv'
    <3>1. faults = 0 /\ ~Fault
      BY <2>2, FaultFree DEF IInv
    <3>2. Sound
      BY <3>1 DEF Sound
    <3>. QED
      BY <3>1, <3>2, InHandStep, UnpausedStep, AttendedStep DEF WorkedInv
  <2>. QED
    BY <2>1, <2>2
<1>3. Worked => RunningIsWorked
  BY DEF WorkedInv, InHand, Stranded, Undone, RunningIsWorked
<1>. HIDE DEF Worked
<1>. QED
  BY <1>1, <1>2, <1>3, Invariance, NoGhosts, PTL DEF Spec
=============================================================================
