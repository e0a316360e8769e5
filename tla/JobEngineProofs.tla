--------------------------- MODULE JobEngineProofs ---------------------------
(***************************************************************************)
(* The safety properties of the job engine, for every set of jobs and      *)
(* items and without bounds on operations, crashes and faults.             *)
(***************************************************************************)
EXTENDS JobEngine, SequenceTheorems, FiniteSetTheorems, TLAPS

-----------------------------------------------------------------------------
(***************************************************************************)
(* What the three ways to write a list of attempts do to it.               *)
(***************************************************************************)
Withdrawn(s) ==
  [n \in DOMAIN s |-> IF s[n] = "RUNNING" THEN "CANCELED" ELSE s[n]]

LEMMA WithdrawnType ==
  ASSUME NEW s \in Seq(AttemptStatus)
  PROVE  /\ Withdrawn(s) \in Seq(AttemptStatus)
         /\ Len(Withdrawn(s)) = Len(s)
         /\ \A n \in 1 .. Len(s) :
              Withdrawn(s)[n] = "SUCCEEDED" <=> s[n] = "SUCCEEDED"
<1>1. DOMAIN s = 1 .. Len(s) /\ Len(s) \in Nat
  OBVIOUS
<1>2. \A n \in 1 .. Len(s) : Withdrawn(s)[n] \in AttemptStatus
  BY <1>1 DEF Withdrawn, AttemptStatus
<1>3. Withdrawn(s) \in [1 .. Len(s) -> AttemptStatus]
  BY <1>1, <1>2 DEF Withdrawn
<1>4. Withdrawn(s) \in Seq(AttemptStatus) /\ Len(Withdrawn(s)) = Len(s)
  BY <1>1, <1>3, IsASeq, LenProperties
<1>. QED
  BY <1>1, <1>4 DEF Withdrawn

LEMMA ClosedType ==
  ASSUME NEW s \in Seq(AttemptStatus), NEW status \in AttemptStatus
  PROVE  /\ [s EXCEPT ![Len(s)] = status] \in Seq(AttemptStatus)
         /\ Len([s EXCEPT ![Len(s)] = status]) = Len(s)
         /\ \A n \in 1 .. Len(s) :
              [s EXCEPT ![Len(s)] = status][n] = IF n = Len(s) THEN status ELSE s[n]
<1>. DEFINE t == [s EXCEPT ![Len(s)] = status]
<1>1. s \in [1 .. Len(s) -> AttemptStatus] /\ Len(s) \in Nat
  BY LenProperties, ElementOfSeq
<1>2. t \in [1 .. Len(s) -> AttemptStatus]
  BY <1>1
<1>3. t \in Seq(AttemptStatus) /\ Len(t) = Len(s)
  BY <1>1, <1>2, IsASeq, LenProperties
<1>. QED
  BY <1>1, <1>3

LEMMA OpenedType ==
  ASSUME NEW s \in Seq(AttemptStatus)
  PROVE  /\ Append(s, "RUNNING") \in Seq(AttemptStatus)
         /\ Len(Append(s, "RUNNING")) = Len(s) + 1
         /\ \A n \in 1 .. Len(s) : Append(s, "RUNNING")[n] = s[n]
         /\ Append(s, "RUNNING")[Len(s) + 1] = "RUNNING"
<1>1. "RUNNING" \in AttemptStatus
  BY DEF AttemptStatus
<1>. QED
  BY <1>1, AppendProperties

LEMMA CountIsNat ==
  ASSUME NEW j \in Jobs, NEW st
  PROVE  Tally(st, j) \in [success : Nat, failed : Nat]
<1>1. /\ {i \in ItemsOf(j) : st[i] = "COMPLETED"} \in SUBSET Items
      /\ {i \in ItemsOf(j) : st[i] = "FAILED"} \in SUBSET Items
  BY DEF ItemsOf
<1>. QED
  BY <1>1, JobsAssumption, FS_Subset, FS_CardinalityType DEF Tally

-----------------------------------------------------------------------------
(***************************************************************************)
(* Type correctness.                                                       *)
(***************************************************************************)
Attempts == [Items -> Seq(AttemptStatus)]
Counts   == [Jobs -> [success : Nat, failed : Nat]]

LEMMA CancelAttemptsType ==
  ASSUME attempts \in Attempts, NEW S, CancelAttempts(S)
  PROVE  attempts' \in Attempts
<1>1. attempts' = [i \in Items |-> IF i \in S THEN Withdrawn(attempts[i]) ELSE attempts[i]]
  BY DEF CancelAttempts, Withdrawn
<1>2. \A i \in Items : Withdrawn(attempts[i]) \in Seq(AttemptStatus)
  BY WithdrawnType DEF Attempts
<1>. QED
  BY <1>1, <1>2 DEF Attempts

LEMMA CloseAttemptType ==
  ASSUME attempts \in Attempts, NEW i \in Items, NEW status \in AttemptStatus,
         CloseAttempt(i, status)
  PROVE  attempts' \in Attempts
<1>1. attempts[i] \in Seq(AttemptStatus)
  BY DEF Attempts
<1>2. [attempts[i] EXCEPT ![Len(attempts[i])] = status] \in Seq(AttemptStatus)
  BY <1>1, ClosedType
<1>. QED
  BY <1>2 DEF Attempts, CloseAttempt

LEMMA RefreshType ==
  ASSUME counts \in Counts, NEW j \in Jobs, Refresh(j)
  PROVE  counts' \in Counts
BY CountIsNat DEF Counts, Refresh

LEMMA SetItemsType ==
  ASSUME item \in [Items -> ItemStatus \cup {"NONE"}], NEW S,
         NEW status \in ItemStatus, SetItems(S, status)
  PROVE  item' \in [Items -> ItemStatus \cup {"NONE"}]
BY DEF SetItems

\* The worker holds a job except while it is down, recovering or idle, and an
\* item between startItem's turn and the end of that turn.
Busy == PC \ {"down", "boot", "idle"}
Turn == {"start"} \cup Executing

Holds ==
  /\ pc \in Busy => wjob \in Jobs
  /\ pc \in Turn => witem \in Items

TypeInv == TypeOK /\ Holds

LEMMA TypeInit == Init => TypeInv
<1>. SUFFICES ASSUME Init PROVE TypeInv
  OBVIOUS
<1>1. attempts \in [Items -> Seq(AttemptStatus)]
  BY EmptySeq DEF Init
<1>. QED
  BY <1>1 DEF Init, NoSums, TypeInv, TypeOK, Holds, Busy, Turn, Executing, PC

\* Control operations leave the worker alone.
LEMMA ControlType ==
  ASSUME TypeInv, ControlStep
  PROVE  TypeInv'
<1>. USE DEF TypeInv, TypeOK
<1>u. ASSUME NEW op, Control(op)
      PROVE  /\ Holds'
             /\ pc' \in PC /\ wjob' \in Jobs \cup {None} /\ witem' \in Items \cup {None}
             /\ todo' \subseteq Items /\ ready' \subseteq Items /\ late' \subseteq Items
             /\ outcome' \in {"none", "error", "interrupted"}
             /\ sums' \in [success : Nat, failed : Nat]
             /\ running' \subseteq Items /\ stopped' \in BOOLEAN
             /\ controls' \in Nat /\ crashes' \in Nat /\ faults' \in Nat
  BY <1>u DEF Control, Holds, loop
<1>1. ASSUME NEW j \in Jobs, PauseJob(j) PROVE TypeInv'
  <2>1. item' \in [Items -> ItemStatus \cup {"NONE"}]
    BY <1>1, SetItemsType DEF PauseJob, ItemStatus
  <2>2. attempts' \in [Items -> Seq(AttemptStatus)]
    BY <1>1, CancelAttemptsType DEF PauseJob, Attempts
  <2>3. counts' \in [Jobs -> [success : Nat, failed : Nat]]
    BY <1>1, RefreshType DEF PauseJob, Counts
  <2>. QED
    BY <1>1, <1>u, <2>1, <2>2, <2>3 DEF PauseJob, JobStatus, Having, ItemsOf
<1>2. ASSUME NEW j \in Jobs, ResumeJob(j) PROVE TypeInv'
  <2>1. item' \in [Items -> ItemStatus \cup {"NONE"}]
    BY <1>2, SetItemsType DEF ResumeJob, ItemStatus
  <2>3. counts' \in [Jobs -> [success : Nat, failed : Nat]]
    BY <1>2, RefreshType DEF ResumeJob, Counts
  <2>. QED
    BY <1>2, <1>u, <2>1, <2>3 DEF ResumeJob, JobStatus
<1>3. ASSUME NEW j \in Jobs, CancelJob(j) PROVE TypeInv'
  <2>1. item' \in [Items -> ItemStatus \cup {"NONE"}]
    BY <1>3, SetItemsType DEF CancelJob, ItemStatus
  <2>2. attempts' \in [Items -> Seq(AttemptStatus)]
    BY <1>3, CancelAttemptsType DEF CancelJob, Attempts
  <2>3. counts' \in [Jobs -> [success : Nat, failed : Nat]]
    BY <1>3, RefreshType DEF CancelJob, Counts
  <2>. QED
    BY <1>3, <1>u, <2>1, <2>2, <2>3 DEF CancelJob, JobStatus, Having, ItemsOf
<1>4. ASSUME NEW j \in Jobs, RetryJob(j) PROVE TypeInv'
  <2>1. item' \in [Items -> ItemStatus \cup {"NONE"}]
    BY <1>4, SetItemsType DEF RetryJob, ItemStatus
  <2>3. counts' \in [Jobs -> [success : Nat, failed : Nat]]
    BY <1>4, RefreshType DEF RetryJob, Counts
  <2>. QED
    BY <1>4, <1>u, <2>1, <2>3 DEF RetryJob, JobStatus
<1>5. ASSUME NEW j \in Jobs, UpdatePriority(j) PROVE TypeInv'
  BY <1>5, <1>u DEF UpdatePriority
<1>6. ASSUME NEW i \in Items, PauseJobItem(i) PROVE TypeInv'
  <2>. JobOf[i] \in Jobs
    BY JobsAssumption
  <2>2. attempts' \in [Items -> Seq(AttemptStatus)]
    BY <1>6, CancelAttemptsType DEF PauseJobItem, Attempts
  <2>3. counts' \in [Jobs -> [success : Nat, failed : Nat]]
    BY <1>6, RefreshType DEF PauseJobItem, Counts
  <2>. QED
    BY <1>6, <1>u, <2>2, <2>3 DEF PauseJobItem, JobStatus, ItemStatus
<1>7. ASSUME NEW i \in Items, ResumeJobItem(i) PROVE TypeInv'
  <2>. JobOf[i] \in Jobs
    BY JobsAssumption
  <2>3. counts' \in [Jobs -> [success : Nat, failed : Nat]]
    BY <1>7, RefreshType DEF ResumeJobItem, Counts
  <2>. QED
    BY <1>7, <1>u, <2>3 DEF ResumeJobItem, JobStatus, ItemStatus
<1>8. ASSUME NEW i \in Items, CancelJobItem(i) PROVE TypeInv'
  <2>. JobOf[i] \in Jobs
    BY JobsAssumption
  <2>2. attempts' \in [Items -> Seq(AttemptStatus)]
    BY <1>8, CancelAttemptsType DEF CancelJobItem, Attempts
  <2>3. counts' \in [Jobs -> [success : Nat, failed : Nat]]
    BY <1>8, RefreshType DEF CancelJobItem, Counts
  <2>. QED
    BY <1>8, <1>u, <2>2, <2>3 DEF CancelJobItem, ItemStatus
<1>. QED
  BY <1>1, <1>2, <1>3, <1>4, <1>5, <1>6, <1>7, <1>8 DEF ControlStep

\* The worker's own steps.
LEMMA WorkerType ==
  ASSUME TypeInv, WorkerStep
  PROVE  TypeInv'
<1>. USE DEF TypeInv, TypeOK, Holds
<1>. USE DEF Busy, Turn, Executing, PC
<1>1. CASE Recover
  <2>1. item' \in [Items -> ItemStatus \cup {"NONE"}]
    BY <1>1, SetItemsType DEF Recover, ItemStatus
  <2>. QED
    BY <1>1, <2>1 DEF Recover, Goto, JobStatus, loop, memory, bounds
<1>2. ASSUME NEW j \in Jobs, Claim(j) PROVE TypeInv'
  BY <1>2 DEF Claim, Goto, JobStatus, memory, bounds
<1>3. CASE CreateJobAttempt
  BY <1>3 DEF CreateJobAttempt, Goto, loop, memory, bounds
<1>4. CASE NoExecutor
  BY <1>4 DEF NoExecutor, Goto, database, loop, memory, bounds
<1>5. CASE LoadItems
  BY <1>5 DEF LoadItems, Goto, ItemsOf, Having, database, memory, bounds
<1>6. ASSUME NEW i \in Items, Visit(i) PROVE TypeInv'
  BY <1>6 DEF Visit, Goto, database, memory, bounds
<1>7. CASE VisitHeld
  BY <1>7 DEF VisitHeld, Leave, NoSums, Goto, database, loop, memory, bounds
<1>8. CASE LoopDone
  BY <1>8 DEF LoopDone, Goto, database, loop, memory, bounds
<1>9. CASE StartItem
  <2>1. attempts[witem] \in Seq(AttemptStatus)
    BY <1>9 DEF StartItem
  <2>2. attempts' \in [Items -> Seq(AttemptStatus)]
    BY <1>9, <2>1, OpenedType DEF StartItem
  <2>3. counts' \in [Jobs -> [success : Nat, failed : Nat]]
    BY <1>9, RefreshType DEF StartItem, Counts
  <2>. QED
    BY <1>9, <2>2, <2>3 DEF StartItem, Goto, ItemStatus, loop, memory, bounds
<1>10. CASE RegisterRunningItem
  BY <1>10 DEF RegisterRunningItem, Goto, database, loop, bounds
<1>11. CASE InspectInterruption
  BY <1>11 DEF InspectInterruption, Goto, database, loop, memory, bounds
<1>12. CASE RecheckInterrupted
  BY <1>12 DEF RecheckInterrupted, Leave, NoSums, NextTurn, Goto, database, memory, bounds
<1>13. CASE FinishItemCompleted
  <2>2. attempts' \in [Items -> Seq(AttemptStatus)]
    BY <1>13, CloseAttemptType DEF FinishItemCompleted, Attempts, AttemptStatus
  <2>3. counts' \in [Jobs -> [success : Nat, failed : Nat]]
    BY <1>13, RefreshType DEF FinishItemCompleted, Counts
  <2>. QED
    BY <1>13, <2>2, <2>3 DEF FinishItemCompleted, NextTurn, Goto, ItemStatus, memory, bounds
<1>14. CASE FinishItemFailed
  <2>2. attempts' \in [Items -> Seq(AttemptStatus)]
    BY <1>14, CloseAttemptType DEF FinishItemFailed, Attempts, AttemptStatus
  <2>3. counts' \in [Jobs -> [success : Nat, failed : Nat]]
    BY <1>14, RefreshType DEF FinishItemFailed, Counts
  <2>. QED
    BY <1>14, <2>2, <2>3
    DEF FinishItemFailed, NextTurn, Goto, JobStatus, ItemStatus, memory, bounds
<1>15. CASE FinalizeJob
  <2>1. item' \in [Items -> ItemStatus \cup {"NONE"}]
    BY <1>15, SetItemsType DEF FinalizeJob, ItemStatus
  <2>2. Verdict(wjob) \in JobStatus
    BY DEF Verdict, JobStatus
  <2>3. counts' \in [Jobs -> [success : Nat, failed : Nat]]
    BY <1>15, RefreshType DEF FinalizeJob, Counts
  <2>. QED
    BY <1>15, <2>1, <2>2, <2>3 DEF FinalizeJob, Leave, NoSums, Goto, memory, bounds
<1>16. CASE CancelPendingItems
  <2>1. item' \in [Items -> ItemStatus \cup {"NONE"}]
    BY <1>16, SetItemsType DEF CancelPendingItems, ItemStatus
  <2>. QED
    BY <1>16, <2>1 DEF CancelPendingItems, Goto, loop, memory, bounds
<1>17. CASE SelectCounts
  <2>1. sums' \in [success : Nat, failed : Nat]
    BY <1>17, CountIsNat DEF SelectCounts
  <2>. QED
    BY <1>17, <2>1 DEF SelectCounts, Goto, database, memory, bounds
<1>18. CASE FailJob
  BY <1>18 DEF FailJob, Leave, Goto, NoSums, JobStatus, memory, bounds
<1>19. CASE UpdateCounts
  <2>1. counts' \in [Jobs -> [success : Nat, failed : Nat]]
    BY <1>19 DEF UpdateCounts
  <2>. QED
    BY <1>19, <2>1 DEF UpdateCounts, Leave, Goto, NoSums, memory, bounds
<1>. QED
  BY <1>1, <1>2, <1>3, <1>4, <1>5, <1>6, <1>7, <1>8, <1>9, <1>10, <1>11, <1>12,
     <1>13, <1>14, <1>15, <1>16, <1>17, <1>18, <1>19 DEF WorkerStep

LEMMA TypeStep == TypeInv /\ [Next]_vars => TypeInv'
<1>. SUFFICES ASSUME TypeInv, [Next]_vars PROVE TypeInv'
  OBVIOUS
<1>. USE DEF TypeInv, TypeOK, Holds
<1>1. ASSUME NEW j \in Jobs, CreateJob(j) PROVE TypeInv'
  <2>1. item' \in [Items -> ItemStatus \cup {"NONE"}]
    BY <1>1, SetItemsType DEF CreateJob, ItemStatus
  <2>. QED
    BY <1>1, <2>1 DEF CreateJob, JobStatus, loop, memory, bounds
<1>2. CASE ControlStep
  BY <1>2, ControlType
<1>3. ASSUME NEW i \in Items, Interrupt(i) PROVE TypeInv'
  BY <1>3 DEF Interrupt, database, loop, bounds
<1>4. ASSUME NEW i \in Items, RetryDue(i) PROVE TypeInv'
  BY <1>4 DEF RetryDue, memory, bounds
<1>5. CASE WorkerStep
  BY <1>5, WorkerType
<1>6. CASE ExecutorReturns
  BY <1>6 DEF ExecutorReturns, Goto, Busy, Turn, Executing, PC, database, bounds
<1>7. CASE Fault
  BY <1>7 DEF Fault, NoSums, Busy, Turn, Executing, PC, database, loop, memory
<1>8. CASE Crash
  <2>1. pc' = "down" /\ wjob' = None /\ witem' = None
    BY <1>8 DEF Crash
  <2>2. UNCHANGED <<job, prio, item, attempts, backoff, counts, openRuns, controls, faults>>
    BY <1>8 DEF Crash, database
  <2>3. /\ todo' = {} /\ ready' = {} /\ late' = {} /\ outcome' = "none"
        /\ running' = {} /\ stopped' = FALSE /\ signals' = {}
        /\ crashes' \in Nat /\ sums' = [success |-> 0, failed |-> 0]
    BY <1>8 DEF Crash, NoSums
  <2>. QED
    BY <2>1, <2>2, <2>3 DEF Busy, Turn, Executing, PC
<1>9. CASE Restart
  BY <1>9 DEF Restart, Goto, Busy, Turn, Executing, PC, database, loop, memory, bounds
<1>10. CASE UNCHANGED vars
  BY <1>10 DEF vars, database, loop, memory, bounds
<1>. QED
  BY <1>1, <1>2, <1>3, <1>4, <1>5, <1>6, <1>7, <1>8, <1>9, <1>10 DEF Next

\* Every variable keeps to the values of its column or Go variable, for any
\* jobs, items and bounds: no handler or worker step writes anything else.
THEOREM TypeCorrect == Spec => []TypeOK
<1>1. Spec => []TypeInv
  BY TypeInit, TypeStep, PTL DEF Spec
<1>2. TypeInv => TypeOK
  BY DEF TypeInv
<1>. QED
  BY <1>1, <1>2, PTL

-----------------------------------------------------------------------------
(***************************************************************************)
(* Who writes which table.                                                 *)
(***************************************************************************)
LEMMA ItemWriters ==
  [Next]_vars =>
    \/ UNCHANGED item
    \/ \E j \in Jobs : CreateJob(j)
    \/ ControlStep
    \/ Recover \/ StartItem \/ FinishItemCompleted \/ FinishItemFailed
    \/ FinalizeJob \/ CancelPendingItems
<1>. SUFFICES ASSUME [Next]_vars
              PROVE  \/ UNCHANGED item
                     \/ \E j \in Jobs : CreateJob(j)
                     \/ ControlStep
                     \/ Recover \/ StartItem \/ FinishItemCompleted \/ FinishItemFailed
                     \/ FinalizeJob \/ CancelPendingItems
  OBVIOUS
<1>1. ASSUME NEW i \in Items, Interrupt(i) \/ RetryDue(i) \/ Visit(i) PROVE UNCHANGED item
  BY <1>1 DEF Interrupt, RetryDue, Visit, database
<1>2. ASSUME NEW j \in Jobs, Claim(j) PROVE UNCHANGED item
  BY <1>2 DEF Claim
<1>3. CreateJobAttempt \/ NoExecutor \/ LoadItems \/ VisitHeld \/ LoopDone => UNCHANGED item
  BY DEF CreateJobAttempt, NoExecutor, LoadItems, VisitHeld, LoopDone, database
<1>4. RegisterRunningItem \/ ExecutorReturns \/ InspectInterruption \/ RecheckInterrupted
        => UNCHANGED item
  BY DEF RegisterRunningItem, ExecutorReturns, InspectInterruption, RecheckInterrupted, database
<1>5. SelectCounts \/ UpdateCounts \/ FailJob \/ Fault \/ Crash \/ Restart => UNCHANGED item
  BY DEF SelectCounts, UpdateCounts, FailJob, Fault, Crash, Restart, database
<1>6. UNCHANGED vars => UNCHANGED item
  BY DEF vars, database
<1>. QED
  BY <1>1, <1>2, <1>3, <1>4, <1>5, <1>6 DEF Next, WorkerStep

LEMMA JobWriters ==
  [Next]_vars =>
    \/ UNCHANGED job
    \/ \E j \in Jobs : CreateJob(j) \/ Claim(j)
    \/ ControlStep
    \/ Recover \/ FinishItemFailed \/ FinalizeJob \/ FailJob
<1>. SUFFICES ASSUME [Next]_vars
              PROVE  \/ UNCHANGED job
                     \/ \E j \in Jobs : CreateJob(j) \/ Claim(j)
                     \/ ControlStep
                     \/ Recover \/ FinishItemFailed \/ FinalizeJob \/ FailJob
  OBVIOUS
<1>1. ASSUME NEW i \in Items, Interrupt(i) \/ RetryDue(i) \/ Visit(i) PROVE UNCHANGED job
  BY <1>1 DEF Interrupt, RetryDue, Visit, database
<1>3. CreateJobAttempt \/ NoExecutor \/ LoadItems \/ VisitHeld \/ LoopDone => UNCHANGED job
  BY DEF CreateJobAttempt, NoExecutor, LoadItems, VisitHeld, LoopDone, database
<1>4. RegisterRunningItem \/ ExecutorReturns \/ InspectInterruption \/ RecheckInterrupted
        => UNCHANGED job
  BY DEF RegisterRunningItem, ExecutorReturns, InspectInterruption, RecheckInterrupted, database
<1>5. \/ SelectCounts \/ UpdateCounts \/ CancelPendingItems
      \/ Fault \/ Crash \/ Restart
      => UNCHANGED job
  BY DEF SelectCounts, UpdateCounts, CancelPendingItems, Fault, Crash, Restart, database
<1>6. StartItem \/ FinishItemCompleted => UNCHANGED job
  BY DEF StartItem, FinishItemCompleted
<1>7. UNCHANGED vars => UNCHANGED job
  BY DEF vars, database
<1>. QED
  BY <1>1, <1>3, <1>4, <1>5, <1>6, <1>7 DEF Next, WorkerStep

LEMMA AttemptWriters ==
  [Next]_vars =>
    \/ UNCHANGED attempts
    \/ ControlStep /\ \E S \in SUBSET Items : CancelAttempts(S)
    \/ StartItem \/ FinishItemCompleted \/ FinishItemFailed
<1>. SUFFICES ASSUME [Next]_vars
              PROVE  \/ UNCHANGED attempts
                     \/ ControlStep /\ \E S \in SUBSET Items : CancelAttempts(S)
                     \/ StartItem \/ FinishItemCompleted \/ FinishItemFailed
  OBVIOUS
<1>. DEFINE Withdraw == \E S \in SUBSET Items : CancelAttempts(S)
<1>1. ASSUME NEW i \in Items, Interrupt(i) \/ RetryDue(i) \/ Visit(i)
      PROVE  UNCHANGED attempts
  BY <1>1 DEF Interrupt, RetryDue, Visit, database
<1>2. ASSUME NEW j \in Jobs, CreateJob(j) \/ Claim(j) PROVE UNCHANGED attempts
  BY <1>2 DEF CreateJob, Claim
<1>3. CreateJobAttempt \/ NoExecutor \/ LoadItems \/ VisitHeld \/ LoopDone => UNCHANGED attempts
  BY DEF CreateJobAttempt, NoExecutor, LoadItems, VisitHeld, LoopDone, database
<1>4. RegisterRunningItem \/ ExecutorReturns \/ InspectInterruption \/ RecheckInterrupted
        => UNCHANGED attempts
  BY DEF RegisterRunningItem, ExecutorReturns, InspectInterruption, RecheckInterrupted, database
<1>5. \/ Recover \/ SelectCounts \/ UpdateCounts \/ CancelPendingItems
      \/ FinalizeJob \/ FailJob
      => UNCHANGED attempts
  BY DEF Recover, SelectCounts, UpdateCounts, CancelPendingItems, FinalizeJob, FailJob, database
<1>6. Fault \/ Crash \/ Restart => UNCHANGED attempts
  BY DEF Fault, Crash, Restart, database
<1>7. UNCHANGED vars => UNCHANGED attempts
  BY DEF vars, database
<1>8. ASSUME NEW j \in Jobs, PauseJob(j) \/ CancelJob(j) PROVE UNCHANGED attempts \/ Withdraw
  <2>1. ItemsOf(j) \in SUBSET Items
    BY DEF ItemsOf
  <2>2. UNCHANGED attempts \/ CancelAttempts(ItemsOf(j))
    BY <1>8 DEF PauseJob, CancelJob
  <2>. QED
    BY <2>1, <2>2
<1>9. ASSUME NEW j \in Jobs, ResumeJob(j) \/ RetryJob(j) \/ UpdatePriority(j)
      PROVE  UNCHANGED attempts
  BY <1>9 DEF ResumeJob, RetryJob, UpdatePriority
<1>10. ASSUME NEW i \in Items, PauseJobItem(i) \/ ResumeJobItem(i) \/ CancelJobItem(i)
       PROVE  UNCHANGED attempts \/ Withdraw
  <2>1. {i} \in SUBSET Items
    OBVIOUS
  <2>2. UNCHANGED attempts \/ CancelAttempts({i})
    BY <1>10 DEF PauseJobItem, ResumeJobItem, CancelJobItem
  <2>. QED
    BY <2>1, <2>2
<1>11. ControlStep => UNCHANGED attempts \/ Withdraw
  BY <1>8, <1>9, <1>10 DEF ControlStep
<1>. QED
  BY <1>1, <1>2, <1>3, <1>4, <1>5, <1>6, <1>7, <1>11 DEF Next, WorkerStep

-----------------------------------------------------------------------------
(***************************************************************************)
(* The inductive invariant.  The worker runs on a snapshot that is stale   *)
(* the moment it is taken; what makes it safe all the same is that nobody  *)
(* but the worker completes items, and it visits each loaded item once.    *)
(***************************************************************************)

\* An item exists as long as its job does.
Created == \A i \in Items : item[i] = "NONE" <=> job[JobOf[i]] = "NONE"

\* CreateJob refuses a job without items.
Populated == \A j \in Jobs : job[j] # "NONE" => ItemsOf(j) # {}

\* The job in hand is not finished; the item in hand belongs to it, is not
\* completed and is not visited again; neither is a ready item still to come.
WorkInv ==
  /\ pc \in Busy => job[wjob] \notin {"NONE", "COMPLETED", "PARTIAL_SUCCESS"}
  /\ pc \in Turn => /\ JobOf[witem] = wjob
                    /\ witem \notin todo
                    /\ item[witem] # "COMPLETED"
  /\ pc \in Executing => Len(attempts[witem]) > 0
  /\ pc \in {"down", "boot", "idle", "claimed", "load"} => todo = {}
  /\ \A i \in todo : JobOf[i] = wjob /\ (i \in ready => item[i] # "COMPLETED")

\* VerdictHolds, item by item.
VerdictInv ==
  /\ \A i \in Items :
       /\ job[JobOf[i]] = "COMPLETED" => item[i] \in {"COMPLETED", "CANCELED"}
       /\ job[JobOf[i]] = "PARTIAL_SUCCESS" => item[i] \in {"COMPLETED", "FAILED", "CANCELED"}
  /\ \A j \in Jobs :
       /\ job[j] \in {"COMPLETED", "PARTIAL_SUCCESS"} =>
            \E i \in Items : JobOf[i] = j /\ item[i] = "COMPLETED"
       /\ job[j] = "PARTIAL_SUCCESS" =>
            \E i \in Items : JobOf[i] = j /\ item[i] = "FAILED"

IInv == TypeInv /\ Created /\ Populated /\ WorkInv /\ VerdictInv /\ SucceedsOnce

\* Only finalizeJob takes a job to one of its two successful ends.
LEMMA JobEnds ==
  ASSUME IInv, [Next]_vars, NEW j \in Jobs,
         job'[j] \in {"NONE", "COMPLETED", "PARTIAL_SUCCESS"}, job'[j] # job[j]
  PROVE  FinalizeJob /\ j = wjob
<1>. USE DEF IInv, TypeInv, TypeOK, Holds
<1>1. ASSUME NEW k \in Jobs, CreateJob(k) \/ Claim(k) PROVE FALSE
  BY <1>1 DEF CreateJob, Claim
<1>2. ASSUME NEW k \in Jobs, \/ PauseJob(k) \/ ResumeJob(k) \/ CancelJob(k)
                             \/ RetryJob(k) \/ UpdatePriority(k)
      PROVE  FALSE
  BY <1>2 DEF PauseJob, ResumeJob, CancelJob, RetryJob, UpdatePriority
<1>3. ASSUME NEW i \in Items, PauseJobItem(i) \/ ResumeJobItem(i) \/ CancelJobItem(i)
      PROVE  FALSE
  BY <1>3 DEF PauseJobItem, ResumeJobItem, CancelJobItem
<1>4. ControlStep => FALSE
  BY <1>2, <1>3 DEF ControlStep
<1>5. Recover \/ FinishItemFailed \/ FailJob => FALSE
  BY DEF Recover, FinishItemFailed, FailJob
<1>6. FinalizeJob => j = wjob
  BY DEF FinalizeJob
<1>. QED
  BY <1>1, <1>4, <1>5, <1>6, JobWriters

\* No step takes a completed item out of COMPLETED, and only the end of its
\* own execution puts an item there.
LEMMA CompletedItems ==
  ASSUME IInv, [Next]_vars, NEW i \in Items
  PROVE  /\ item[i] = "COMPLETED" => item'[i] = "COMPLETED"
         /\ item'[i] = "COMPLETED" /\ item[i] # "COMPLETED" =>
              FinishItemCompleted /\ i = witem
<1>. DEFINE Goal == /\ item[i] = "COMPLETED" => item'[i] = "COMPLETED"
                    /\ item'[i] = "COMPLETED" /\ item[i] # "COMPLETED" =>
                         FinishItemCompleted /\ i = witem
<1>. USE DEF IInv, TypeInv, TypeOK, Holds
<1>0. UNCHANGED item => Goal
  OBVIOUS
<1>1. ASSUME NEW j \in Jobs, CreateJob(j) PROVE Goal
  BY <1>1 DEF CreateJob, SetItems, ItemsOf, Created
<1>2. ASSUME NEW j \in Jobs, PauseJob(j) \/ ResumeJob(j) \/ CancelJob(j) \/ RetryJob(j)
      PROVE  Goal
  BY <1>2 DEF PauseJob, ResumeJob, CancelJob, RetryJob, SetItems, Having
<1>3. ASSUME NEW j \in Jobs, UpdatePriority(j) PROVE Goal
  BY <1>3 DEF UpdatePriority
<1>4. ASSUME NEW k \in Items, PauseJobItem(k) \/ ResumeJobItem(k) \/ CancelJobItem(k)
      PROVE  Goal
  BY <1>4 DEF PauseJobItem, ResumeJobItem, CancelJobItem
<1>5. ControlStep => Goal
  BY <1>2, <1>3, <1>4 DEF ControlStep
<1>6. Recover \/ FinalizeJob \/ CancelPendingItems => Goal
  BY DEF Recover, FinalizeJob, CancelPendingItems, SetItems, Having
<1>7. StartItem \/ FinishItemCompleted \/ FinishItemFailed => Goal
  BY DEF StartItem, FinishItemCompleted, FinishItemFailed, WorkInv, Turn, Executing
<1>. HIDE DEF Goal
<1>8. Goal
  BY <1>0, <1>1, <1>5, <1>6, <1>7, ItemWriters
<1>. QED
  BY <1>8 DEF Goal

\* What a step may do to the attempts of an item.
LEMMA AttemptSteps ==
  ASSUME IInv, [Next]_vars, NEW i \in Items
  PROVE  \/ /\ ~(FinishItemCompleted /\ i = witem)
            /\ Len(attempts'[i]) = Len(attempts[i])
            /\ \A n \in 1 .. Len(attempts[i]) :
                 attempts'[i][n] = "SUCCEEDED" <=> attempts[i][n] = "SUCCEEDED"
         \/ /\ StartItem /\ i = witem
            /\ Len(attempts'[i]) = Len(attempts[i]) + 1
            /\ \A n \in 1 .. Len(attempts[i]) : attempts'[i][n] = attempts[i][n]
            /\ attempts'[i][Len(attempts[i]) + 1] = "RUNNING"
         \/ /\ FinishItemCompleted \/ FinishItemFailed
            /\ i = witem
            /\ Len(attempts'[i]) = Len(attempts[i])
            /\ \A n \in 1 .. Len(attempts[i]) :
                 attempts'[i][n] = IF n = Len(attempts[i])
                                   THEN IF FinishItemCompleted THEN "SUCCEEDED" ELSE "FAILED"
                                   ELSE attempts[i][n]
<1>. USE DEF IInv, TypeInv, TypeOK, Holds
<1>a. attempts[i] \in Seq(AttemptStatus)
  OBVIOUS
<1>. DEFINE Same == /\ Len(attempts'[i]) = Len(attempts[i])
                    /\ \A n \in 1 .. Len(attempts[i]) :
                         attempts'[i][n] = "SUCCEEDED" <=> attempts[i][n] = "SUCCEEDED"
<1>1. UNCHANGED attempts => Same
  OBVIOUS
<1>2. ASSUME NEW S \in SUBSET Items, CancelAttempts(S) PROVE Same
  <2>1. attempts'[i] = IF i \in S THEN Withdrawn(attempts[i]) ELSE attempts[i]
    BY <1>2 DEF CancelAttempts, Withdrawn
  <2>. QED
    BY <2>1, <1>a, WithdrawnType
<1>3. CASE StartItem
  <2>1. attempts'[i] = IF i = witem THEN Append(attempts[i], "RUNNING") ELSE attempts[i]
    BY <1>3 DEF StartItem, Turn
  <2>. QED
    BY <1>3, <2>1, <1>a, OpenedType
<1>4. ASSUME NEW status \in AttemptStatus, CloseAttempt(witem, status), pc \in Turn
      PROVE  /\ i # witem => attempts'[i] = attempts[i]
             /\ i = witem => /\ Len(attempts'[i]) = Len(attempts[i])
                             /\ \A n \in 1 .. Len(attempts[i]) :
                                  attempts'[i][n] = IF n = Len(attempts[i]) THEN status
                                                                         ELSE attempts[i][n]
  <2>1. attempts'[i] = IF i = witem THEN [attempts[i] EXCEPT ![Len(attempts[i])] = status]
                                    ELSE attempts[i]
    BY <1>4 DEF CloseAttempt
  <2>. QED
    BY <2>1, <1>a, ClosedType
<1>5. CASE FinishItemCompleted
  <2>1. CloseAttempt(witem, "SUCCEEDED") /\ pc \in Turn
    BY <1>5 DEF FinishItemCompleted, Turn, Executing
  <2>. QED
    BY <2>1, <1>4, <1>5 DEF AttemptStatus
<1>6. CASE FinishItemFailed
  <2>1. CloseAttempt(witem, "FAILED") /\ pc \in Turn
    BY <1>6 DEF FinishItemFailed, Turn, Executing
  <2>2. ~FinishItemCompleted
    BY <1>6 DEF FinishItemFailed, FinishItemCompleted
  <2>. QED
    BY <2>1, <2>2, <1>4, <1>6 DEF AttemptStatus
<1>7. CASE ~FinishItemCompleted /\ ~FinishItemFailed /\ ~StartItem
  <2>. HIDE DEF Same
  <2>1. Same
    BY <1>1, <1>2, <1>7, AttemptWriters
  <2>. QED
    BY <2>1, <1>7 DEF Same
<1>. QED
  BY <1>3, <1>5, <1>6, <1>7

LEMMA IInvInit == Init => IInv
<1>. SUFFICES ASSUME Init PROVE IInv
  OBVIOUS
<1>1. TypeInv
  BY TypeInit
<1>2. Created /\ Populated /\ VerdictInv
  BY JobsAssumption DEF Init, Created, Populated, VerdictInv
<1>3. WorkInv
  BY DEF Init, WorkInv, Busy, Turn, Executing, PC
<1>4. SucceedsOnce
  BY DEF Init, SucceedsOnce
<1>. QED
  BY <1>1, <1>2, <1>3, <1>4 DEF IInv

LEMMA CreatedStep ==
  ASSUME IInv, [Next]_vars
  PROVE  Created'
<1>. USE DEF IInv, TypeInv, TypeOK, Holds
<1>. USE JobsAssumption
<1>1. ASSUME NEW j \in Jobs, CreateJob(j) PROVE Created'
  BY <1>1 DEF CreateJob, SetItems, ItemsOf, Created
<1>. SUFFICES ASSUME NEW i \in Items, \A j \in Jobs : ~CreateJob(j)
              PROVE  /\ item'[i] = "NONE" <=> item[i] = "NONE"
                     /\ job'[JobOf[i]] = "NONE" <=> job[JobOf[i]] = "NONE"
  BY <1>1 DEF Created
<1>2. job[JobOf[i]] # "NONE" => job'[JobOf[i]] # "NONE"
  <2>1. JobOf[i] \in Jobs
    OBVIOUS
  <2>2. job[JobOf[i]] # "NONE" /\ job'[JobOf[i]] = "NONE" => FinalizeJob /\ JobOf[i] = wjob
    BY <2>1, JobEnds
  <2>3. Verdict(wjob) # "NONE"
    BY DEF Verdict
  <2>4. FinalizeJob /\ JobOf[i] = wjob /\ job[JobOf[i]] # "NONE" => job'[JobOf[i]] # "NONE"
    BY <2>1, <2>3 DEF FinalizeJob
  <2>. QED
    BY <2>2, <2>4
<1>3. item[i] = "NONE" => item'[i] = "NONE" /\ job'[JobOf[i]] = "NONE"
  <2>. SUFFICES ASSUME item[i] = "NONE", job[JobOf[i]] = "NONE"
                PROVE  item'[i] = "NONE" /\ job'[JobOf[i]] = "NONE"
    BY DEF Created
  <2>1. ASSUME NEW j \in Jobs, \/ PauseJob(j) \/ ResumeJob(j) \/ CancelJob(j)
                               \/ RetryJob(j) \/ UpdatePriority(j)
        PROVE  item'[i] = "NONE" /\ job'[JobOf[i]] = "NONE"
    <3>1. CASE UpdatePriority(j)
      BY <3>1 DEF UpdatePriority
    <3>2. CASE PauseJob(j) \/ ResumeJob(j) \/ CancelJob(j) \/ RetryJob(j)
      <4>1. j # JobOf[i]
        BY <3>2 DEF PauseJob, ResumeJob, CancelJob, RetryJob
      <4>2. job'[JobOf[i]] = "NONE"
        BY <3>2, <4>1 DEF PauseJob, ResumeJob, CancelJob, RetryJob
      <4>3. item'[i] = item[i]
        BY <3>2, <4>1 DEF PauseJob, ResumeJob, CancelJob, RetryJob, SetItems, Having, ItemsOf
      <4>. QED
        BY <4>2, <4>3
    <3>. QED
      BY <2>1, <3>1, <3>2
  <2>2. ASSUME NEW k \in Items, PauseJobItem(k) \/ ResumeJobItem(k) \/ CancelJobItem(k)
        PROVE  item'[i] = "NONE" /\ job'[JobOf[i]] = "NONE"
    <3>1. item[k] # "NONE" /\ JobOf[k] # JobOf[i]
      BY <2>2 DEF PauseJobItem, ResumeJobItem, CancelJobItem, Created
    <3>. QED
      BY <2>2, <3>1 DEF PauseJobItem, ResumeJobItem, CancelJobItem
  <2>3. ControlStep => item'[i] = "NONE" /\ job'[JobOf[i]] = "NONE"
    BY <2>1, <2>2 DEF ControlStep
  <2>4. pc \in Busy => JobOf[i] # wjob
    BY DEF WorkInv
  <2>5. pc \in Turn => i # witem
    BY <2>4 DEF WorkInv, Turn, Executing, Busy, PC
  <2>6. item'[i] = "NONE"
    <3>1. Recover => item'[i] = "NONE"
      BY DEF Recover, SetItems
    <3>2. StartItem \/ FinishItemCompleted \/ FinishItemFailed => item'[i] = "NONE"
      BY <2>5 DEF StartItem, FinishItemCompleted, FinishItemFailed, Turn, Executing
    <3>3. FinalizeJob \/ CancelPendingItems => item'[i] = "NONE"
      BY <2>4 DEF FinalizeJob, CancelPendingItems, SetItems, Having, ItemsOf, Busy, PC
    <3>. QED
      BY <2>3, <3>1, <3>2, <3>3, ItemWriters
  <2>7. job'[JobOf[i]] = "NONE"
    <3>1. ASSUME NEW j \in Jobs, Claim(j) PROVE job'[JobOf[i]] = "NONE"
      BY <3>1 DEF Claim, Claimable
    <3>2. Recover => job'[JobOf[i]] = "NONE"
      BY DEF Recover
    <3>3. FinishItemFailed \/ FinalizeJob \/ FailJob => job'[JobOf[i]] = "NONE"
      BY <2>4 DEF FinishItemFailed, FinalizeJob, FailJob, Busy, PC
    <3>. QED
      BY <2>3, <3>1, <3>2, <3>3, JobWriters
  <2>. QED
    BY <2>6, <2>7
<1>4. job[JobOf[i]] = "NONE" => item[i] = "NONE"
  BY DEF Created
<1>5. item[i] # "NONE" => item'[i] # "NONE"
  <2>. SUFFICES ASSUME item[i] # "NONE" PROVE item'[i] # "NONE"
    OBVIOUS
  <2>1. ASSUME NEW j \in Jobs, \/ PauseJob(j) \/ ResumeJob(j) \/ CancelJob(j)
                               \/ RetryJob(j) \/ UpdatePriority(j)
        PROVE  item'[i] # "NONE"
    BY <2>1 DEF PauseJob, ResumeJob, CancelJob, RetryJob, UpdatePriority, SetItems
  <2>2. ASSUME NEW k \in Items, PauseJobItem(k) \/ ResumeJobItem(k) \/ CancelJobItem(k)
        PROVE  item'[i] # "NONE"
    BY <2>2 DEF PauseJobItem, ResumeJobItem, CancelJobItem
  <2>3. ControlStep => item'[i] # "NONE"
    BY <2>1, <2>2 DEF ControlStep
  <2>4. Recover \/ FinalizeJob \/ CancelPendingItems => item'[i] # "NONE"
    BY DEF Recover, FinalizeJob, CancelPendingItems, SetItems
  <2>5. StartItem \/ FinishItemCompleted \/ FinishItemFailed => item'[i] # "NONE"
    BY DEF StartItem, FinishItemCompleted, FinishItemFailed
  <2>. QED
    BY <2>3, <2>4, <2>5, ItemWriters
<1>. QED
  BY <1>2, <1>3, <1>4, <1>5

LEMMA PopulatedStep ==
  ASSUME IInv, [Next]_vars
  PROVE  Populated'
<1>. USE DEF IInv, TypeInv, TypeOK, Holds
<1>. SUFFICES ASSUME NEW j \in Jobs, job[j] = "NONE", job'[j] # "NONE"
              PROVE  ItemsOf(j) # {}
  BY DEF Populated, ItemsOf
<1>1. ASSUME NEW k \in Jobs, CreateJob(k) \/ Claim(k) PROVE ItemsOf(j) # {}
  BY <1>1 DEF CreateJob, Claim, Claimable
<1>2. ASSUME NEW k \in Jobs, \/ PauseJob(k) \/ ResumeJob(k) \/ CancelJob(k)
                             \/ RetryJob(k) \/ UpdatePriority(k)
      PROVE  FALSE
  BY <1>2 DEF PauseJob, ResumeJob, CancelJob, RetryJob, UpdatePriority
<1>3. ASSUME NEW i \in Items, PauseJobItem(i) \/ ResumeJobItem(i) \/ CancelJobItem(i)
      PROVE  ItemsOf(j) # {}
  <2>1. JobOf[i] = j
    BY <1>3 DEF PauseJobItem, ResumeJobItem, CancelJobItem
  <2>. QED
    BY <2>1 DEF ItemsOf
<1>4. ControlStep => ItemsOf(j) # {}
  BY <1>2, <1>3 DEF ControlStep
<1>5. Recover \/ FinishItemFailed \/ FinalizeJob \/ FailJob => FALSE
  BY DEF Recover, FinishItemFailed, FinalizeJob, FailJob, WorkInv, Busy, PC
<1>. QED
  BY <1>1, <1>4, <1>5, JobWriters

LEMMA SucceedsOnceStep ==
  ASSUME IInv, [Next]_vars
  PROVE  SucceedsOnce'
<1>. SUFFICES ASSUME NEW i \in Items
              PROVE  (/\ item[i] = "COMPLETED" <=>
                           attempts[i] # <<>> /\ attempts[i][Len(attempts[i])] = "SUCCEEDED"
                      /\ \A n \in 1 .. Len(attempts[i]) - 1 : attempts[i][n] # "SUCCEEDED")'
  BY DEF SucceedsOnce
<1>1. /\ attempts[i] \in Seq(AttemptStatus) /\ attempts'[i] \in Seq(AttemptStatus)
      /\ attempts[i] = <<>> <=> Len(attempts[i]) = 0
      /\ attempts'[i] = <<>> <=> Len(attempts'[i]) = 0
  BY TypeStep, EmptySeq DEF IInv, TypeInv, TypeOK
<1>2. /\ item[i] = "COMPLETED" <=>
           Len(attempts[i]) # 0 /\ attempts[i][Len(attempts[i])] = "SUCCEEDED"
      /\ \A n \in 1 .. Len(attempts[i]) - 1 : attempts[i][n] # "SUCCEEDED"
  BY <1>1 DEF IInv, SucceedsOnce
<1>3. Len(attempts[i]) \in Nat
  BY <1>1
<1>4. FinishItemCompleted \/ FinishItemFailed =>
        pc \in Executing /\ (i = witem => Len(attempts[i]) > 0 /\ item[i] # "COMPLETED")
  BY DEF FinishItemCompleted, FinishItemFailed, IInv, WorkInv, Executing, Turn
<1>5. FinishItemCompleted /\ i = witem => item'[i] = "COMPLETED"
  BY <1>4 DEF FinishItemCompleted, IInv, TypeInv, TypeOK
<1>6. StartItem /\ i = witem => item[i] # "COMPLETED"
  BY DEF StartItem, IInv, WorkInv, Turn
<1>7. ~(StartItem /\ FinishItemCompleted) /\ ~(FinishItemFailed /\ FinishItemCompleted)
  BY DEF StartItem, FinishItemCompleted, FinishItemFailed
<1>8. /\ item[i] = "COMPLETED" => item'[i] = "COMPLETED"
      /\ item'[i] = "COMPLETED" /\ item[i] # "COMPLETED" => FinishItemCompleted /\ i = witem
  BY CompletedItems
<1>9. CASE /\ ~(FinishItemCompleted /\ i = witem)
           /\ Len(attempts'[i]) = Len(attempts[i])
           /\ \A n \in 1 .. Len(attempts[i]) :
                attempts'[i][n] = "SUCCEEDED" <=> attempts[i][n] = "SUCCEEDED"
  BY <1>1, <1>2, <1>3, <1>8, <1>9
<1>10. CASE /\ StartItem /\ i = witem
            /\ Len(attempts'[i]) = Len(attempts[i]) + 1
            /\ \A n \in 1 .. Len(attempts[i]) : attempts'[i][n] = attempts[i][n]
            /\ attempts'[i][Len(attempts[i]) + 1] = "RUNNING"
  BY <1>1, <1>2, <1>3, <1>6, <1>7, <1>8, <1>10
<1>11. CASE /\ FinishItemCompleted \/ FinishItemFailed
            /\ i = witem
            /\ Len(attempts'[i]) = Len(attempts[i])
            /\ \A n \in 1 .. Len(attempts[i]) :
                 attempts'[i][n] = IF n = Len(attempts[i])
                                   THEN IF FinishItemCompleted THEN "SUCCEEDED" ELSE "FAILED"
                                   ELSE attempts[i][n]
  BY <1>1, <1>2, <1>3, <1>4, <1>5, <1>7, <1>8, <1>11
<1>. QED
  BY <1>9, <1>10, <1>11, AttemptSteps

\* How the worker gets from one place to the next.
LEMMA WorkerMoves ==
  ASSUME IInv, [Next]_vars
  PROVE  /\ pc' \in Busy => \/ pc \in Busy /\ wjob' = wjob
                            \/ \E j \in Jobs : Claim(j)
         /\ pc' \in Turn => \/ pc \in Turn /\ UNCHANGED <<witem, wjob, todo>>
                            \/ \E i \in Items : Visit(i) /\ i \in ready
         /\ pc' \in Executing => witem' = witem /\ (pc \in Executing \/ StartItem)
         /\ pc' \in {"down", "boot", "idle", "claimed", "load"} => todo' = {}
         /\ \/ LoadItems
            \/ todo' \subseteq todo /\ (todo' # {} => UNCHANGED <<wjob, ready>>)
<1>. DEFINE Goal ==
         /\ pc' \in Busy => \/ pc \in Busy /\ wjob' = wjob
                            \/ \E j \in Jobs : Claim(j)
         /\ pc' \in Turn => \/ pc \in Turn /\ UNCHANGED <<witem, wjob, todo>>
                            \/ \E i \in Items : Visit(i) /\ i \in ready
         /\ pc' \in Executing => witem' = witem /\ (pc \in Executing \/ StartItem)
         /\ pc' \in {"down", "boot", "idle", "claimed", "load"} => todo' = {}
         /\ \/ LoadItems
            \/ todo' \subseteq todo /\ (todo' # {} => UNCHANGED <<wjob, ready>>)
<1>. USE DEF IInv, WorkInv, Busy, Turn, Executing, PC
<1>0. ASSUME UNCHANGED <<pc, wjob, witem, todo, ready>> PROVE Goal
  BY <1>0
<1>1. ASSUME NEW j \in Jobs, CreateJob(j) PROVE Goal
  BY <1>0, <1>1 DEF CreateJob, loop
<1>2. ControlStep => Goal
  <2>1. ASSUME NEW j \in Jobs, \/ PauseJob(j) \/ ResumeJob(j) \/ CancelJob(j)
                               \/ RetryJob(j) \/ UpdatePriority(j)
        PROVE  Goal
    BY <1>0, <2>1
    DEF PauseJob, ResumeJob, CancelJob, RetryJob, UpdatePriority, Control, loop
  <2>2. ASSUME NEW k \in Items, PauseJobItem(k) \/ ResumeJobItem(k) \/ CancelJobItem(k)
        PROVE  Goal
    BY <1>0, <2>2 DEF PauseJobItem, ResumeJobItem, CancelJobItem, Control, loop
  <2>. QED
    BY <2>1, <2>2 DEF ControlStep
<1>3. ASSUME NEW i \in Items, Interrupt(i) \/ RetryDue(i) PROVE Goal
  BY <1>0, <1>3 DEF Interrupt, RetryDue, loop
<1>4. ASSUME NEW i \in Items, Visit(i) PROVE Goal
  BY <1>4 DEF Visit, Goto
<1>5. ASSUME NEW j \in Jobs, Claim(j) PROVE Goal
  BY <1>5 DEF Claim, Goto
<1>6. CreateJobAttempt \/ NoExecutor \/ LoadItems \/ LoopDone => Goal
  BY DEF CreateJobAttempt, NoExecutor, LoadItems, LoopDone, Goto, loop
<1>7. VisitHeld => Goal
  BY DEF VisitHeld, Leave, Goto, loop
<1>8. StartItem \/ RegisterRunningItem \/ InspectInterruption => Goal
  BY DEF StartItem, RegisterRunningItem, InspectInterruption, Goto, loop
<1>9. RecheckInterrupted => Goal
  BY DEF RecheckInterrupted, Leave, NextTurn, Goto
<1>10. FinishItemCompleted \/ FinishItemFailed => Goal
  BY DEF FinishItemCompleted, FinishItemFailed, NextTurn, Goto
<1>11. /\ FinalizeJob \/ FailJob \/ Recover \/ CancelPendingItems => Goal
       /\ SelectCounts \/ UpdateCounts => Goal
  <2>1. FinalizeJob \/ FailJob \/ Recover \/ CancelPendingItems => Goal
    BY DEF FinalizeJob, FailJob, Recover, CancelPendingItems, Leave, Goto, loop
  <2>2. SelectCounts => Goal
    BY DEF SelectCounts, Goto
  <2>3. UpdateCounts => Goal
    BY DEF UpdateCounts, Leave, Goto
  <2>. QED
    BY <2>1, <2>2, <2>3
<1>12. ExecutorReturns => Goal
  BY DEF ExecutorReturns, Goto
<1>13. Fault => Goal
  BY DEF Fault, loop
<1>14. Crash \/ Restart => Goal
  BY DEF Crash, Restart, Goto, loop
<1>15. UNCHANGED vars => Goal
  BY <1>0 DEF vars, loop
<1>. HIDE DEF Goal
<1>16. Goal
  BY <1>1, <1>2, <1>3, <1>4, <1>5, <1>6, <1>7, <1>8, <1>9, <1>10, <1>11, <1>12,
     <1>13, <1>14, <1>15 DEF Next, WorkerStep
<1>. QED
  BY <1>16 DEF Goal

LEMMA WorkInvStep ==
  ASSUME IInv, [Next]_vars
  PROVE  WorkInv'
<1>. USE JobsAssumption
<1>a. TypeInv /\ WorkInv /\ TypeInv'
  BY TypeStep DEF IInv
<1>b. FinalizeJob => pc' = "idle"
  BY DEF FinalizeJob, Leave, Goto
<1>c. FinishItemCompleted => pc' = "loop"
  BY DEF FinishItemCompleted, NextTurn, Goto
<1>1. pc' \in Busy => job'[wjob'] \notin {"NONE", "COMPLETED", "PARTIAL_SUCCESS"}
  <2>1. CASE \E j \in Jobs : Claim(j)
    BY <2>1, <1>a DEF Claim, TypeInv, TypeOK
  <2>2. CASE pc \in Busy /\ wjob' = wjob /\ pc' \in Busy
    <3>1. wjob \in Jobs /\ job[wjob] \notin {"NONE", "COMPLETED", "PARTIAL_SUCCESS"}
      BY <2>2, <1>a DEF TypeInv, Holds, WorkInv
    <3>2. ~FinalizeJob
      BY <2>2, <1>b DEF Busy, PC
    <3>. QED
      BY <2>2, <3>1, <3>2, JobEnds
  <2>. QED
    BY <2>1, <2>2, WorkerMoves
<1>2. pc' \in Turn => /\ JobOf[witem'] = wjob'
                      /\ witem' \notin todo'
                      /\ item'[witem'] # "COMPLETED"
  <2>. SUFFICES ASSUME pc' \in Turn
                PROVE  /\ JobOf[witem'] = wjob'
                       /\ witem' \notin todo'
                       /\ item'[witem'] # "COMPLETED"
    OBVIOUS
  <2>0. ~FinishItemCompleted /\ witem' \in Items
    BY <1>a, <1>c DEF Turn, Executing, TypeInv, Holds
  <2>1. CASE \E i \in Items : Visit(i) /\ i \in ready
    <3>. PICK i \in Items : Visit(i) /\ i \in ready
      BY <2>1
    <3>1. witem' = i /\ i \in todo /\ todo' = todo \ {i} /\ wjob' = wjob
      BY DEF Visit, Goto, Turn, Executing
    <3>2. JobOf[i] = wjob /\ item[i] # "COMPLETED"
      BY <3>1, <1>a DEF WorkInv
    <3>. QED
      BY <2>0, <3>1, <3>2, CompletedItems
  <2>2. CASE pc \in Turn /\ UNCHANGED <<witem, wjob, todo>>
    <3>1. /\ JobOf[witem] = wjob /\ witem \notin todo /\ item[witem] # "COMPLETED"
          /\ witem \in Items
      BY <2>2, <1>a DEF WorkInv, TypeInv, Holds
    <3>. QED
      BY <2>0, <2>2, <3>1, CompletedItems
  <2>. QED
    BY <2>1, <2>2, WorkerMoves
<1>3. pc' \in Executing => Len(attempts'[witem']) > 0
  <2>. SUFFICES ASSUME pc' \in Executing PROVE Len(attempts'[witem']) > 0
    OBVIOUS
  <2>1. witem' = witem /\ witem' \in Items /\ (pc \in Executing \/ StartItem)
    BY <1>a, WorkerMoves DEF Turn, TypeInv, Holds
  <2>2. Len(attempts[witem]) \in Nat
    BY <2>1, <1>a DEF TypeInv, TypeOK
  <2>3. CASE pc \in Executing
    <3>1. Len(attempts[witem]) > 0
      BY <2>3, <1>a DEF WorkInv
    <3>. QED
      BY <2>1, <2>2, <3>1, AttemptSteps
  <2>4. CASE StartItem
    <3>1. attempts'[witem] = Append(attempts[witem], "RUNNING")
      BY <2>1, <2>4, <1>a DEF StartItem, TypeInv, TypeOK
    <3>2. attempts[witem] \in Seq(AttemptStatus)
      BY <2>1, <1>a DEF TypeInv, TypeOK
    <3>. QED
      BY <2>1, <2>2, <3>1, <3>2, OpenedType
  <2>. QED
    BY <2>1, <2>3, <2>4
<1>4. pc' \in {"down", "boot", "idle", "claimed", "load"} => todo' = {}
  BY WorkerMoves
<1>5. \A i \in todo' : JobOf[i] = wjob' /\ (i \in ready' => item'[i] # "COMPLETED")
  <2>. SUFFICES ASSUME NEW i \in todo'
                PROVE  JobOf[i] = wjob' /\ (i \in ready' => item'[i] # "COMPLETED")
    OBVIOUS
  <2>0. i \in Items
    BY <1>a DEF TypeInv, TypeOK
  <2>1. CASE LoadItems
    BY <2>0, <2>1 DEF LoadItems, ItemsOf, Having, database
  <2>2. CASE i \in todo /\ UNCHANGED <<wjob, ready>>
    <3>1. JobOf[i] = wjob /\ (i \in ready => item[i] # "COMPLETED")
      BY <2>2, <1>a DEF WorkInv
    <3>2. ~(FinishItemCompleted /\ i = witem)
      BY <2>2, <1>a DEF FinishItemCompleted, WorkInv, Turn, Executing
    <3>. QED
      BY <2>0, <2>2, <3>1, <3>2, CompletedItems
  <2>. QED
    BY <2>1, <2>2, WorkerMoves
<1>. QED
  BY <1>1, <1>2, <1>3, <1>4, <1>5 DEF WorkInv

\* While a job stays in one of its successful ends its items do not change.
LEMMA SettledItems ==
  ASSUME IInv, [Next]_vars, NEW i \in Items,
         job[JobOf[i]] \in {"COMPLETED", "PARTIAL_SUCCESS"},
         job'[JobOf[i]] = job[JobOf[i]]
  PROVE  item'[i] = item[i]
<1>. USE DEF IInv, TypeInv, TypeOK, Holds
<1>. USE JobsAssumption
<1>1. item[i] \in {"COMPLETED", "FAILED", "CANCELED"}
  BY DEF VerdictInv
<1>2. pc \in Busy => JobOf[i] # wjob
  BY DEF WorkInv
<1>3. pc \in Turn => i # witem
  BY <1>2 DEF WorkInv, Busy, Turn, Executing, PC
<1>4. ASSUME NEW j \in Jobs, CreateJob(j) PROVE item'[i] = item[i]
  BY <1>4 DEF CreateJob, SetItems, ItemsOf
<1>5. ControlStep => item'[i] = item[i]
  <2>1. ASSUME NEW j \in Jobs, PauseJob(j) \/ ResumeJob(j) \/ CancelJob(j) \/ RetryJob(j)
        PROVE  item'[i] = item[i]
    <3>1. j # JobOf[i]
      BY <2>1 DEF PauseJob, ResumeJob, CancelJob, RetryJob
    <3>. QED
      BY <2>1, <3>1 DEF PauseJob, ResumeJob, CancelJob, RetryJob, SetItems, Having, ItemsOf
  <2>2. ASSUME NEW j \in Jobs, UpdatePriority(j) PROVE item'[i] = item[i]
    BY <2>2 DEF UpdatePriority
  <2>3. ASSUME NEW k \in Items, PauseJobItem(k) \/ ResumeJobItem(k) \/ CancelJobItem(k)
        PROVE  item'[i] = item[i]
    BY <2>3, <1>1 DEF PauseJobItem, ResumeJobItem, CancelJobItem
  <2>. QED
    BY <2>1, <2>2, <2>3 DEF ControlStep
<1>6. Recover => item'[i] = item[i]
  BY <1>1 DEF Recover, SetItems
<1>7. StartItem \/ FinishItemCompleted \/ FinishItemFailed => item'[i] = item[i]
  BY <1>3 DEF StartItem, FinishItemCompleted, FinishItemFailed, Turn, Executing
<1>8. FinalizeJob \/ CancelPendingItems => item'[i] = item[i]
  BY <1>2 DEF FinalizeJob, CancelPendingItems, SetItems, Having, ItemsOf, Busy, PC
<1>. QED
  BY <1>4, <1>5, <1>6, <1>7, <1>8, ItemWriters

\* finalizeJob's conclusion is right about the items it was drawn from.
LEMMA VerdictRight ==
  ASSUME IInv, [Next]_vars, FinalizeJob, job'[wjob] # job[wjob]
  PROVE  /\ UNCHANGED item
         /\ job'[wjob] = "COMPLETED" =>
              /\ \A i \in ItemsOf(wjob) : item[i] \in {"COMPLETED", "CANCELED"}
              /\ \E i \in ItemsOf(wjob) : item[i] = "COMPLETED"
         /\ job'[wjob] = "PARTIAL_SUCCESS" =>
              /\ \A i \in ItemsOf(wjob) : item[i] \in {"COMPLETED", "FAILED", "CANCELED"}
              /\ \E i \in ItemsOf(wjob) : item[i] = "COMPLETED"
              /\ \E i \in ItemsOf(wjob) : item[i] = "FAILED"
<1>. USE DEF IInv, TypeInv, TypeOK, Holds
<1>1. wjob \in Jobs /\ job[wjob] # "NONE"
  BY DEF FinalizeJob, WorkInv, Busy, PC
<1>2. UNCHANGED item /\ Having(wjob, Active) = {} /\ job'[wjob] = Verdict(wjob)
  BY <1>1 DEF FinalizeJob
<1>3. \A i \in ItemsOf(wjob) :
        item[i] \in {"WAITING_RETRY", "FAILED", "COMPLETED", "CANCELED"}
  <2>. SUFFICES ASSUME NEW i \in ItemsOf(wjob)
                PROVE  item[i] \in {"WAITING_RETRY", "FAILED", "COMPLETED", "CANCELED"}
    OBVIOUS
  <2>1. i \in Items /\ JobOf[i] = wjob
    BY DEF ItemsOf
  <2>2. item[i] # "NONE"
    BY <1>1, <2>1 DEF Created
  <2>3. item[i] \notin Active
    BY <1>2 DEF Having
  <2>. QED
    BY <2>1, <2>2, <2>3 DEF Active, ItemStatus
<1>4. ItemsOf(wjob) # {}
  BY <1>1 DEF Populated
<1>5. ASSUME job'[wjob] = "COMPLETED"
      PROVE  /\ \A i \in ItemsOf(wjob) : item[i] \in {"COMPLETED", "CANCELED"}
             /\ \E i \in ItemsOf(wjob) : item[i] = "COMPLETED"
  <2>1. /\ Having(wjob, {"WAITING_RETRY"}) = {} /\ Having(wjob, {"FAILED"}) = {}
        /\ Having(wjob, {"COMPLETED"}) # {} \/ Having(wjob, {"CANCELED"}) = {}
    BY <1>2, <1>5 DEF Verdict
  <2>2. \A i \in ItemsOf(wjob) : item[i] \in {"COMPLETED", "CANCELED"}
    BY <1>3, <2>1 DEF Having
  <2>3. Having(wjob, {"COMPLETED"}) # {}
    BY <1>4, <2>1, <2>2 DEF Having
  <2>. QED
    BY <2>2, <2>3 DEF Having
<1>6. ASSUME job'[wjob] = "PARTIAL_SUCCESS"
      PROVE  /\ \A i \in ItemsOf(wjob) : item[i] \in {"COMPLETED", "FAILED", "CANCELED"}
             /\ \E i \in ItemsOf(wjob) : item[i] = "COMPLETED"
             /\ \E i \in ItemsOf(wjob) : item[i] = "FAILED"
  <2>1. /\ Having(wjob, {"WAITING_RETRY"}) = {}
        /\ Having(wjob, {"FAILED"}) # {} /\ Having(wjob, {"COMPLETED"}) # {}
    BY <1>2, <1>6 DEF Verdict
  <2>. QED
    BY <1>3, <2>1 DEF Having
<1>. QED
  BY <1>2, <1>5, <1>6

LEMMA VerdictInvStep ==
  ASSUME IInv, [Next]_vars
  PROVE  VerdictInv'
<1>. USE JobsAssumption
<1>. DEFINE Ends == {"COMPLETED", "PARTIAL_SUCCESS"}
<1>1. ASSUME NEW j \in Jobs, job'[j] \in Ends, job'[j] # job[j]
      PROVE  FinalizeJob /\ j = wjob
  BY <1>1, JobEnds
<1>2. ASSUME NEW j \in Jobs, job'[j] \in Ends, job'[j] = job[j]
      PROVE  \A i \in Items : JobOf[i] = j => item'[i] = item[i]
  BY <1>2, SettledItems
<1>3. VerdictInv
  BY DEF IInv
<1>4. ASSUME NEW i \in Items
      PROVE  /\ job'[JobOf[i]] = "COMPLETED" => item'[i] \in {"COMPLETED", "CANCELED"}
             /\ job'[JobOf[i]] = "PARTIAL_SUCCESS" =>
                  item'[i] \in {"COMPLETED", "FAILED", "CANCELED"}
  <2>0. JobOf[i] \in Jobs
    OBVIOUS
  <2>1. CASE job'[JobOf[i]] = job[JobOf[i]] /\ job'[JobOf[i]] \in Ends
    <3>1. item'[i] = item[i]
      BY <2>0, <2>1, <1>2
    <3>. QED
      BY <2>1, <3>1, <1>3 DEF VerdictInv
  <2>2. CASE job'[JobOf[i]] # job[JobOf[i]] /\ job'[JobOf[i]] \in Ends
    <3>1. FinalizeJob /\ i \in ItemsOf(wjob) /\ JobOf[i] = wjob
      BY <2>0, <2>2, <1>1 DEF ItemsOf
    <3>. QED
      BY <3>1, <2>2, VerdictRight
  <2>. QED
    BY <2>1, <2>2
<1>5. ASSUME NEW j \in Jobs
      PROVE  /\ job'[j] \in Ends => \E i \in Items : JobOf[i] = j /\ item'[i] = "COMPLETED"
             /\ job'[j] = "PARTIAL_SUCCESS" =>
                  \E i \in Items : JobOf[i] = j /\ item'[i] = "FAILED"
  <2>1. CASE job'[j] = job[j]
    BY <2>1, <1>2, <1>3 DEF VerdictInv
  <2>2. CASE job'[j] # job[j] /\ job'[j] \in Ends
    <3>1. FinalizeJob /\ j = wjob
      BY <2>2, <1>1
    <3>. QED
      BY <3>1, <2>2, VerdictRight DEF ItemsOf
  <2>. QED
    BY <2>1, <2>2
<1>. QED
  BY <1>4, <1>5 DEF VerdictInv

LEMMA IInvStep == IInv /\ [Next]_vars => IInv'
<1>. SUFFICES ASSUME IInv, [Next]_vars PROVE IInv'
  OBVIOUS
<1>1. TypeInv'
  BY TypeStep DEF IInv
<1>. QED
  BY <1>1, CreatedStep, PopulatedStep, WorkInvStep, VerdictInvStep, SucceedsOnceStep DEF IInv

LEMMA Invariance == Spec => []IInv
BY IInvInit, IInvStep, PTL DEF Spec

-----------------------------------------------------------------------------
(***************************************************************************)
(* The theorems.                                                           *)
(***************************************************************************)

\* An item is COMPLETED exactly when its latest attempt succeeded, and no
\* attempt before that one did: no interleaving of users, worker, crashes and
\* failed transactions runs finished work a second time.
THEOREM WorkSucceedsOnce == Spec => []SucceedsOnce
<1>1. IInv => SucceedsOnce
  BY DEF IInv
<1>. QED
  BY <1>1, Invariance, PTL

\* COMPLETED and PARTIAL_SUCCESS stay true of the items they were concluded
\* from, although finalizeJob reads them once and users go on writing.
THEOREM VerdictsHold == Spec => []VerdictHolds
<1>1. IInv => VerdictHolds
  <2>. SUFFICES ASSUME VerdictInv, NEW j \in Jobs
                PROVE  /\ job[j] = "COMPLETED" =>
                            /\ Having(j, {"COMPLETED"}) # {}
                            /\ Having(j, {"COMPLETED", "CANCELED"}) = ItemsOf(j)
                       /\ job[j] = "PARTIAL_SUCCESS" =>
                            /\ Having(j, {"COMPLETED"}) # {}
                            /\ Having(j, {"FAILED"}) # {}
                            /\ Having(j, {"COMPLETED", "FAILED", "CANCELED"}) = ItemsOf(j)
    BY DEF IInv, VerdictHolds
  <2>. QED
    BY DEF VerdictInv, Having, ItemsOf
<1>. QED
  BY <1>1, Invariance, PTL

\* No step takes an item out of COMPLETED or a job out of COMPLETED, and only
\* a user's retry takes a job out of PARTIAL_SUCCESS.
THEOREM FinishedForGood == Spec => FinishedIsFinal
<1>. DEFINE Final ==
       /\ \A i \in Items : item[i] = "COMPLETED" => item'[i] = "COMPLETED"
       /\ \A j \in Jobs :
            /\ job[j] = "COMPLETED" => job'[j] = "COMPLETED"
            /\ job[j] = "PARTIAL_SUCCESS" => job'[j] \in {"PARTIAL_SUCCESS", "WAITING_RETRY"}
<1>1. IInv /\ [Next]_vars => [Final]_vars
  <2>. SUFFICES ASSUME IInv, [Next]_vars PROVE Final
    OBVIOUS
  <2>. USE DEF IInv, TypeInv, TypeOK, Holds
  <2>1. \A i \in Items : item[i] = "COMPLETED" => item'[i] = "COMPLETED"
    BY CompletedItems
  <2>2. ASSUME NEW j \in Jobs, job[j] \in {"COMPLETED", "PARTIAL_SUCCESS"}
        PROVE  \/ job'[j] = job[j]
               \/ job[j] = "PARTIAL_SUCCESS" /\ job'[j] = "WAITING_RETRY"
    <3>. DEFINE Goal == \/ job'[j] = job[j]
                        \/ job[j] = "PARTIAL_SUCCESS" /\ job'[j] = "WAITING_RETRY"
    <3>1. ASSUME NEW k \in Jobs, CreateJob(k) \/ Claim(k) PROVE Goal
      BY <2>2, <3>1 DEF CreateJob, Claim, Claimable
    <3>2. ASSUME NEW k \in Jobs, \/ PauseJob(k) \/ ResumeJob(k) \/ CancelJob(k)
                                 \/ RetryJob(k) \/ UpdatePriority(k)
          PROVE  Goal
      BY <2>2, <3>2 DEF PauseJob, ResumeJob, CancelJob, RetryJob, UpdatePriority
    <3>3. ASSUME NEW i \in Items, PauseJobItem(i) \/ ResumeJobItem(i) \/ CancelJobItem(i)
          PROVE  Goal
      <4>1. CASE JobOf[i] = j
        <5>1. item[i] \in {"COMPLETED", "FAILED", "CANCELED"}
          BY <2>2, <4>1 DEF VerdictInv
        <5>. QED
          BY <3>3, <5>1 DEF PauseJobItem, ResumeJobItem, CancelJobItem
      <4>2. CASE JobOf[i] # j
        BY <3>3, <4>2 DEF PauseJobItem, ResumeJobItem, CancelJobItem
      <4>. QED
        BY <4>1, <4>2
    <3>4. ControlStep => Goal
      BY <3>2, <3>3 DEF ControlStep
    <3>5. Recover => Goal
      BY <2>2 DEF Recover
    <3>6. FinishItemFailed \/ FinalizeJob \/ FailJob => Goal
      <4>1. pc \in Busy => j # wjob
        BY <2>2 DEF WorkInv
      <4>. QED
        BY <4>1 DEF FinishItemFailed, FinalizeJob, FailJob, Busy, PC
    <3>. HIDE DEF Goal
    <3>7. Goal
      BY <3>1, <3>4, <3>5, <3>6, JobWriters DEF Goal
    <3>. QED
      BY <3>7 DEF Goal
  <2>. QED
    BY <2>1, <2>2
<1>. QED
  BY <1>1, Invariance, PTL DEF Spec, FinishedIsFinal

-----------------------------------------------------------------------------
(***************************************************************************)
(* Nothing is left RUNNING that nobody executes.                           *)
(***************************************************************************)
LEMMA RunningStarted ==
  ASSUME TypeInv, [Next]_vars, NEW i \in Items, item'[i] = "RUNNING"
  PROVE  item[i] = "RUNNING" \/ (StartItem /\ i = witem)
<1>. USE DEF TypeInv, TypeOK, Holds
<1>1. ASSUME NEW j \in Jobs, CreateJob(j) PROVE item[i] = "RUNNING"
  BY <1>1 DEF CreateJob, SetItems
<1>2. ControlStep => item[i] = "RUNNING"
  <2>1. ASSUME NEW j \in Jobs, \/ PauseJob(j) \/ ResumeJob(j) \/ CancelJob(j)
                               \/ RetryJob(j) \/ UpdatePriority(j)
        PROVE  item[i] = "RUNNING"
    BY <2>1 DEF PauseJob, ResumeJob, CancelJob, RetryJob, UpdatePriority, SetItems
  <2>2. ASSUME NEW k \in Items, PauseJobItem(k) \/ ResumeJobItem(k) \/ CancelJobItem(k)
        PROVE  item[i] = "RUNNING"
    BY <2>2 DEF PauseJobItem, ResumeJobItem, CancelJobItem
  <2>. QED
    BY <2>1, <2>2 DEF ControlStep
<1>3. Recover \/ FinalizeJob \/ CancelPendingItems => item[i] = "RUNNING"
  BY DEF Recover, FinalizeJob, CancelPendingItems, SetItems
<1>4. FinishItemCompleted \/ FinishItemFailed => item[i] = "RUNNING"
  BY DEF FinishItemCompleted, FinishItemFailed
<1>5. StartItem => item[i] = "RUNNING" \/ i = witem
  BY DEF StartItem
<1>. QED
  BY <1>1, <1>2, <1>3, <1>4, <1>5, ItemWriters

LEMMA NoGhostStep ==
  ASSUME TypeInv, NoGhostRunning, [Next]_vars
  PROVE  NoGhostRunning'
<1>. DEFINE Carried(p, w, i) ==
       \/ p \in {"down", "boot"}
       \/ w = i /\ p \in {"started", "exec", "returned", "fail", "succeed"}
<1>. SUFFICES ASSUME faults' = 0, NEW i \in Items, item'[i] = "RUNNING"
              PROVE  Carried(pc', witem', i)
  BY DEF NoGhostRunning
<1>. USE DEF TypeInv, TypeOK, Holds
<1>0. faults = 0 /\ ~Fault
  <2>1. ~Fault
    BY DEF Fault
  <2>. QED
    BY <2>1
    DEF Next, ControlStep, PauseJob, ResumeJob, CancelJob, RetryJob, UpdatePriority,
        PauseJobItem, ResumeJobItem, CancelJobItem, Control, CreateJob, Interrupt, RetryDue,
        WorkerStep, Recover, Claim, CreateJobAttempt, NoExecutor, LoadItems, Visit, VisitHeld,
        LoopDone, StartItem, RegisterRunningItem, InspectInterruption, RecheckInterrupted,
        FinishItemCompleted, FinishItemFailed, FinalizeJob, CancelPendingItems,
        SelectCounts, UpdateCounts, FailJob, ExecutorReturns, Crash, Restart, Goto, Leave,
        NextTurn, bounds, vars
<1>1. CASE StartItem /\ i = witem
  BY <1>1 DEF StartItem, Goto, loop
<1>2. CASE item[i] = "RUNNING"
  <2>1. Carried(pc, witem, i)
    BY <1>0, <1>2 DEF NoGhostRunning
  <2>2. UNCHANGED <<pc, witem>> => Carried(pc', witem', i)
    BY <2>1
  <2>3. ASSUME NEW j \in Jobs, CreateJob(j) \/ Claim(j) PROVE Carried(pc', witem', i)
    BY <2>1, <2>3 DEF CreateJob, Claim, loop
  <2>4. ControlStep => Carried(pc', witem', i)
    <3>1. ControlStep => UNCHANGED <<pc, witem>>
      BY DEF ControlStep, PauseJob, ResumeJob, CancelJob, RetryJob, UpdatePriority,
             PauseJobItem, ResumeJobItem, CancelJobItem, Control, loop
    <3>. QED
      BY <2>2, <3>1
  <2>5. ASSUME NEW k \in Items, Interrupt(k) \/ RetryDue(k) \/ Visit(k)
        PROVE  Carried(pc', witem', i)
    BY <2>1, <2>5 DEF Interrupt, RetryDue, Visit, loop
  <2>6. Recover => FALSE
    BY DEF Recover, SetItems
  <2>7. CreateJobAttempt \/ NoExecutor \/ LoadItems \/ VisitHeld \/ LoopDone => FALSE
    BY <2>1 DEF CreateJobAttempt, NoExecutor, LoadItems, VisitHeld, LoopDone
  <2>8. StartItem => FALSE
    BY <2>1 DEF StartItem
  <2>9. RegisterRunningItem \/ ExecutorReturns => Carried(pc', witem', i)
    BY <2>1 DEF RegisterRunningItem, ExecutorReturns, Goto, loop
  <2>10. InspectInterruption => Carried(pc', witem', i)
    BY <2>1, <1>2 DEF InspectInterruption, Goto, loop
  <2>11. RecheckInterrupted => FALSE
    BY <2>1 DEF RecheckInterrupted
  <2>12. FinishItemCompleted \/ FinishItemFailed => FALSE
    BY <2>1, <1>2 DEF FinishItemCompleted, FinishItemFailed
  <2>13. FinalizeJob \/ CancelPendingItems \/ SelectCounts \/ UpdateCounts \/ FailJob => FALSE
    BY <2>1 DEF FinalizeJob, CancelPendingItems, SelectCounts, UpdateCounts, FailJob
  <2>14. Crash \/ Restart => Carried(pc', witem', i)
    BY DEF Crash, Restart, Goto
  <2>15. UNCHANGED vars => Carried(pc', witem', i)
    BY <2>2 DEF vars, loop
  <2>. HIDE DEF Carried
  <2>. QED
    BY <1>0, <1>2, <2>3, <2>4, <2>5, <2>6, <2>7, <2>9, <2>10, <2>11, <2>12, <2>13,
       <2>14, <2>15, <2>8 DEF Next, WorkerStep
<1>. QED
  BY <1>1, <1>2, RunningStarted

\* As long as no database call of the worker fails, an item is shown RUNNING
\* only while the worker is busy with it or the service is down or recovering.
THEOREM NoGhosts == Spec => []NoGhostRunning
<1>1. Init => NoGhostRunning
  BY DEF Init, NoGhostRunning
<1>2. TypeInv /\ NoGhostRunning /\ [Next]_vars => NoGhostRunning'
  BY NoGhostStep
<1>. QED
  BY <1>1, <1>2, TypeInit, TypeStep, PTL DEF Spec

-----------------------------------------------------------------------------
(***************************************************************************)
(* The counters of a job and the items they count.                         *)
(***************************************************************************)
LEMMA SameTally ==
  ASSUME NEW j \in Jobs, NEW st1, NEW st2
  PROVE  /\ (\A i \in ItemsOf(j) : st1[i] = "COMPLETED" <=> st2[i] = "COMPLETED")
              => Tally(st1, j).success = Tally(st2, j).success
         /\ (\A i \in ItemsOf(j) : st1[i] = "FAILED" <=> st2[i] = "FAILED")
              => Tally(st1, j).failed = Tally(st2, j).failed
<1>1. ASSUME \A i \in ItemsOf(j) : st1[i] = "COMPLETED" <=> st2[i] = "COMPLETED"
      PROVE  {i \in ItemsOf(j) : st1[i] = "COMPLETED"} = {i \in ItemsOf(j) : st2[i] = "COMPLETED"}
  BY <1>1
<1>2. ASSUME \A i \in ItemsOf(j) : st1[i] = "FAILED" <=> st2[i] = "FAILED"
      PROVE  {i \in ItemsOf(j) : st1[i] = "FAILED"} = {i \in ItemsOf(j) : st2[i] = "FAILED"}
  BY <1>2
<1>. QED
  BY <1>1, <1>2 DEF Tally

\* The steps that leave some counter alone: for each job they either count it
\* again or change none of its completed and none of its failed items.
Recounts(j) ==
  \/ counts'[j] = Tally(item', j)
  \/ /\ counts'[j] = counts[j]
     /\ \A i \in ItemsOf(j) : /\ item'[i] = "COMPLETED" <=> item[i] = "COMPLETED"
                              /\ item'[i] = "FAILED" <=> item[i] = "FAILED"

LEMMA RefreshRecounts ==
  ASSUME TypeInv, NEW k \in Jobs, Refresh(k),
         \A i \in Items : JobOf[i] # k => item'[i] = item[i]
  PROVE  \A j \in Jobs : Recounts(j)
BY DEF TypeInv, TypeOK, Refresh, Recounts, ItemsOf

LEMMA CountersStep ==
  ASSUME IInv, [Next]_vars, NEW j \in Jobs
  PROVE  Recounts(j) \/ (CancelPendingItems /\ j = wjob) \/ (UpdateCounts /\ j = wjob)
<1>. USE DEF IInv, TypeInv, TypeOK, Holds
<1>. USE JobsAssumption
<1>0. UNCHANGED <<item, counts>> => Recounts(j)
  BY DEF Recounts
<1>1. ASSUME NEW k \in Jobs, CreateJob(k) PROVE Recounts(j)
  <2>1. \A i \in ItemsOf(k) : item[i] = "NONE"
    BY <1>1 DEF CreateJob, ItemsOf, Created
  <2>. QED
    BY <1>1, <2>1 DEF CreateJob, SetItems, ItemsOf, Recounts
<1>2. ASSUME NEW k \in Jobs, PauseJob(k) \/ ResumeJob(k) \/ CancelJob(k) \/ RetryJob(k)
      PROVE  Recounts(j)
  <2>1. Refresh(k)
    BY <1>2 DEF PauseJob, ResumeJob, CancelJob, RetryJob
  <2>2. \A i \in Items : JobOf[i] # k => item'[i] = item[i]
    BY <1>2 DEF PauseJob, ResumeJob, CancelJob, RetryJob, SetItems, Having, ItemsOf
  <2>. QED
    BY <2>1, <2>2, RefreshRecounts
<1>3. ASSUME NEW k \in Items, PauseJobItem(k) \/ ResumeJobItem(k) \/ CancelJobItem(k)
      PROVE  Recounts(j)
  <2>1. Refresh(JobOf[k])
    BY <1>3 DEF PauseJobItem, ResumeJobItem, CancelJobItem
  <2>2. \A i \in Items : JobOf[i] # JobOf[k] => item'[i] = item[i]
    BY <1>3 DEF PauseJobItem, ResumeJobItem, CancelJobItem
  <2>. QED
    BY <2>1, <2>2, RefreshRecounts
<1>4. ASSUME NEW k \in Jobs, UpdatePriority(k) \/ Claim(k) PROVE Recounts(j)
  BY <1>0, <1>4 DEF UpdatePriority, Claim
<1>5. ControlStep => Recounts(j)
  BY <1>2, <1>3, <1>4 DEF ControlStep
<1>6. ASSUME NEW i \in Items, Interrupt(i) \/ RetryDue(i) \/ Visit(i) PROVE Recounts(j)
  BY <1>0, <1>6 DEF Interrupt, RetryDue, Visit, database
<1>7. Recover => Recounts(j)
  BY DEF Recover, SetItems, ItemsOf, Recounts
<1>8. CreateJobAttempt \/ NoExecutor \/ LoadItems \/ VisitHeld \/ LoopDone => Recounts(j)
  BY <1>0 DEF CreateJobAttempt, NoExecutor, LoadItems, VisitHeld, LoopDone, database
<1>9. RegisterRunningItem \/ ExecutorReturns \/ RecheckInterrupted \/ FailJob => Recounts(j)
  BY <1>0 DEF RegisterRunningItem, ExecutorReturns, RecheckInterrupted, FailJob, database
<1>10. Fault \/ Crash \/ Restart \/ UNCHANGED vars => Recounts(j)
  BY <1>0 DEF Fault, Crash, Restart, vars, database
<1>11. pc \in Turn => JobOf[witem] = wjob
  BY DEF WorkInv
<1>12. StartItem \/ FinishItemCompleted \/ FinishItemFailed => Recounts(j)
  <2>. SUFFICES ASSUME StartItem \/ FinishItemCompleted \/ FinishItemFailed
                PROVE  Recounts(j)
    OBVIOUS
  <2>1. pc \in Turn /\ wjob \in Jobs
    BY DEF StartItem, FinishItemCompleted, FinishItemFailed, Turn, Executing, Busy, PC
  <2>2. Refresh(wjob)
    BY DEF StartItem, FinishItemCompleted, FinishItemFailed
  <2>3. \A i \in Items : JobOf[i] # wjob => item'[i] = item[i]
    BY <2>1, <1>11 DEF StartItem, FinishItemCompleted, FinishItemFailed
  <2>. QED
    BY <2>1, <2>2, <2>3, RefreshRecounts
<1>13. FinalizeJob => Recounts(j)
  <2>. SUFFICES ASSUME FinalizeJob PROVE Recounts(j)
    OBVIOUS
  <2>1. wjob \in Jobs
    BY DEF FinalizeJob, Busy, PC
  <2>2. \A i \in Items : JobOf[i] # wjob => item'[i] = item[i]
    BY <2>1 DEF FinalizeJob, SetItems, Having, ItemsOf
  <2>3. Refresh(wjob) \/ UNCHANGED <<item, counts>>
    BY DEF FinalizeJob
  <2>. QED
    BY <1>0, <2>1, <2>2, <2>3, RefreshRecounts
<1>14. InspectInterruption \/ SelectCounts => Recounts(j)
  BY <1>0 DEF InspectInterruption, SelectCounts, database
<1>15. CancelPendingItems => Recounts(j) \/ j = wjob
  BY DEF CancelPendingItems, SetItems, Having, ItemsOf, Recounts
<1>16. UpdateCounts => Recounts(j) \/ j = wjob
  BY DEF UpdateCounts, Recounts
<1>. QED
  BY <1>1, <1>4, <1>5, <1>6, <1>7, <1>8, <1>9, <1>10, <1>12, <1>13, <1>14, <1>15, <1>16
  DEF Next, WorkerStep

\* Crashes and faults are only ever added.
LEMMA BoundsGrow ==
  ASSUME TypeInv, [Next]_vars, crashes' = 0 /\ faults' = 0
  PROVE  crashes = 0 /\ faults = 0 /\ ~Crash /\ ~Fault
<1>0. crashes \in Nat /\ faults \in Nat /\ crashes' \in Nat /\ faults' \in Nat
  BY TypeStep DEF TypeInv, TypeOK
<1>1. ~Crash /\ ~Fault
  <2>1. Crash => crashes' = crashes + 1
    BY DEF Crash
  <2>2. Fault => faults' = faults + 1
    BY DEF Fault
  <2>. QED
    BY <1>0, <2>1, <2>2
<1>2. UNCHANGED <<crashes, faults>>
  BY <1>1
  DEF Next, ControlStep, PauseJob, ResumeJob, CancelJob, RetryJob, UpdatePriority,
      PauseJobItem, ResumeJobItem, CancelJobItem, Control, CreateJob, Interrupt, RetryDue,
      WorkerStep, Recover, Claim, CreateJobAttempt, NoExecutor, LoadItems, Visit, VisitHeld,
      LoopDone, StartItem, RegisterRunningItem, InspectInterruption, RecheckInterrupted,
      FinishItemCompleted, FinishItemFailed, FinalizeJob, CancelPendingItems,
      SelectCounts, UpdateCounts, FailJob, ExecutorReturns, Restart, Goto, Leave, NextTurn,
      bounds, vars
<1>. QED
  BY <1>0, <1>1, <1>2

\* Everybody but the worker, and what befalls it, leaves its place alone.
LEMMA Bystanders ==
  [Next]_vars =>
    \/ UNCHANGED <<pc, wjob, witem, todo, ready, sums>>
    \/ WorkerStep \/ ExecutorReturns \/ Fault \/ Crash \/ Restart
<1>. DEFINE Stays == UNCHANGED <<pc, wjob, witem, todo, ready, sums>>
<1>1. ASSUME NEW j \in Jobs, CreateJob(j) PROVE Stays
  BY <1>1 DEF CreateJob, loop
<1>2. ControlStep => Stays
  BY DEF ControlStep, PauseJob, ResumeJob, CancelJob, RetryJob, UpdatePriority,
         PauseJobItem, ResumeJobItem, CancelJobItem, Control, loop
<1>3. ASSUME NEW i \in Items, Interrupt(i) \/ RetryDue(i) PROVE Stays
  BY <1>3 DEF Interrupt, RetryDue, loop
<1>4. UNCHANGED vars => Stays
  BY DEF vars, loop
<1>. QED
  BY <1>1, <1>2, <1>3, <1>4 DEF Next

(***************************************************************************)
(* The job in hand: it is not a FAILED one, and past its claim it is one   *)
(* with an executor.                                                       *)
(***************************************************************************)
HandInv ==
  /\ pc \notin Busy => wjob = None
  /\ pc \in Busy => job[wjob] # "FAILED"
  /\ pc \in Busy \ {"claimed", "failJob"} => wjob \in Runnable

LEMMA JobFails ==
  ASSUME TypeInv, [Next]_vars, NEW j \in Jobs, job'[j] = "FAILED"
  PROVE  job[j] = "FAILED" \/ FinalizeJob \/ FailJob
<1>. USE DEF TypeInv, TypeOK
<1>1. ASSUME NEW k \in Jobs, CreateJob(k) \/ Claim(k) PROVE job[j] = "FAILED"
  BY <1>1 DEF CreateJob, Claim
<1>2. ControlStep => job[j] = "FAILED"
  BY DEF ControlStep, PauseJob, ResumeJob, CancelJob, RetryJob, UpdatePriority,
         PauseJobItem, ResumeJobItem, CancelJobItem
<1>3. Recover \/ FinishItemFailed => job[j] = "FAILED"
  BY DEF Recover, FinishItemFailed
<1>. QED
  BY <1>1, <1>2, <1>3, JobWriters

LEMMA HandStep ==
  ASSUME IInv, HandInv, [Next]_vars
  PROVE  HandInv'
<1>. USE DEF HandInv, Busy, PC
<1>1. pc' \notin Busy => wjob' = None
  <2>1. UNCHANGED <<pc, wjob>> => (pc' \notin Busy => wjob' = None)
    OBVIOUS
  <2>2. Recover \/ Restart => wjob' = None
    BY DEF Recover, Restart, loop
  <2>3. ASSUME NEW j \in Jobs, Claim(j) PROVE pc' \in Busy
    BY <2>3 DEF Claim, Goto
  <2>4. CreateJobAttempt \/ NoExecutor \/ LoadItems \/ LoopDone => pc' \in Busy
    BY DEF CreateJobAttempt, NoExecutor, LoadItems, LoopDone, Goto
  <2>5. ASSUME NEW i \in Items, Visit(i) PROVE pc' \in Busy
    BY <2>5 DEF Visit, Goto
  <2>6. StartItem \/ RegisterRunningItem \/ InspectInterruption \/ ExecutorReturns => pc' \in Busy
    BY DEF StartItem, RegisterRunningItem, InspectInterruption, ExecutorReturns, Goto
  <2>7. SelectCounts \/ FinishItemCompleted \/ FinishItemFailed \/ CancelPendingItems
          => pc' \in Busy
    BY DEF SelectCounts, FinishItemCompleted, FinishItemFailed, CancelPendingItems,
           NextTurn, Goto
  <2>8. VisitHeld \/ RecheckInterrupted \/ UpdateCounts => pc' \in Busy \/ wjob' = None
    BY DEF VisitHeld, RecheckInterrupted, UpdateCounts, Leave, NextTurn, Goto
  <2>9. FinalizeJob \/ FailJob \/ Crash => wjob' = None
    BY DEF FinalizeJob, FailJob, Crash, Leave
  <2>10. Fault => pc' \in Busy \/ wjob' = None
    BY DEF Fault
  <2>. QED
    BY <2>1, <2>2, <2>3, <2>4, <2>5, <2>6, <2>7, <2>8, <2>9, <2>10, Bystanders DEF WorkerStep
<1>2. pc' \in Busy => job'[wjob'] # "FAILED"
  <2>1. (~FinalizeJob /\ ~FailJob) \/ pc' \notin Busy
    BY DEF FinalizeJob, FailJob, Leave, Goto
  <2>2. CASE pc \in Busy /\ wjob' = wjob /\ pc' \in Busy
    <3>1. wjob \in Jobs
      BY <2>2 DEF IInv, TypeInv, Holds
    <3>. QED
      BY <2>1, <2>2, <3>1, JobFails DEF IInv
  <2>3. ASSUME NEW j \in Jobs, Claim(j) PROVE job'[wjob'] # "FAILED"
    BY <2>3 DEF Claim, IInv, TypeInv, TypeOK
  <2>. QED
    BY <2>2, <2>3, WorkerMoves
<1>3. pc' \in Busy \ {"claimed", "failJob"} => wjob' \in Runnable
  <2>. SUFFICES ASSUME pc' \in Busy \ {"claimed", "failJob"} PROVE wjob' \in Runnable
    OBVIOUS
  <2>1. pc \in Busy /\ wjob' = wjob
    BY WorkerMoves DEF Claim, Goto
  <2>2. CASE pc \in {"claimed", "failJob"}
    <3>1. ~Restart /\ ~Crash /\ ~ExecutorReturns
      BY <2>2 DEF Restart, Crash, ExecutorReturns
    <3>2. Fault => wjob \in Runnable
      BY <2>2 DEF Fault
    <3>3. WorkerStep => wjob \in Runnable
      BY <2>2 DEF WorkerStep, Recover, Claim, CreateJobAttempt, NoExecutor, LoadItems, Visit,
         VisitHeld, LoopDone, StartItem, RegisterRunningItem, InspectInterruption, SelectCounts,
         UpdateCounts, RecheckInterrupted, FinishItemCompleted, FinishItemFailed, FinalizeJob,
         CancelPendingItems, FailJob, Leave, Goto
    <3>. QED
      BY <2>1, <2>2, <3>1, <3>2, <3>3, Bystanders
  <2>. QED
    BY <2>1, <2>2
<1>. QED
  BY <1>1, <1>2, <1>3

(***************************************************************************)
(* What the counters may show.  Only the end of an execution adds to the   *)
(* failed items of a job, and counts them; everything that takes items out *)
(* of FAILED takes all of them.  So sums that were read, and counters that *)
(* were written, are right about the failures or there are none left.      *)
(***************************************************************************)
Current(n, j) ==
  /\ n.success = Tally(item, j).success
  /\ n.failed = Tally(item, j).failed \/ Having(j, {"FAILED"}) = {}

CountedInv ==
  /\ \A j \in Jobs : Current(counts[j], j)
  /\ \A j \in Jobs \ Runnable : counts[j].failed = Tally(item, j).failed
  /\ pc \in {"store", "storeItem"} => Current(sums, wjob)
  /\ pc \in {"refresh", "store"} => Having(wjob, {"FAILED"}) = {}
  /\ pc = "store" => sums.failed = 0

LEMMA FailedItems ==
  ASSUME IInv, [Next]_vars, NEW j \in Jobs, ~FinishItemFailed, pc \notin Turn \ {"storeItem"}
  PROVE  \/ \A i \in ItemsOf(j) : item'[i] = "FAILED" <=> item[i] = "FAILED"
         \/ Having(j, {"FAILED"})' = {}
<1>. DEFINE Same == \A i \in ItemsOf(j) : item'[i] = "FAILED" <=> item[i] = "FAILED"
            Gone == Having(j, {"FAILED"})' = {}
<1>. USE DEF IInv, TypeInv, TypeOK, Holds, Having, ItemsOf
<1>0. UNCHANGED item => Same
  OBVIOUS
<1>1. ASSUME NEW k \in Jobs, CreateJob(k) PROVE Same
  BY <1>1 DEF CreateJob, SetItems, Created
<1>2. ASSUME NEW k \in Jobs, PauseJob(k) \/ ResumeJob(k) \/ UpdatePriority(k) PROVE Same
  BY <1>2 DEF PauseJob, ResumeJob, UpdatePriority, SetItems
<1>3. ASSUME NEW k \in Jobs, CancelJob(k) \/ RetryJob(k) PROVE Same \/ Gone
  <2>1. CASE k = j
    BY <1>3, <2>1 DEF CancelJob, RetryJob, SetItems, ItemStatus
  <2>2. CASE k # j
    BY <1>3, <2>2 DEF CancelJob, RetryJob, SetItems
  <2>. QED
    BY <2>1, <2>2
<1>4. ASSUME NEW k \in Items, PauseJobItem(k) \/ ResumeJobItem(k) \/ CancelJobItem(k) PROVE Same
  BY <1>4 DEF PauseJobItem, ResumeJobItem, CancelJobItem
<1>5. ControlStep => Same \/ Gone
  BY <1>2, <1>3, <1>4 DEF ControlStep
<1>6. Recover => Same
  BY DEF Recover, SetItems
<1>7. ~StartItem /\ ~FinishItemCompleted
  BY DEF StartItem, FinishItemCompleted, Turn, Executing
<1>8. FinalizeJob \/ CancelPendingItems => Same \/ Gone
  <2>1. CASE wjob = j
    BY <2>1 DEF FinalizeJob, CancelPendingItems, SetItems, ItemStatus
  <2>2. CASE wjob # j
    BY <2>2 DEF FinalizeJob, CancelPendingItems, SetItems
  <2>. QED
    BY <2>1, <2>2
<1>. HIDE DEF Same, Gone
<1>9. Same \/ Gone
  BY <1>0, <1>1, <1>5, <1>6, <1>7, <1>8, ItemWriters
<1>. QED
  BY <1>9 DEF Same, Gone

\* Counters that nobody writes stay as true as they were.
LEMMA CurrentStays ==
  ASSUME TypeInv, NEW n, NEW j \in Jobs, Current(n, j),
         \A i \in ItemsOf(j) : item'[i] = "COMPLETED" <=> item[i] = "COMPLETED",
         \/ \A i \in ItemsOf(j) : item'[i] = "FAILED" <=> item[i] = "FAILED"
         \/ Having(j, {"FAILED"})' = {}
  PROVE  /\ n.success = Tally(item', j).success
         /\ n.failed = Tally(item', j).failed \/ Having(j, {"FAILED"})' = {}
<1>1. n.success = Tally(item', j).success
  BY SameTally DEF Current
<1>2. CASE \A i \in ItemsOf(j) : item'[i] = "FAILED" <=> item[i] = "FAILED"
  <2>1. Tally(item', j).failed = Tally(item, j).failed
    BY <1>2, SameTally
  <2>2. Having(j, {"FAILED"}) = {} => Having(j, {"FAILED"})' = {}
    BY <1>2 DEF Having, ItemsOf
  <2>. QED
    BY <1>1, <2>1, <2>2 DEF Current
<1>. QED
  BY <1>1, <1>2

LEMMA NoneFailed ==
  ASSUME NEW j \in Jobs, Having(j, {"FAILED"}) = {}
  PROVE  Tally(item, j).failed = 0
<1>1. {i \in ItemsOf(j) : item[i] = "FAILED"} = {}
  BY DEF Having
<1>. QED
  BY <1>1, FS_EmptySet DEF Tally

\* The sums are read in SelectCounts and nowhere else.
LEMMA SumsKept ==
  ASSUME [Next]_vars, pc' \in {"refresh", "store", "storeItem"}
  PROVE  \/ SelectCounts
         \/ CancelPendingItems
         \/ pc' = pc /\ UNCHANGED <<wjob, sums>>
<1>1. WorkerStep => SelectCounts \/ CancelPendingItems
  BY DEF WorkerStep, Recover, Claim, CreateJobAttempt, NoExecutor, LoadItems, Visit, VisitHeld,
         LoopDone, StartItem, RegisterRunningItem, InspectInterruption, UpdateCounts,
         RecheckInterrupted, FinishItemCompleted, FinishItemFailed, FinalizeJob, FailJob,
         Leave, NextTurn, Goto
<1>2. ~ExecutorReturns /\ ~Fault /\ ~Crash /\ ~Restart
  BY DEF ExecutorReturns, Fault, Crash, Restart, Goto
<1>. QED
  BY <1>1, <1>2, Bystanders

LEMMA CountedStep ==
  ASSUME IInv, HandInv, CountedInv, [Next]_vars
  PROVE  CountedInv'
<1>a. TypeInv /\ TypeInv' /\ (pc \in Busy => wjob \in Jobs)
  BY TypeStep DEF IInv, TypeInv, Holds
<1>b. ASSUME NEW j \in Jobs, ~FinishItemCompleted
      PROVE  \A i \in ItemsOf(j) : item'[i] = "COMPLETED" <=> item[i] = "COMPLETED"
  BY <1>b, CompletedItems DEF ItemsOf
<1>1. ASSUME NEW j \in Jobs PROVE Current(counts[j], j)'
  <2>0. Current(counts[j], j)
    BY DEF CountedInv
  <2>1. CASE Recounts(j)
    <3>1. CASE counts'[j] = Tally(item', j)
      BY <3>1 DEF Current
    <3>2. CASE /\ counts'[j] = counts[j]
               /\ \A i \in ItemsOf(j) : /\ item'[i] = "COMPLETED" <=> item[i] = "COMPLETED"
                                        /\ item'[i] = "FAILED" <=> item[i] = "FAILED"
      BY <1>a, <2>0, <3>2, CurrentStays DEF Current
    <3>. QED
      BY <2>1, <3>1, <3>2 DEF Recounts
  <2>2. CASE CancelPendingItems /\ j = wjob
    <3>1. ~FinishItemCompleted /\ UNCHANGED counts
      BY <2>2 DEF CancelPendingItems, FinishItemCompleted
    <3>2. Having(j, {"FAILED"})' = {}
      BY <2>2, <1>a DEF CancelPendingItems, SetItems, Having, ItemsOf, TypeInv, TypeOK, ItemStatus
    <3>. QED
      BY <1>a, <1>b, <2>0, <3>1, <3>2, CurrentStays DEF Current
  <2>3. CASE UpdateCounts /\ j = wjob
    <3>1. UNCHANGED item /\ counts'[j] = sums /\ Current(sums, j)
      BY <2>3, <1>a DEF UpdateCounts, CountedInv, TypeInv, TypeOK
    <3>. QED
      BY <3>1 DEF Current, Having, ItemsOf
  <2>. QED
    BY <2>1, <2>2, <2>3, CountersStep
<1>2. ASSUME NEW j \in Jobs \ Runnable PROVE counts'[j].failed = Tally(item', j).failed
  <2>1. ~(CancelPendingItems /\ j = wjob) /\ ~(UpdateCounts /\ j = wjob)
    BY DEF CancelPendingItems, UpdateCounts, HandInv, Busy, PC
  <2>2. Recounts(j)
    BY <2>1, CountersStep
  <2>3. CASE counts'[j] = Tally(item', j)
    BY <2>3
  <2>4. CASE /\ counts'[j] = counts[j]
             /\ \A i \in ItemsOf(j) : item'[i] = "FAILED" <=> item[i] = "FAILED"
    <3>1. Tally(item', j).failed = Tally(item, j).failed
      BY <2>4, SameTally
    <3>. QED
      BY <2>4, <3>1 DEF CountedInv
  <2>. QED
    BY <2>2, <2>3, <2>4 DEF Recounts
<1>3. ASSUME pc' \in {"refresh", "store", "storeItem"}, pc' = pc, UNCHANGED <<wjob, sums>>
      PROVE  /\ wjob \in Jobs /\ ~FinishItemCompleted
             /\ \/ \A i \in ItemsOf(wjob) : item'[i] = "FAILED" <=> item[i] = "FAILED"
                \/ Having(wjob, {"FAILED"})' = {}
  <2>1. wjob \in Jobs
    BY <1>3, <1>a DEF Busy, PC
  <2>2. ~FinishItemCompleted /\ ~FinishItemFailed /\ pc \notin Turn \ {"storeItem"}
    BY <1>3 DEF FinishItemCompleted, FinishItemFailed, Turn, Executing
  <2>. HIDE DEF Having
  <2>3. \/ \A i \in ItemsOf(wjob) : item'[i] = "FAILED" <=> item[i] = "FAILED"
        \/ {i \in ItemsOf(wjob) : item'[i] \in {"FAILED"}} = {}
    BY <2>1, <2>2, FailedItems DEF Having
  <2>. QED
    BY <1>3, <2>1, <2>2, <2>3 DEF Having, ItemsOf
<1>4. pc' \in {"store", "storeItem"} => Current(sums, wjob)'
  <2>. SUFFICES ASSUME pc' \in {"store", "storeItem"} PROVE Current(sums, wjob)'
    OBVIOUS
  <2>1. CASE SelectCounts
    <3>1. sums' = Tally(item', wjob')
      BY <2>1 DEF SelectCounts, database
    <3>. QED
      BY <3>1 DEF Current
  <2>2. CASE CancelPendingItems
    BY <2>2 DEF CancelPendingItems, Goto
  <2>3. CASE pc' = pc /\ UNCHANGED <<wjob, sums>>
    <3>1. Current(sums, wjob)
      BY <2>3 DEF CountedInv
    <3>2. /\ sums.success = Tally(item', wjob).success
          /\ sums.failed = Tally(item', wjob).failed \/ Having(wjob, {"FAILED"})' = {}
      BY <1>a, <1>b, <1>3, <2>3, <3>1, CurrentStays
    <3>. QED
      BY <2>3, <3>2 DEF Current, Having, ItemsOf
  <2>. QED
    BY <2>1, <2>2, <2>3, SumsKept
<1>5. pc' \in {"refresh", "store"} => Having(wjob, {"FAILED"})' = {}
  <2>. SUFFICES ASSUME pc' \in {"refresh", "store"} PROVE Having(wjob, {"FAILED"})' = {}
    OBVIOUS
  <2>1. CASE SelectCounts
    <3>1. pc = "refresh" /\ UNCHANGED <<item, wjob>>
      BY <2>1 DEF SelectCounts, Goto, database
    <3>. QED
      BY <3>1 DEF CountedInv, Having, ItemsOf
  <2>2. CASE CancelPendingItems
    BY <2>2, <1>a
    DEF CancelPendingItems, SetItems, Having, ItemsOf, TypeInv, TypeOK, ItemStatus, loop
  <2>3. CASE pc' = pc /\ UNCHANGED <<wjob, sums>>
    <3>1. Having(wjob, {"FAILED"}) = {}
      BY <2>3 DEF CountedInv
    <3>. QED
      BY <1>3, <2>3, <3>1 DEF Having, ItemsOf
  <2>. QED
    BY <2>1, <2>2, <2>3, SumsKept
<1>6. pc' = "store" => sums'.failed = 0
  <2>. SUFFICES ASSUME pc' = "store" PROVE sums'.failed = 0
    OBVIOUS
  <2>1. CASE SelectCounts
    <3>1. pc = "refresh" /\ sums' = Tally(item, wjob)
      BY <2>1 DEF SelectCounts, Goto
    <3>2. wjob \in Jobs /\ Having(wjob, {"FAILED"}) = {}
      BY <3>1, <1>a DEF CountedInv, Busy, PC
    <3>. QED
      BY <3>1, <3>2, NoneFailed
  <2>2. CASE pc' = pc /\ UNCHANGED <<wjob, sums>>
    BY <2>2 DEF CountedInv
  <2>3. ~CancelPendingItems
    BY DEF CancelPendingItems, Goto
  <2>. QED
    BY <2>1, <2>2, <2>3, SumsKept
<1>. QED
  BY <1>1, <1>2, <1>4, <1>5, <1>6 DEF CountedInv

(***************************************************************************)
(* Without crashes and failed calls nothing cuts a refresh short.  A job   *)
(* that has come to its end with the worker gone then shows the right      *)
(* count: cancelPendingItems and finalizeJob count last, and where the     *)
(* loop is left early the job is still on its way.                         *)
(***************************************************************************)
Unbroken == crashes = 0 /\ faults = 0

CalmInv ==
  /\ pc # "down"
  /\ pc = "boot" => \A i \in Items : item[i] # "RUNNING"
  /\ \A i \in Items : job[JobOf[i]] = "CANCELED" =>
       item[i] \notin {"PENDING", "QUEUED", "WAITING_RETRY", "PAUSED"}
  /\ pc = "failJob" => wjob \notin Runnable
  /\ \A j \in Jobs : \/ counts[j].failed = Tally(item, j).failed
                     \/ wjob = j \/ job[j] \notin Settled

LEMMA CalmPlace ==
  ASSUME TypeInv, CalmInv, [Next]_vars, ~Crash, ~Fault
  PROVE  /\ pc' # "down"
         /\ pc' = "boot" => \A i \in Items : item'[i] # "RUNNING"
         /\ pc' = "failJob" => wjob' \notin Runnable
<1>1. ~Restart
  BY DEF Restart, CalmInv
<1>2. pc' \in {"down", "boot", "failJob"} => NoExecutor \/ UNCHANGED <<pc, wjob>>
  <2>1. WorkerStep /\ pc' \in {"down", "boot", "failJob"} => NoExecutor
    BY DEF WorkerStep, Recover, Claim, CreateJobAttempt, LoadItems, Visit, VisitHeld,
       LoopDone, StartItem, RegisterRunningItem, InspectInterruption, SelectCounts,
       UpdateCounts, RecheckInterrupted, FinishItemCompleted, FinishItemFailed, FinalizeJob,
       CancelPendingItems, FailJob, Leave, NextTurn, Goto
  <2>2. ExecutorReturns => pc' \notin {"down", "boot", "failJob"}
    BY DEF ExecutorReturns, Goto
  <2>. QED
    BY <1>1, <2>1, <2>2, Bystanders
<1>3. NoExecutor => pc' = "failJob" /\ wjob' = wjob /\ wjob \notin Runnable
  BY DEF NoExecutor, Goto, loop
<1>4. ASSUME pc' = "boot", NEW i \in Items PROVE item'[i] # "RUNNING"
  <2>1. pc = "boot"
    BY <1>2, <1>3, <1>4
  <2>2. ~StartItem
    BY <2>1 DEF StartItem
  <2>. QED
    BY <2>1, <2>2, RunningStarted DEF CalmInv
<1>. QED
  BY <1>2, <1>3, <1>4 DEF CalmInv

LEMMA CanceledItems ==
  ASSUME IInv, CalmInv, [Next]_vars, NEW i \in Items, job'[JobOf[i]] = "CANCELED"
  PROVE  item'[i] \notin {"PENDING", "QUEUED", "WAITING_RETRY", "PAUSED"}
<1>. DEFINE Waits == {"PENDING", "QUEUED", "WAITING_RETRY", "PAUSED"}
<1>. USE DEF IInv, TypeInv, TypeOK, Holds
<1>. USE JobsAssumption
<1>0. job[JobOf[i]] = "CANCELED" => item[i] \notin Waits
  BY DEF CalmInv
<1>1. ASSUME NEW j \in Jobs, CreateJob(j) PROVE item'[i] \notin Waits
  <2>1. JobOf[i] # j
    BY <1>1 DEF CreateJob
  <2>2. item'[i] = item[i] /\ job'[JobOf[i]] = job[JobOf[i]]
    BY <1>1, <2>1 DEF CreateJob, SetItems, ItemsOf
  <2>. QED
    BY <1>0, <2>2
<1>2. ControlStep => item'[i] \notin Waits
  <2>1. ASSUME NEW j \in Jobs, PauseJob(j) \/ ResumeJob(j) \/ RetryJob(j) PROVE item'[i] \notin Waits
    <3>1. JobOf[i] # j
      BY <2>1 DEF PauseJob, ResumeJob, RetryJob
    <3>2. item'[i] = item[i]
      BY <2>1, <3>1 DEF PauseJob, ResumeJob, RetryJob, SetItems, Having, ItemsOf
    <3>3. job'[JobOf[i]] = job[JobOf[i]]
      BY <2>1, <3>1 DEF PauseJob, ResumeJob, RetryJob
    <3>. QED
      BY <1>0, <3>2, <3>3
  <2>2. ASSUME NEW j \in Jobs, CancelJob(j) PROVE item'[i] \notin Waits
    <3>1. CASE JobOf[i] = j
      <4>1. item[i] \in ItemStatus
        BY <2>2, <3>1 DEF CancelJob, Created
      <4>. QED
        BY <2>2, <3>1, <4>1 DEF CancelJob, SetItems, Having, ItemsOf
    <3>2. CASE JobOf[i] # j
      BY <1>0, <2>2, <3>2 DEF CancelJob, SetItems, Having, ItemsOf
    <3>. QED
      BY <3>1, <3>2
  <2>3. ASSUME NEW j \in Jobs, UpdatePriority(j) PROVE item'[i] \notin Waits
    BY <1>0, <2>3 DEF UpdatePriority
  <2>4. ASSUME NEW k \in Items, PauseJobItem(k) \/ ResumeJobItem(k) PROVE item'[i] \notin Waits
    <3>1. JobOf[i] # JobOf[k]
      BY <2>4 DEF PauseJobItem, ResumeJobItem
    <3>. QED
      BY <1>0, <2>4, <3>1 DEF PauseJobItem, ResumeJobItem
  <2>5. ASSUME NEW k \in Items, CancelJobItem(k) PROVE item'[i] \notin Waits
    BY <1>0, <2>5 DEF CancelJobItem
  <2>. QED
    BY <2>1, <2>2, <2>3, <2>4, <2>5 DEF ControlStep
<1>3. Recover => item'[i] \notin Waits
  <2>1. Recover => item[i] # "RUNNING"
    BY DEF Recover, CalmInv
  <2>. QED
    BY <1>0, <2>1 DEF Recover, SetItems
<1>4. ASSUME NEW j \in Jobs, Claim(j) PROVE item'[i] \notin Waits
  BY <1>0, <1>4 DEF Claim
<1>5. StartItem \/ FinishItemCompleted => item'[i] \notin Waits
  BY <1>0 DEF StartItem, FinishItemCompleted
<1>6. FinishItemFailed => item'[i] \notin Waits
  <2>. SUFFICES ASSUME FinishItemFailed PROVE item'[i] \notin Waits
    OBVIOUS
  <2>0. witem \in Items /\ JobOf[witem] = wjob /\ wjob \in Jobs
    BY DEF FinishItemFailed, WorkInv, Turn, Executing, Busy, PC
  <2>1. CASE i = witem
    <3>1. item'[i] = "FAILED" \/ (item'[i] = "WAITING_RETRY" /\ job'[wjob] = "WAITING_RETRY")
      BY <2>0, <2>1 DEF FinishItemFailed
    <3>. QED
      BY <2>0, <2>1, <3>1
  <2>2. CASE i # witem
    <3>1. item'[i] = item[i]
      BY <2>0, <2>2 DEF FinishItemFailed
    <3>2. job'[JobOf[i]] = "CANCELED" => job[JobOf[i]] = "CANCELED"
      BY <2>0 DEF FinishItemFailed
    <3>. QED
      BY <1>0, <3>1, <3>2
  <2>. QED
    BY <2>1, <2>2
<1>7. FinalizeJob => item'[i] \notin Waits
  <2>. SUFFICES ASSUME FinalizeJob PROVE item'[i] \notin Waits
    OBVIOUS
  <2>0. wjob \in Jobs /\ job[wjob] # "NONE"
    BY DEF FinalizeJob, WorkInv, Busy, PC
  <2>1. CASE JobOf[i] = wjob /\ job[wjob] = "CANCELED"
    <3>1. item[i] \in ItemStatus
      BY <2>0, <2>1 DEF Created
    <3>. QED
      BY <2>1, <3>1 DEF FinalizeJob, SetItems, Having, ItemsOf
  <2>2. CASE JobOf[i] = wjob /\ job[wjob] # "CANCELED"
    <3>1. /\ UNCHANGED item /\ Having(wjob, Active) = {} /\ Verdict(wjob) = "CANCELED"
      BY <2>0, <2>2 DEF FinalizeJob
    <3>2. Having(wjob, {"WAITING_RETRY"}) = {}
      BY <3>1 DEF Verdict
    <3>. QED
      BY <2>2, <3>1, <3>2 DEF Having, ItemsOf, Active
  <2>3. CASE JobOf[i] # wjob
    <3>1. item'[i] = item[i]
      BY <2>3 DEF FinalizeJob, SetItems, Having, ItemsOf
    <3>2. job'[JobOf[i]] = job[JobOf[i]]
      BY <2>0, <2>3 DEF FinalizeJob
    <3>. QED
      BY <1>0, <3>1, <3>2
  <2>. QED
    BY <2>1, <2>2, <2>3
<1>8. CancelPendingItems => item'[i] \notin Waits
  BY <1>0 DEF CancelPendingItems, SetItems
<1>9. FailJob => item'[i] \notin Waits
  <2>1. FailJob => job[JobOf[i]] = "CANCELED" /\ UNCHANGED item
    BY DEF FailJob
  <2>. QED
    BY <1>0, <2>1
<1>10. UNCHANGED item /\ UNCHANGED job => item'[i] \notin Waits
  BY <1>0
<1>. HIDE DEF Waits
<1>11. item'[i] \notin Waits
  BY <1>1, <1>2, <1>3, <1>4, <1>5, <1>6, <1>7, <1>8, <1>9, <1>10, ItemWriters, JobWriters
<1>. QED
  BY <1>11 DEF Waits

\* Letting go of a job whose count is not right leaves it unsettled.
LEMMA LeftRight ==
  ASSUME IInv, HandInv, CountedInv, CalmInv, [Next]_vars, ~Crash, ~Fault,
         wjob \in Jobs, wjob' # wjob
  PROVE  counts'[wjob].failed = Tally(item', wjob).failed \/ job'[wjob] \notin Settled
<1>. DEFINE Right == counts'[wjob].failed = Tally(item', wjob).failed
            Goal == Right \/ job'[wjob] \notin Settled
<1>. USE DEF IInv, TypeInv, TypeOK
<1>0. pc \in Busy
  BY JobsAssumption DEF HandInv
<1>1. VisitHeld => Goal
  <2>1. VisitHeld => job'[wjob] = "PAUSED"
    BY DEF VisitHeld, database, loop
  <2>. QED
    BY <2>1 DEF Settled
<1>2. RecheckInterrupted => Goal
  <2>. SUFFICES ASSUME RecheckInterrupted PROVE Goal
    OBVIOUS
  <2>1. /\ item[witem] \in {"QUEUED", "PENDING", "WAITING_RETRY"}
        /\ witem \in Items /\ JobOf[witem] = wjob /\ UNCHANGED job
    BY DEF RecheckInterrupted, NextTurn, database, Holds, WorkInv, Turn, Executing
  <2>2. job[wjob] # "CANCELED"
    BY <2>1 DEF CalmInv
  <2>3. job[wjob] \notin {"COMPLETED", "PARTIAL_SUCCESS", "FAILED"}
    BY <1>0 DEF WorkInv, HandInv
  <2>. QED
    BY <2>1, <2>2, <2>3 DEF Settled
<1>3. UpdateCounts => Goal
  <2>. SUFFICES ASSUME UpdateCounts PROVE Goal
    OBVIOUS
  <2>1. pc = "store" /\ counts'[wjob] = sums /\ UNCHANGED item
    BY DEF UpdateCounts
  <2>2. Tally(item, wjob).failed = 0 /\ sums.failed = 0
    BY <2>1, NoneFailed DEF CountedInv
  <2>3. Right
    BY <2>1, <2>2
  <2>. QED
    BY <2>3
<1>4. FinalizeJob => Goal
  <2>. SUFFICES ASSUME FinalizeJob PROVE Goal
    OBVIOUS
  <2>1. CASE job[wjob] = "PAUSED"
    <3>1. job'[wjob] = "PAUSED"
      BY <2>1 DEF FinalizeJob
    <3>. QED
      BY <3>1 DEF Settled
  <2>2. CASE job[wjob] # "PAUSED"
    <3>1. Refresh(wjob)
      BY <2>2 DEF FinalizeJob
    <3>. QED
      BY <3>1 DEF Refresh
  <2>. QED
    BY <2>1, <2>2
<1>5. FailJob => Goal
  <2>. SUFFICES ASSUME FailJob PROVE Goal
    OBVIOUS
  <2>1. wjob \notin Runnable /\ UNCHANGED <<item, counts>>
    BY DEF FailJob, CalmInv
  <2>2. Right
    BY <2>1 DEF CountedInv
  <2>. QED
    BY <2>2
<1>6. ~Restart /\ ~ExecutorReturns
  BY <1>0 DEF Restart, Busy, ExecutorReturns
<1>7. WorkerStep => VisitHeld \/ RecheckInterrupted \/ UpdateCounts \/ FinalizeJob \/ FailJob
  BY <1>0
  DEF WorkerStep, Recover, Claim, CreateJobAttempt, NoExecutor, LoadItems, Visit, LoopDone,
      StartItem, RegisterRunningItem, InspectInterruption, SelectCounts, FinishItemCompleted,
      FinishItemFailed, CancelPendingItems, NextTurn, Goto, Busy, loop
<1>. HIDE DEF Goal
<1>8. Goal
  BY <1>1, <1>2, <1>3, <1>4, <1>5, <1>6, <1>7, Bystanders
<1>. QED
  BY <1>8 DEF Goal

\* A job that another process settles is counted in the same transaction.
LEMMA SettledCounted ==
  ASSUME IInv, [Next]_vars, NEW j \in Jobs, wjob # j, job'[j] \in Settled, job[j] \notin Settled
  PROVE  counts'[j] = Tally(item', j)
<1>. USE DEF IInv, TypeInv, TypeOK, Holds, Settled
<1>1. ASSUME NEW k \in Jobs, CreateJob(k) \/ Claim(k) PROVE FALSE
  BY <1>1 DEF CreateJob, Claim
<1>2. ASSUME NEW k \in Jobs, PauseJob(k) \/ ResumeJob(k) \/ RetryJob(k) \/ UpdatePriority(k)
      PROVE  FALSE
  BY <1>2 DEF PauseJob, ResumeJob, RetryJob, UpdatePriority
<1>3. ASSUME NEW k \in Jobs, CancelJob(k) PROVE counts'[j] = Tally(item', j)
  BY <1>3 DEF CancelJob, Refresh
<1>4. ASSUME NEW k \in Items, PauseJobItem(k) \/ ResumeJobItem(k) \/ CancelJobItem(k)
      PROVE  FALSE
  BY <1>4 DEF PauseJobItem, ResumeJobItem, CancelJobItem
<1>5. ControlStep => counts'[j] = Tally(item', j)
  BY <1>2, <1>3, <1>4 DEF ControlStep
<1>6. Recover \/ FinishItemFailed \/ FinalizeJob \/ FailJob => FALSE
  BY DEF Recover, FinishItemFailed, FinalizeJob, FailJob
<1>. QED
  BY <1>1, <1>5, <1>6, JobWriters

LEMMA CalmStep ==
  ASSUME IInv, HandInv, CountedInv, CalmInv, [Next]_vars, ~Crash, ~Fault
  PROVE  CalmInv'
<1>1. ASSUME NEW j \in Jobs
      PROVE  \/ counts'[j].failed = Tally(item', j).failed
             \/ wjob' = j \/ job'[j] \notin Settled
  <2>. SUFFICES ASSUME wjob' # j, job'[j] \in Settled
                PROVE  counts'[j].failed = Tally(item', j).failed
    OBVIOUS
  <2>1. CASE wjob = j
    BY <2>1, LeftRight
  <2>2. CASE wjob # j /\ job[j] \notin Settled
    BY <2>2, SettledCounted
  <2>3. CASE wjob # j /\ job[j] \in Settled
    <3>1. counts[j].failed = Tally(item, j).failed
      BY <2>3 DEF CalmInv
    <3>2. Recounts(j)
      BY <2>3, CountersStep
    <3>3. CASE counts'[j] = Tally(item', j)
      BY <3>3
    <3>4. CASE /\ counts'[j] = counts[j]
               /\ \A i \in ItemsOf(j) : item'[i] = "FAILED" <=> item[i] = "FAILED"
      <4>1. Tally(item', j).failed = Tally(item, j).failed
        BY <3>4, SameTally
      <4>. QED
        BY <3>1, <3>4, <4>1
    <3>. QED
      BY <3>2, <3>3, <3>4 DEF Recounts
  <2>. QED
    BY <2>1, <2>2, <2>3
<1>2. \A i \in Items : job'[JobOf[i]] = "CANCELED" =>
        item'[i] \notin {"PENDING", "QUEUED", "WAITING_RETRY", "PAUSED"}
  BY CanceledItems
<1>. QED
  BY <1>1, <1>2, CalmPlace DEF CalmInv, IInv

\* jobs.success_items always agrees with the items of the job, and so does
\* jobs.failed_items, but that it may still count failures of which none is
\* left: only while the job is on its way, or after a crash or a failed call.
\* This although the worker reads the counts and writes them in two steps that
\* any control can come between, here and in cancelPendingItems.
THEOREM CountersTrue == Spec => []CountersAgree
<1>. DEFINE Inv == HandInv /\ CountedInv /\ (Unbroken => CalmInv)
<1>1. Init => Inv
  <2>. SUFFICES ASSUME Init PROVE Inv
    OBVIOUS
  <2>1. \A j \in Jobs : counts[j] = Tally(item, j)
    <3>. SUFFICES ASSUME NEW j \in Jobs PROVE counts[j] = Tally(item, j)
      OBVIOUS
    <3>1. /\ {i \in ItemsOf(j) : item[i] = "COMPLETED"} = {}
          /\ {i \in ItemsOf(j) : item[i] = "FAILED"} = {}
      BY DEF Init, ItemsOf
    <3>2. Cardinality({}) = 0
      BY FS_EmptySet
    <3>. QED
      BY <3>1, <3>2 DEF Init, Tally, NoSums
  <2>2. CountedInv
    BY <2>1 DEF Init, CountedInv, Current
  <2>3. HandInv
    BY DEF Init, HandInv, Busy, PC
  <2>4. CalmInv
    BY <2>1, JobsAssumption DEF Init, CalmInv
  <2>. QED
    BY <2>2, <2>3, <2>4
<1>2. IInv /\ Inv /\ [Next]_vars => Inv'
  <2>. SUFFICES ASSUME IInv, Inv, [Next]_vars PROVE Inv'
    OBVIOUS
  <2>1. HandInv' /\ CountedInv'
    BY HandStep, CountedStep
  <2>2. ASSUME Unbroken' PROVE CalmInv'
    <3>1. Unbroken /\ ~Crash /\ ~Fault
      BY <2>2, BoundsGrow DEF Unbroken, IInv
    <3>. QED
      BY <3>1, CalmStep
  <2>. QED
    BY <2>1, <2>2
<1>3. IInv /\ Inv => CountersAgree
  <2>. SUFFICES ASSUME IInv, Inv, NEW j \in Jobs
                PROVE  /\ counts[j].success = Tally(item, j).success
                       /\ \/ counts[j].failed = Tally(item, j).failed
                          \/ /\ Having(j, {"FAILED"}) = {}
                             /\ wjob = j \/ job[j] \notin Settled \/ crashes > 0 \/ faults > 0
    BY DEF CountersAgree
  <2>1. /\ counts[j].success = Tally(item, j).success
        /\ counts[j].failed = Tally(item, j).failed \/ Having(j, {"FAILED"}) = {}
    BY DEF CountedInv, Current
  <2>2. Unbroken => \/ counts[j].failed = Tally(item, j).failed
                    \/ wjob = j \/ job[j] \notin Settled
    BY DEF CalmInv
  <2>3. Unbroken \/ crashes > 0 \/ faults > 0
    BY DEF IInv, TypeInv, TypeOK, Unbroken
  <2>. QED
    BY <2>1, <2>2, <2>3
<1>. HIDE DEF Inv
<1>. QED
  BY <1>1, <1>2, <1>3, Invariance, PTL DEF Spec

-----------------------------------------------------------------------------
(***************************************************************************)
(* The engine implements the ledger of executions.                         *)
(***************************************************************************)
LEMMA LedgerStep ==
  ASSUME IInv, [Next]_vars
  PROVE  [Ledger!Next]_<<attempts, {i \in Items : item[i] = "COMPLETED"},
                         IF pc \in Executing THEN witem ELSE None>>
<1>. DEFINE done == {i \in Items : item[i] = "COMPLETED"}
            active == IF pc \in Executing THEN witem ELSE None
<1>. USE JobsAssumption
<1>1. /\ pc \in Turn => witem \in Items /\ witem # None /\ item[witem] # "COMPLETED"
      /\ item \in [Items -> ItemStatus \cup {"NONE"}]
      /\ attempts \in [Items -> Seq(AttemptStatus)]
  BY DEF IInv, TypeInv, TypeOK, Holds, WorkInv
<1>2. ~FinishItemCompleted => UNCHANGED done
  BY CompletedItems
<1>3. CASE StartItem
  <2>1. pc \in Turn /\ active = None /\ active' = witem
    BY <1>3 DEF StartItem, Goto, loop, Turn, Executing
  <2>2. ~FinishItemCompleted
    BY <1>3 DEF StartItem, FinishItemCompleted
  <2>3. attempts' = [attempts EXCEPT ![witem] = Append(@, "RUNNING")]
    BY <1>3 DEF StartItem
  <2>4. Ledger!Begin(witem)
    BY <1>1, <1>2, <2>1, <2>2, <2>3 DEF Ledger!Begin
  <2>. QED
    BY <1>1, <2>1, <2>4 DEF Ledger!Next
<1>4. CASE FinishItemCompleted
  <2>1. pc \in Turn /\ active = witem /\ active' = None
    BY <1>4 DEF FinishItemCompleted, NextTurn, Goto, Turn, Executing
  <2>2. done' = done \cup {witem}
    BY <1>1, <1>4, <2>1 DEF FinishItemCompleted
  <2>3. Ledger!Succeed
    BY <1>1, <1>4, <2>1, <2>2 DEF Ledger!Succeed, FinishItemCompleted, CloseAttempt
  <2>. QED
    BY <2>3 DEF Ledger!Next
<1>5. CASE FinishItemFailed
  <2>1. pc \in Turn /\ active = witem /\ active' = None
    BY <1>5 DEF FinishItemFailed, NextTurn, Goto, Turn, Executing
  <2>2. ~FinishItemCompleted
    BY <1>5 DEF FinishItemFailed, FinishItemCompleted
  <2>3. Ledger!Fail
    BY <1>1, <1>2, <1>5, <2>1, <2>2 DEF Ledger!Fail, FinishItemFailed, CloseAttempt
  <2>. QED
    BY <2>3 DEF Ledger!Next
<1>6. CASE ControlStep /\ \E S \in SUBSET Items : CancelAttempts(S)
  <2>. PICK S \in SUBSET Items : CancelAttempts(S)
    BY <1>6
  <2>1. UNCHANGED <<pc, witem>>
    BY <1>6
    DEF ControlStep, PauseJob, ResumeJob, CancelJob, RetryJob, UpdatePriority,
        PauseJobItem, ResumeJobItem, CancelJobItem, Control, loop
  <2>2. ~FinishItemCompleted
    BY <2>1 DEF FinishItemCompleted, NextTurn, Goto
  <2>3. Ledger!Withdraw(S)
    BY <1>2, <2>1, <2>2 DEF Ledger!Withdraw, CancelAttempts
  <2>. QED
    BY <2>3 DEF Ledger!Next
<1>7. CASE UNCHANGED attempts /\ ~StartItem /\ ~FinishItemCompleted /\ ~FinishItemFailed
  <2>1. UNCHANGED done
    BY <1>2, <1>7
  <2>2. pc' \in Executing => pc \in Executing /\ witem' = witem
    BY <1>7, WorkerMoves
  <2>3. CASE UNCHANGED active
    BY <1>7, <2>1, <2>3
  <2>4. CASE active # None /\ active' = None
    <3>1. Ledger!Abandon
      BY <1>7, <2>1, <2>4 DEF Ledger!Abandon
    <3>. QED
      BY <3>1 DEF Ledger!Next
  <2>5. UNCHANGED active \/ (active # None /\ active' = None)
    BY <2>2, <1>1 DEF Turn
  <2>. QED
    BY <2>3, <2>4, <2>5
<1>. QED
  BY <1>3, <1>4, <1>5, <1>6, <1>7, AttemptWriters

\* Whatever users do and wherever the service fails, items are attempted one at
\* a time, never again once completed, and only the attempt in progress is
\* recorded as succeeded or failed.
THEOREM LedgerImplemented == Spec => ImplementsLedger
<1>1. Init => Ledger!Init
  BY DEF Init, Ledger!Init, Executing
<1>2. IInv /\ [Next]_vars =>
        [Ledger!Next]_<<attempts, {i \in Items : item[i] = "COMPLETED"},
                        IF pc \in Executing THEN witem ELSE None>>
  BY LedgerStep
<1>. QED
  BY <1>1, <1>2, Invariance, PTL DEF Spec, ImplementsLedger, Ledger!Spec

-----------------------------------------------------------------------------
(***************************************************************************)
(* A pass of the worker ends.  The liveness of the engine rests on this:   *)
(* executeJob reads its items once, so what users, other jobs and failures *)
(* do meanwhile can cut the rest of a pass short but never prolong it.     *)
(***************************************************************************)
AtRest == {"down", "boot", "idle"}

\* The turns of the loop that are still to come, at most.
TurnsLeft(p, S) ==
  IF p \in {"claimed", "load"} THEN Cardinality(Items)
  ELSE IF p \in {"loop"} \cup Turn THEN Cardinality(S) ELSE 0

\* The steps of the worker before the next turn, or to the end.
StepsLeft(p) ==
  CASE p = "start" -> 11
    [] p = "started" -> 10
    [] p = "exec" -> 9
    [] p = "returned" -> 8
    [] p = "refreshItem" -> 7
    [] p \in {"claimed", "storeItem"} -> 6
    [] p \in {"load", "recheck", "fail", "succeed"} -> 5
    [] p = "loop" -> 4
    [] p = "cancelPending" -> 3
    [] p \in {"finalize", "refresh"} -> 2
    [] p \in {"store", "failJob"} -> 1
    [] OTHER -> 0

\* A turn takes at most eight steps: Visit, and those from start to recheck.
Left == 8 * TurnsLeft(pc, todo) + StepsLeft(pc)

\* Each step of the worker, each failure and each crash brings the pass nearer
\* to its end, and nobody else's step takes it further away.
PassesEnd ==
  [][pc \notin AtRest =>
       /\ Left \in Nat /\ Left' \in Nat /\ Left' <= Left
       /\ WorkerStep \/ ExecutorReturns \/ Fault \/ Crash => Left' < Left]_vars

LEMMA StepsLeftValues ==
  /\ StepsLeft("start") = 11 /\ StepsLeft("started") = 10 /\ StepsLeft("exec") = 9
  /\ StepsLeft("returned") = 8 /\ StepsLeft("refreshItem") = 7 /\ StepsLeft("claimed") = 6
  /\ StepsLeft("storeItem") = 6 /\ StepsLeft("load") = 5 /\ StepsLeft("recheck") = 5
  /\ StepsLeft("fail") = 5 /\ StepsLeft("succeed") = 5 /\ StepsLeft("loop") = 4
  /\ StepsLeft("cancelPending") = 3 /\ StepsLeft("finalize") = 2 /\ StepsLeft("refresh") = 2
  /\ StepsLeft("store") = 1 /\ StepsLeft("failJob") = 1
  /\ StepsLeft("idle") = 0 /\ StepsLeft("down") = 0 /\ StepsLeft("boot") = 0
BY DEF StepsLeft

LEMMA StepsToCome == \A p \in PC \ AtRest : StepsLeft(p) > 0
<1>. SUFFICES ASSUME NEW p \in PC \ AtRest, ~(StepsLeft(p) > 0) PROVE FALSE
  OBVIOUS
<1>1. p \notin {"claimed", "load", "loop", "start", "started", "exec", "returned"}
  BY StepsLeftValues
<1>2. p \notin {"refreshItem", "storeItem", "recheck", "fail", "succeed"}
  BY StepsLeftValues
<1>3. p \notin {"cancelPending", "refresh", "store", "finalize", "failJob"}
  BY StepsLeftValues
<1>. QED
  BY <1>1, <1>2, <1>3 DEF PC, AtRest

LEMMA LeftType ==
  ASSUME NEW p \in PC, NEW S \in SUBSET Items
  PROVE  /\ IsFiniteSet(S) /\ Cardinality(S) \in Nat /\ Cardinality(S) <= Cardinality(Items)
         /\ Cardinality(Items) \in Nat
         /\ TurnsLeft(p, S) \in Nat /\ StepsLeft(p) \in Nat
<1>1. /\ IsFiniteSet(S) /\ Cardinality(S) \in Nat /\ Cardinality(Items) \in Nat
      /\ Cardinality(S) <= Cardinality(Items)
  BY JobsAssumption, FS_Subset, FS_CardinalityType
<1>2. TurnsLeft(p, S) \in Nat
  BY <1>1 DEF TurnsLeft
<1>3. StepsLeft(p) \in Nat
  BY StepsLeftValues DEF PC
<1>. QED
  BY <1>1, <1>2, <1>3

\* What brings the worker nearer to the end: a later place in the same turn or
\* after the loop, or one turn less.
Nearer ==
  \/ TurnsLeft(pc', todo') <= TurnsLeft(pc, todo) /\ StepsLeft(pc') < StepsLeft(pc)
  \/ TurnsLeft(pc', todo') <= TurnsLeft(pc, todo) - 1 /\ StepsLeft(pc') < StepsLeft(pc) + 8

LEMMA NearerIsLess ==
  ASSUME TypeInv, TypeInv', Nearer
  PROVE  Left' < Left
<1>0. pc \in PC /\ pc' \in PC /\ todo \in SUBSET Items /\ todo' \in SUBSET Items
  BY DEF TypeInv, TypeOK
<1>1. /\ TurnsLeft(pc, todo) \in Nat /\ StepsLeft(pc) \in Nat
      /\ TurnsLeft(pc', todo') \in Nat /\ StepsLeft(pc') \in Nat
  BY <1>0, LeftType
<1>. QED
  BY <1>1 DEF Nearer, Left

LEMMA PassStep ==
  ASSUME TypeInv, TypeInv', pc \notin AtRest, WorkerStep \/ ExecutorReturns \/ Fault \/ Crash
  PROVE  Nearer
<1>0. /\ Cardinality(todo) \in Nat /\ Cardinality(Items) \in Nat /\ IsFiniteSet(todo)
      /\ todo \subseteq Items
  BY LeftType DEF TypeInv, TypeOK
<1>. USE StepsLeftValues DEF TurnsLeft, Nearer, Turn, Executing, AtRest
<1>1. ASSUME NEW i \in Items, Visit(i) PROVE Nearer
  <2>1. Cardinality(todo') = Cardinality(todo) - 1
    BY <1>0, <1>1, FS_RemoveElement DEF Visit
  <2>. QED
    BY <1>0, <1>1, <2>1 DEF Visit, Goto
<1>2. LoadItems => Nearer
  <2>. SUFFICES ASSUME LoadItems PROVE Nearer
    OBVIOUS
  <2>1. todo' \subseteq Items
    BY DEF LoadItems, ItemsOf
  <2>2. Cardinality(todo') \in Nat /\ Cardinality(todo') <= Cardinality(Items)
    BY <2>1, LeftType DEF TypeInv, TypeOK
  <2>. QED
    BY <1>0, <2>2 DEF LoadItems, Goto
<1>3. CreateJobAttempt \/ NoExecutor => Nearer
  BY <1>0 DEF CreateJobAttempt, NoExecutor, Goto, loop
<1>4. VisitHeld \/ LoopDone => Nearer
  BY <1>0 DEF VisitHeld, LoopDone, Leave, Goto, loop
<1>5. StartItem \/ RegisterRunningItem \/ ExecutorReturns \/ InspectInterruption => Nearer
  BY <1>0 DEF StartItem, RegisterRunningItem, ExecutorReturns, InspectInterruption, Goto, loop
<1>6. RecheckInterrupted \/ FinishItemCompleted \/ FinishItemFailed => Nearer
  BY <1>0 DEF RecheckInterrupted, FinishItemCompleted, FinishItemFailed, Leave, NextTurn, Goto
<1>7. FinalizeJob \/ CancelPendingItems \/ FailJob => Nearer
  BY <1>0 DEF FinalizeJob, CancelPendingItems, FailJob, Leave, Goto
<1>11. SelectCounts \/ UpdateCounts => Nearer
  BY <1>0 DEF SelectCounts, UpdateCounts, Leave, Goto
<1>8. Fault => Nearer
  BY <1>0 DEF Fault, loop
<1>9. Crash => Nearer
  <2>1. StepsLeft(pc) > 0
    BY StepsToCome DEF TypeInv, TypeOK
  <2>. QED
    BY <1>0, <2>1 DEF Crash
<1>10. ~Recover /\ \A j \in Jobs : ~Claim(j)
  BY DEF Recover, Claim
<1>. QED
  BY <1>1, <1>2, <1>3, <1>4, <1>5, <1>6, <1>7, <1>8, <1>9, <1>10, <1>11
  DEF WorkerStep

\* A pass of the worker is over after at most 8 * |Items| + 6 of its steps, for
\* any items, whatever users, other jobs, failures and crashes do meanwhile.
THEOREM EveryPassEnds == Spec => PassesEnd
<1>. DEFINE Ends ==
       pc \notin AtRest =>
         /\ Left \in Nat /\ Left' \in Nat /\ Left' <= Left
         /\ WorkerStep \/ ExecutorReturns \/ Fault \/ Crash => Left' < Left
<1>1. ASSUME TypeInv, [Next]_vars PROVE Ends
  <2>. SUFFICES ASSUME pc \notin AtRest
                PROVE  /\ Left \in Nat /\ Left' \in Nat /\ Left' <= Left
                       /\ WorkerStep \/ ExecutorReturns \/ Fault \/ Crash => Left' < Left
    OBVIOUS
  <2>1. TypeInv'
    BY <1>1, TypeStep
  <2>2. Left \in Nat /\ Left' \in Nat
    <3>0. pc \in PC /\ pc' \in PC /\ todo \in SUBSET Items /\ todo' \in SUBSET Items
      BY <1>1, <2>1 DEF TypeInv, TypeOK
    <3>1. /\ TurnsLeft(pc, todo) \in Nat /\ StepsLeft(pc) \in Nat
          /\ TurnsLeft(pc', todo') \in Nat /\ StepsLeft(pc') \in Nat
      BY <3>0, LeftType
    <3>. QED
      BY <3>1 DEF Left
  <2>3. WorkerStep \/ ExecutorReturns \/ Fault \/ Crash => Left' < Left
    BY <1>1, <2>1, PassStep, NearerIsLess
  <2>4. WorkerStep \/ ExecutorReturns \/ Fault \/ Crash \/ UNCHANGED <<pc, todo>>
    <3>1. ASSUME NEW j \in Jobs, CreateJob(j) PROVE UNCHANGED <<pc, todo>>
      BY <3>1 DEF CreateJob, loop
    <3>2. ControlStep => UNCHANGED <<pc, todo>>
      BY DEF ControlStep, PauseJob, ResumeJob, CancelJob, RetryJob, UpdatePriority,
             PauseJobItem, ResumeJobItem, CancelJobItem, Control, loop
    <3>3. ASSUME NEW i \in Items, Interrupt(i) \/ RetryDue(i) PROVE UNCHANGED <<pc, todo>>
      BY <3>3 DEF Interrupt, RetryDue, loop
    <3>4. ~Restart
      BY DEF Restart, AtRest
    <3>. QED
      BY <1>1, <3>1, <3>2, <3>3, <3>4 DEF Next, vars, loop
  <2>5. UNCHANGED <<pc, todo>> => Left' = Left
    BY DEF Left
  <2>. QED
    BY <2>2, <2>3, <2>4, <2>5
<1>. HIDE DEF Ends
<1>. QED
  BY <1>1, TypeInit, TypeStep, PTL DEF Spec, PassesEnd, Ends
=============================================================================
