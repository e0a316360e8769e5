------------------------- MODULE CloudDownloadProofs -------------------------
(***************************************************************************)
(* What holds of download jobs for any number of items, downloads, crashes *)
(* and failing calls, and whether or not aria2 forgets stopped downloads.  *)
(***************************************************************************)
EXTENDS CloudDownload, JobEngineProofs

-----------------------------------------------------------------------------
(***************************************************************************)
(* The downloads run on the engine: each of their steps is a step of the   *)
(* job engine or leaves its variables alone.                               *)
(***************************************************************************)
LEMMA StepOfEngine == [DownloadNext]_DownloadVars => [Next]_vars
<1>. SUFFICES ASSUME [DownloadNext]_DownloadVars PROVE [Next]_vars
  OBVIOUS
<1>1. ASSUME NEW j \in Jobs, PauseDownloads(j) \/ ResumeDownloads(j) \/ CancelDownloads(j)
      PROVE  [Next]_vars
  BY <1>1 DEF PauseDownloads, ResumeDownloads, CancelDownloads, Abort, Next, ControlStep
<1>2. ASSUME NEW i \in Items, PauseDownload(i) \/ ResumeDownload(i) \/ CancelDownload(i)
      PROVE  [Next]_vars
  BY <1>2 DEF PauseDownload, ResumeDownload, CancelDownload, Abort, Next, ControlStep
<1>3. OtherEngineStep => [Next]_vars
  BY DEF OtherEngineStep, Next, ControlStep
<1>4. DownloadWorkerStep \/ DownloadCrash \/ DownloadReturns => [Next]_vars
  BY DEF DownloadWorkerStep, DownloadCrash, DownloadReturns, Next
<1>5. ExecutorStep => UNCHANGED vars
  <2>1. LoadExternalTaskState \/ Enqueue \/ RecoverTask => UNCHANGED vars
    BY DEF LoadExternalTaskState, Enqueue, RecoverTask, Continue
  <2>2. UpdateExternalTask \/ ResumeTask \/ Wait \/ UpsertDownloadedReplica => UNCHANGED vars
    BY DEF UpdateExternalTask, ResumeTask, Wait, UpsertDownloadedReplica, Continue
  <2>. QED
    BY <2>1, <2>2 DEF ExecutorStep
<1>6. ASSUME NEW g \in Gids, TaskEnds(g) \/ TaskForgotten(g) PROVE UNCHANGED vars
  BY <1>6 DEF TaskEnds, TaskForgotten
<1>7. UNCHANGED DownloadVars => UNCHANGED vars
  BY DEF DownloadVars
<1>. QED
  BY <1>1, <1>2, <1>3, <1>4, <1>5, <1>6, <1>7 DEF DownloadNext, DownloadControl

\* The executor that downloads keeps the engine's protocol, so what is proved
\* of the engine with an executor of any kind holds of download jobs.
THEOREM RunsOnEngine == DownloadSpec => Spec
<1>1. DownloadInit => Init
  BY DEF DownloadInit
<1>. QED
  BY <1>1, StepOfEngine, PTL DEF DownloadSpec, Spec

-----------------------------------------------------------------------------
(***************************************************************************)
(* The list of downloads: it grows, no download changes its file, and one  *)
(* that is complete stays so.                                              *)
(***************************************************************************)
Download == [dest : Items, status : TaskStatus]

Kept ==
  /\ tasks' \in Seq(Download)
  /\ Len(tasks') >= Len(tasks)
  /\ \A g \in Gids : /\ tasks'[g].dest = tasks[g].dest
                     /\ tasks[g].status = "complete" => tasks'[g].status = "complete"

LEMMA SameTasksKept ==
  ASSUME tasks \in Seq(Download), UNCHANGED tasks
  PROVE  Kept
BY DEF Kept, Gids

LEMMA SetTasksKept ==
  ASSUME tasks \in Seq(Download), NEW G, NEW status \in TaskStatus,
         SetTasks(G, status), \A g \in G \cap Gids : tasks[g].status # "complete"
  PROVE  Kept /\ Len(tasks') = Len(tasks)
<1>1. \A g \in Gids : tasks[g] \in Download
  BY ElementOfSeq DEF Gids
<1>2. tasks' \in [1 .. Len(tasks) -> Download]
  BY <1>1 DEF SetTasks, Gids, Download
<1>3. tasks' \in Seq(Download) /\ Len(tasks') = Len(tasks)
  BY <1>2, IsASeq, LenProperties
<1>4. \A g \in Gids : /\ tasks'[g].dest = tasks[g].dest
                      /\ tasks[g].status = "complete" => tasks'[g].status = "complete"
  BY <1>1 DEF SetTasks, Download
<1>. QED
  BY <1>3, <1>4, LenProperties DEF Kept

LEMMA AddTaskKept ==
  ASSUME tasks \in Seq(Download), witem \in Items, AddTask
  PROVE  /\ Kept
         /\ gid' \in 1 .. Len(tasks') /\ gid' # 0
         /\ tasks'[gid'].dest = witem
<1>1. [dest |-> witem, status |-> "active"] \in Download
  BY DEF Download, TaskStatus
<1>2. tasks' = Append(tasks, [dest |-> witem, status |-> "active"]) /\ gid' = Len(tasks) + 1
  BY DEF AddTask
<1>3. Len(tasks) \in Nat
  BY LenProperties
<1>. QED
  BY <1>1, <1>2, <1>3, AppendProperties DEF Kept, Gids

-----------------------------------------------------------------------------
(***************************************************************************)
(* The inductive invariant.  A replica is registered on the strength of a  *)
(* poll made earlier; that is safe because the task polled belongs to the  *)
(* file, which takes the record of every item to point home, and because   *)
(* complete downloads stay complete.                                       *)
(***************************************************************************)
Phased ==
  /\ dl # "none" => pc = "exec"
  /\ dl \in {"none", "load"} => gid = 0
  /\ dl \in {"recover", "record", "resume", "wait", "upsert"} => gid # 0
  /\ dl = "upsert" => tasks[gid].status = "complete"
  /\ dl = "done" => witem \in replicas
  /\ pc = "succeed" => witem \in replicas

Core == DownloadTypeOK /\ RecordPointsHome /\ Phased
DInv == IInv /\ Core /\ CompletedHasReplica /\ ReplicaIsComplete

\* What any step may do to the catalogue.
Registers == \/ UNCHANGED replicas
             \/ /\ replicas' = replicas \cup {witem}
                /\ dl = "upsert" /\ witem \in Items

LEMMA DInvInit == DownloadInit => DInv
<1>. SUFFICES ASSUME DownloadInit PROVE DInv
  OBVIOUS
<1>1. IInv
  BY IInvInit DEF DownloadInit
<1>2. item = [i \in Items |-> "NONE"] /\ pc = "boot"
  BY DEF DownloadInit, Init
<1>3. /\ tasks \in Seq([dest : Items, status : TaskStatus]) /\ Len(tasks) = 0
      /\ dl = "none" /\ gid = 0 /\ unpause = FALSE
  BY EmptySeq DEF DownloadInit
<1>4. DownloadTypeOK
  <2>1. record \in [Items -> [gid : 0 .. Len(tasks), status : TaskStatus \cup {"none", "RUNNING"}]]
    BY <1>3 DEF DownloadInit
  <2>2. forgotten \subseteq Gids /\ replicas \subseteq Items /\ lapses \in Nat
    BY DEF DownloadInit
  <2>3. dl \in Phase /\ gid \in 0 .. Len(tasks)
    BY <1>3 DEF Phase
  <2>4. unpause \in BOOLEAN
    BY <1>3
  <2>. QED
    BY <1>3, <2>1, <2>2, <2>3, <2>4 DEF DownloadTypeOK
<1>5. RecordPointsHome /\ Phased
  BY <1>2 DEF DownloadInit, RecordPointsHome, Recorded, Phased
<1>6. CompletedHasReplica /\ ReplicaIsComplete
  BY <1>2 DEF DownloadInit, CompletedHasReplica, ReplicaIsComplete
<1>. QED
  BY <1>1, <1>4, <1>5, <1>6 DEF DInv, Core

\* A step that keeps the executor's place and the gids on record keeps the core.
LEMMA QuietStep ==
  ASSUME Core, Kept,
         UNCHANGED <<dl, gid, unpause, replicas>>,
         forgotten' \subseteq forgotten \cup Gids,
         lapses' \in Nat,
         dl # "none" => pc' = pc /\ witem' = witem,
         pc' = "succeed" => pc = "succeed" /\ witem' = witem,
         record' \in [Items -> [gid : 0 .. Len(tasks), status : TaskStatus \cup {"none", "RUNNING"}]],
         \A i \in Items : record'[i].gid = record[i].gid
  PROVE  Core'
<1>. USE DEF Core, DownloadTypeOK, Phased, Kept, Gids
<1>1. Len(tasks) \in Nat /\ Len(tasks') \in Nat /\ Len(tasks') >= Len(tasks)
  BY LenProperties
<1>2. DownloadTypeOK'
  <2>1. 0 .. Len(tasks) \subseteq 0 .. Len(tasks')
    BY <1>1
  <2>2. [gid : 0 .. Len(tasks), status : TaskStatus \cup {"none", "RUNNING"}]
          \subseteq [gid : 0 .. Len(tasks'), status : TaskStatus \cup {"none", "RUNNING"}]
    BY <2>1
  <2>3. record' \in [Items -> [gid : 0 .. Len(tasks'), status : TaskStatus \cup {"none", "RUNNING"}]]
    BY <2>2
  <2>. QED
    BY <1>1, <2>1, <2>3 DEF Download
<1>3. gid \in 1 .. Len(tasks) \/ gid = 0
  BY <1>1
<1>4. RecordPointsHome'
  <2>1. \A i \in Items : record[i].gid # 0 =>
          record[i].gid \in Gids /\ tasks[record[i].gid].dest = i
    BY <1>1 DEF RecordPointsHome, Recorded
  <2>2. \A i \in Items : record'[i].gid # 0 => tasks'[record'[i].gid].dest = i
    BY <2>1
  <2>3. gid' # 0 => dl # "none" /\ tasks'[gid'].dest = witem
    BY <1>3 DEF RecordPointsHome
  <2>. QED
    BY <2>2, <2>3 DEF RecordPointsHome, Recorded
<1>5. Phased'
  BY <1>1, <1>3
<1>. QED
  BY <1>2, <1>4, <1>5

-----------------------------------------------------------------------------
(***************************************************************************)
(* Control operations.                                                     *)
(***************************************************************************)
LEMMA TellTasksCore ==
  ASSUME Core, NEW request \in {"pause", "unpause", "remove"}, NEW S \in SUBSET Items,
         TellTasks(request, S), UNCHANGED <<pc, witem>>
  PROVE  Core' /\ Kept /\ Registers
<1>. USE DEF Core, DownloadTypeOK
<1>1. After(request) \in TaskStatus
  BY DEF After, TaskStatus
<1>2. \A i \in Recorded(S) : tasks[record[i].gid].status # "complete"
  BY DEF TellTasks, Accepted, Accepts, Live
<1>3. Kept
  BY <1>1, <1>2, SetTasksKept DEF TellTasks, Download
<1>4. /\ record' \in [Items -> [gid : 0 .. Len(tasks), status : TaskStatus \cup {"none", "RUNNING"}]]
      /\ \A i \in Items : record'[i].gid = record[i].gid
  BY <1>1 DEF TellTasks
<1>5. UNCHANGED <<forgotten, replicas, dl, gid, unpause, lapses>>
  BY DEF TellTasks, executor
<1>. QED
  BY <1>3, <1>4, <1>5, QuietStep DEF Registers

LEMMA AbortCore ==
  ASSUME Core, NEW request \in {"pause", "unpause", "remove"}, NEW S \in SUBSET Items,
         Abort(request, S)
  PROVE  Core' /\ Kept /\ Registers
<1>. USE DEF Core, DownloadTypeOK
<1>1. After(request) \in TaskStatus
  BY DEF After, TaskStatus
<1>2. PICK told \in SUBSET Recorded(S) \ {{}} :
         /\ \A i \in told : Accepted(request, record[i].gid)
         /\ SetTasks({record[i].gid : i \in told}, After(request))
         /\ UNCHANGED lapses \/ Lapse
  BY Zenon DEF Abort
<1>2a. lapses' \in Nat
  BY <1>2 DEF Lapse
<1>3. \A i \in told : tasks[record[i].gid].status # "complete"
  BY <1>2 DEF Accepted, Accepts, Live
<1>4. Kept
  BY <1>1, <1>2, <1>3, SetTasksKept DEF Download
<1>5. UNCHANGED <<pc, witem, forgotten, record, replicas, dl, gid, unpause>>
  BY DEF Abort, vars, loop, executor
<1>. QED
  BY <1>2a, <1>4, <1>5, QuietStep DEF Registers

LEMMA ControlCore ==
  ASSUME Core, DownloadControl
  PROVE  Core' /\ Kept /\ Registers
<1>. DEFINE Goal == Core' /\ Kept /\ Registers
<1>0. ASSUME NEW op, Control(op) PROVE UNCHANGED <<pc, witem>>
  BY <1>0 DEF Control, loop
<1>1. ASSUME NEW j \in Jobs, PauseDownloads(j) \/ ResumeDownloads(j) \/ CancelDownloads(j)
      PROVE  Goal
  <2>1. Unsettled(j) \in SUBSET Items /\ Having(j, {"PAUSED"}) \in SUBSET Items
    BY DEF Unsettled, Having, ItemsOf
  <2>2. PauseJob(j) \/ ResumeJob(j) \/ CancelJob(j) => UNCHANGED <<pc, witem>>
    BY <1>0 DEF PauseJob, ResumeJob, CancelJob
  <2>. QED
    BY <1>1, <2>1, <2>2, TellTasksCore, AbortCore
    DEF PauseDownloads, ResumeDownloads, CancelDownloads
<1>2. ASSUME NEW i \in Items, PauseDownload(i) \/ ResumeDownload(i) \/ CancelDownload(i)
      PROVE  Goal
  <2>1. {i} \in SUBSET Items /\ {} \in SUBSET Items
    OBVIOUS
  <2>2. PauseJobItem(i) \/ ResumeJobItem(i) \/ CancelJobItem(i) => UNCHANGED <<pc, witem>>
    BY <1>0 DEF PauseJobItem, ResumeJobItem, CancelJobItem
  <2>. QED
    BY <1>2, <2>1, <2>2, TellTasksCore, AbortCore
    DEF PauseDownload, ResumeDownload, CancelDownload
<1>. QED
  BY <1>1, <1>2 DEF DownloadControl

-----------------------------------------------------------------------------
(***************************************************************************)
(* aria2 and the engine.                                                   *)
(***************************************************************************)
LEMMA TaskEndsCore ==
  ASSUME Core, NEW g \in Gids, TaskEnds(g) \/ TaskForgotten(g)
  PROVE  Core' /\ Kept /\ Registers
<1>. USE DEF Core, DownloadTypeOK
<1>1. CASE TaskEnds(g)
  <2>1. PICK status \in {"complete", "error"} : SetTasks({g}, status)
    BY <1>1 DEF TaskEnds
  <2>2. status \in TaskStatus /\ tasks[g].status # "complete"
    BY <1>1 DEF TaskEnds, TaskStatus
  <2>3. Kept
    BY <2>1, <2>2, SetTasksKept DEF Download
  <2>4. UNCHANGED <<pc, witem, forgotten, record, replicas, dl, gid, unpause, lapses>>
    BY <1>1 DEF TaskEnds, vars, loop, executor
  <2>. QED
    BY <2>3, <2>4, QuietStep DEF Registers
<1>2. CASE TaskForgotten(g)
  <2>1. UNCHANGED <<pc, witem, tasks, record, replicas, dl, gid, unpause, lapses>>
    BY <1>2 DEF TaskForgotten, vars, loop, executor
  <2>2. Kept
    BY <2>1, SameTasksKept DEF Download
  <2>3. forgotten' \subseteq forgotten \cup Gids
    BY <1>2 DEF TaskForgotten
  <2>. QED
    BY <2>1, <2>2, <2>3, QuietStep DEF Registers
<1>. QED
  BY <1>1, <1>2

\* The engine leaves the executor to itself, and only it goes on to "succeed".
LEMMA EngineMoves ==
  ASSUME OtherEngineStep \/ WorkerStep
  PROVE  /\ pc' = "succeed" => pc = "succeed" /\ witem' = witem
         /\ WorkerStep => pc # "exec"
         /\ OtherEngineStep /\ pc = "exec" => pc' = pc /\ witem' = witem
<1>1. CASE OtherEngineStep
  <2>1. ASSUME NEW j \in Jobs, CreateJob(j) \/ RetryJob(j) PROVE UNCHANGED <<pc, witem>>
    BY <2>1 DEF CreateJob, RetryJob, Control, loop
  <2>2. ASSUME NEW i \in Items, Interrupt(i) \/ RetryDue(i) PROVE UNCHANGED <<pc, witem>>
    BY <2>2 DEF Interrupt, RetryDue, loop
  <2>3. ASSUME Fault PROVE pc # "exec" /\ pc' # "succeed"
    BY <2>3 DEF Fault
  <2>4. ASSUME Restart PROVE pc # "exec" /\ pc' # "succeed"
    BY <2>4 DEF Restart, Goto
  <2>5. /\ pc' = "succeed" => pc = "succeed" /\ witem' = witem
        /\ pc = "exec" => pc' = pc /\ witem' = witem
    BY <1>1, <2>1, <2>2, <2>3, <2>4 DEF OtherEngineStep
  <2>6. WorkerStep => pc # "exec"
    BY DEF WorkerStep, Recover, Claim, CreateJobAttempt, NoExecutor, LoadItems, Visit,
           VisitHeld, LoopDone, StartItem, RegisterRunningItem, InspectInterruption,
           RecheckInterrupted, FinishItemCompleted, FinishItemFailed, FinalizeJob,
           CancelPendingItems, SelectCounts, UpdateCounts, FailJob
  <2>. QED
    BY <2>5, <2>6
<1>2. CASE WorkerStep
  <2>1. Recover \/ (\E j \in Jobs : Claim(j)) => pc # "exec" /\ pc' # "succeed"
    BY DEF Recover, Claim, Goto
  <2>2. CreateJobAttempt \/ NoExecutor \/ LoadItems \/ (\E i \in Items : Visit(i))
          => pc # "exec" /\ pc' # "succeed"
    BY DEF CreateJobAttempt, NoExecutor, LoadItems, Visit, Goto
  <2>3. VisitHeld \/ LoopDone \/ StartItem \/ RegisterRunningItem
          => pc # "exec" /\ pc' # "succeed"
    BY DEF VisitHeld, LoopDone, StartItem, RegisterRunningItem, Leave, Goto
  <2>4. InspectInterruption \/ RecheckInterrupted => pc # "exec" /\ pc' # "succeed"
    BY DEF InspectInterruption, RecheckInterrupted, Leave, NextTurn, Goto
  <2>5. FinishItemCompleted \/ FinishItemFailed => pc # "exec" /\ pc' # "succeed"
    BY DEF FinishItemCompleted, FinishItemFailed, NextTurn, Goto
  <2>6. FinalizeJob \/ CancelPendingItems \/ SelectCounts \/ UpdateCounts \/ FailJob
          => pc # "exec" /\ pc' # "succeed"
    BY DEF FinalizeJob, CancelPendingItems, SelectCounts, UpdateCounts, FailJob, Leave, Goto
  <2>7. pc # "exec" /\ pc' # "succeed"
    BY <1>2, <2>1, <2>2, <2>3, <2>4, <2>5, <2>6 DEF WorkerStep
  <2>. QED
    BY <1>2, <2>7
<1>. QED
  BY <1>1, <1>2

LEMMA EngineCore ==
  ASSUME Core, OtherEngineStep \/ DownloadWorkerStep \/ DownloadCrash
  PROVE  Core' /\ Kept /\ Registers
<1>. USE DEF Core, DownloadTypeOK
<1>1. UNCHANGED <<tasks, forgotten, record, replicas, lapses>>
  BY DEF OtherEngineStep, DownloadWorkerStep, DownloadCrash, downloads, external
<1>2. Kept /\ Registers
  BY <1>1, SameTasksKept DEF Download, Registers
<1>3. pc' = "succeed" => pc = "succeed" /\ witem' = witem
  BY EngineMoves DEF DownloadWorkerStep, DownloadCrash, Crash
<1>4. CASE OtherEngineStep
  <2>1. UNCHANGED <<dl, gid, unpause>>
    BY <1>4 DEF OtherEngineStep, downloads, executor
  <2>2. dl # "none" => pc' = pc /\ witem' = witem
    BY <1>4, EngineMoves DEF Phased
  <2>. QED
    BY <1>1, <1>2, <1>3, <2>1, <2>2, QuietStep
<1>5. CASE DownloadWorkerStep
  <2>1. dl = "none" /\ gid = 0
    BY <1>5, EngineMoves DEF Phased, DownloadWorkerStep
  <2>2. UNCHANGED <<gid, unpause>> /\ dl' = IF pc' = "exec" THEN "load" ELSE dl
    BY <1>5 DEF DownloadWorkerStep
  <2>3. DownloadTypeOK'
    BY <1>1, <2>1, <2>2 DEF Phase, Gids
  <2>4. RecordPointsHome'
    BY <1>1, <2>1, <2>2 DEF RecordPointsHome, Recorded
  <2>5. Phased'
    BY <1>1, <1>3, <2>1, <2>2 DEF Phased
  <2>. QED
    BY <1>2, <2>3, <2>4, <2>5
<1>6. CASE DownloadCrash
  <2>1. dl' = "none" /\ gid' = 0 /\ unpause' = FALSE /\ pc' = "down"
    BY <1>6 DEF DownloadCrash, NoExecutorState, Crash
  <2>2. /\ gid' \in 0 .. Len(tasks') /\ dl' \in Phase
        /\ unpause' \in BOOLEAN
    <3>1. Len(tasks') \in Nat
      BY <1>1, LenProperties
    <3>2. gid' \in 0 .. Len(tasks') /\ dl' \in Phase
      BY <2>1, <3>1 DEF Phase
    <3>. QED
      BY <2>1, <3>2
  <2>3. DownloadTypeOK'
    BY <1>1, <2>2 DEF Gids
  <2>4. RecordPointsHome' /\ Phased'
    BY <1>1, <2>1 DEF RecordPointsHome, Recorded, Phased
  <2>. QED
    BY <1>2, <2>3, <2>4
<1>. QED
  BY <1>4, <1>5, <1>6

-----------------------------------------------------------------------------
(***************************************************************************)
(* The executor.                                                           *)
(***************************************************************************)

\* Where a step of the executor may land.
Lands ==
  /\ dl' \in Phase \ {"none", "load"}
  /\ gid' \in 0 .. Len(tasks')
  /\ unpause' \in BOOLEAN
  /\ gid' # 0 => tasks'[gid'].dest = witem
  /\ dl' \in {"recover", "record", "resume", "wait", "upsert"} => gid' # 0
  /\ dl' = "upsert" => tasks'[gid'].status = "complete"
  /\ dl' = "done" => witem \in replicas'

LEMMA Landing ==
  ASSUME Core, Kept, Lands, pc = "exec", witem \in Items,
         UNCHANGED <<pc, witem, forgotten>>, lapses' \in Nat, Registers,
         \/ UNCHANGED record
         \/ record' = [record EXCEPT ![witem] = [gid |-> gid, status |-> "RUNNING"]] /\ gid # 0
  PROVE  Core'
<1>. USE DEF Core, DownloadTypeOK, Kept, Lands
<1>1. Len(tasks) \in Nat /\ Len(tasks') \in Nat /\ Len(tasks') >= Len(tasks)
  BY LenProperties
<1>2. record' \in [Items -> [gid : 0 .. Len(tasks'), status : TaskStatus \cup {"none", "RUNNING"}]]
  <2>1. 0 .. Len(tasks) \subseteq 0 .. Len(tasks')
    BY <1>1
  <2>2. [gid : 0 .. Len(tasks), status : TaskStatus \cup {"none", "RUNNING"}]
          \subseteq [gid : 0 .. Len(tasks'), status : TaskStatus \cup {"none", "RUNNING"}]
    BY <2>1
  <2>3. record' \in [Items -> [gid : 0 .. Len(tasks), status : TaskStatus \cup {"none", "RUNNING"}]]
    OBVIOUS
  <2>. QED
    BY <2>2, <2>3
<1>3. DownloadTypeOK'
  <2>1. forgotten' \subseteq Gids' /\ replicas' \subseteq Items
    BY <1>1 DEF Gids, Registers
  <2>. QED
    BY <1>2, <2>1 DEF Download
<1>4. RecordPointsHome'
  <2>1. \A i \in Items : record'[i].gid # 0 =>
          record'[i].gid \in Gids /\ tasks[record'[i].gid].dest = i
    <3>1. \A i \in Items : record[i].gid # 0 =>
            record[i].gid \in Gids /\ tasks[record[i].gid].dest = i
      BY <1>1 DEF RecordPointsHome, Recorded, Gids
    <3>2. gid # 0 => gid \in Gids /\ tasks[gid].dest = witem
      BY <1>1 DEF RecordPointsHome, Gids
    <3>3. CASE UNCHANGED record
      BY <3>1, <3>3
    <3>4. CASE record' = [record EXCEPT ![witem] = [gid |-> gid, status |-> "RUNNING"]] /\ gid # 0
      <4>1. \A i \in Items : record'[i] = IF i = witem THEN [gid |-> gid, status |-> "RUNNING"] ELSE record[i]
        BY <3>4
      <4>. QED
        BY <3>1, <3>2, <3>4, <4>1
    <3>. QED
      BY <3>3, <3>4
  <2>. QED
    BY <2>1 DEF RecordPointsHome, Recorded
<1>5. Phased'
  BY DEF Phased
<1>. QED
  BY <1>3, <1>4, <1>5

\* The task that recovery settles on belongs to the executor's item.
LEMMA ReclaimHome ==
  ASSUME Core, witem \in Items, gid \in Gids, NEW known \in BOOLEAN, Reclaim(known)
  PROVE  /\ Kept
         /\ gid' \in 0 .. Len(tasks') /\ gid' # 0
         /\ tasks'[gid'].dest = witem
<1>. DEFINE Goal == /\ Kept
                    /\ gid' \in 0 .. Len(tasks') /\ gid' # 0
                    /\ tasks'[gid'].dest = witem
<1>. USE DEF Core, DownloadTypeOK
<1>1. Len(tasks) \in Nat /\ tasks[gid].dest = witem
  BY LenProperties DEF RecordPointsHome, Gids
<1>2. ASSUME AddTask PROVE Goal
  <2>1. Kept /\ gid' \in 1 .. Len(tasks') /\ tasks'[gid'].dest = witem
    BY <1>2, AddTaskKept DEF Download
  <2>2. Len(tasks') \in Nat
    BY <2>1, LenProperties DEF Kept
  <2>. QED
    BY <2>1, <2>2
<1>3. ASSUME NEW g \in Gids, tasks[g].dest = witem, Reuse(g) PROVE Goal
  <2>1. CASE UNCHANGED tasks /\ gid' = g
    BY <1>1, <1>3, <2>1, SameTasksKept DEF Gids, Download
  <2>2. CASE tasks[g].status = "error" /\ SetTasks({g}, "active") /\ gid' = g
    <3>1. Kept /\ Len(tasks') = Len(tasks)
      BY <2>2, SetTasksKept DEF Download, TaskStatus
    <3>. QED
      BY <1>1, <1>3, <2>2, <3>1 DEF Kept, Gids
  <2>. QED
    BY <1>2, <1>3, <2>1, <2>2 DEF Reuse
<1>4. \A g \in ByDestination(witem) : g \in Gids /\ tasks[g].dest = witem
  BY DEF ByDestination, For
<1>. HIDE DEF Goal
<1>5. Goal
  BY <1>1, <1>2, <1>3, <1>4 DEF Reclaim
<1>. QED
  BY <1>5 DEF Goal

LEMMA ExecutorCore ==
  ASSUME Core, TypeInv, ExecutorStep
  PROVE  Core' /\ Kept /\ Registers
<1>. USE DEF Core, DownloadTypeOK
<1>1. pc = "exec" /\ witem \in Items /\ dl \in Phase
  BY DEF ExecutorStep, LoadExternalTaskState, Enqueue, RecoverTask, UpdateExternalTask,
         ResumeTask, Wait, UpsertDownloadedReplica, At, TypeInv, Holds, Turn, Executing
<1>2. /\ gid \in 0 .. Len(tasks) /\ Len(tasks) \in Nat
      /\ gid # 0 => gid \in Gids /\ tasks[gid].dest = witem
  BY LenProperties DEF Gids, RecordPointsHome
<1>3. UNCHANGED <<pc, witem>> /\ UNCHANGED forgotten /\ lapses' \in Nat
  <2>1. ASSUME NEW phase, Continue(phase) PROVE UNCHANGED <<pc, witem>>
    BY <2>1 DEF Continue, vars, loop
  <2>2. UNCHANGED lapses \/ Lapse => lapses' \in Nat
    BY DEF Lapse
  <2>3. LoadExternalTaskState \/ Enqueue \/ RecoverTask
          => UNCHANGED <<pc, witem>> /\ UNCHANGED forgotten /\ lapses' \in Nat
    BY <2>1, <2>2 DEF LoadExternalTaskState, Enqueue, RecoverTask, external
  <2>4. UpdateExternalTask \/ ResumeTask \/ Wait \/ UpsertDownloadedReplica
          => UNCHANGED <<pc, witem>> /\ UNCHANGED forgotten /\ lapses' \in Nat
    BY <2>1, <2>2 DEF UpdateExternalTask, ResumeTask, Wait, UpsertDownloadedReplica, external
  <2>. QED
    BY <2>3, <2>4 DEF ExecutorStep
<1>4. CASE LoadExternalTaskState
  <2>1. UNCHANGED <<tasks, record, replicas>>
    BY <1>4 DEF LoadExternalTaskState, external
  <2>2. Kept /\ Registers
    BY <2>1, SameTasksKept DEF Registers, Download
  <2>3. \/ dl' \in {"enqueue", "canceled", "error"} /\ UNCHANGED <<gid, unpause>>
        \/ /\ dl' = "recover" /\ gid' = record[witem].gid /\ gid' # 0
           /\ unpause' = (/\ item[witem] \in {"QUEUED", "WAITING_RETRY", "RUNNING"}
                          /\ record[witem].status = "paused")
    BY <1>4 DEF LoadExternalTaskState, Continue
  <2>4. unpause' \in BOOLEAN
    BY <2>3
  <2>5. record[witem].gid \in 0 .. Len(tasks)
    BY <1>1
  <2>6. record[witem].gid # 0 => tasks[record[witem].gid].dest = witem
    BY <1>1 DEF RecordPointsHome, Recorded
  <2>7. Lands
    BY <1>2, <2>1, <2>3, <2>4, <2>5, <2>6 DEF Lands, Phase
  <2>. QED
    BY <1>1, <1>3, <2>1, <2>2, <2>7, Landing
<1>5. CASE Enqueue
  <2>1. UNCHANGED <<record, replicas, unpause>>
    BY <1>5 DEF Enqueue
  <2>2. \/ AddTask /\ dl' = "record"
        \/ UNCHANGED <<tasks, gid>> /\ dl' \in {"canceled", "error"}
    BY <1>5 DEF Enqueue, Continue
  <2>3. AddTask => Kept /\ gid' \in 1 .. Len(tasks') /\ tasks'[gid'].dest = witem
    BY <1>1, AddTaskKept DEF Download
  <2>4. Kept
    BY <2>2, <2>3, SameTasksKept DEF Download
  <2>5. Len(tasks') \in Nat
    BY <2>4, LenProperties DEF Kept
  <2>6. Lands
    BY <1>2, <2>1, <2>2, <2>3, <2>5 DEF Lands, Phase
  <2>. QED
    BY <1>1, <1>3, <2>1, <2>4, <2>6, Landing DEF Registers
<1>6. CASE RecoverTask
  <2>1. UNCHANGED <<record, replicas, unpause>>
    BY <1>6 DEF RecoverTask
  <2>2. gid # 0
    BY <1>6 DEF RecoverTask, At, Phased
  <2>3. \/ (\E known \in BOOLEAN : Reclaim(known)) /\ dl' \in {"record", "resume"}
        \/ UNCHANGED <<tasks, gid>> /\ dl' \in {"canceled", "error"}
    <3>1. (gid \notin forgotten) \in BOOLEAN /\ FALSE \in BOOLEAN
      OBVIOUS
    <3>. QED
      BY <1>6, <3>1 DEF RecoverTask, Continue
  <2>4. (\E known \in BOOLEAN : Reclaim(known)) =>
          Kept /\ gid' \in 0 .. Len(tasks') /\ gid' # 0 /\ tasks'[gid'].dest = witem
    BY <1>1, <1>2, <2>2, ReclaimHome
  <2>5. Kept
    BY <2>3, <2>4, SameTasksKept DEF Download
  <2>6. Lands
    BY <1>2, <2>1, <2>3, <2>4 DEF Lands, Phase
  <2>. QED
    BY <1>1, <1>3, <2>1, <2>5, <2>6, Landing DEF Registers
<1>7. CASE UpdateExternalTask
  <2>1. UNCHANGED <<tasks, replicas, gid, unpause>> /\ dl' = "resume" /\ gid # 0
    BY <1>7 DEF UpdateExternalTask, Continue, At, Phased
  <2>2. UNCHANGED record \/ record' = [record EXCEPT ![witem] = [gid |-> gid, status |-> "RUNNING"]]
    BY <1>7 DEF UpdateExternalTask
  <2>3. Kept /\ Registers
    BY <2>1, SameTasksKept DEF Registers, Download
  <2>4. Lands
    BY <1>2, <2>1 DEF Lands, Phase
  <2>. QED
    BY <1>1, <1>3, <2>1, <2>2, <2>3, <2>4, Landing
<1>8. CASE ResumeTask
  <2>1. UNCHANGED <<record, replicas, gid, unpause>> /\ dl' = "wait" /\ gid # 0
    BY <1>8 DEF ResumeTask, Continue, At, Phased
  <2>2. Kept /\ Len(tasks') = Len(tasks)
    <3>1. CASE UNCHANGED tasks
      BY <3>1, SameTasksKept DEF Download
    <3>2. CASE Accepted("unpause", gid) /\ SetTasks({gid}, "active")
      <4>1. tasks[gid].status # "complete"
        BY <3>2 DEF Accepted, Accepts
      <4>. QED
        BY <3>2, <4>1, SetTasksKept DEF Download, TaskStatus
    <3>. QED
      BY <1>8, <3>1, <3>2 DEF ResumeTask
  <2>3. Lands
    BY <1>2, <2>1, <2>2 DEF Lands, Phase, Kept
  <2>. QED
    BY <1>1, <1>3, <2>1, <2>2, <2>3, Landing DEF Registers
<1>9. CASE Wait
  <2>1. UNCHANGED <<tasks, record, replicas, gid, unpause>> /\ gid # 0
    BY <1>9 DEF Wait, At, Phased, external
  <2>2. \/ dl' \in {"canceled", "error"}
        \/ dl' = "upsert" /\ tasks[gid].status = "complete"
    BY <1>9 DEF Wait, Continue
  <2>3. Kept /\ Registers
    BY <2>1, SameTasksKept DEF Registers, Download
  <2>4. Lands
    BY <1>2, <2>1, <2>2 DEF Lands, Phase
  <2>. QED
    BY <1>1, <1>3, <2>1, <2>3, <2>4, Landing
<1>10. CASE UpsertDownloadedReplica
  <2>1. UNCHANGED <<tasks, record, gid, unpause>> /\ dl = "upsert"
    BY <1>10 DEF UpsertDownloadedReplica, At
  <2>2. \/ dl' = "done" /\ replicas' = replicas \cup {witem}
        \/ dl' \in {"canceled", "error"} /\ UNCHANGED replicas
    BY <1>10 DEF UpsertDownloadedReplica, Continue
  <2>3. Kept /\ Registers
    BY <1>1, <2>1, <2>2, SameTasksKept DEF Registers, Download
  <2>4. Lands
    BY <1>2, <2>1, <2>2 DEF Lands, Phase
  <2>. QED
    BY <1>1, <1>3, <2>1, <2>3, <2>4, Landing
<1>. QED
  BY <1>4, <1>5, <1>6, <1>7, <1>8, <1>9, <1>10 DEF ExecutorStep

LEMMA ReturnsCore ==
  ASSUME Core, DownloadReturns
  PROVE  Core' /\ Kept /\ Registers
<1>. USE DEF Core, DownloadTypeOK
<1>1. UNCHANGED <<tasks, forgotten, record, replicas, lapses, witem>>
  BY DEF DownloadReturns, ExecutorReturns, external
<1>2. dl' = "none" /\ gid' = 0 /\ unpause' = FALSE
  BY DEF DownloadReturns, NoExecutorState
<1>3. Kept /\ Registers
  BY <1>1, SameTasksKept DEF Download, Registers
<1>4. pc' = "succeed" => witem \in replicas
  <2>1. pc' = "succeed" => dl = "done"
    BY DEF DownloadReturns
  <2>. QED
    BY <2>1 DEF Phased
<1>5. DownloadTypeOK'
  <2>1. Len(tasks') \in Nat
    BY <1>1, LenProperties
  <2>2. gid' \in 0 .. Len(tasks') /\ dl' \in Phase
    BY <1>2, <2>1 DEF Phase
  <2>3. unpause' \in BOOLEAN
    BY <1>2
  <2>. QED
    BY <1>1, <2>2, <2>3 DEF Gids
<1>6. RecordPointsHome' /\ Phased'
  BY <1>1, <1>2, <1>4 DEF RecordPointsHome, Recorded, Phased
<1>. QED
  BY <1>3, <1>5, <1>6

-----------------------------------------------------------------------------
(***************************************************************************)
(* The theorems.                                                           *)
(***************************************************************************)
LEMMA CoreStep ==
  ASSUME DInv, [DownloadNext]_DownloadVars
  PROVE  Core' /\ Kept /\ Registers
<1>. USE DEF DInv
<1>1. CASE UNCHANGED DownloadVars
  <2>1. /\ UNCHANGED <<pc, witem, tasks, forgotten, record, replicas>>
        /\ UNCHANGED <<dl, gid, unpause, lapses>>
    BY <1>1 DEF DownloadVars, vars, loop, downloads, external, executor
  <2>2. Kept
    BY <2>1, SameTasksKept DEF Core, DownloadTypeOK, Download
  <2>. QED
    BY <2>1, <2>2, QuietStep DEF Core, DownloadTypeOK, Registers
<1>2. CASE DownloadControl
  BY <1>2, ControlCore
<1>3. CASE OtherEngineStep \/ DownloadWorkerStep \/ DownloadCrash
  BY <1>3, EngineCore
<1>4. CASE ExecutorStep
  BY <1>4, ExecutorCore DEF IInv
<1>5. CASE DownloadReturns
  BY <1>5, ReturnsCore
<1>6. CASE \E g \in Gids : TaskEnds(g) \/ TaskForgotten(g)
  BY <1>6, TaskEndsCore
<1>. QED
  BY <1>1, <1>2, <1>3, <1>4, <1>5, <1>6 DEF DownloadNext

LEMMA DInvStep == DInv /\ [DownloadNext]_DownloadVars => DInv'
<1>. SUFFICES ASSUME DInv, [DownloadNext]_DownloadVars PROVE DInv'
  OBVIOUS
<1>. USE DEF DInv
<1>1. [Next]_vars /\ IInv'
  BY StepOfEngine, IInvStep
<1>2. Core' /\ Kept /\ Registers
  BY CoreStep
<1>3. CompletedHasReplica'
  <2>. SUFFICES ASSUME NEW i \in Items, item'[i] = "COMPLETED" PROVE i \in replicas'
    BY DEF CompletedHasReplica
  <2>1. item[i] = "COMPLETED" \/ (FinishItemCompleted /\ i = witem)
    BY <1>1, CompletedItems
  <2>2. i \in replicas
    BY <2>1 DEF CompletedHasReplica, FinishItemCompleted, Core, Phased
  <2>. QED
    BY <1>2, <2>2 DEF Registers
<1>4. ReplicaIsComplete'
  <2>. SUFFICES ASSUME NEW i \in replicas'
                PROVE  \E g \in For(i)' : tasks'[g].status = "complete"
    BY DEF ReplicaIsComplete
  <2>1. PICK g \in For(i) : tasks[g].status = "complete"
    <3>1. CASE i \in replicas
      BY <3>1 DEF ReplicaIsComplete
    <3>2. CASE dl = "upsert" /\ i = witem
      <4>1. gid \in Gids /\ tasks[gid].dest = i /\ tasks[gid].status = "complete"
        BY <3>2, LenProperties DEF Core, DownloadTypeOK, Phased, RecordPointsHome, Gids
      <4>. QED
        BY <4>1 DEF For
    <3>. QED
      BY <1>2, <3>1, <3>2 DEF Registers
  <2>2. g \in For(i)' /\ tasks'[g].status = "complete"
    <3>1. g \in Gids /\ tasks[g].dest = i
      BY <2>1 DEF For
    <3>2. tasks'[g].dest = i /\ tasks'[g].status = "complete"
      BY <1>2, <2>1, <3>1 DEF Kept
    <3>3. Len(tasks) \in Nat /\ Len(tasks') \in Nat /\ Len(tasks') >= Len(tasks)
      BY <1>2, LenProperties DEF Kept, Core, DownloadTypeOK
    <3>4. g \in Gids'
      BY <3>1, <3>3 DEF Gids
    <3>. QED
      BY <3>2, <3>4 DEF For
  <2>. QED
    BY <2>2
<1>. QED
  BY <1>1, <1>2, <1>3, <1>4

LEMMA DownloadInvariance == DownloadSpec => []DInv
BY DInvInit, DInvStep, PTL DEF DownloadSpec

\* Every variable of the download layer keeps its type.
THEOREM DownloadsTyped == DownloadSpec => []DownloadTypeOK
<1>1. DInv => DownloadTypeOK
  BY DEF DInv, Core
<1>. QED
  BY <1>1, DownloadInvariance, PTL

\* A replica is registered only for a file that aria2 downloaded to the end.
THEOREM ReplicasAreComplete == DownloadSpec => []ReplicaIsComplete
<1>1. DInv => ReplicaIsComplete
  BY DEF DInv
<1>. QED
  BY <1>1, DownloadInvariance, PTL

\* No item is shown as COMPLETED without its replica.
THEOREM CompletedAreRegistered == DownloadSpec => []CompletedHasReplica
<1>1. DInv => CompletedHasReplica
  BY DEF DInv
<1>. QED
  BY <1>1, DownloadInvariance, PTL

\* The gid on record for an item, and the one its executor works on, is a
\* download of that item's file.
THEOREM RecordsPointHome == DownloadSpec => []RecordPointsHome
<1>1. DInv => RecordPointsHome
  BY DEF DInv, Core
<1>. QED
  BY <1>1, DownloadInvariance, PTL

-----------------------------------------------------------------------------
(***************************************************************************)
(* No download under way is lost sight of.  What is forgotten has ended,   *)
(* and the download on record when a new one is about to be recorded has   *)
(* ended too, unless a call failed.                                        *)
(***************************************************************************)
Ended(g) == tasks[g].status \notin Live

Traced ==
  /\ \A g \in forgotten : Ended(g)
  /\ dl = "enqueue" => record[witem].gid = 0 \/ lapses > 0
  /\ dl = "recover" => record[witem].gid = gid
  /\ dl = "record" => \/ record[witem].gid \in {0, gid} \/ lapses > 0
                      \/ Ended(record[witem].gid)

Sunk == \A g \in Gids : Ended(g) => Ended(g)'

\* What LostOnlyUnrecorded asks of a step.
Finds == \A g \in Gids : Orphan(g)' /\ ~Orphan(g) => dl = "record" /\ (g = gid \/ lapses > 0)

LEMMA SameFinds ==
  ASSUME UNCHANGED <<tasks, record>>
  PROVE  Finds
BY DEF Finds, Orphan, At

\* A step that keeps the executor's place and the gids on record, and revives no download.
LEMMA QuietTrace ==
  ASSUME Core, Traced, Kept, Sunk, UNCHANGED <<dl, gid>>,
         lapses' \in Nat, lapses' >= lapses,
         \A g \in forgotten' : g \in Gids /\ Ended(g)',
         \A i \in Items : record'[i].gid = record[i].gid,
         dl # "none" => pc' = pc /\ witem' = witem /\ witem \in Items
  PROVE  Traced' /\ Finds
<1>. USE DEF Core, DownloadTypeOK
<1>1. Len(tasks) \in Nat
  BY LenProperties
<1>2. \A i \in Items : record[i].gid = 0 \/ record[i].gid \in Gids
  BY <1>1 DEF Gids
<1>3. Traced'
  BY <1>2 DEF Traced, Sunk, Ended
<1>4. \A g \in Gids : tasks[g].dest \in Items /\ tasks'[g].dest = tasks[g].dest
  <2>1. \A g \in Gids : tasks[g] \in [dest : Items, status : TaskStatus]
    BY ElementOfSeq DEF Gids
  <2>. QED
    BY <2>1 DEF Kept
<1>5. At("record") => At("record")'
  BY DEF At
<1>6. Finds
  BY <1>4, <1>5 DEF Finds, Orphan, Sunk, Ended
<1>. QED
  BY <1>3, <1>6

\* A request that is accepted revives nothing.
LEMMA RequestsSink ==
  ASSUME Core, NEW request \in {"pause", "unpause", "remove"}, NEW S \in SUBSET Items,
         \A i \in S : Accepted(request, record[i].gid),
         SetTasks({record[i].gid : i \in S}, After(request))
  PROVE  Sunk
<1>. USE DEF Core, DownloadTypeOK
<1>1. \A g \in {record[i].gid : i \in S} : ~Ended(g)
  BY DEF Accepted, Accepts, Ended, Live
<1>2. \A g \in Gids \ {record[i].gid : i \in S} : tasks'[g] = tasks[g]
  BY DEF SetTasks
<1>. QED
  BY <1>1, <1>2 DEF Sunk, Ended

LEMMA TellTasksTrace ==
  ASSUME Core, Traced, Kept, NEW request \in {"pause", "unpause", "remove"}, NEW S \in SUBSET Items,
         TellTasks(request, S), UNCHANGED <<pc, witem>>, dl # "none" => witem \in Items
  PROVE  Traced' /\ Finds
<1>. USE DEF Core, DownloadTypeOK
<1>1. \A i \in Items : record'[i].gid = record[i].gid
  BY DEF TellTasks
<1>2. Sunk
  <2>1. Recorded(S) \in SUBSET Items
    BY DEF Recorded
  <2>. QED
    BY <2>1, RequestsSink DEF TellTasks
<1>3. UNCHANGED <<dl, gid, lapses, forgotten>> /\ \A g \in forgotten : g \in Gids /\ Ended(g)'
  BY <1>2 DEF TellTasks, executor, Traced, Sunk
<1>. QED
  BY <1>1, <1>2, <1>3, QuietTrace

LEMMA AbortTrace ==
  ASSUME Core, Traced, Kept, NEW request \in {"pause", "unpause", "remove"}, NEW S \in SUBSET Items,
         Abort(request, S), dl # "none" => witem \in Items
  PROVE  Traced' /\ Finds
<1>. USE DEF Core, DownloadTypeOK
<1>1. PICK told \in SUBSET Recorded(S) \ {{}} :
         /\ \A i \in told : Accepted(request, record[i].gid)
         /\ SetTasks({record[i].gid : i \in told}, After(request))
         /\ UNCHANGED lapses \/ Lapse
  BY Zenon DEF Abort
<1>2. Sunk
  <2>1. told \in SUBSET Items
    BY DEF Recorded
  <2>. QED
    BY <1>1, <2>1, RequestsSink
<1>3. lapses' \in Nat /\ lapses' >= lapses
  BY <1>1 DEF Lapse
<1>4. UNCHANGED <<pc, witem, forgotten, record, dl, gid>>
  BY DEF Abort, vars, loop, executor
<1>5. \A g \in forgotten' : g \in Gids /\ Ended(g)'
  BY <1>2, <1>4 DEF Traced, Sunk
<1>. QED
  BY <1>2, <1>3, <1>4, <1>5, QuietTrace

LEMMA ControlTrace ==
  ASSUME Core, Traced, Kept, DownloadControl, dl # "none" => witem \in Items
  PROVE  Traced' /\ Finds
<1>. DEFINE Goal == Traced' /\ Finds
<1>0. ASSUME NEW op, Control(op) PROVE UNCHANGED <<pc, witem>>
  BY <1>0 DEF Control, loop
<1>1. ASSUME NEW j \in Jobs, PauseDownloads(j) \/ ResumeDownloads(j) \/ CancelDownloads(j)
      PROVE  Goal
  <2>1. Unsettled(j) \in SUBSET Items /\ Having(j, {"PAUSED"}) \in SUBSET Items
    BY DEF Unsettled, Having, ItemsOf
  <2>2. PauseJob(j) \/ ResumeJob(j) \/ CancelJob(j) => UNCHANGED <<pc, witem>>
    BY <1>0 DEF PauseJob, ResumeJob, CancelJob
  <2>. QED
    BY <1>1, <2>1, <2>2, TellTasksTrace, AbortTrace
    DEF PauseDownloads, ResumeDownloads, CancelDownloads
<1>2. ASSUME NEW i \in Items, PauseDownload(i) \/ ResumeDownload(i) \/ CancelDownload(i)
      PROVE  Goal
  <2>1. {i} \in SUBSET Items /\ {} \in SUBSET Items
    OBVIOUS
  <2>2. PauseJobItem(i) \/ ResumeJobItem(i) \/ CancelJobItem(i) => UNCHANGED <<pc, witem>>
    BY <1>0 DEF PauseJobItem, ResumeJobItem, CancelJobItem
  <2>. QED
    BY <1>2, <2>1, <2>2, TellTasksTrace, AbortTrace
    DEF PauseDownload, ResumeDownload, CancelDownload
<1>. QED
  BY <1>1, <1>2 DEF DownloadControl

LEMMA TaskTrace ==
  ASSUME Core, Traced, Kept, NEW g \in Gids, TaskEnds(g) \/ TaskForgotten(g),
         dl # "none" => witem \in Items
  PROVE  Traced' /\ Finds
<1>. USE DEF Core, DownloadTypeOK
<1>1. UNCHANGED <<pc, witem, record, dl, gid, lapses>>
  BY DEF TaskEnds, TaskForgotten, vars, loop, executor
<1>2. Sunk
  <2>1. CASE TaskEnds(g)
    <3>1. PICK status \in {"complete", "error"} : SetTasks({g}, status)
      BY <2>1 DEF TaskEnds
    <3>2. ~Ended(g) /\ \A h \in Gids \ {g} : tasks'[h] = tasks[h]
      BY <2>1, <3>1 DEF TaskEnds, SetTasks, Ended, Live
    <3>. QED
      BY <3>2 DEF Sunk, Ended
  <2>2. CASE TaskForgotten(g)
    BY <2>2 DEF TaskForgotten, Sunk, Ended
  <2>. QED
    BY <2>1, <2>2
<1>3. \A h \in forgotten' : h \in Gids /\ Ended(h)
  BY DEF TaskEnds, TaskForgotten, Traced, Ended
<1>4. \A h \in forgotten' : h \in Gids /\ Ended(h)'
  BY <1>2, <1>3 DEF Sunk
<1>. QED
  BY <1>1, <1>2, <1>4, QuietTrace

LEMMA EngineTrace ==
  ASSUME Core, Traced, Kept, OtherEngineStep \/ DownloadWorkerStep \/ DownloadCrash \/ DownloadReturns,
         dl # "none" => witem \in Items
  PROVE  Traced' /\ Finds
<1>. USE DEF Core, DownloadTypeOK
<1>1. UNCHANGED <<tasks, forgotten, record, lapses>>
  BY DEF OtherEngineStep, DownloadWorkerStep, DownloadCrash, DownloadReturns, downloads, external
<1>2. Finds
  BY <1>1, SameFinds
<1>3. CASE OtherEngineStep
  <2>1. UNCHANGED <<dl, gid>> /\ (dl # "none" => witem' = witem)
    BY <1>3, EngineMoves DEF Phased, OtherEngineStep, downloads, executor
  <2>. QED
    BY <1>1, <1>2, <2>1 DEF Traced, Ended
<1>4. CASE DownloadWorkerStep \/ DownloadCrash \/ DownloadReturns
  <2>1. DownloadWorkerStep => dl = "none"
    BY EngineMoves DEF Phased, DownloadWorkerStep
  <2>2. dl' \in {"none", "load"}
    BY <1>4, <2>1 DEF DownloadWorkerStep, DownloadCrash, DownloadReturns, NoExecutorState
  <2>. QED
    BY <1>1, <1>2, <2>2 DEF Traced, Ended
<1>. QED
  BY <1>3, <1>4

\* Recovery revives no download but the one it settles on.
LEMMA ReclaimRevives ==
  ASSUME Core, gid \in Gids, NEW known \in BOOLEAN, known => gid \notin forgotten, Reclaim(known)
  PROVE  /\ \A g \in Gids : Ended(g) /\ tasks'[g].status \in Live => g = gid' /\ g \notin forgotten
         /\ known /\ gid' # gid => tasks'[gid].status \notin Live
<1>. USE DEF Core, DownloadTypeOK
<1>1. ASSUME AddTask PROVE \A g \in Gids : tasks'[g] = tasks[g]
  <2>1. tasks' = Append(tasks, [dest |-> witem, status |-> "active"]) /\ tasks \in Seq(Download)
    BY <1>1 DEF AddTask, Download
  <2>. QED
    BY <2>1 DEF Gids
<1>2. ASSUME NEW h \in Gids, Reuse(h)
      PROVE  /\ \A g \in Gids : Ended(g) /\ tasks'[g].status \in Live => g = gid' /\ g = h
             /\ gid' # h => tasks'[h].status \notin Live
  <2>1. CASE UNCHANGED tasks /\ gid' = h
    BY <2>1 DEF Ended
  <2>2. CASE SetTasks({h}, "active") /\ gid' = h
    <3>1. \A g \in Gids \ {h} : tasks'[g] = tasks[g]
      BY <2>2 DEF SetTasks
    <3>. QED
      BY <2>2, <3>1 DEF Ended
  <2>3. CASE tasks[h].status \in {"error", "removed"} /\ AddTask
    BY <1>1, <2>3 DEF Ended, Live
  <2>. QED
    BY <1>2, <2>1, <2>2, <2>3 DEF Reuse
<1>3. CASE known /\ Reuse(gid)
  BY <1>2, <1>3
<1>4. CASE ~known /\ (\E g \in ByDestination(witem) : Reuse(g))
  <2>1. PICK h \in ByDestination(witem) : Reuse(h)
    BY <1>4
  <2>2. h \in Gids /\ h \notin forgotten
    BY DEF ByDestination, For
  <2>. QED
    BY <1>2, <1>4, <2>1, <2>2
<1>5. CASE ~known /\ AddTask
  BY <1>1, <1>5 DEF Ended
<1>. QED
  BY <1>3, <1>4, <1>5 DEF Reclaim

LEMMA RecoverTrace ==
  ASSUME Core, Traced, Kept, RecoverTask, witem \in Items
  PROVE  Traced' /\ Finds
<1>. USE DEF Core, DownloadTypeOK
<1>1. /\ dl = "recover" /\ record[witem].gid = gid /\ UNCHANGED <<record, forgotten, witem>>
      /\ Len(tasks) \in Nat
  BY LenProperties DEF RecoverTask, At, Traced, Continue, vars, loop
<1>2. gid \in Gids /\ tasks[gid].dest = witem
  BY <1>1 DEF Phased, RecordPointsHome, Gids
<1>3. CASE UNCHANGED <<tasks, gid>> /\ dl' \in {"canceled", "error"}
  BY <1>1, <1>3, SameFinds DEF Traced, Ended
<1>4. ASSUME NEW known \in BOOLEAN, Reclaim(known),
             IF known THEN gid \notin forgotten ELSE gid \in forgotten \/ Lapse,
             UNCHANGED lapses \/ Lapse,
             dl' = IF gid' # gid THEN "record" ELSE "resume", pc' = "exec"
      PROVE  Traced' /\ Finds
  <2>1. /\ \A g \in Gids : Ended(g) /\ tasks'[g].status \in Live => g = gid' /\ g \notin forgotten
        /\ known /\ gid' # gid => tasks'[gid].status \notin Live
    BY <1>2, <1>4, ReclaimRevives
  <2>2. \A g \in forgotten : tasks'[g].status \notin Live
    BY <2>1 DEF Traced
  <2>3. gid' # gid => tasks'[gid].status \notin Live \/ lapses' > 0
    <3>1. Lapse => lapses' > 0
      BY DEF Lapse
    <3>. QED
      BY <1>4, <2>1, <2>2, <3>1
  <2>4. Traced'
    BY <1>1, <1>4, <2>2, <2>3 DEF Traced, Ended
  <2>5. ASSUME NEW g \in Gids, Orphan(g)' PROVE Orphan(g)
    <3>1. CASE ~Ended(g)
      BY <1>1, <1>2, <2>5, <3>1 DEF Orphan, Ended, At, Kept
    <3>2. CASE Ended(g)
      <4>1. g = gid' /\ tasks'[g].status \in Live
        BY <2>1, <2>5, <3>2 DEF Orphan, Ended
      <4>2. gid' = gid
        BY <1>4, <2>5, <4>1 DEF Orphan, At
      <4>. QED
        BY <1>1, <1>2, <2>5, <4>1, <4>2 DEF Orphan, Kept
    <3>. QED
      BY <3>1, <3>2
  <2>. QED
    BY <2>4, <2>5 DEF Finds
<1>5. \/ UNCHANGED <<tasks, gid>> /\ dl' \in {"canceled", "error"}
      \/ /\ \/ Reclaim(gid \notin forgotten) /\ UNCHANGED lapses
            \/ Reclaim(FALSE) /\ Lapse
         /\ dl' = IF gid' # gid THEN "record" ELSE "resume"
         /\ pc' = "exec"
  BY DEF RecoverTask, Continue, At, vars, loop
<1>6. (gid \notin forgotten) \in BOOLEAN /\ FALSE \in BOOLEAN
  OBVIOUS
<1>. QED
  BY <1>3, <1>4, <1>5, <1>6

LEMMA ExecutorTrace ==
  ASSUME Core, Traced, Kept, ExecutorStep, witem \in Items
  PROVE  Traced' /\ Finds
<1>. USE DEF Core, DownloadTypeOK
<1>1. UNCHANGED witem /\ UNCHANGED forgotten
  BY DEF ExecutorStep, LoadExternalTaskState, Enqueue, RecoverTask, UpdateExternalTask, ResumeTask,
         Wait, UpsertDownloadedReplica, Continue, vars, loop, external
<1>2. CASE LoadExternalTaskState
  <2>1. UNCHANGED <<tasks, record>>
    BY <1>2 DEF LoadExternalTaskState, external
  <2>2. Lapse => lapses' > 0
    BY DEF Lapse
  <2>3. \/ dl' = "enqueue" /\ (record[witem].gid = 0 \/ lapses' > 0)
        \/ dl' = "recover" /\ gid' = record[witem].gid
        \/ dl' \in {"canceled", "error"}
    BY <1>2, <2>2 DEF LoadExternalTaskState, Continue
  <2>. QED
    BY <1>1, <2>1, <2>3, SameFinds DEF Traced, Ended
<1>3. CASE Enqueue
  <2>1. UNCHANGED record /\ dl = "enqueue"
    BY <1>3 DEF Enqueue, At
  <2>2. CASE AddTask /\ dl' = "record" /\ UNCHANGED lapses
    <3>1. \A g \in Gids : tasks'[g] = tasks[g]
      <4>1. tasks' = Append(tasks, [dest |-> witem, status |-> "active"]) /\ tasks \in Seq(Download)
        BY <2>2 DEF AddTask, Download
      <4>. QED
        BY <4>1 DEF Gids
    <3>2. Finds
      BY <2>1, <3>1 DEF Finds, Orphan, At
    <3>3. Traced'
      BY <1>1, <2>1, <2>2, <3>1 DEF Traced, Ended
    <3>. QED
      BY <3>2, <3>3
  <2>3. CASE UNCHANGED tasks /\ dl' \in {"canceled", "error"}
    BY <1>1, <2>1, <2>3, SameFinds DEF Traced, Ended
  <2>. QED
    BY <1>3, <2>2, <2>3 DEF Enqueue, Continue
<1>4. CASE RecoverTask
  BY <1>4, RecoverTrace
<1>5. CASE UpdateExternalTask
  <2>1. UNCHANGED <<tasks, gid>> /\ dl = "record" /\ dl' = "resume"
    BY <1>5 DEF UpdateExternalTask, Continue, At
  <2>2. \A i \in Items \ {witem} : record'[i] = record[i]
    BY <1>5 DEF UpdateExternalTask
  <2>3. ASSUME NEW g \in Gids, Orphan(g)', ~Orphan(g), g # gid PROVE lapses > 0
    <3>1. ~Ended(g) /\ record[tasks[g].dest].gid = g /\ tasks[g].dest = witem
      <4>1. tasks[g].dest \in Items
        <5>1. tasks[g] \in [dest : Items, status : TaskStatus]
          BY ElementOfSeq DEF Gids
        <5>. QED
          BY <5>1
      <4>. QED
        BY <2>1, <2>2, <2>3, <4>1 DEF Orphan, Ended
    <3>2. g # 0
      BY LenProperties DEF Gids
    <3>. QED
      BY <2>1, <2>3, <3>1, <3>2 DEF Traced
  <2>. QED
    BY <1>1, <2>1, <2>3 DEF Finds, Traced, Ended
<1>6. CASE ResumeTask
  <2>1. /\ UNCHANGED <<record, gid, lapses>> /\ dl = "resume" /\ dl' = "wait" /\ gid # 0
    BY <1>6 DEF ResumeTask, Continue, At, Phased
  <2>2. \A g \in Gids : tasks'[g].dest = tasks[g].dest /\ (Ended(g) <=> Ended(g)')
    <3>1. CASE UNCHANGED tasks
      BY <3>1 DEF Ended
    <3>2. CASE Accepted("unpause", gid) /\ SetTasks({gid}, "active")
      <4>1. \A g \in Gids \ {gid} : tasks'[g] = tasks[g]
        BY <3>2 DEF SetTasks
      <4>2. gid \in Gids
        BY <2>1, LenProperties DEF Gids
      <4>3. tasks[gid] \in [dest : Items, status : TaskStatus]
        BY <4>2, ElementOfSeq DEF Gids
      <4>4. tasks'[gid].dest = tasks[gid].dest /\ tasks'[gid].status = "active"
        BY <3>2, <4>2, <4>3 DEF SetTasks
      <4>. QED
        BY <3>2, <4>1, <4>4 DEF Ended, Accepted, Accepts, Live
    <3>. QED
      BY <1>6, <3>1, <3>2 DEF ResumeTask
  <2>3. Finds
    BY <2>1, <2>2 DEF Finds, Orphan, At, Ended
  <2>4. Traced'
    BY <1>1, <2>1, <2>2 DEF Traced
  <2>. QED
    BY <2>3, <2>4
<1>7. CASE Wait \/ UpsertDownloadedReplica
  <2>1. UNCHANGED <<tasks, record>> /\ dl' \in {"canceled", "error", "upsert", "done"}
    BY <1>7 DEF Wait, UpsertDownloadedReplica, Continue, external
  <2>. QED
    BY <1>1, <2>1, SameFinds DEF Traced, Ended
<1>. QED
  BY <1>2, <1>3, <1>4, <1>5, <1>6, <1>7 DEF ExecutorStep

LEMMA TraceStep == DInv /\ Traced /\ [DownloadNext]_DownloadVars => Traced' /\ Finds
<1>. SUFFICES ASSUME DInv, Traced, [DownloadNext]_DownloadVars PROVE Traced' /\ Finds
  OBVIOUS
<1>1. Core /\ Kept
  BY CoreStep DEF DInv
<1>2. dl # "none" => witem \in Items
  BY DEF DInv, Core, Phased, IInv, TypeInv, Holds, Turn, Executing
<1>3. CASE UNCHANGED DownloadVars
  <2>1. UNCHANGED <<tasks, forgotten, record, dl, gid, lapses, witem>>
    BY <1>3 DEF DownloadVars, vars, loop, downloads, external, executor
  <2>. QED
    BY <2>1, SameFinds DEF Traced, Ended
<1>4. CASE ExecutorStep
  <2>1. dl # "none"
    BY <1>4 DEF ExecutorStep, LoadExternalTaskState, Enqueue, RecoverTask, UpdateExternalTask,
                ResumeTask, Wait, UpsertDownloadedReplica, At
  <2>. QED
    BY <1>1, <1>2, <1>4, <2>1, ExecutorTrace
<1>. QED
  BY <1>1, <1>2, <1>3, <1>4, ControlTrace, EngineTrace, TaskTrace DEF DownloadNext

\* A live download is lost sight of only between aria2's answer and its record,
\* through recovery, retries, controls and crashes, unless a call failed.
THEOREM LossesAreUnrecorded == DownloadSpec => LostOnlyUnrecorded
<1>1. DownloadInit => Traced
  BY DEF DownloadInit, Traced
<1>2. Finds => (\A g \in Gids : Orphan(g)' /\ ~Orphan(g) => dl = "record" /\ (g = gid \/ lapses > 0))
  BY DEF Finds
<1>. QED
  BY <1>1, <1>2, TraceStep, DownloadInvariance, PTL DEF DownloadSpec, LostOnlyUnrecorded
=============================================================================
