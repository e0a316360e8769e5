---------------------------- MODULE CloudDownload ----------------------------
(***************************************************************************)
(* Jobs that download from the cloud: the executor of REPLICATE items with *)
(* route DOWNLOAD (assets/heavy_ops_cloud.go), the aria2 process it hands  *)
(* the transfer to (integration/downloader_aria2.go), and what the control *)
(* operations of the job engine do to that process inside their            *)
(* transactions (jobs/service_external_*.go, integration/service.go).      *)
(*                                                                         *)
(* The module extends the job engine: every step of the engine is here,    *)
(* joined with what it does to the downloads, and the executor's single    *)
(* step ExecutorReturns is resolved into the calls it makes.  aria2 is an  *)
(* external process that survives a crash of the service.                  *)
(***************************************************************************)
EXTENDS JobEngine

CONSTANTS
  MaxTasks,  \* bound: downloads aria2 is ever given
  MaxLapses, \* bound: calls of executor and controls that fail by themselves
  Forgetful  \* whether aria2 drops stopped downloads from its list

ASSUME DownloadBounds ==
  /\ MaxTasks \in Nat
  /\ MaxLapses \in Nat
  /\ Forgetful \in BOOLEAN

VARIABLES
  tasks,     \* aria2's downloads in the order they were added; a gid is an index
  forgotten, \* gids aria2 does not know any more
  record,    \* latest external-task event of each item: the gid (0: none), its status
  replicas,  \* items whose replica is registered in the catalogue
  dl,        \* where executeCloudDownloadTask stands
  gid,       \* the task it works on (0: none yet)
  unpause,   \* whether shouldResumeAria2Download held when the record was read
  lapses     \* how much of MaxLapses is used up

external  == <<tasks, forgotten, record, replicas>>
executor  == <<dl, gid, unpause>>
downloads == <<external, executor, lapses>>

TaskStatus == {"active", "paused", "complete", "error", "removed"}
Live       == {"active", "paused"}
Phase == {"none", "load", "recover", "enqueue", "record", "resume", "wait",
          "upsert", "done", "error", "canceled"}

Gids       == 1 .. Len(tasks)
For(i)     == {g \in Gids : tasks[g].dest = i}
Recorded(S) == {i \in S : record[i].gid # 0}

DownloadInit ==
  /\ Init
  /\ tasks = <<>> /\ forgotten = {}
  /\ record = [i \in Items |-> [gid |-> 0, status |-> "none"]]
  /\ replicas = {}
  /\ dl = "none" /\ gid = 0 /\ unpause = FALSE
  /\ lapses = 0

Lapse == lapses < MaxLapses /\ lapses' = lapses + 1

-----------------------------------------------------------------------------
(***************************************************************************)
(* aria2.  A download is active until it completes, fails, or is stopped   *)
(* by a request; requests for one that is not in the right state are       *)
(* refused with an RPC error.                                              *)
(***************************************************************************)
Accepts(request) ==
  CASE request = "pause"   -> {"active"}
    [] request = "unpause" -> {"paused"}
    [] request = "remove"  -> Live

After(request) ==
  CASE request = "pause"   -> "paused"
    [] request = "unpause" -> "active"
    [] request = "remove"  -> "removed"

Accepted(request, g) == g \notin forgotten /\ tasks[g].status \in Accepts(request)

SetTasks(G, status) ==
  tasks' = [g \in Gids |-> IF g \in G THEN [tasks[g] EXCEPT !.status = status] ELSE tasks[g]]

\* A download ends, or a stopped one is dropped from aria2's list.
TaskEnds(g) ==
  /\ tasks[g].status = "active"
  /\ \E status \in {"complete", "error"} : SetTasks({g}, status)
  /\ UNCHANGED <<vars, forgotten, record, replicas, executor, lapses>>

TaskForgotten(g) ==
  /\ Forgetful
  /\ tasks[g].status \notin Live
  /\ g \notin forgotten
  /\ forgotten' = forgotten \cup {g}
  /\ UNCHANGED <<vars, tasks, record, replicas, executor, lapses>>

-----------------------------------------------------------------------------
(***************************************************************************)
(* Control operations.  Inside the transaction, before the commit, the     *)
(* external task of each item concerned is paused, resumed or cancelled;   *)
(* the new status is recorded with the commit.  One refusal, one failed    *)
(* call or a failed commit aborts the operation: the rows are rolled back, *)
(* the tasks already told are not.                                         *)
(***************************************************************************)
TellTasks(request, S) ==
  /\ \A i \in Recorded(S) : Accepted(request, record[i].gid)
  /\ SetTasks({record[i].gid : i \in Recorded(S)}, After(request))
  /\ record' = [i \in Items |->
       IF i \in Recorded(S) THEN [record[i] EXCEPT !.status = After(request)] ELSE record[i]]
  /\ UNCHANGED <<forgotten, replicas, executor, lapses>>

Abort(request, S) ==
  /\ pc # "down"
  /\ \E told \in SUBSET Recorded(S) \ {{}} :
       /\ \A i \in told : Accepted(request, record[i].gid)
       /\ SetTasks({record[i].gid : i \in told}, After(request))
       /\ \/ /\ \E i \in Recorded(S) \ told : ~Accepted(request, record[i].gid)
             /\ UNCHANGED lapses
          \/ Lapse
  /\ UNCHANGED <<vars, forgotten, record, replicas, executor>>

Unsettled(j) == Having(j, ItemStatus \ {"COMPLETED", "CANCELED"})

PauseDownloads(j) ==
  \/ PauseJob(j) /\ TellTasks("pause", Unsettled(j))
  \/ /\ "PauseJob" \in Offered
     /\ job[j] \in {"PENDING", "QUEUED", "RUNNING", "WAITING_RETRY"}
     /\ Abort("pause", Unsettled(j))

ResumeDownloads(j) ==
  \/ ResumeJob(j) /\ TellTasks("unpause", Having(j, {"PAUSED"}))
  \/ /\ "ResumeJob" \in Offered
     /\ job[j] = "PAUSED"
     /\ Abort("unpause", Having(j, {"PAUSED"}))

CancelDownloads(j) ==
  \/ CancelJob(j) /\ TellTasks("remove", Unsettled(j))
  \/ /\ "CancelJob" \in Offered
     /\ job[j] \in {"PENDING", "QUEUED", "RUNNING", "WAITING_RETRY", "PAUSED"}
     /\ Abort("remove", Unsettled(j))

\* Only the task of an item that was RUNNING is paused.
PauseDownload(i) ==
  LET told == IF item[i] = "RUNNING" THEN {i} ELSE {} IN
  \/ PauseJobItem(i) /\ TellTasks("pause", told)
  \/ /\ "PauseJobItem" \in Offered
     /\ job[JobOf[i]] \notin {"COMPLETED", "FAILED", "CANCELED"}
     /\ Abort("pause", told)

ResumeDownload(i) ==
  \/ ResumeJobItem(i) /\ TellTasks("unpause", {i})
  \/ /\ "ResumeJobItem" \in Offered
     /\ item[i] = "PAUSED"
     /\ job[JobOf[i]] \notin {"COMPLETED", "FAILED", "CANCELED"}
     /\ Abort("unpause", {i})

CancelDownload(i) ==
  \/ CancelJobItem(i) /\ TellTasks("remove", {i})
  \/ /\ "CancelJobItem" \in Offered
     /\ item[i] \in {"PENDING", "QUEUED", "RUNNING", "WAITING_RETRY", "PAUSED"}
     /\ job[JobOf[i]] \notin {"COMPLETED", "FAILED", "CANCELED"}
     /\ Abort("remove", {i})

DownloadControl ==
  \/ \E j \in Jobs : PauseDownloads(j) \/ ResumeDownloads(j) \/ CancelDownloads(j)
  \/ \E i \in Items : PauseDownload(i) \/ ResumeDownload(i) \/ CancelDownload(i)

-----------------------------------------------------------------------------
(***************************************************************************)
(* executeCloudDownloadTask, while the engine's worker is in the executor. *)
(* Once its context is cancelled every call it makes fails, so that        *)
(* handleCanceledDownload, which first reads the item, does nothing.       *)
(***************************************************************************)
At(phase) == pc = "exec" /\ dl = phase
Continue(phase) == dl' = phase /\ UNCHANGED vars

\* The replica, the mounts, the source and the record are read.  Without them
\* the executor fails; if only the record cannot be read it starts afresh.
LoadExternalTaskState ==
  /\ At("load")
  /\ \/ /\ ~stopped
        /\ IF record[witem].gid = 0
           THEN Continue("enqueue") /\ UNCHANGED <<gid, unpause>>
           ELSE /\ Continue("recover")
                /\ gid' = record[witem].gid
                /\ unpause' = (/\ item[witem] \in {"QUEUED", "WAITING_RETRY", "RUNNING"}
                               /\ record[witem].status = "paused")
        /\ UNCHANGED lapses
     \/ /\ stopped
        /\ Continue("canceled")
        /\ UNCHANGED <<gid, unpause, lapses>>
     \/ /\ Lapse
        /\ Continue("error") \/ Continue("enqueue")
        /\ UNCHANGED <<gid, unpause>>
  /\ UNCHANGED external

\* Mutant: a download starts in a status nobody handles.
AddTaskWaiting ==
  /\ Len(tasks) < MaxTasks
  /\ tasks' = Append(tasks, [dest |-> witem, status |-> "waiting"])
  /\ gid' = Len(tasks) + 1

AddTask ==
  /\ Len(tasks) < MaxTasks
  /\ tasks' = Append(tasks, [dest |-> witem, status |-> "active"])
  /\ gid' = Len(tasks) + 1

Enqueue ==
  /\ At("enqueue")
  /\ \/ ~stopped /\ AddTask /\ Continue("record") /\ UNCHANGED lapses
     \/ stopped /\ Continue("canceled") /\ UNCHANGED <<tasks, gid, lapses>>
     \/ Lapse /\ Continue("error") /\ UNCHANGED <<tasks, gid>>
  /\ UNCHANGED <<forgotten, record, replicas, unpause>>

\* findTaskByDestination lists the active, then the waiting and paused, then
\* the stopped downloads.
Precedence(g) ==
  CASE tasks[g].status = "active" -> 1
    [] tasks[g].status = "paused" -> 2
    [] OTHER -> 3

\* Mutant: downloads are compared by directory.
ByDirectory(i) ==
  {g \in Gids \ forgotten : \A h \in Gids \ forgotten : Precedence(g) <= Precedence(h)}

ByDestination(i) ==
  {g \in For(i) \ forgotten : \A h \in For(i) \ forgotten : Precedence(g) <= Precedence(h)}

\* Mutant: a paused download is not taken over.
ReuseUnlessPaused(g) ==
  \/ /\ tasks[g].status \in {"active", "complete"}
     /\ UNCHANGED tasks
     /\ gid' = g
  \/ /\ tasks[g].status = "error"
     /\ SetTasks({g}, "active")
     /\ gid' = g
  \/ /\ tasks[g].status \in {"error", "removed", "paused"}
     /\ AddTask

\* recoverAria2Task: a download that is under way or complete is taken over, a
\* failed one is given the new address or replaced, a removed one is replaced.
Reuse(g) ==
  \/ /\ tasks[g].status \in {"active", "paused", "complete"}
     /\ UNCHANGED tasks
     /\ gid' = g
  \/ /\ tasks[g].status = "error"
     /\ SetTasks({g}, "active")
     /\ gid' = g
  \/ /\ tasks[g].status \in {"error", "removed"}
     /\ AddTask

\* The task is looked up by its gid and, failing that, by destination.
Reclaim(known) ==
  \/ known /\ Reuse(gid)
  \/ ~known /\ \E g \in ByDestination(witem) : Reuse(g)
  \/ ~known /\ ByDestination(witem) = {} /\ AddTask

\* Recover; a failed look-up by gid is followed by the one by destination.
RecoverTask ==
  /\ At("recover")
  /\ \/ /\ ~stopped
        /\ \/ Reclaim(gid \notin forgotten) /\ UNCHANGED lapses
           \/ Reclaim(FALSE) /\ Lapse
        /\ Continue(IF gid' # gid THEN "record" ELSE "resume")
     \/ stopped /\ Continue("canceled") /\ UNCHANGED <<tasks, gid, lapses>>
     \/ Lapse /\ Continue("error") /\ UNCHANGED <<tasks, gid>>
  /\ UNCHANGED <<forgotten, record, replicas, unpause>>

\* updateExternalTask: its error is ignored, the gid then goes unrecorded.
UpdateExternalTask ==
  /\ At("record")
  /\ \/ /\ ~stopped
        /\ record' = [record EXCEPT ![witem] = [gid |-> gid, status |-> "RUNNING"]]
        /\ UNCHANGED lapses
     \/ stopped /\ UNCHANGED <<record, lapses>>
     \/ Lapse /\ UNCHANGED record
  /\ Continue("resume")
  /\ UNCHANGED <<tasks, forgotten, replicas, gid, unpause>>

\* The error of Resume is ignored, too.
ResumeTask ==
  /\ At("resume")
  /\ IF unpause /\ ~stopped /\ Accepted("unpause", gid)
     THEN SetTasks({gid}, "active")
     ELSE UNCHANGED tasks
  /\ Continue("wait")
  /\ UNCHANGED <<forgotten, record, replicas, gid, unpause, lapses>>

\* Mutants: any stopped download counts as complete; one that aria2 does not
\* know any more is waited for.
WaitForStopped ==
  /\ At("wait")
  /\ IF stopped THEN Continue("canceled")
     ELSE tasks[gid].status \notin Live /\ Continue("upsert")
  /\ UNCHANGED <<external, gid, unpause, lapses>>

WaitForForgotten ==
  /\ At("wait")
  /\ \/ stopped /\ Continue("canceled")
     \/ gid \notin forgotten /\ tasks[gid].status \in {"error", "removed"} /\ Continue("error")
     \/ gid \notin forgotten /\ tasks[gid].status = "complete" /\ Continue("upsert")
  /\ UNCHANGED <<external, gid, unpause, lapses>>

\* Wait returns when the context is cancelled, when a poll fails, or when the
\* download has ended.
Wait ==
  /\ At("wait")
  /\ \/ stopped /\ Continue("canceled") /\ UNCHANGED lapses
     \/ /\ \/ tasks[gid].status \in {"error", "removed"}
           \/ gid \in forgotten
        /\ Continue("error")
        /\ UNCHANGED lapses
     \/ /\ tasks[gid].status = "complete"
        /\ gid \notin forgotten
        /\ Continue("upsert")
        /\ UNCHANGED lapses
     \/ Lapse /\ Continue("error")
  /\ UNCHANGED <<external, gid, unpause>>

\* Mutant: the error of the transaction is ignored.
UpsertIgnoringErrors ==
  /\ At("upsert")
  /\ \/ ~stopped /\ replicas' = replicas \cup {witem} /\ UNCHANGED lapses
     \/ stopped /\ UNCHANGED <<replicas, lapses>>
     \/ Lapse /\ UNCHANGED replicas
  /\ Continue("done")
  /\ UNCHANGED <<tasks, forgotten, record, gid, unpause>>

UpsertDownloadedReplica ==
  /\ At("upsert")
  /\ \/ ~stopped /\ replicas' = replicas \cup {witem} /\ Continue("done") /\ UNCHANGED lapses
     \/ stopped /\ Continue("canceled") /\ UNCHANGED <<replicas, lapses>>
     \/ Lapse /\ Continue("error") /\ UNCHANGED replicas
  /\ UNCHANGED <<tasks, forgotten, record, gid, unpause>>

ExecutorStep ==
  \/ LoadExternalTaskState \/ Enqueue \/ RecoverTask \/ UpdateExternalTask
  \/ ResumeTask \/ Wait \/ UpsertDownloadedReplica

NoExecutorState == dl' = "none" /\ gid' = 0 /\ unpause' = FALSE

DownloadReturns ==
  /\ ExecutorReturns
  /\ \/ dl = "done" /\ pc' = "succeed"
     \/ dl = "error" /\ pc' = "returned" /\ outcome' = "error"
     \/ dl = "canceled" /\ pc' = "returned" /\ outcome' = "interrupted"
  /\ NoExecutorState
  /\ UNCHANGED <<external, lapses>>

-----------------------------------------------------------------------------
\* Steps of the engine that do not concern the downloads.
OtherEngineStep ==
  /\ \/ \E j \in Jobs : CreateJob(j) \/ RetryJob(j)
     \/ \E i \in Items : Interrupt(i) \/ RetryDue(i)
     \/ Fault \/ Restart
  /\ UNCHANGED downloads

DownloadWorkerStep ==
  /\ WorkerStep
  /\ dl' = IF pc' = "exec" THEN "load" ELSE dl   \* RegisterRunningItem
  /\ UNCHANGED <<external, gid, unpause, lapses>>

DownloadCrash ==
  /\ Crash
  /\ NoExecutorState
  /\ UNCHANGED <<external, lapses>>

DownloadNext ==
  \/ DownloadControl
  \/ OtherEngineStep
  \/ DownloadWorkerStep
  \/ ExecutorStep \/ DownloadReturns
  \/ DownloadCrash
  \/ \E g \in Gids : TaskEnds(g) \/ TaskForgotten(g)

DownloadVars == <<vars, downloads>>
DownloadSpec == DownloadInit /\ [][DownloadNext]_DownloadVars

(***************************************************************************)
(* Besides what the engine may count on: the executor's calls return, and  *)
(* a download under way comes to an end.                                   *)
(***************************************************************************)
DownloadFairSpec ==
  /\ DownloadSpec
  /\ WF_DownloadVars(DownloadWorkerStep)
  /\ WF_DownloadVars(ExecutorStep \/ DownloadReturns)
  /\ \A i \in Items : /\ WF_DownloadVars(Interrupt(i) /\ UNCHANGED downloads)
                      /\ WF_DownloadVars(RetryDue(i) /\ UNCHANGED downloads)
  /\ WF_DownloadVars(Restart /\ UNCHANGED downloads)
  /\ \A g \in 1 .. MaxTasks : WF_DownloadVars(g \in Gids /\ TaskEnds(g))

-----------------------------------------------------------------------------
(***************************************************************************)
(* Properties.                                                             *)
(***************************************************************************)

\* Every variable holds a value its event, row or Go variable can hold.
DownloadTypeOK ==
  /\ tasks \in Seq([dest : Items, status : TaskStatus])
  /\ forgotten \subseteq Gids
  /\ record \in [Items -> [gid : 0 .. Len(tasks), status : TaskStatus \cup {"none", "RUNNING"}]]
  /\ replicas \subseteq Items
  /\ dl \in Phase /\ gid \in 0 .. Len(tasks) /\ unpause \in BOOLEAN
  /\ lapses \in Nat

\* A replica is registered only for a file whose download completed, through
\* pauses, replaced downloads, stale records, crashes and failing calls.
ReplicaIsComplete ==
  \A i \in replicas : \E g \in For(i) : tasks[g].status = "complete"

\* An item that the engine shows as COMPLETED has its replica registered.
CompletedHasReplica ==
  \A i \in Items : item[i] = "COMPLETED" => i \in replicas

\* The gid recorded for an item, and the one its executor works on, is a
\* download of that item's file: controls of one item never stop another's.
RecordPointsHome ==
  /\ \A i \in Recorded(Items) : tasks[record[i].gid].dest = i
  /\ gid # 0 => tasks[gid].dest = witem

\* A live download nobody will find under its item: neither recorded nor the
\* one the executor is about to record.
Orphan(g) ==
  /\ tasks[g].status \in Live
  /\ record[tasks[g].dest].gid # g
  /\ ~(At("record") /\ gid = g)

\* A live download is lost sight of only between aria2's answer and the record
\* of it: recovery, retries and controls never replace one that is still under
\* way, unless a read of the record failed.
LostOnlyUnrecorded ==
  [][\A g \in Gids : Orphan(g)' /\ ~Orphan(g) =>
       dl = "record" /\ (g = gid \/ lapses > 0)]_DownloadVars

\* Left alone by users and spared failing calls, every download job is settled,
\* through crashes, failed and forgotten downloads.
DownloadsSettle ==
  \A j \in Jobs : job[j] = "PENDING" ~> job[j] \in {"COMPLETED", "FAILED", "PARTIAL_SUCCESS"}
=============================================================================
