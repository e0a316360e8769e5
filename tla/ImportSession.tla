---------------------------- MODULE ImportSession ----------------------------
(***************************************************************************)
(* Imports from a device plugged into the machine of an agent              *)
(* (services/center/internal/importing, services/agent/internal/importing).*)
(* The user chooses a library and targets for files and directories of the *)
(* device and submits; the items of the job have the agent copy the files, *)
(* one call per file, and record what it answers in the report of the      *)
(* import and in the catalogue.                                            *)
(*                                                                         *)
(* The center waits 30 seconds for an answer.  The agent looks whether     *)
(* anybody still waits only before it turns to the next target: a copy     *)
(* that is under way goes on, beside those of a later attempt.             *)
(*                                                                         *)
(* One device with one draft.  Statuses that nothing reads (those of plans *)
(* and reports) are left out; of the session's status only DISCONNECTED    *)
(* is told apart, the one the precheck reads.                              *)
(***************************************************************************)
EXTENDS Naturals, FiniteSets

CONSTANTS
  Files, Targets,
  Picks,        \* entries of the device users choose from, and
  Under,        \* ... the files in them
  Libraries,
  LibraryOf,    \* of a target
  None,
  MaxJobs,      \* bound: submissions
  MaxControls,  \* bound: changes of the draft
  MaxMishaps,   \* bound: crashes, calls that fail by themselves, and times the
                \* device is pulled out or put back
  MaxRetries    \* bound: items executed again, by users or by the engine

ASSUME ImportAssumption ==
  /\ IsFiniteSet(Targets)
  /\ Under \in [Picks -> SUBSET Files]
  /\ LibraryOf \in [Targets -> Libraries]
  /\ None \notin Files \cup Targets \cup Picks \cup Libraries
  /\ {MaxJobs, MaxControls, MaxMishaps, MaxRetries} \subseteq Nat

Jobs  == 1 .. MaxJobs
Calls == 1 .. 2       \* one that is waited for and one that is not
Spots == Files \X Targets

VARIABLES
  connected,           \* the device is plugged in
  session, gone,       \* what the center believes: session_status, disconnected_at
  library, sel,        \* the draft: its library, import_plan_items
  lost,                \* items whose row of import_plan_items was deleted; those of
                       \* the order are items of job 0
  submit, order,       \* where Submit stands, the job it is about to create
  jobs,                \* import jobs and their items
  report,              \* jobs with a report
  work,                \* the executor
  calls,               \* what the agent is doing
  dest,                \* the files on the targets
  replica,             \* ... those in the catalogue
  counted, brought,    \* history: files the report of a job has counted as imported,
                       \* files a job has put in the catalogue
  torn,                \* history: files whose last copy nobody can vouch for
  controls, mishaps, retries

draft  == <<library, sel, lost>>
device == <<connected, session, gone>>
books  == <<report, replica, counted, brought>>
desk   == <<submit, order>>
disks  == <<dest, torn>>
bounds == <<controls, mishaps, retries>>
vars   == <<device, draft, desk, jobs, books, work, calls, disks, bounds>>

ItemStatus == {"none", "QUEUED", "RUNNING", "COMPLETED", "FAILED"}

\* asked: the targets its report sums up; took: those the last execution of an
\* item found chosen.
Job  == [library : Libraries, asked : SUBSET Targets, items : [Picks -> ItemStatus],
         took : [Picks -> SUBSET Targets]]
Order == {o \in Job : \A p \in Picks : o.items[p] \in {"none", "QUEUED"}}
Work == [at : {"idle", "files", "calling", "counted", "closing"},
         job : Jobs \cup {0}, pick : Picks \cup {None}, targets : SUBSET Targets,
         todo : SUBSET Files, file : Files \cup {None},
         good : SUBSET Targets, left : SUBSET Targets, bad : BOOLEAN]
\* heard: the center waits; own: nobody has truncated the file since.
Call == [file : Files, left : SUBSET Targets, on : Targets \cup {None},
         writing : BOOLEAN, own : BOOLEAN, good : SUBSET Targets, heard : BOOLEAN]

ASSUME NoneAssumption == None \notin Call \cup Job

Resting == [at |-> "idle", job |-> 0, pick |-> None, targets |-> {}, todo |-> {},
            file |-> None, good |-> {}, left |-> {}, bad |-> FALSE]

Created == {j \in Jobs : jobs[j] # None}
Chosen  == {p \in Picks : sel[p] # {}}
TargetsOf(l) == {t \in Targets : LibraryOf[t] = l}

\* A draft a user has set up, before the first submission.
ImportInit ==
  /\ connected = TRUE /\ session = "OPEN" /\ gone = FALSE
  /\ library \in Libraries
  /\ sel \in [Picks -> SUBSET TargetsOf(library)]
  /\ lost = {}
  /\ submit = "idle" /\ order = None
  /\ jobs = [j \in Jobs |-> None] /\ report = {}
  /\ work = Resting
  /\ calls = [c \in Calls |-> None]
  /\ dest = [s \in Spots |-> None]
  /\ replica = {} /\ counted = {} /\ brought = {} /\ torn = {}
  /\ controls = 0 /\ mishaps = 0 /\ retries = 0

Control == controls < MaxControls /\ controls' = controls + 1 /\ UNCHANGED <<mishaps, retries>>
Mishap  == mishaps < MaxMishaps /\ mishaps' = mishaps + 1 /\ UNCHANGED <<controls, retries>>

-----------------------------------------------------------------------------
(***************************************************************************)
(* The device and the draft.                                               *)
(***************************************************************************)
Pull ==
  /\ Mishap
  /\ connected' = ~connected
  /\ UNCHANGED <<session, gone, draft, desk, jobs, books, work, calls, disks>>

\* Only a session without a disconnected_at is marked DISCONNECTED.
RefreshSessions ==
  /\ session' = IF connected THEN "OPEN" ELSE IF gone THEN session ELSE "DISCONNECTED"
  /\ gone' = ~connected
  /\ UNCHANGED <<connected, draft, desk, jobs, books, work, calls, disks, bounds>>

\* Mutant: an empty library is accepted.
SetDraftLibraryUnchecked(l) ==
  /\ Control
  /\ library' \in {l, None}
  /\ UNCHANGED <<device, sel, lost, desk, jobs, books, work, calls, disks>>

\* The choices made for the old library stay (the handler empties the targets
\* of import_session_entries, a table that is no longer read).
SetDraftLibrary(l) ==
  /\ Control
  /\ library' = l
  /\ UNCHANGED <<device, sel, lost, desk, jobs, books, work, calls, disks>>

\* Without targets the choice is deleted; made again, it is another row.
SaveSelectionTargets(p, T) ==
  /\ Control
  /\ T \subseteq TargetsOf(library)
  /\ sel' = [sel EXCEPT ![p] = T]
  /\ lost' = IF T = {} THEN lost \cup ((Created \cup {0}) \X {p}) ELSE lost
  /\ UNCHANGED <<device, library, desk, jobs, books, work, calls, disks>>

-----------------------------------------------------------------------------
(***************************************************************************)
(* Submit: the precheck, the job, and then the report, each in a           *)
(* transaction of its own and from what was read before it.  The worker    *)
(* may take the job up before there is a report.                           *)
(***************************************************************************)
BuildSelectionPrecheck ==
  /\ submit = "idle"
  /\ submit' = IF session = "OPEN" /\ Chosen # {} THEN "passed" ELSE "blocked"
  /\ UNCHANGED <<device, draft, order, jobs, books, work, calls, disks, bounds>>

\* The verdict also becomes the session's status, ISSUE or READY, whatever that
\* has become: a session that was found gone is no longer DISCONNECTED.
RefreshPrecheck ==
  /\ submit \in {"passed", "blocked"}
  /\ submit' = IF submit = "passed" THEN "checked" ELSE "idle"
  /\ session' = "OPEN"
  /\ UNCHANGED <<connected, gone, draft, order, jobs, books, work, calls, disks, bounds>>

NewJob == [library |-> library, asked |-> UNION {sel[p] : p \in Picks},
           items |-> [p \in Picks |-> IF p \in Chosen THEN "QUEUED" ELSE "none"],
           took |-> [p \in Picks |-> {}]]

LoadSelections ==
  /\ submit = "checked"
  /\ IF Chosen = {} THEN submit' = "idle" /\ UNCHANGED order
     ELSE submit' = "loaded" /\ order' = NewJob
  /\ lost' = {x \in lost : x[1] # 0}
  /\ UNCHANGED <<device, library, sel, jobs, books, work, calls, disks, bounds>>

CreateJob ==
  /\ submit = "loaded"
  /\ \E j \in Jobs \ Created :
       /\ \A k \in Jobs \ Created : j <= k
       /\ jobs' = [jobs EXCEPT ![j] = order]
       /\ lost' = {<<IF x[1] = 0 THEN j ELSE x[1], x[2]>> : x \in lost}
  /\ submit' = "created" /\ order' = None
  /\ UNCHANGED <<device, library, sel, books, work, calls, disks, bounds>>

\* The report is that of the job just created, the latest.
CreateReport ==
  /\ submit = "created"
  /\ \E j \in Created : (\A k \in Created : k <= j) /\ report' = report \cup {j}
  /\ session' = "OPEN"
  /\ submit' = "idle"
  /\ UNCHANGED <<connected, gone, draft, order, jobs, replica, counted, brought, work,
                 calls, disks, bounds>>

SubmitFails ==
  /\ submit # "idle"
  /\ Mishap
  /\ submit' = "idle" /\ order' = None
  /\ UNCHANGED <<device, draft, jobs, books, work, calls, disks>>

-----------------------------------------------------------------------------
(***************************************************************************)
(* ExecuteImportJobItem.  The engine runs one item at a time (JobEngine).  *)
(***************************************************************************)
J == jobs[work.job]
Closing(bad) == [Resting EXCEPT !.at = "closing", !.job = work.job, !.pick = work.pick, !.bad = bad]
GoesWrong == work' = Closing(TRUE)

SetItem(j, p, status) == jobs' = [jobs EXCEPT ![j].items[p] = status]

\* The choice is read now, not when it was submitted; when its row has gone the
\* item fails at once.  The files of a directory are listed now, too.
StartItem(j, p) ==
  /\ work.at = "idle"
  /\ j \in Created /\ jobs[j].items[p] = "QUEUED"
  /\ IF <<j, p>> \in lost THEN SetItem(j, p, "FAILED") /\ UNCHANGED work
     ELSE /\ jobs' = [jobs EXCEPT ![j].items[p] = "RUNNING", ![j].took[p] = sel[p]]
          /\ work' = IF connected
                     THEN [Resting EXCEPT !.at = "files", !.job = j, !.pick = p,
                                          !.targets = sel[p], !.todo = Under[p]]
                     ELSE [Resting EXCEPT !.at = "closing", !.job = j, !.pick = p, !.bad = TRUE]
  /\ UNCHANGED <<device, draft, desk, books, calls, disks, bounds>>

\* The call, when the agent has room for it in this model.
CallAgent(f) ==
  /\ work.at = "files" /\ f \in work.todo
  /\ work' = [work EXCEPT !.at = "calling", !.file = f, !.todo = @ \ {f}]
  /\ \/ \E c \in Calls :
          /\ calls[c] = None
          /\ \A d \in Calls : calls[d] = None => c <= d
          /\ calls' = [calls EXCEPT ![c] =
               [file |-> f, left |-> work.targets, on |-> None, writing |-> FALSE,
                own |-> FALSE, good |-> {}, heard |-> TRUE]]
     \/ (\A c \in Calls : calls[c] # None) /\ UNCHANGED calls
  /\ UNCHANGED <<device, draft, desk, jobs, books, disks, bounds>>

\* Nobody waits any longer: a call between two targets ends, a copy goes on.
Unheard == [c \in Calls |->
  IF calls[c] = None \/ ~calls[c].heard THEN calls[c]
  ELSE IF calls[c].on = None THEN None
  ELSE [calls[c] EXCEPT !.heard = FALSE, !.left = {}, !.good = {}]]

\* Mutant: the center waits for as long as it takes.
TimeOutNever == FALSE

\* The client gives up after 30 seconds, or the call fails in some other way.
TimeOut ==
  /\ work.at = "calling"
  /\ calls' = Unheard
  /\ GoesWrong
  /\ UNCHANGED <<device, draft, desk, jobs, books, disks, bounds>>

\* The report counts the targets it knows.
Reported(c) == {work.job} \X ({work.file} \X (calls[c].good \cap J.asked))

\* Mutant: that there is no report is not noticed.
RecordOutcomeUnchecked(c) ==
  /\ calls[c] # None /\ calls[c].heard
  /\ calls[c].left = {} /\ calls[c].on = None
  /\ calls' = [calls EXCEPT ![c] = None]
  /\ counted' = IF work.job \in report THEN counted \cup Reported(c) ELSE counted
  /\ work' = [work EXCEPT !.at = "counted", !.good = calls[c].good, !.left = work.targets]
  /\ UNCHANGED <<device, draft, desk, jobs, report, replica, brought, disks, bounds>>

\* Without a report the file is not recorded anywhere.
RecordReportFileOutcome(c) ==
  /\ calls[c] # None /\ calls[c].heard
  /\ calls[c].left = {} /\ calls[c].on = None
  /\ calls' = [calls EXCEPT ![c] = None]
  /\ IF work.job \in report
     THEN /\ counted' = counted \cup Reported(c)
          /\ work' = [work EXCEPT !.at = "counted", !.good = calls[c].good, !.left = work.targets]
     ELSE GoesWrong /\ UNCHANGED counted
  /\ UNCHANGED <<device, draft, desk, jobs, report, replica, brought, disks, bounds>>

Register(t) ==
  /\ replica' = replica \cup {<<work.file, t>>}
  /\ brought' = brought \cup {<<work.job, <<work.file, t>>>>}

\* Mutant: a target that failed is recorded like the others.
IngestUnverified(t) ==
  /\ work.at = "counted" /\ t \in work.left
  /\ IF LibraryOf[t] # J.library THEN GoesWrong /\ UNCHANGED <<replica, brought>>
     ELSE /\ Register(t)
          /\ work' = [work EXCEPT !.left = @ \ {t}, !.bad = @ \/ t \notin work.good]
  /\ UNCHANGED <<device, draft, desk, jobs, report, counted, calls, disks, bounds>>

\* Target by target; a target of another library ends the item.
IngestImportedReplica(t) ==
  /\ work.at = "counted" /\ t \in work.left
  /\ IF t \notin work.good
     THEN /\ work' = [work EXCEPT !.left = @ \ {t}, !.bad = TRUE]
          /\ UNCHANGED <<replica, brought>>
     ELSE IF LibraryOf[t] # J.library THEN GoesWrong /\ UNCHANGED <<replica, brought>>
     ELSE /\ Register(t)
          /\ work' = [work EXCEPT !.left = @ \ {t}]
  /\ UNCHANGED <<device, draft, desk, jobs, report, counted, calls, disks, bounds>>

NextFile ==
  /\ work.at = "counted" /\ work.left = {}
  /\ work' = [work EXCEPT !.at = "files", !.file = None, !.good = {}]
  /\ UNCHANGED <<device, draft, desk, jobs, books, calls, disks, bounds>>

AllFilesDone ==
  /\ work.at = "files" /\ work.todo = {}
  /\ work' = Closing(work.bad)
  /\ UNCHANGED <<device, draft, desk, jobs, books, calls, disks, bounds>>

\* The job's status goes to its report, and with it to the session; without a
\* report the refresh fails.
RefreshReportAggregate == session' = IF work.job \in report THEN "OPEN" ELSE session

\* Mutant: failEntry returns what the refresh returns.
EndItemAnyway ==
  /\ work.at = "closing"
  /\ SetItem(work.job, work.pick, IF work.job \notin report THEN "FAILED" ELSE "COMPLETED")
  /\ RefreshReportAggregate
  /\ work' = Resting
  /\ UNCHANGED <<connected, gone, draft, desk, books, calls, disks, bounds>>

\* completeEntry and failEntry: whatever the files came to, an item without a
\* report fails.
EndItem ==
  /\ work.at = "closing"
  /\ SetItem(work.job, work.pick,
             IF work.bad \/ work.job \notin report THEN "FAILED" ELSE "COMPLETED")
  /\ RefreshReportAggregate
  /\ work' = Resting
  /\ UNCHANGED <<connected, gone, draft, desk, books, calls, disks, bounds>>

RetryItem(j, p) ==
  /\ j \in Created /\ jobs[j].items[p] = "FAILED"
  /\ retries < MaxRetries
  /\ retries' = retries + 1
  /\ SetItem(j, p, "QUEUED")
  /\ UNCHANGED <<device, draft, desk, books, work, calls, disks, controls, mishaps>>

\* The center dies and comes back: the item is executed again.  A call that fails
\* by itself is a timeout; a statement that fails ends the item.
CenterCrashes ==
  /\ Mishap
  /\ jobs' = IF work.at = "idle" THEN jobs
             ELSE [jobs EXCEPT ![work.job].items[work.pick] = "QUEUED"]
  /\ work' = Resting
  /\ submit' = "idle" /\ order' = None
  /\ calls' = Unheard
  /\ UNCHANGED <<device, draft, books, disks>>

StatementFails ==
  /\ work.at \in {"files", "counted"}
  /\ Mishap
  /\ GoesWrong
  /\ UNCHANGED <<device, draft, desk, jobs, books, calls, disks>>

-----------------------------------------------------------------------------
(***************************************************************************)
(* The agent: ExecuteImport and copyFileToLocalPath.                       *)
(***************************************************************************)
Spot(c) == <<calls[c].file, calls[c].on>>
Over(c) == [calls[c] EXCEPT !.on = None, !.writing = FALSE, !.own = FALSE]
After(c, call) == calls' = [calls EXCEPT ![c] = IF call.heard THEN call ELSE None]

BeginTarget(c, t) ==
  /\ calls[c] # None /\ calls[c].on = None
  /\ calls[c].heard /\ t \in calls[c].left
  /\ calls' = [calls EXCEPT ![c].on = t, ![c].left = @ \ {t}]
  /\ UNCHANGED <<device, draft, desk, jobs, books, work, disks, bounds>>

\* The source is opened and the target created or truncated, also under a copy
\* that is going on there.
Truncate(c) ==
  /\ calls[c] # None /\ calls[c].on # None /\ ~calls[c].writing
  /\ connected
  /\ dest' = [dest EXCEPT ![Spot(c)] = "part"]
  /\ calls' = [d \in Calls |->
       IF d = c THEN [calls[d] EXCEPT !.writing = TRUE, !.own = TRUE]
       ELSE IF calls[d] # None /\ Spot(d) = Spot(c) THEN [calls[d] EXCEPT !.own = FALSE]
       ELSE calls[d]]
  /\ UNCHANGED <<device, draft, desk, jobs, books, work, torn, bounds>>

Disturbed(c) == \E d \in Calls \ {c} : calls[d] # None /\ calls[d].writing /\ Spot(d) = Spot(c)

\* Copied, and compared with the source by size and time.  A copy whose file was
\* truncated meanwhile leaves a hole that the comparison may not see.
CopyEnds(c) ==
  /\ calls[c] # None /\ calls[c].writing
  /\ connected
  /\ dest' = IF calls[c].own THEN [dest EXCEPT ![Spot(c)] = "whole"] ELSE dest
  /\ \E passed \in IF dest'[Spot(c)] = "whole" /\ ~Disturbed(c) THEN {TRUE} ELSE BOOLEAN :
       After(c, [Over(c) EXCEPT !.good = IF passed THEN @ \cup {calls[c].on} ELSE @])
  /\ UNCHANGED <<device, draft, desk, jobs, books, work, torn, bounds>>

\* A copy that breaks off and that nobody hears of, or that was over a file the
\* catalogue knows.
Tears(c) == IF calls[c].writing /\ (~calls[c].heard \/ Spot(c) \in replica) THEN {Spot(c)} ELSE {}

CopyFails(c) ==
  /\ calls[c] # None /\ calls[c].on # None
  /\ IF connected THEN Mishap ELSE UNCHANGED bounds
  /\ torn' = torn \cup Tears(c)
  /\ After(c, Over(c))
  /\ UNCHANGED <<device, draft, desk, jobs, books, work, dest>>

AgentCrashes ==
  /\ Mishap
  /\ torn' = torn \cup UNION {Tears(c) : c \in {d \in Calls : calls[d] # None}}
  /\ calls' = [c \in Calls |-> None]
  /\ IF work.at = "calling" THEN GoesWrong ELSE UNCHANGED work
  /\ UNCHANGED <<device, draft, desk, jobs, books, dest>>

-----------------------------------------------------------------------------
Draft  == \/ \E l \in Libraries : SetDraftLibrary(l)
          \/ \E p \in Picks, T \in SUBSET Targets : SaveSelectionTargets(p, T)
Submit == \/ BuildSelectionPrecheck \/ RefreshPrecheck
          \/ LoadSelections \/ CreateJob \/ CreateReport \/ SubmitFails
Execute ==
  \/ TimeOut \/ NextFile \/ AllFilesDone \/ EndItem
  \/ \E f \in Files : CallAgent(f)
  \/ \E t \in Targets : IngestImportedReplica(t)
  \/ \E c \in Calls : RecordReportFileOutcome(c)
Agent == \E c \in Calls :
  Truncate(c) \/ CopyEnds(c) \/ CopyFails(c) \/ \E t \in Targets : BeginTarget(c, t)

ImportNext ==
  \/ Pull \/ RefreshSessions \/ Draft \/ Submit \/ Execute \/ Agent
  \/ \E j \in Jobs, p \in Picks : StartItem(j, p) \/ RetryItem(j, p)
  \/ CenterCrashes \/ StatementFails \/ AgentCrashes

\* The worker goes on with what it has begun, and its client's timeout ends a call
\* the agent does not answer; nothing is assumed of the agent.
ImportSpec == ImportInit /\ [][ImportNext]_vars /\ WF_vars(Execute)

-----------------------------------------------------------------------------
ImportTypeOK ==
  /\ connected \in BOOLEAN /\ session \in {"OPEN", "DISCONNECTED"} /\ gone \in BOOLEAN
  /\ library \in Libraries /\ sel \in [Picks -> SUBSET Targets]
  /\ lost \subseteq (Created \cup {0}) \X Picks
  /\ submit \in {"idle", "passed", "blocked", "checked", "loaded", "created"}
  /\ order \in {None} \cup Order /\ (order = None <=> submit # "loaded")
  /\ jobs \in [Jobs -> {None} \cup Job] /\ report \subseteq Created
  /\ work \in Work
  /\ calls \in [Calls -> {None} \cup Call]
  /\ dest \in [Spots -> {None, "part", "whole"}]
  /\ replica \subseteq Spots /\ torn \subseteq Spots
  /\ counted \subseteq Jobs \X Spots /\ brought \subseteq Created \X Spots
  /\ controls \in 0 .. MaxControls /\ mishaps \in 0 .. MaxMishaps
  /\ retries \in 0 .. MaxRetries

\* What imports put in the catalogue is whole on its target, unless a copy is at
\* work on it, or one that nobody waited for or that went over it was broken off.
ImportedIsWhole ==
  \A s \in replica \ torn :
    dest[s] = "whole" \/ \E c \in Calls : calls[c] # None /\ calls[c].writing /\ Spot(c) = s

\* Whatever the execution of a job puts in the catalogue, the report of that same
\* job has counted, also when the worker overtakes Submit or a crash parts a job
\* from its report: but for targets that were not chosen when the job was submitted.
IngestedIsReported ==
  \A b \in brought : b \in counted \/ b[2][2] \notin jobs[b[1]].asked

\* An item that completes has brought every file of its entry to every target it
\* found chosen, whatever came of earlier attempts.
CompletedIsImported ==
  \A j \in Created, p \in Picks :
    jobs[j].items[p] = "COMPLETED" => Under[p] \X jobs[j].took[p] \subseteq replica

\* Whatever the agent does, the worker gets through with the item in hand.
ItemsEnd == []<>(work.at = "idle")
=============================================================================
