------------------------------ MODULE Governance ------------------------------
(***************************************************************************)
(* The governance scheduler (services/center/internal/governance): once a  *)
(* second a tick creates the scan jobs and the connection tests of mounts  *)
(* whose time has come, and reports replicas that scans found missing.     *)
(* With it the mount settings that drive it and what a scan job leaves in  *)
(* mount_runtime (storage), and the issues about missing replicas          *)
(* (issues/missing_sync.go).                                               *)
(*                                                                         *)
(* A tick is a sequence of transactions: a mount is claimed in one, its    *)
(* job created in the next.  The worker of the job engine, the handlers of *)
(* the user and a crash come in between.  Each mount holds one replica     *)
(* here; the jobs are those with source_domain SCHEDULED.                  *)
(***************************************************************************)
EXTENDS Naturals, FiniteSets

CONSTANTS
  Mounts,
  Stocked,     \* mounts with a replica whose file may go
  Watched,     \* mounts whose heartbeat policy users set
  Policies,    \* the scan policies a mount may start with
  None,
  Slots,       \* bound: scan jobs of a mount that are kept in view
  MaxControls, \* bound: what users do to jobs, mounts and issues
  MaxMishaps,  \* bound: crashes and calls that fail by themselves
  MaxMoves     \* bound: files that go or come back

ASSUME GovernanceAssumption ==
  /\ IsFiniteSet(Mounts) /\ None \notin Mounts
  /\ Stocked \subseteq Mounts /\ Watched \subseteq Mounts
  /\ Policies \subseteq [Mounts -> {"MANUAL", "SCHEDULED", "ON_START"}]
  /\ Slots \in Nat \ {0}
  /\ {MaxControls, MaxMishaps, MaxMoves} \subseteq Nat

VARIABLES
  policy,   \* mounts.scan_policy; "GONE" once the mount is deleted
  next,     \* next_scan_at: never, still to come, or due
  line,     \* the mounts by COALESCE(next_scan_at, created_at)
  scanned,  \* mounts with a last_scan_at
  jobs,     \* scan jobs: status, and whether a user started it again
  beat,     \* mounts whose heartbeat_policy is not NEVER
  nextBeat, \* next_heartbeat_at
  beatJob,  \* mounts with an active connection test
  half,     \* UpdateLocalFolderHeartbeat between its two statements
  torn,     \* history: mounts where a crash or another request came between them
  tick,     \* where Tick stands
  claimed,  \* the mount whose claim is committed and whose job is not yet created
  present,  \* mounts whose file is there
  row,      \* replica_state of that file
  issue,    \* the issue about it
  controls, mishaps, moves

schedule == <<policy, next, line, scanned>>
beats    == <<beat, nextBeat, beatJob, half, torn>>
ticker   == <<tick, claimed>>
replicas == <<present, row, issue>>
bounds   == <<controls, mishaps, moves>>
vars     == <<schedule, jobs, beats, ticker, replicas, bounds>>

Policy == {"MANUAL", "SCHEDULED", "ON_START", "GONE"}
Time   == {"never", "future", "due"}
Active == {"QUEUED", "RUNNING", "PAUSED"}
Spent  == {"FAILED", "CANCELED"}
NoJob  == [status |-> "none", again |-> FALSE]

\* Mutant: a paused scan does not count.
ActiveScanUnlessPaused(m) == \E s \in 1 .. Slots : jobs[m][s].status \in Active \ {"PAUSED"}

\* Mutant: a scan that has failed counts as well.
ActiveScanOrFailed(m) == \E s \in 1 .. Slots : jobs[m][s].status \in Active \cup {"FAILED"}

ActiveScan(m) == \E s \in 1 .. Slots : jobs[m][s].status \in Active
Alive(m)      == policy[m] # "GONE"

NextScan(p) == IF p = "SCHEDULED" THEN "future" ELSE "never"

\* Every mount once.
Last  == Cardinality(Mounts)
Lines == {l \in [1 .. Last -> Mounts] :
            \A m \in Mounts : \E i \in 1 .. Last : \A j \in 1 .. Last : l[j] = m <=> j = i}

\* Mounts that have just been saved, before the service first runs with them.
GovernanceInit ==
  /\ policy \in Policies
  /\ next = [m \in Mounts |-> NextScan(policy[m])]
  /\ line \in Lines
  /\ scanned = {}
  /\ jobs = [m \in Mounts |-> [s \in 1 .. Slots |-> NoJob]]
  /\ beat \in SUBSET Watched
  /\ nextBeat = [m \in Mounts |-> IF m \in beat THEN "future" ELSE "never"]
  /\ beatJob = {} /\ half = {} /\ torn = {}
  /\ tick = "idle" /\ claimed = None
  /\ present = Mounts
  /\ row = [m \in Mounts |-> "AVAILABLE"]
  /\ issue = [m \in Mounts |-> "none"]
  /\ controls = 0 /\ mishaps = 0 /\ moves = 0

Control == controls < MaxControls /\ controls' = controls + 1 /\ UNCHANGED <<mishaps, moves>>
Mishap  == mishaps < MaxMishaps /\ mishaps' = mishaps + 1 /\ UNCHANGED <<controls, moves>>

Position(m) == CHOOSE i \in 1 .. Last : line[i] = m

\* Mutant: the place the mount had is not given up.
ToTheEndAgain(m) == [line EXCEPT ![Last] = m]

ToTheEnd(m) ==
  [i \in 1 .. Last |-> IF i < Position(m) THEN line[i] ELSE IF i < Last THEN line[i + 1] ELSE m]

Ahead(l, j, k) == \E a, b \in 1 .. Last : a < b /\ l[a] = j /\ l[b] = k

-----------------------------------------------------------------------------
\* Times come in the order of the line.  Intervals are hours, the loops of a tick
\* much shorter: what a loop has put off does not come due while it runs.
ComesDue(m) ==
  /\ tick # "scans"
  /\ next[m] = "future"
  /\ \A k \in Mounts : next[k] = "future" => Position(m) <= Position(k)
  /\ next' = [next EXCEPT ![m] = "due"]
  /\ UNCHANGED <<policy, line, scanned, jobs, beats, ticker, replicas, bounds>>

BeatComesDue(m) ==
  /\ tick # "beats"
  /\ nextBeat[m] = "future"
  /\ nextBeat' = [nextBeat EXCEPT ![m] = "due"]
  /\ UNCHANGED <<schedule, jobs, beat, beatJob, half, torn, ticker, replicas, bounds>>

-----------------------------------------------------------------------------
(***************************************************************************)
(* Tick: all scans, then all connection tests, then the missing replicas;  *)
(* an error ends it.                                                       *)
(***************************************************************************)
TickBegins ==
  /\ tick = "idle"
  /\ tick' = "scans"
  /\ UNCHANGED <<schedule, jobs, beats, claimed, replicas, bounds>>

DueForScan ==
  {m \in Mounts : \/ policy[m] = "SCHEDULED" /\ next[m] = "due"
                  \/ policy[m] = "ON_START" /\ m \notin scanned}

First(S) == CHOOSE m \in S : \A k \in S : Position(m) <= Position(k)

\* Mutant: a scan that is still on is an error, which ends the tick.
ClaimScanActiveIsError ==
  /\ tick = "scans" /\ claimed = None
  /\ IF DueForScan = {}
     THEN tick' = "beats" /\ UNCHANGED <<schedule, claimed>>
     ELSE LET m == First(DueForScan) IN
       /\ next' = [next EXCEPT ![m] = NextScan(policy[m])]
       /\ line' = IF policy[m] = "SCHEDULED" THEN ToTheEnd(m) ELSE line
       /\ IF ActiveScan(m) THEN tick' = "idle" /\ UNCHANGED claimed
                           ELSE claimed' = m /\ UNCHANGED tick
       /\ UNCHANGED <<policy, scanned>>
  /\ UNCHANGED <<jobs, beats, replicas, bounds>>

\* The first due mount is given its next time, whether or not a job of its last
\* one is still on; if one is, no further mount is looked at.
ClaimScan ==
  /\ tick = "scans" /\ claimed = None
  /\ IF DueForScan = {}
     THEN tick' = "beats" /\ UNCHANGED <<schedule, claimed>>
     ELSE LET m == First(DueForScan) IN
       /\ next' = [next EXCEPT ![m] = NextScan(policy[m])]
       /\ line' = IF policy[m] = "SCHEDULED" THEN ToTheEnd(m) ELSE line
       /\ IF ActiveScan(m) THEN tick' = "beats" /\ UNCHANGED claimed
                           ELSE claimed' = m /\ UNCHANGED tick
       /\ UNCHANGED <<policy, scanned>>
  /\ UNCHANGED <<jobs, beats, replicas, bounds>>

\* A slot in view is free, or that of a failed or canceled job is given up.
Free(m) ==
  LET empty == {s \in 1 .. Slots : jobs[m][s].status = "none"}
      spent == {s \in 1 .. Slots : jobs[m][s].status \in Spent}
  IN IF empty # {} THEN empty ELSE spent

CreateScan ==
  /\ tick = "scans" /\ claimed # None
  /\ \E s \in Free(claimed) :
       /\ \A z \in Free(claimed) : s <= z
       /\ jobs' = [jobs EXCEPT ![claimed][s] = [status |-> "QUEUED", again |-> FALSE]]
  /\ claimed' = None
  /\ UNCHANGED <<schedule, beats, tick, replicas, bounds>>

\* The first due heartbeat likewise.
DueForBeat == {m \in Mounts : m \in beat /\ Alive(m) /\ nextBeat[m] = "due"}

ClaimBeat ==
  /\ tick = "beats" /\ claimed = None
  /\ IF DueForBeat = {}
     THEN tick' = "sync" /\ UNCHANGED <<nextBeat, claimed>>
     ELSE \E m \in DueForBeat :
       /\ nextBeat' = [nextBeat EXCEPT ![m] = "future"]
       /\ IF m \in beatJob THEN tick' = "sync" /\ UNCHANGED claimed
                           ELSE claimed' = m /\ UNCHANGED tick
  /\ UNCHANGED <<schedule, jobs, beat, beatJob, half, torn, replicas, bounds>>

CreateBeat ==
  /\ tick = "beats" /\ claimed # None
  /\ beatJob' = beatJob \cup {claimed}
  /\ claimed' = None
  /\ UNCHANGED <<schedule, jobs, beat, nextBeat, half, torn, tick, replicas, bounds>>

Missing  == {m \in Mounts : row[m] = "MISSING" /\ Alive(m)}
Outdated == {m \in Mounts : issue[m] = "OPEN"} \ Missing

\* Mutant: an issue that is there, closed or not, is left as it is.
SyncMissingOnce ==
  /\ tick = "sync"
  /\ issue' = IF Outdated # {} THEN issue
              ELSE [m \in Mounts |-> IF m \in Missing /\ issue[m] = "none" THEN "OPEN" ELSE issue[m]]
  /\ tick' = "idle"
  /\ UNCHANGED <<schedule, jobs, beats, claimed, present, row, bounds>>

\* Issues that are open although their replica is no longer missing are to be
\* resolved one by one while the query that found them still holds the
\* connection of the transaction: the first UPDATE is refused (conn busy) and
\* the whole refresh rolled back.
SyncMissing ==
  /\ tick = "sync"
  /\ issue' = IF Outdated # {} THEN issue
              ELSE [m \in Mounts |->
                      IF m \in Missing /\ issue[m] # "IGNORED" THEN "OPEN" ELSE issue[m]]
  /\ tick' = "idle"
  /\ UNCHANGED <<schedule, jobs, beats, claimed, present, row, bounds>>

TickFails ==
  /\ tick # "idle"
  /\ Mishap
  /\ tick' = "idle" /\ claimed' = None
  /\ UNCHANGED <<schedule, jobs, beats, replicas>>

TickStep == TickBegins \/ ClaimScan \/ CreateScan \/ ClaimBeat \/ CreateBeat \/ SyncMissing

-----------------------------------------------------------------------------
(***************************************************************************)
(* The worker.  That it runs one job at a time, and in which order, is in  *)
(* JobEngine; here it comes to any job that is queued.                     *)
(***************************************************************************)
SetJob(m, s, status) == jobs' = [jobs EXCEPT ![m][s].status = status]

StartScan(m, s) ==
  /\ jobs[m][s].status = "QUEUED"
  /\ SetJob(m, s, "RUNNING")
  /\ UNCHANGED <<schedule, beats, ticker, replicas, bounds>>

Found(m) == [row EXCEPT ![m] = IF m \in present THEN "AVAILABLE" ELSE "MISSING"]

\* A root that cannot be read makes a scan that has failed and a job that has
\* not; an error in writing the result down makes the job fail, with or without
\* the rows, and with or without mount_runtime, which is written before the history.
EndScan(m, s) ==
  /\ jobs[m][s].status = "RUNNING"
  /\ \/ /\ Alive(m)
        /\ jobs' = [jobs EXCEPT ![m][s] = NoJob]
        /\ scanned' = scanned \cup {m}
        /\ \/ row' = Found(m) /\ UNCHANGED bounds
           \/ Mishap /\ UNCHANGED row
     \/ /\ SetJob(m, s, "FAILED")
        /\ \/ /\ Alive(m) /\ Mishap
              /\ row' \in {row, Found(m)}
              /\ scanned' \in {scanned, scanned \cup {m}}
           \/ ~Alive(m) /\ UNCHANGED <<row, scanned, bounds>>
  /\ UNCHANGED <<policy, next, line, beats, ticker, present, issue>>

BeatEnds(m) ==
  /\ m \in beatJob
  /\ beatJob' = beatJob \ {m}
  /\ UNCHANGED <<schedule, jobs, beat, nextBeat, half, torn, ticker, replicas, bounds>>

Crash ==
  /\ Mishap
  /\ jobs' = [m \in Mounts |-> [s \in 1 .. Slots |->
       IF jobs[m][s].status = "RUNNING" THEN [jobs[m][s] EXCEPT !.status = "QUEUED"] ELSE jobs[m][s]]]
  /\ torn' = torn \cup {h[1] : h \in half}
  /\ half' = {}
  /\ tick' = "idle" /\ claimed' = None
  /\ UNCHANGED <<schedule, beat, nextBeat, beatJob, replicas>>

-----------------------------------------------------------------------------
(***************************************************************************)
(* Users: controls of jobs, mount settings, issues; and the files.         *)
(***************************************************************************)
ControlJob(m, s) ==
  /\ Control
  /\ \/ jobs[m][s].status \in {"QUEUED", "RUNNING"} /\ SetJob(m, s, "PAUSED")
     \/ jobs[m][s].status = "PAUSED" /\ SetJob(m, s, "QUEUED")
     \/ jobs[m][s].status \in Active /\ SetJob(m, s, "CANCELED")
     \/ /\ jobs[m][s].status \in Spent
        /\ jobs' = [jobs EXCEPT ![m][s] = [status |-> "QUEUED", again |-> TRUE]]
  /\ UNCHANGED <<schedule, beats, ticker, replicas>>

\* Saving a mount sets its policies and its next times anew; one without a next
\* time is ordered by its creation, which may be anywhere in the line.
SaveLocalFolder(m, p, on) ==
  /\ Control
  /\ Alive(m) /\ p # "GONE"
  /\ policy' = [policy EXCEPT ![m] = p]
  /\ next' = [next EXCEPT ![m] = NextScan(p)]
  /\ IF p = "SCHEDULED" THEN line' = ToTheEnd(m)
     ELSE line' \in {l \in Lines : \A j, k \in Mounts \ {m} : Ahead(line, j, k) => Ahead(l, j, k)}
  /\ beat' = IF on THEN beat \cup {m} ELSE beat \ {m}
  /\ nextBeat' = [nextBeat EXCEPT ![m] = IF on THEN "future" ELSE "never"]
  /\ torn' = IF <<m, ~on>> \in half THEN torn \cup {m} ELSE torn \ {m}
  /\ UNCHANGED <<scanned, jobs, beatJob, half, ticker, replicas>>

DeleteLocalFolder(m) ==
  /\ Control
  /\ Alive(m)
  /\ policy' = [policy EXCEPT ![m] = "GONE"]
  /\ UNCHANGED <<next, line, scanned, jobs, beats, ticker, replicas>>

\* UpdateLocalFolderHeartbeat: the policy, and then the time, with no
\* transaction around them.  Two requests at once for one policy are one here.
SetBeatPolicy(m, on) ==
  /\ Control
  /\ <<m, on>> \notin half
  /\ beat' = IF on THEN beat \cup {m} ELSE beat \ {m}
  /\ half' = half \cup {<<m, on>>}
  /\ torn' = IF <<m, ~on>> \in half THEN torn \cup {m} ELSE torn
  /\ UNCHANGED <<schedule, jobs, nextBeat, beatJob, ticker, replicas>>

\* Mutant: the time is computed whatever the policy.
SetBeatTimeAlways(m, on) ==
  /\ <<m, on>> \in half
  /\ nextBeat' = [nextBeat EXCEPT ![m] = "future"]
  /\ half' = half \ {<<m, on>>}
  /\ UNCHANGED <<schedule, jobs, beat, beatJob, torn, ticker, replicas, bounds>>

SetBeatTime(m, on) ==
  /\ <<m, on>> \in half
  /\ nextBeat' = [nextBeat EXCEPT ![m] = IF on THEN "future" ELSE "never"]
  /\ half' = half \ {<<m, on>>}
  /\ UNCHANGED <<schedule, jobs, beat, beatJob, torn, ticker, replicas, bounds>>

\* Confirmed or archived, ignored for good, or cleared away once it is either.
ActOnIssue(m) ==
  /\ Control
  /\ issue[m] # "none"
  /\ \E s \in {"CLOSED", "IGNORED"} \cup (IF issue[m] = "OPEN" THEN {} ELSE {"none"}) :
       issue' = [issue EXCEPT ![m] = s]
  /\ UNCHANGED <<schedule, jobs, beats, ticker, present, row>>

FileMoves(m) ==
  /\ moves < MaxMoves
  /\ moves' = moves + 1
  /\ present' = IF m \in present THEN present \ {m} ELSE present \cup {m}
  /\ UNCHANGED <<schedule, jobs, beats, ticker, row, issue, controls, mishaps>>

Worker ==
  \/ \E m \in Mounts, s \in 1 .. Slots : StartScan(m, s) \/ EndScan(m, s)
  \/ \E m \in Mounts : BeatEnds(m)

User ==
  \/ \E m \in Mounts, s \in 1 .. Slots : ControlJob(m, s)
  \/ \E m \in Mounts :
       \/ \E p \in Policy, on \in (IF m \in Watched THEN BOOLEAN ELSE {FALSE}) : SaveLocalFolder(m, p, on)
       \/ DeleteLocalFolder(m) \/ ActOnIssue(m)
  \/ \E m \in Stocked : FileMoves(m)
  \/ \E m \in Watched, on \in BOOLEAN : SetBeatPolicy(m, on) \/ SetBeatTime(m, on)

GovernanceNext ==
  \/ \E m \in Mounts : ComesDue(m) \/ BeatComesDue(m)
  \/ TickStep \/ TickFails \/ Worker \/ User \/ Crash

\* The ticker never stops, time passes, and the worker takes up what is queued
\* (JobEngine).
GovernanceFairness ==
  /\ WF_vars(TickStep)
  /\ SF_vars(\E m \in Mounts : ComesDue(m)) /\ SF_vars(\E m \in Mounts : BeatComesDue(m))
  /\ \A m \in Mounts : WF_vars(\E s \in 1 .. Slots : StartScan(m, s) \/ EndScan(m, s))
  /\ WF_vars(\E m \in Mounts : BeatEnds(m))
  /\ WF_vars(\E m \in Watched, on \in BOOLEAN : SetBeatTime(m, on))

GovernanceSpec == GovernanceInit /\ [][GovernanceNext]_vars /\ GovernanceFairness

-----------------------------------------------------------------------------
GovernanceTypeOK ==
  /\ policy \in [Mounts -> Policy]
  /\ next \in [Mounts -> Time] /\ nextBeat \in [Mounts -> Time]
  /\ line \in Lines
  /\ scanned \subseteq Mounts
  /\ jobs \in [Mounts -> [1 .. Slots ->
                 [status : Active \cup Spent \cup {"none"}, again : BOOLEAN]]]
  /\ beat \subseteq Mounts /\ beatJob \subseteq Mounts
  /\ half \subseteq Mounts \X BOOLEAN /\ torn \subseteq Mounts
  /\ tick \in {"idle", "scans", "beats", "sync"} /\ claimed \in Mounts \cup {None}
  /\ present \subseteq Mounts
  /\ row \in [Mounts -> {"AVAILABLE", "MISSING"}]
  /\ issue \in [Mounts -> {"none", "OPEN", "CLOSED", "IGNORED"}]
  /\ controls \in 0 .. MaxControls /\ mishaps \in 0 .. MaxMishaps /\ moves \in 0 .. MaxMoves

\* However ticks, claims, crashes and changes of policy fall, a mount never has
\* two scheduled scans on their way, unless a user started one that failed or was canceled again.
OneScanPerMount ==
  \A m \in Mounts :
    Cardinality({s \in 1 .. Slots : jobs[m][s].status \in Active /\ ~jobs[m][s].again}) <= 1

\* A mount with a heartbeat policy has a next heartbeat and one without has
\* none, except where a crash or a second request tore an update in two.
BeatFollowsPolicy ==
  \A m \in Mounts \ (torn \cup {h[1] : h \in half}) : m \in beat <=> nextBeat[m] # "never"

\* An unfinished scan at start-up heads the line at every tick and ends the loop.
Blocked == \E m \in DueForScan : policy[m] = "ON_START" /\ ActiveScan(m)

Scanning(m) == \E s \in 1 .. Slots : jobs[m][s].status = "RUNNING"
Held(m)     == \E s \in 1 .. Slots : jobs[m][s].status = "PAUSED"

\* A mount with a schedule is scanned for ever, lost claims and failed jobs
\* notwithstanding, unless its scan is left paused or one at start-up blocks the line.
ScansGoOn ==
  \A m \in Mounts :
    <>[](policy[m] = "SCHEDULED" /\ ~Held(m)) /\ []<>~Blocked => []<>Scanning(m)

\* Heartbeats that are due are taken up, whatever becomes of the scans.
BeatsGoOn ==
  \A m \in Watched : []<>(m \notin DueForBeat)

\* A file that stays away from a scheduled mount has an issue, again and again if
\* users close it and not ignore it, unless a recovered replica with an open issue has stopped the
\* refresh for good.
LossIsReported ==
  \A m \in Stocked :
    <>[](policy[m] = "SCHEDULED" /\ ~Held(m) /\ m \notin present)
      /\ []<>~Blocked /\ []<>(Outdated = {})
      => []<>(issue[m] \in {"OPEN", "IGNORED"})
=============================================================================
