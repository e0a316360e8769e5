-------------------------- MODULE GovernanceProofs --------------------------
(***************************************************************************)
(* What holds of the governance scheduler for any mounts, and any number   *)
(* of ticks, controls, changed settings, crashes and calls that fail.      *)
(***************************************************************************)
EXTENDS Governance, FiniteSetTheorems, WellFoundedInduction, TLAPS

\* A job on its way that no user started again.
Scheduled(m, s) == jobs[m][s].status \in Active /\ ~jobs[m][s].again

\* A claim is held only between its transaction and the next of the same loop.
ClaimIsBrief == tick \in {"idle", "sync"} => claimed = None

\* Nothing has come between the question whether a scan is on and its job.
ClaimIsFresh ==
  \A m \in Mounts, s \in 1 .. Slots : tick = "scans" /\ claimed = m => ~Scheduled(m, s)

AtMostOne == \A m \in Mounts : \A s, z \in 1 .. Slots : Scheduled(m, s) /\ Scheduled(m, z) => s = z

\* An update of the heartbeat that nobody tore still tells the policy.
HalfIsCurrent == \A h \in half : h[1] \notin torn => (h[1] \in beat <=> h[2])

ScansOK == ClaimIsBrief /\ ClaimIsFresh /\ AtMostOne
BeatsOK == HalfIsCurrent /\ BeatFollowsPolicy
IInv    == GovernanceTypeOK /\ ScansOK /\ BeatsOK

LEMMA LastType == Last \in Nat
BY FS_CardinalityType, GovernanceAssumption DEF Last

-----------------------------------------------------------------------------
\* The line: each mount has its place, and some due mount comes first.
LEMMA PositionType ==
  ASSUME line \in Lines, NEW m \in Mounts
  PROVE  Position(m) \in 1 .. Last /\ \A j \in 1 .. Last : line[j] = m <=> j = Position(m)
<1>1. PICK i \in 1 .. Last : \A j \in 1 .. Last : line[j] = m <=> j = i
  BY DEF Lines
<1>2. line[i] = m
  BY <1>1
<1>3. Position(m) \in 1 .. Last /\ line[Position(m)] = m
  BY <1>2, Zenon DEF Position
<1>. QED
  BY <1>1, <1>3

LEMMA FirstType ==
  ASSUME line \in Lines, NEW S \in SUBSET Mounts, S # {}
  PROVE  First(S) \in S
<1>. DEFINE P == {Position(m) : m \in S}
<1>1. P \subseteq Nat /\ P # {}
  <2>1. \A m \in S : Position(m) \in Nat
    BY PositionType, LastType
  <2>. QED
    BY <2>1
<1>2. PICK x \in P : \A y \in P : <<y, x>> \notin OpToRel(<, Nat)
  BY <1>1, NatLessThanWellFounded, WFMin, Zenon
<1>3. \A y \in P : ~(y < x)
  BY <1>1, <1>2, Zenon DEF OpToRel
<1>4. \A y \in P : x <= y
  BY <1>1, <1>3
<1>5. PICK m \in S : Position(m) = x
  OBVIOUS
<1>6. \A k \in S : Position(m) <= Position(k)
  BY <1>4, <1>5
<1>. QED
  BY <1>6, Zenon DEF First

LEMMA ToTheEndType ==
  ASSUME line \in Lines, NEW m \in Mounts
  PROVE  ToTheEnd(m) \in Lines
<1>. DEFINE p == Position(m)  l == ToTheEnd(m)
<1>1. p \in 1 .. Last /\ \A j \in 1 .. Last : line[j] = m <=> j = p
  BY PositionType
<1>2. line \in [1 .. Last -> Mounts] /\ Last \in Nat
  BY LastType DEF Lines
<1>3. l = [i \in 1 .. Last |-> IF i < p THEN line[i] ELSE IF i < Last THEN line[i + 1] ELSE m]
  BY DEF ToTheEnd
<1>. HIDE DEF p, l
<1>4. l \in [1 .. Last -> Mounts]
  BY <1>1, <1>2, <1>3
<1>5. \A k \in Mounts : \E i \in 1 .. Last : \A j \in 1 .. Last : l[j] = k <=> j = i
  <2>. TAKE k \in Mounts
  <2>. PICK q \in 1 .. Last : \A j \in 1 .. Last : line[j] = k <=> j = q
    BY DEF Lines
  <2>1. CASE k = m
    <3>1. \A j \in 1 .. Last : l[j] = k <=> j = Last
      BY <1>1, <1>2, <1>3, <2>1
    <3>. QED
      BY <3>1, <1>2, <1>1
  <2>2. CASE k # m /\ q < p
    <3>1. \A j \in 1 .. Last : l[j] = k <=> j = q
      BY <1>1, <1>2, <1>3, <2>2
    <3>. QED
      BY <3>1
  <2>3. CASE k # m /\ p < q
    <3>1. \A j \in 1 .. Last : l[j] = k <=> j = q - 1
      BY <1>1, <1>2, <1>3, <2>3
    <3>2. q - 1 \in 1 .. Last
      BY <1>1, <1>2, <2>3
    <3>. QED
      BY <3>1, <3>2, Zenon
  <2>4. k # m => q # p
    BY <1>1
  <2>. QED
    BY <2>1, <2>2, <2>3, <2>4, <1>1, <1>2
<1>6. l \in Lines
  BY <1>4, <1>5 DEF Lines
<1>. QED
  BY <1>6 DEF l

-----------------------------------------------------------------------------
(***************************************************************************)
(* Frames: what a step keeps by what it leaves alone.                      *)
(***************************************************************************)
Job == [status : Active \cup Spent \cup {"none"}, again : BOOLEAN]

LEMMA InitHolds == GovernanceInit => IInv
<1>. SUFFICES ASSUME GovernanceInit PROVE IInv
  OBVIOUS
<1>. USE DEF GovernanceInit
<1>1. GovernanceTypeOK
  <2>1. policy \in [Mounts -> Policy] /\ next \in [Mounts -> Time] /\ nextBeat \in [Mounts -> Time]
    BY GovernanceAssumption DEF Policy, Time, NextScan
  <2>2. beat \subseteq Mounts /\ {MaxControls, MaxMishaps, MaxMoves} \subseteq Nat
    BY GovernanceAssumption
  <2>3. jobs \in [Mounts -> [1 .. Slots -> [status : Active \cup Spent \cup {"none"}, again : BOOLEAN]]]
    BY DEF NoJob
  <2>. QED
    BY <2>1, <2>2, <2>3 DEF GovernanceTypeOK
<1>2. ScansOK
  BY DEF ScansOK, ClaimIsBrief, ClaimIsFresh, AtMostOne, Scheduled, NoJob, Active
<1>3. BeatsOK
  BY DEF BeatsOK, HalfIsCurrent, BeatFollowsPolicy
<1>. QED
  BY <1>1, <1>2, <1>3 DEF IInv

\* The jobs stay and the tick goes on without a claim.
LEMMA ScansStay ==
  ASSUME ScansOK, UNCHANGED jobs, UNCHANGED ticker \/ claimed' = None
  PROVE  ScansOK'
BY GovernanceAssumption DEF ScansOK, ClaimIsBrief, ClaimIsFresh, AtMostOne, Scheduled, ticker

\* A job that changes was on its way as a scheduled one before.
LEMMA JobChanges ==
  ASSUME ScansOK, UNCHANGED ticker,
         \A m \in Mounts, s \in 1 .. Slots : Scheduled(m, s)' => Scheduled(m, s)
  PROVE  ScansOK'
BY DEF ScansOK, ClaimIsBrief, ClaimIsFresh, AtMostOne, ticker

LEMMA BeatsStay ==
  ASSUME BeatsOK, UNCHANGED <<beat, nextBeat, half, torn>>
  PROVE  BeatsOK'
BY DEF BeatsOK, HalfIsCurrent, BeatFollowsPolicy

\* The time of a mount is set anew, and not to whether it has one.
LEMMA TimeIsKept ==
  ASSUME BeatsOK, UNCHANGED <<beat, half, torn>>,
         \A m \in Mounts : nextBeat'[m] = "never" <=> nextBeat[m] = "never"
  PROVE  BeatsOK'
BY DEF BeatsOK, HalfIsCurrent, BeatFollowsPolicy

LEMMA SlotTyped ==
  ASSUME GovernanceTypeOK
  PROVE  /\ jobs \in [Mounts -> [1 .. Slots -> Job]]
         /\ \A m \in Mounts, s \in 1 .. Slots : jobs[m][s] \in Job
<1>1. jobs \in [Mounts -> [1 .. Slots -> Job]]
  BY DEF GovernanceTypeOK, Job
<1>. QED
  BY <1>1

-----------------------------------------------------------------------------
(***************************************************************************)
(* Time and ticks.                                                         *)
(***************************************************************************)
LEMMA TimeKeeps ==
  ASSUME IInv, NEW m \in Mounts, ComesDue(m) \/ BeatComesDue(m)
  PROVE  IInv'
<1>1. CASE ComesDue(m)
  <2>1. GovernanceTypeOK'
    BY <1>1 DEF IInv, GovernanceTypeOK, ComesDue, Time, beats, ticker, replicas, bounds
  <2>2. ScansOK' /\ BeatsOK'
    BY <1>1, ScansStay, BeatsStay DEF IInv, ComesDue, beats
  <2>. QED
    BY <2>1, <2>2 DEF IInv
<1>2. CASE BeatComesDue(m)
  <2>1. GovernanceTypeOK'
    BY <1>2 DEF IInv, GovernanceTypeOK, BeatComesDue, Time, schedule, ticker, replicas, bounds
  <2>2. \A k \in Mounts : nextBeat'[k] = "never" <=> nextBeat[k] = "never"
    BY <1>2 DEF IInv, GovernanceTypeOK, BeatComesDue
  <2>3. ScansOK' /\ BeatsOK'
    BY <1>2, <2>2, ScansStay, TimeIsKept DEF IInv, BeatComesDue
  <2>. QED
    BY <2>1, <2>3 DEF IInv
<1>. QED
  BY <1>1, <1>2

LEMMA ClaimScanKeeps ==
  ASSUME IInv, ClaimScan
  PROVE  IInv'
<1>. DEFINE m == First(DueForScan)
<1>1. BeatsOK'
  BY BeatsStay DEF IInv, ClaimScan, beats
<1>2. CASE DueForScan = {}
  <2>1. GovernanceTypeOK'
    BY <1>2 DEF IInv, GovernanceTypeOK, ClaimScan, schedule, beats, replicas, bounds
  <2>2. ScansOK'
    BY <1>2, ScansStay DEF IInv, ClaimScan
  <2>. QED
    BY <1>1, <2>1, <2>2 DEF IInv
<1>3. CASE DueForScan # {}
  <2>1. m \in Mounts
    <3>1. DueForScan \in SUBSET Mounts /\ line \in Lines
      BY DEF DueForScan, IInv, GovernanceTypeOK
    <3>. QED
      BY <1>3, <3>1, FirstType
  <2>2. ToTheEnd(m) \in Lines
    BY <2>1, ToTheEndType DEF IInv, GovernanceTypeOK
  <2>. HIDE DEF m
  <2>3. /\ tick = "scans" /\ claimed = None
        /\ next' = [next EXCEPT ![m] = NextScan(policy[m])]
        /\ line' = IF policy[m] = "SCHEDULED" THEN ToTheEnd(m) ELSE line
        /\ IF ActiveScan(m) THEN tick' = "beats" /\ UNCHANGED claimed
                            ELSE claimed' = m /\ UNCHANGED tick
        /\ UNCHANGED <<policy, scanned, jobs, beats, replicas, bounds>>
    BY <1>3 DEF ClaimScan, m
  <2>4. GovernanceTypeOK'
    BY <2>1, <2>2, <2>3 DEF IInv, GovernanceTypeOK, NextScan, Time, beats, replicas, bounds
  <2>5. CASE ActiveScan(m)
    BY <2>3, <2>4, <2>5, <1>1, ScansStay DEF IInv
  <2>6. CASE ~ActiveScan(m)
    <3>1. \A s \in 1 .. Slots : ~Scheduled(m, s)
      BY <2>6 DEF ActiveScan, Scheduled
    <3>2. ScansOK'
      BY <2>3, <2>6, <3>1 DEF IInv, ScansOK, ClaimIsBrief, ClaimIsFresh, AtMostOne, Scheduled
    <3>. QED
      BY <2>4, <1>1, <3>2 DEF IInv
  <2>. QED
    BY <2>5, <2>6
<1>. QED
  BY <1>2, <1>3

LEMMA CreateScanKeeps ==
  ASSUME IInv, CreateScan
  PROVE  IInv'
<1>1. claimed \in Mounts /\ tick = "scans"
  BY DEF IInv, GovernanceTypeOK, CreateScan
<1>2. PICK s \in Free(claimed) :
        jobs' = [jobs EXCEPT ![claimed][s] = [status |-> "QUEUED", again |-> FALSE]]
  BY DEF CreateScan
<1>3. s \in 1 .. Slots
  BY DEF Free
<1>4. jobs \in [Mounts -> [1 .. Slots -> Job]]
  BY SlotTyped DEF IInv
<1>5. jobs' \in [Mounts -> [1 .. Slots -> Job]]
  BY <1>2, <1>4 DEF Job, Active
<1>6. GovernanceTypeOK'
  BY <1>5 DEF IInv, GovernanceTypeOK, CreateScan, Job, schedule, beats, replicas, bounds
<1>7. \A m \in Mounts, z \in 1 .. Slots : Scheduled(m, z)' => Scheduled(m, z) \/ (m = claimed /\ z = s)
  <2>1. \A m \in Mounts, z \in 1 .. Slots : m # claimed \/ z # s => jobs'[m][z] = jobs[m][z]
    BY <1>1, <1>2, <1>3, <1>4
  <2>. QED
    BY <2>1 DEF Scheduled
<1>8. ScansOK'
  BY <1>1, <1>7, GovernanceAssumption DEF IInv, ScansOK, ClaimIsBrief, ClaimIsFresh, AtMostOne, CreateScan
<1>9. BeatsOK'
  BY BeatsStay DEF IInv, CreateScan, beats
<1>. QED
  BY <1>6, <1>8, <1>9 DEF IInv

LEMMA ClaimBeatKeeps ==
  ASSUME IInv, ClaimBeat
  PROVE  IInv'
<1>1. GovernanceTypeOK'
  BY DEF IInv, GovernanceTypeOK, ClaimBeat, DueForBeat, Time, schedule, replicas, bounds
<1>2. \A k \in Mounts : nextBeat'[k] = "never" <=> nextBeat[k] = "never"
  BY DEF IInv, GovernanceTypeOK, ClaimBeat, DueForBeat
<1>3. BeatsOK'
  BY <1>2, TimeIsKept DEF IInv, ClaimBeat
<1>4. ScansOK'
  BY DEF IInv, ScansOK, ClaimIsBrief, ClaimIsFresh, AtMostOne, Scheduled, ClaimBeat
<1>. QED
  BY <1>1, <1>3, <1>4 DEF IInv

\* The steps of a tick that touch neither scan jobs nor heartbeat times.
LEMMA TickKeeps ==
  ASSUME IInv, TickBegins \/ CreateBeat \/ SyncMissing \/ TickFails
  PROVE  IInv'
<1>1. CASE TickBegins
  <2>1. GovernanceTypeOK'
    BY <1>1 DEF IInv, GovernanceTypeOK, TickBegins, schedule, beats, replicas, bounds
  <2>2. claimed' = None
    BY <1>1 DEF IInv, ScansOK, ClaimIsBrief, TickBegins
  <2>. QED
    BY <1>1, <2>1, <2>2, ScansStay, BeatsStay DEF IInv, TickBegins, beats
<1>2. CASE CreateBeat
  <2>1. GovernanceTypeOK'
    BY <1>2 DEF IInv, GovernanceTypeOK, CreateBeat, schedule, replicas, bounds
  <2>. QED
    BY <1>2, <2>1, ScansStay, BeatsStay DEF IInv, CreateBeat
<1>3. CASE SyncMissing
  <2>1. GovernanceTypeOK'
    BY <1>3 DEF IInv, GovernanceTypeOK, SyncMissing, schedule, beats, bounds
  <2>2. claimed' = None
    BY <1>3 DEF IInv, ScansOK, ClaimIsBrief, SyncMissing
  <2>. QED
    BY <1>3, <2>1, <2>2, ScansStay, BeatsStay DEF IInv, SyncMissing, beats
<1>4. CASE TickFails
  <2>1. GovernanceTypeOK'
    BY <1>4, GovernanceAssumption
    DEF IInv, GovernanceTypeOK, TickFails, Mishap, schedule, beats, replicas
  <2>. QED
    BY <1>4, <2>1, ScansStay, BeatsStay DEF IInv, TickFails, beats
<1>. QED
  BY <1>1, <1>2, <1>3, <1>4

-----------------------------------------------------------------------------
(***************************************************************************)
(* The worker, users and crashes.                                          *)
(***************************************************************************)
\* One slot of one mount changes, to a job that is scheduled only if it was.
LEMMA SlotChanges ==
  ASSUME IInv, NEW m \in Mounts, NEW s \in 1 .. Slots, NEW j \in Job, UNCHANGED ticker,
         jobs' = [jobs EXCEPT ![m][s] = j],
         j.status \in Active /\ ~j.again => Scheduled(m, s)
  PROVE  jobs' \in [Mounts -> [1 .. Slots -> Job]] /\ ScansOK'
<1>1. jobs \in [Mounts -> [1 .. Slots -> Job]]
  BY SlotTyped DEF IInv
<1>2. jobs' \in [Mounts -> [1 .. Slots -> Job]]
  BY <1>1
<1>3. \A k \in Mounts, z \in 1 .. Slots : jobs'[k][z] = IF k = m /\ z = s THEN j ELSE jobs[k][z]
  BY <1>1
<1>4. \A k \in Mounts, z \in 1 .. Slots : Scheduled(k, z)' => Scheduled(k, z)
  BY <1>3 DEF Scheduled
<1>. QED
  BY <1>2, <1>4, JobChanges DEF IInv

\* A status is written into a job that is on its way.
LEMMA StatusChanges ==
  ASSUME IInv, NEW m \in Mounts, NEW s \in 1 .. Slots, NEW t \in Active \cup Spent,
         UNCHANGED ticker, SetJob(m, s, t), jobs[m][s].status \in Active
  PROVE  jobs' \in [Mounts -> [1 .. Slots -> Job]] /\ ScansOK'
<1>. DEFINE j == [jobs[m][s] EXCEPT !.status = t]
<1>1. jobs \in [Mounts -> [1 .. Slots -> Job]] /\ jobs[m][s] \in Job
  BY SlotTyped DEF IInv
<1>2. j \in Job /\ (j.status \in Active /\ ~j.again => Scheduled(m, s))
  BY <1>1 DEF Job, Scheduled, Spent
<1>3. jobs' = [jobs EXCEPT ![m][s] = j]
  BY <1>1 DEF SetJob
<1>. QED
  BY <1>2, <1>3, SlotChanges

LEMMA WorkerKeeps ==
  ASSUME IInv, NEW m \in Mounts, NEW s \in 1 .. Slots, StartScan(m, s) \/ EndScan(m, s) \/ BeatEnds(m)
  PROVE  IInv'
<1>1. CASE StartScan(m, s)
  <2>1. jobs' \in [Mounts -> [1 .. Slots -> Job]] /\ ScansOK'
    BY <1>1, StatusChanges DEF StartScan, Active
  <2>2. GovernanceTypeOK'
    BY <1>1, <2>1
    DEF IInv, GovernanceTypeOK, StartScan, Job, schedule, beats, ticker, replicas, bounds
  <2>. QED
    BY <1>1, <2>1, <2>2, BeatsStay DEF IInv, StartScan, beats
<1>2. CASE EndScan(m, s)
  <2>1. jobs' \in [Mounts -> [1 .. Slots -> Job]] /\ ScansOK'
    <3>1. CASE jobs' = [jobs EXCEPT ![m][s] = NoJob]
      BY <1>2, <3>1, SlotChanges DEF EndScan, NoJob, Job, Active
    <3>2. CASE SetJob(m, s, "FAILED")
      BY <1>2, <3>2, StatusChanges DEF EndScan, Active, Spent
    <3>. QED
      BY <1>2, <3>1, <3>2 DEF EndScan
  <2>2. row' \in [Mounts -> {"AVAILABLE", "MISSING"}]
    BY <1>2 DEF IInv, GovernanceTypeOK, EndScan, Found
  <2>3. mishaps' \in 0 .. MaxMishaps /\ UNCHANGED <<controls, moves>> /\ scanned' \subseteq Mounts
    BY <1>2, GovernanceAssumption DEF IInv, GovernanceTypeOK, EndScan, Mishap, bounds
  <2>4. GovernanceTypeOK'
    BY <1>2, <2>1, <2>2, <2>3 DEF IInv, GovernanceTypeOK, EndScan, Job, beats, ticker
  <2>. QED
    BY <1>2, <2>1, <2>4, BeatsStay DEF IInv, EndScan, beats
<1>3. CASE BeatEnds(m)
  <2>1. GovernanceTypeOK'
    BY <1>3 DEF IInv, GovernanceTypeOK, BeatEnds, schedule, ticker, replicas, bounds
  <2>. QED
    BY <1>3, <2>1, ScansStay, BeatsStay DEF IInv, BeatEnds
<1>. QED
  BY <1>1, <1>2, <1>3

LEMMA CrashKeeps ==
  ASSUME IInv, Crash
  PROVE  IInv'
<1>1. jobs \in [Mounts -> [1 .. Slots -> Job]]
  BY SlotTyped DEF IInv
<1>2. jobs' \in [Mounts -> [1 .. Slots -> Job]]
  <2>. DEFINE After(m, s) ==
         IF jobs[m][s].status = "RUNNING" THEN [jobs[m][s] EXCEPT !.status = "QUEUED"] ELSE jobs[m][s]
  <2>1. ASSUME NEW m \in Mounts, NEW s \in 1 .. Slots PROVE After(m, s) \in Job
    <3>1. jobs[m][s] \in Job
      BY <1>1
    <3>. QED
      BY <3>1 DEF Job, Active
  <2>2. jobs' = [m \in Mounts |-> [s \in 1 .. Slots |-> After(m, s)]]
    BY DEF Crash
  <2>. HIDE DEF After
  <2>. QED
    BY <2>1, <2>2
<1>3. \A m \in Mounts, s \in 1 .. Slots : Scheduled(m, s)' => Scheduled(m, s)
  BY <1>1 DEF Crash, Scheduled, Job, Active
<1>4. ScansOK'
  BY <1>3, GovernanceAssumption DEF IInv, ScansOK, ClaimIsBrief, ClaimIsFresh, AtMostOne, Crash
<1>5. torn' \subseteq Mounts
  BY DEF IInv, GovernanceTypeOK, Crash
<1>6. GovernanceTypeOK'
  BY <1>2, <1>5, GovernanceAssumption
  DEF IInv, GovernanceTypeOK, Crash, Mishap, Job, schedule, replicas
<1>7. BeatsOK'
  BY DEF IInv, BeatsOK, HalfIsCurrent, BeatFollowsPolicy, Crash
<1>. QED
  BY <1>4, <1>6, <1>7 DEF IInv

LEMMA ControlJobKeeps ==
  ASSUME IInv, NEW m \in Mounts, NEW s \in 1 .. Slots, ControlJob(m, s)
  PROVE  IInv'
<1>1. jobs' \in [Mounts -> [1 .. Slots -> Job]] /\ ScansOK'
  <2>1. CASE jobs[m][s].status \in {"QUEUED", "RUNNING"} /\ SetJob(m, s, "PAUSED")
    BY <2>1, StatusChanges DEF ControlJob, Active
  <2>2. CASE jobs[m][s].status = "PAUSED" /\ SetJob(m, s, "QUEUED")
    BY <2>2, StatusChanges DEF ControlJob, Active
  <2>3. CASE jobs[m][s].status \in Active /\ SetJob(m, s, "CANCELED")
    BY <2>3, StatusChanges DEF ControlJob, Spent
  <2>4. CASE jobs' = [jobs EXCEPT ![m][s] = [status |-> "QUEUED", again |-> TRUE]]
    BY <2>4, SlotChanges DEF ControlJob, Job, Active
  <2>. QED
    BY <2>1, <2>2, <2>3, <2>4 DEF ControlJob
<1>2. GovernanceTypeOK'
  BY <1>1, GovernanceAssumption
  DEF IInv, GovernanceTypeOK, ControlJob, Control, Job, schedule, beats, ticker, replicas
<1>. QED
  BY <1>1, <1>2, BeatsStay DEF IInv, ControlJob, beats

LEMMA SaveLocalFolderKeeps ==
  ASSUME IInv, NEW m \in Mounts, NEW p \in Policy, NEW on \in BOOLEAN, SaveLocalFolder(m, p, on)
  PROVE  IInv'
<1>1. line' \in Lines
  BY ToTheEndType DEF IInv, GovernanceTypeOK, SaveLocalFolder
<1>2. /\ policy' \in [Mounts -> Policy]
      /\ next' \in [Mounts -> Time] /\ nextBeat' \in [Mounts -> Time]
  BY DEF IInv, GovernanceTypeOK, SaveLocalFolder, NextScan, Time
<1>3. beat' \subseteq Mounts /\ torn' \subseteq Mounts /\ controls' \in 0 .. MaxControls
  BY GovernanceAssumption DEF IInv, GovernanceTypeOK, SaveLocalFolder, Control
<1>4. GovernanceTypeOK'
  BY <1>1, <1>2, <1>3
  DEF IInv, GovernanceTypeOK, SaveLocalFolder, Control, ticker, replicas
<1>5. BeatsOK'
  <2>1. HalfIsCurrent'
    <3>. SUFFICES ASSUME NEW h \in half', h[1] \notin torn' PROVE h[1] \in beat' <=> h[2]
      BY DEF HalfIsCurrent
    <3>1. h \in half /\ h[2] \in BOOLEAN /\ h = <<h[1], h[2]>>
      BY DEF IInv, GovernanceTypeOK, SaveLocalFolder
    <3>2. CASE h[1] = m
      <4>1. h # <<m, ~on>>
        BY <3>1, <3>2 DEF SaveLocalFolder
      <4>. QED
        BY <3>1, <3>2, <4>1 DEF SaveLocalFolder
    <3>3. CASE h[1] # m
      BY <3>1, <3>3 DEF IInv, BeatsOK, HalfIsCurrent, SaveLocalFolder
    <3>. QED
      BY <3>2, <3>3
  <2>2. BeatFollowsPolicy'
    BY DEF IInv, GovernanceTypeOK, BeatsOK, BeatFollowsPolicy, SaveLocalFolder
  <2>. QED
    BY <2>1, <2>2 DEF BeatsOK
<1>6. ScansOK'
  BY ScansStay DEF IInv, SaveLocalFolder
<1>. QED
  BY <1>4, <1>5, <1>6 DEF IInv

LEMMA SetBeatPolicyKeeps ==
  ASSUME IInv, NEW m \in Watched, NEW on \in BOOLEAN, SetBeatPolicy(m, on)
  PROVE  IInv'
<1>1. GovernanceTypeOK'
  BY GovernanceAssumption
  DEF IInv, GovernanceTypeOK, SetBeatPolicy, Control, schedule, ticker, replicas
<1>2. HalfIsCurrent'
  <2>. SUFFICES ASSUME NEW h \in half', h[1] \notin torn' PROVE h[1] \in beat' <=> h[2]
    BY DEF HalfIsCurrent
  <2>1. CASE h = <<m, on>>
    BY <2>1 DEF IInv, GovernanceTypeOK, SetBeatPolicy
  <2>2. CASE h # <<m, on>> /\ h[1] = m
    <3>1. h = <<m, ~on>> /\ h \in half
      BY <2>2 DEF IInv, GovernanceTypeOK, SetBeatPolicy
    <3>. QED
      BY <3>1 DEF SetBeatPolicy
  <2>3. CASE h[1] # m
    <3>1. h \in half /\ h[1] \notin torn
      BY <2>3 DEF SetBeatPolicy
    <3>. QED
      BY <2>3, <3>1 DEF IInv, BeatsOK, HalfIsCurrent, SetBeatPolicy
  <2>. QED
    BY <2>1, <2>2, <2>3
<1>3. BeatFollowsPolicy'
  BY DEF IInv, GovernanceTypeOK, BeatsOK, BeatFollowsPolicy, SetBeatPolicy
<1>4. ScansOK'
  BY ScansStay DEF IInv, SetBeatPolicy
<1>. QED
  BY <1>1, <1>2, <1>3, <1>4 DEF IInv, BeatsOK

LEMMA SetBeatTimeKeeps ==
  ASSUME IInv, NEW m \in Watched, NEW on \in BOOLEAN, SetBeatTime(m, on)
  PROVE  IInv'
<1>1. GovernanceTypeOK'
  BY GovernanceAssumption
  DEF IInv, GovernanceTypeOK, SetBeatTime, Time, schedule, ticker, replicas, bounds
<1>2. HalfIsCurrent'
  BY DEF IInv, BeatsOK, HalfIsCurrent, SetBeatTime
<1>3. BeatFollowsPolicy'
  BY DEF IInv, GovernanceTypeOK, BeatsOK, HalfIsCurrent, BeatFollowsPolicy, SetBeatTime
<1>4. ScansOK'
  BY ScansStay DEF IInv, SetBeatTime
<1>. QED
  BY <1>1, <1>2, <1>3, <1>4 DEF IInv, BeatsOK

\* Deletions, actions on issues and files leave jobs and heartbeats alone.
LEMMA OthersKeep ==
  ASSUME IInv, NEW m \in Mounts, DeleteLocalFolder(m) \/ ActOnIssue(m) \/ FileMoves(m)
  PROVE  IInv'
<1>1. CASE DeleteLocalFolder(m)
  <2>1. GovernanceTypeOK'
    BY <1>1, GovernanceAssumption
    DEF IInv, GovernanceTypeOK, DeleteLocalFolder, Policy, Control, beats, ticker, replicas
  <2>. QED
    BY <1>1, <2>1, ScansStay, BeatsStay DEF IInv, DeleteLocalFolder, beats
<1>2. CASE ActOnIssue(m)
  <2>1. GovernanceTypeOK'
    BY <1>2, GovernanceAssumption
    DEF IInv, GovernanceTypeOK, ActOnIssue, Control, schedule, beats, ticker
  <2>. QED
    BY <1>2, <2>1, ScansStay, BeatsStay DEF IInv, ActOnIssue, beats
<1>3. CASE FileMoves(m)
  <2>1. GovernanceTypeOK'
    BY <1>3, GovernanceAssumption
    DEF IInv, GovernanceTypeOK, FileMoves, schedule, beats, ticker
  <2>. QED
    BY <1>3, <2>1, ScansStay, BeatsStay DEF IInv, FileMoves, beats
<1>. QED
  BY <1>1, <1>2, <1>3

-----------------------------------------------------------------------------
LEMMA StepKeeps == IInv /\ [GovernanceNext]_vars => IInv'
<1>. SUFFICES ASSUME IInv, [GovernanceNext]_vars PROVE IInv'
  OBVIOUS
<1>1. CASE \E m \in Mounts : ComesDue(m) \/ BeatComesDue(m)
  BY <1>1, TimeKeeps
<1>2. CASE TickStep \/ TickFails
  BY <1>2, TickKeeps, ClaimScanKeeps, CreateScanKeeps, ClaimBeatKeeps DEF TickStep
<1>3. CASE \E m \in Mounts, s \in 1 .. Slots : StartScan(m, s) \/ EndScan(m, s)
  BY <1>3, WorkerKeeps
<1>4. CASE \E m \in Mounts : BeatEnds(m)
  <2>1. 1 \in 1 .. Slots
    BY GovernanceAssumption
  <2>. QED
    BY <1>4, <2>1, WorkerKeeps
<1>5. CASE Crash
  BY <1>5, CrashKeeps
<1>6. CASE User
  <2>1. CASE \E m \in Mounts, s \in 1 .. Slots : ControlJob(m, s)
    BY <2>1, ControlJobKeeps
  <2>2. CASE \E m \in Mounts : \E p \in Policy, on \in BOOLEAN : SaveLocalFolder(m, p, on)
    BY <2>2, SaveLocalFolderKeeps
  <2>3. CASE \/ \E m \in Mounts : DeleteLocalFolder(m) \/ ActOnIssue(m)
             \/ \E m \in Stocked : FileMoves(m)
    BY <2>3, OthersKeep, GovernanceAssumption
  <2>4. CASE \E m \in Watched, on \in BOOLEAN : SetBeatPolicy(m, on) \/ SetBeatTime(m, on)
    BY <2>4, SetBeatPolicyKeeps, SetBeatTimeKeeps
  <2>. QED
    BY <1>6, <2>1, <2>2, <2>3, <2>4 DEF User
<1>7. CASE UNCHANGED vars
  <2>1. GovernanceTypeOK'
    BY <1>7 DEF IInv, GovernanceTypeOK, vars, schedule, beats, ticker, replicas, bounds
  <2>. QED
    BY <1>7, <2>1, ScansStay, BeatsStay DEF IInv, vars, beats
<1>. QED
  BY <1>1, <1>2, <1>3, <1>4, <1>5, <1>6, <1>7 DEF GovernanceNext, Worker

LEMMA Invariance == GovernanceSpec => []IInv
BY InitHolds, StepKeeps, PTL DEF GovernanceSpec

\* Every variable of the scheduler keeps its type, and the line holds every mount
\* once, for any mounts and bounds.
THEOREM GovernanceTyped == GovernanceSpec => []GovernanceTypeOK
<1>1. IInv => GovernanceTypeOK
  BY DEF IInv
<1>. QED
  BY <1>1, Invariance, PTL

\* No mount has two scheduled scans on their way that no user started again,
\* whatever comes between the question whether one is on and the new job.
THEOREM ScansAreSingle == GovernanceSpec => []OneScanPerMount
<1>1. IInv => OneScanPerMount
  <2>. SUFFICES ASSUME IInv, NEW m \in Mounts
                PROVE  Cardinality({s \in 1 .. Slots : Scheduled(m, s)}) <= 1
    BY DEF OneScanPerMount, Scheduled
  <2>. DEFINE S == {s \in 1 .. Slots : Scheduled(m, s)}
  <2>1. \A s, z \in S : s = z
    BY DEF IInv, ScansOK, AtMostOne
  <2>. HIDE DEF S
  <2>2. Cardinality(S) <= 1
    <3>1. CASE S = {}
      BY <3>1, FS_EmptySet
    <3>2. CASE S # {}
      <4>. PICK s \in S : TRUE
        BY <3>2
      <4>1. S = {s}
        BY <2>1
      <4>2. Cardinality({s}) = 1
        BY FS_Singleton, Zenon
      <4>. QED
        BY <4>1, <4>2
    <3>. QED
      BY <3>1, <3>2
  <2>. QED
    BY <2>2 DEF S
<1>. QED
  BY <1>1, Invariance, PTL

\* A mount has a next heartbeat exactly if it has a heartbeat policy, except where
\* a crash or another request tore an update in two.
THEOREM BeatsFollowPolicies == GovernanceSpec => []BeatFollowsPolicy
<1>1. IInv => BeatFollowsPolicy
  BY DEF IInv, BeatsOK
<1>. QED
  BY <1>1, Invariance, PTL
=============================================================================
