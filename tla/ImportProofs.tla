---------------------------- MODULE ImportProofs ----------------------------
(***************************************************************************)
(* What holds of imports for any files, targets and libraries, and any     *)
(* number of submissions, retries, crashes and calls that go wrong.        *)
(***************************************************************************)
EXTENDS ImportSession, TLAPS

Busy == {"files", "calling", "counted"}

\* The executor has the item of a job in hand that is shown as RUNNING.
Working ==
  work.at # "idle" =>
    /\ work.job \in Created /\ work.pick \in Picks
    /\ J.items[work.pick] = "RUNNING"
    /\ work.at \in Busy => work.targets = J.took[work.pick]
    /\ work.at \in {"calling", "counted"} => work.file \in Files
    /\ work.at = "counted" => work.job \in report

\* Nobody but the executor in its call is waited for.
Waiting ==
  \A c \in Calls : calls[c] # None =>
    /\ calls[c].heard => work.at = "calling" /\ calls[c].file = work.file
    /\ calls[c].heard => \A d \in Calls \ {c} : calls[d] # None => ~calls[d].heard
    /\ calls[c].on # None => calls[c].on \notin calls[c].left \cup calls[c].good
    /\ calls[c].left \cap calls[c].good = {}
    /\ calls[c].writing => calls[c].on # None
    /\ ~calls[c].heard => calls[c].on # None

\* What the report has counted covers what the catalogue is about to be told.
Counted ==
  work.at = "counted" =>
    {work.job} \X ({work.file} \X (work.good \cap J.asked)) \subseteq counted

\* What the item in hand has brought to its targets, if nothing went wrong.
Brought ==
  ~work.bad =>
    /\ work.at = "files" => (Under[work.pick] \ work.todo) \X work.targets \subseteq replica
    /\ work.at \in {"calling", "counted"} =>
         (Under[work.pick] \ (work.todo \cup {work.file})) \X work.targets \subseteq replica
    /\ work.at = "counted" => {work.file} \X (work.targets \ work.left) \subseteq replica
    /\ work.at = "closing" => Under[work.pick] \X J.took[work.pick] \subseteq replica

\* The copy that truncated a file last is still on it.
Owned(s) == \E c \in Calls : calls[c] # None /\ calls[c].writing /\ calls[c].own /\ Spot(c) = s
Sound(s) == dest[s] = "whole" \/ s \in torn \/ Owned(s)

\* Spots some copy has been found good on.
Vouched(s) ==
  \/ s \in replica
  \/ work.at = "counted" /\ s[1] = work.file /\ s[2] \in work.good
  \/ \E c \in Calls : calls[c] # None /\ calls[c].heard /\ s[1] = calls[c].file /\ s[2] \in calls[c].good

VouchedIsSound == \A s \in Spots : Vouched(s) => Sound(s)

\* A copy that is waited for and whose file was truncated under it.
OverwrittenIsSound ==
  \A c \in Calls : calls[c] # None /\ calls[c].heard /\ calls[c].writing /\ ~calls[c].own => Sound(Spot(c))

IInv == ImportTypeOK /\ Working /\ Waiting /\ Counted /\ Brought
          /\ VouchedIsSound /\ OverwrittenIsSound /\ IngestedIsReported /\ CompletedIsImported

LEMMA NonesDiffer == None \notin Call \cup Job \cup Files \cup Targets \cup Picks
BY NoneAssumption, ImportAssumption

LEMMA Typed ==
  ASSUME ImportTypeOK
  PROVE  /\ \A c \in Calls : calls[c] # None => calls[c] \in Call
         /\ \A j \in Created : jobs[j] \in Job /\ j \in Jobs
         /\ work \in Work
BY DEF ImportTypeOK, Created

LEMMA RestingTyped == Resting \in Work /\ Resting.at = "idle"
BY DEF Resting, Work

LEMMA ClosingTyped ==
  ASSUME ImportTypeOK, NEW bad \in BOOLEAN
  PROVE  /\ Closing(bad) \in Work
         /\ Closing(bad).at = "closing" /\ Closing(bad).bad = bad
         /\ Closing(bad).job = work.job /\ Closing(bad).pick = work.pick
BY Typed DEF Closing, Resting, Work

LEMMA InitHolds == ImportInit => IInv
<1>. SUFFICES ASSUME ImportInit PROVE IInv
  OBVIOUS
<1>1. work = Resting /\ work \in Work /\ work.at = "idle" /\ replica = {} /\ counted = {} /\ brought = {}
      /\ Created = {} /\ \A c \in Calls : calls[c] = None
  BY RestingTyped DEF ImportInit, Created
<1>2. ImportTypeOK
  <2>1. controls \in 0 .. MaxControls /\ mishaps \in 0 .. MaxMishaps /\ retries \in 0 .. MaxRetries
    BY ImportAssumption DEF ImportInit
  <2>2. sel \in [Picks -> SUBSET Targets]
    BY DEF ImportInit, TargetsOf
  <2>. QED
    BY <1>1, <2>1, <2>2 DEF ImportInit, ImportTypeOK
<1>3. Working /\ Waiting /\ Counted
  BY <1>1 DEF Working, Waiting, Counted
<1>4. Brought
  BY <1>1 DEF Brought
<1>5. VouchedIsSound /\ OverwrittenIsSound
  BY <1>1 DEF VouchedIsSound, Vouched, OverwrittenIsSound
<1>6. IngestedIsReported /\ CompletedIsImported
  BY <1>1 DEF IngestedIsReported, CompletedIsImported
<1>. QED
  BY <1>2, <1>3, <1>4, <1>5, <1>6 DEF IInv

-----------------------------------------------------------------------------
(***************************************************************************)
(* Frames.                                                                 *)
(***************************************************************************)
\* The agent's side: calls, files, and what has been found good.
LEMMA AgentStays ==
  ASSUME IInv, UNCHANGED <<calls, dest, torn, replica>>,
         work'.at = work.at, work'.file = work.file, work'.good = work.good
  PROVE  (Waiting /\ VouchedIsSound /\ OverwrittenIsSound)'
<1>1. Waiting'
  BY DEF IInv, Waiting
<1>2. VouchedIsSound' /\ OverwrittenIsSound'
  BY DEF IInv, VouchedIsSound, Vouched, OverwrittenIsSound, Sound, Owned, Spot
<1>. QED
  BY <1>1, <1>2

\* The center's side: the item in hand, the report and the catalogue.
LEMMA CenterStays ==
  ASSUME IInv, UNCHANGED <<jobs, replica, counted, brought, work>>, report \subseteq report'
  PROVE  (Working /\ Counted /\ Brought /\ IngestedIsReported /\ CompletedIsImported)'
<1>1. Working' /\ Counted'
  BY DEF IInv, Working, Counted, Created, J
<1>2. Brought'
  BY DEF IInv, Brought, J
<1>3. IngestedIsReported' /\ CompletedIsImported'
  BY DEF IInv, ImportTypeOK, IngestedIsReported, CompletedIsImported, Created
<1>. QED
  BY <1>1, <1>2, <1>3

\* The item in hand is about to end in error.
LEMMA GoesWrongStays ==
  ASSUME IInv, work.at # "idle", GoesWrong, UNCHANGED <<jobs, replica, counted, brought, report>>
  PROVE  /\ work' \in Work /\ work'.at = "closing"
         /\ (Working /\ Counted /\ Brought /\ IngestedIsReported /\ CompletedIsImported)'
<1>1. /\ work' \in Work /\ work'.at = "closing" /\ work'.bad
      /\ work'.job = work.job /\ work'.pick = work.pick
  BY ClosingTyped DEF IInv, GoesWrong
<1>2. Working' /\ Counted' /\ Brought'
  BY <1>1 DEF IInv, Working, Counted, Brought, Created, J, Busy
<1>3. IngestedIsReported' /\ CompletedIsImported'
  BY DEF IInv, ImportTypeOK, IngestedIsReported, CompletedIsImported, Created
<1>. QED
  BY <1>1, <1>2, <1>3

\* The center no longer waits: copies go on unheard.
LEMMA UnheardStays ==
  ASSUME IInv, calls' = Unheard, UNCHANGED <<dest, torn, replica>>, work'.at \notin {"calling", "counted"}
  PROVE  /\ calls' \in [Calls -> {None} \cup Call]
         /\ (Waiting /\ VouchedIsSound /\ OverwrittenIsSound)'
<1>1. ASSUME NEW c \in Calls, calls[c] # None
      PROVE  \/ calls'[c] = None /\ calls[c].on = None
             \/ /\ calls'[c] \in Call /\ ~calls'[c].heard /\ calls'[c].on # None
                /\ calls'[c].file = calls[c].file /\ calls'[c].on = calls[c].on
                /\ calls'[c].writing = calls[c].writing /\ calls'[c].own = calls[c].own
                /\ \/ ~calls[c].heard /\ calls'[c] = calls[c]
                   \/ calls'[c].left = {} /\ calls'[c].good = {}
  <2>1. calls[c] \in Call
    BY <1>1, Typed DEF IInv
  <2>2. CASE ~calls[c].heard
    BY <1>1, <2>1, <2>2 DEF Unheard, IInv, Waiting
  <2>3. CASE calls[c].heard /\ calls[c].on = None
    BY <1>1, <2>3 DEF Unheard
  <2>4. CASE calls[c].heard /\ calls[c].on # None
    <3>1. calls'[c] = [calls[c] EXCEPT !.heard = FALSE, !.left = {}, !.good = {}]
      BY <1>1, <2>4 DEF Unheard
    <3>2. calls'[c] \in Call
      BY <2>1, <3>1 DEF Call
    <3>3. /\ calls'[c].file = calls[c].file /\ calls'[c].on = calls[c].on
          /\ calls'[c].writing = calls[c].writing /\ calls'[c].own = calls[c].own
          /\ ~calls'[c].heard /\ calls'[c].left = {} /\ calls'[c].good = {}
      BY <2>1, <3>1 DEF Call
    <3>. QED
      BY <2>4, <3>2, <3>3
  <2>. QED
    BY <2>1, <2>2, <2>3, <2>4 DEF Call
<1>2. \A c \in Calls : calls[c] = None => calls'[c] = None
  BY DEF Unheard
<1>3. calls' \in [Calls -> {None} \cup Call]
  <2>1. calls' = [c \in Calls |-> calls'[c]]
    BY DEF Unheard
  <2>. QED
    BY <1>1, <1>2, <2>1
<1>4. \A c \in Calls : calls'[c] # None => calls[c] # None /\ ~calls'[c].heard
  BY <1>1, <1>2
<1>5. Waiting'
  BY <1>1, <1>2, <1>4, NonesDiffer DEF IInv, Waiting
<1>6. \A s \in Spots : Owned(s) => Owned(s)'
  BY <1>1, <1>2, NonesDiffer DEF Owned, Spot, IInv, Waiting
<1>7. VouchedIsSound' /\ OverwrittenIsSound'
  BY <1>4, <1>6 DEF IInv, VouchedIsSound, Vouched, OverwrittenIsSound, Sound
<1>. QED
  BY <1>3, <1>5, <1>7

\* Nothing changes for the agent, to whom the executor does not listen.
LEMMA QuietStays ==
  ASSUME IInv, UNCHANGED <<calls, dest, torn>>, work.at # "calling",
         \A s \in Spots : Vouched(s)' => Vouched(s)
  PROVE  (Waiting /\ VouchedIsSound /\ OverwrittenIsSound)'
<1>1. \A c \in Calls : calls[c] # None => ~calls[c].heard
  BY DEF IInv, Waiting
<1>2. Waiting'
  BY <1>1 DEF IInv, Waiting
<1>3. \A s \in Spots : Sound(s)' <=> Sound(s)
  BY DEF Sound, Owned, Spot
<1>4. VouchedIsSound' /\ OverwrittenIsSound'
  BY <1>1, <1>3 DEF IInv, VouchedIsSound, OverwrittenIsSound
<1>. QED
  BY <1>2, <1>4

LEMMA ControlStep ==
  ASSUME ImportTypeOK, Control \/ Mishap \/ UNCHANGED bounds
  PROVE  controls' \in 0 .. MaxControls /\ mishaps' \in 0 .. MaxMishaps /\ retries' \in 0 .. MaxRetries
BY ImportAssumption DEF ImportTypeOK, Control, Mishap, bounds

-----------------------------------------------------------------------------
(***************************************************************************)
(* The device, the draft and the submission.                               *)
(***************************************************************************)
LEMMA DraftKeeps ==
  ASSUME IInv, Pull \/ RefreshSessions \/ Draft
  PROVE  IInv'
<1>1. UNCHANGED <<submit, order, jobs, report, replica, counted, brought, work, calls, dest, torn>>
  BY DEF Pull, RefreshSessions, Draft, SetDraftLibrary, SaveSelectionTargets, books, disks, device, draft, desk
<1>2. controls' \in 0 .. MaxControls /\ mishaps' \in 0 .. MaxMishaps /\ retries' \in 0 .. MaxRetries
  BY ControlStep DEF IInv, Pull, RefreshSessions, Draft, SetDraftLibrary, SaveSelectionTargets
<1>3. connected' \in BOOLEAN /\ session' \in {"OPEN", "DISCONNECTED"} /\ gone' \in BOOLEAN
  BY DEF IInv, ImportTypeOK, Pull, RefreshSessions, Draft, SetDraftLibrary, SaveSelectionTargets, device, draft, desk
<1>4. library' \in Libraries /\ sel' \in [Picks -> SUBSET Targets] /\ lost' \subseteq (Created \cup {0}) \X Picks
  BY DEF IInv, ImportTypeOK, Pull, RefreshSessions, Draft, SetDraftLibrary, SaveSelectionTargets, device, draft, desk, TargetsOf
<1>5. ImportTypeOK'
  BY <1>1, <1>2, <1>3, <1>4 DEF IInv, ImportTypeOK, Created
<1>. QED
  BY <1>1, <1>5, AgentStays, CenterStays DEF IInv

LEMMA NewJobTyped ==
  ASSUME ImportTypeOK
  PROVE  NewJob \in Order
<1>1. library \in Libraries /\ sel \in [Picks -> SUBSET Targets]
  BY DEF ImportTypeOK
<1>2. UNION {sel[p] : p \in Picks} \subseteq Targets
  BY <1>1
<1>3. [p \in Picks |-> IF p \in Chosen THEN "QUEUED" ELSE "none"] \in [Picks -> ItemStatus]
  BY DEF ItemStatus
<1>. QED
  BY <1>1, <1>2, <1>3 DEF NewJob, Job, Order

LEMMA SubmitKeeps ==
  ASSUME IInv, Submit
  PROVE  IInv'
<1>1. ASSUME BuildSelectionPrecheck \/ RefreshPrecheck \/ LoadSelections \/ SubmitFails PROVE IInv'
  <2>1. UNCHANGED <<connected, gone, library, sel, jobs, report, replica, counted, brought, work, calls, dest, torn>>
    BY <1>1 DEF BuildSelectionPrecheck, RefreshPrecheck, LoadSelections, SubmitFails, device, draft, books, disks
  <2>2. /\ submit' \in {"idle", "passed", "blocked", "checked", "loaded"}
        /\ session' \in {"OPEN", "DISCONNECTED"} /\ lost' \subseteq lost
    BY <1>1 DEF BuildSelectionPrecheck, RefreshPrecheck, LoadSelections, SubmitFails, device, draft, IInv, ImportTypeOK
  <2>3. order' \in {None} \cup Order /\ (order' = None <=> submit' # "loaded")
    <3>1. NewJob \in Order /\ NewJob # None
      BY NewJobTyped, NonesDiffer DEF IInv, Order
    <3>2. order \in {None} \cup Order /\ (order = None <=> submit # "loaded")
      BY DEF IInv, ImportTypeOK
    <3>. QED
      BY <1>1, <3>1, <3>2 DEF BuildSelectionPrecheck, RefreshPrecheck, LoadSelections, SubmitFails
  <2>4. controls' \in 0 .. MaxControls /\ mishaps' \in 0 .. MaxMishaps /\ retries' \in 0 .. MaxRetries
    BY <1>1, ControlStep DEF IInv, BuildSelectionPrecheck, RefreshPrecheck, LoadSelections, SubmitFails
  <2>5. ImportTypeOK'
    BY <2>1, <2>2, <2>3, <2>4 DEF IInv, ImportTypeOK, Created
  <2>. QED
    BY <2>1, <2>5, AgentStays, CenterStays DEF IInv
<1>2. ASSUME CreateReport PROVE IInv'
  <2>1. /\ UNCHANGED <<connected, gone, library, sel, lost, order, jobs, replica, counted, brought, work, calls, dest, torn, controls, mishaps, retries>>
        /\ submit = "created" /\ submit' = "idle" /\ session' = "OPEN"
        /\ \E j \in Created : report' = report \cup {j}
    BY <1>2 DEF CreateReport, draft, desk, disks, bounds
  <2>2. order' \in {None} \cup Order /\ (order' = None <=> submit' # "loaded")
    BY <2>1 DEF IInv, ImportTypeOK
  <2>3. report' \subseteq Created'
    BY <2>1 DEF IInv, ImportTypeOK, Created
  <2>4. ImportTypeOK'
    BY <2>1, <2>2, <2>3 DEF IInv, ImportTypeOK, Created
  <2>. QED
    BY <2>1, <2>4, AgentStays, CenterStays DEF IInv
<1>3. ASSUME CreateJob PROVE IInv'
  <2>1. PICK j \in Jobs \ Created :
          /\ jobs' = [jobs EXCEPT ![j] = order]
          /\ lost' = {<<IF x[1] = 0 THEN j ELSE x[1], x[2]>> : x \in lost}
    BY <1>3 DEF CreateJob
  <2>2. /\ UNCHANGED <<connected, session, gone, library, sel, report, replica, counted, brought, work, calls, dest, torn, controls, mishaps, retries>>
        /\ submit' = "created" /\ order' = None /\ submit = "loaded"
    BY <1>3 DEF CreateJob, device, books, disks, bounds
  <2>3. order \in Job /\ \A p \in Picks : order.items[p] # "COMPLETED"
    BY <2>2 DEF IInv, ImportTypeOK, Order
  <2>4. /\ Created' = Created \cup {j}
        /\ \A k \in Created : jobs'[k] = jobs[k]
        /\ jobs'[j] = order
        /\ jobs' \in [Jobs -> {None} \cup Job]
    BY <2>1, <2>3, NonesDiffer DEF IInv, ImportTypeOK, Created
  <2>5. lost' \subseteq (Created' \cup {0}) \X Picks
    BY <2>1, <2>4 DEF IInv, ImportTypeOK
  <2>6. ImportTypeOK'
    BY <2>2, <2>4, <2>5 DEF IInv, ImportTypeOK
  <2>7. Working' /\ Counted'
    BY <2>2, <2>4 DEF IInv, Working, Counted, J, Busy
  <2>8. Brought'
    BY <2>2, <2>4 DEF IInv, Brought, Working, J
  <2>9. IngestedIsReported'
    BY <2>2, <2>4 DEF IInv, ImportTypeOK, IngestedIsReported
  <2>10. CompletedIsImported'
    BY <2>2, <2>3, <2>4 DEF IInv, CompletedIsImported
  <2>. QED
    BY <2>2, <2>6, <2>7, <2>8, <2>9, <2>10, AgentStays DEF IInv
<1>. QED
  BY <1>1, <1>2, <1>3 DEF Submit

-----------------------------------------------------------------------------
(***************************************************************************)
(* The executor.                                                           *)
(***************************************************************************)
LEMMA ItemSet ==
  ASSUME ImportTypeOK, NEW j \in Created, NEW p \in Picks, NEW status \in ItemStatus,
         SetItem(j, p, status)
  PROVE  /\ jobs' \in [Jobs -> {None} \cup Job] /\ Created' = Created
         /\ \A k \in Created :
              /\ jobs'[k].library = jobs[k].library /\ jobs'[k].asked = jobs[k].asked
              /\ jobs'[k].took = jobs[k].took
              /\ \A q \in Picks : jobs'[k].items[q] =
                   IF k = j /\ q = p THEN status ELSE jobs[k].items[q]
<1>1. jobs \in [Jobs -> {None} \cup Job] /\ j \in Jobs /\ jobs[j] \in Job /\ None \notin Job
  BY NonesDiffer DEF ImportTypeOK, Created
<1>2. [jobs[j].items EXCEPT ![p] = status] \in [Picks -> ItemStatus]
  BY <1>1 DEF Job
<1>3. [jobs[j] EXCEPT !.items[p] = status] \in Job
  BY <1>1, <1>2 DEF Job
<1>4. jobs' = [jobs EXCEPT ![j] = [jobs[j] EXCEPT !.items[p] = status]]
  BY <1>1 DEF SetItem
<1>5. jobs' \in [Jobs -> {None} \cup Job] /\ Created' = Created
  BY <1>1, <1>3, <1>4 DEF Created
<1>6. ASSUME NEW k \in Created
      PROVE  /\ jobs'[k].library = jobs[k].library /\ jobs'[k].asked = jobs[k].asked
             /\ jobs'[k].took = jobs[k].took
             /\ \A q \in Picks : jobs'[k].items[q] =
                  IF k = j /\ q = p THEN status ELSE jobs[k].items[q]
  BY <1>1, <1>3, <1>4 DEF Created, Job
<1>. QED
  BY <1>5, <1>6

\* An item that is not in hand changes its status.
LEMMA ItemSetStays ==
  ASSUME IInv, NEW j \in Created, NEW p \in Picks, NEW status \in ItemStatus \ {"COMPLETED"},
         SetItem(j, p, status), jobs[j].items[p] # "RUNNING",
         UNCHANGED <<replica, counted, brought, work, report>>
  PROVE  /\ jobs' \in [Jobs -> {None} \cup Job] /\ Created' = Created
         /\ (Working /\ Counted /\ Brought /\ IngestedIsReported /\ CompletedIsImported)'
<1>1. /\ jobs' \in [Jobs -> {None} \cup Job] /\ Created' = Created
      /\ \A k \in Created :
           /\ jobs'[k].asked = jobs[k].asked /\ jobs'[k].took = jobs[k].took
           /\ \A q \in Picks : jobs'[k].items[q] =
                IF k = j /\ q = p THEN status ELSE jobs[k].items[q]
  BY ItemSet DEF IInv
<1>2. Working' /\ Counted'
  BY <1>1 DEF IInv, Working, Counted, J, Busy
<1>3. Brought'
  BY <1>1 DEF IInv, Brought, Working, J
<1>4. IngestedIsReported' /\ CompletedIsImported'
  BY <1>1 DEF IInv, ImportTypeOK, IngestedIsReported, CompletedIsImported
<1>. QED
  BY <1>1, <1>2, <1>3, <1>4

LEMMA StartItemKeeps ==
  ASSUME IInv, NEW j \in Jobs, NEW p \in Picks, StartItem(j, p)
  PROVE  IInv'
<1>1. /\ work.at = "idle" /\ j \in Created /\ jobs[j].items[p] = "QUEUED"
      /\ UNCHANGED <<connected, session, gone, library, sel, lost, submit, order, report, replica, counted, brought,
                     calls, dest, torn, controls, mishaps, retries>>
  BY DEF StartItem, device, draft, desk, books, disks, bounds
<1>2. CASE <<j, p>> \in lost
  <2>1. SetItem(j, p, "FAILED") /\ UNCHANGED work
    BY <1>2 DEF StartItem
  <2>2. /\ jobs' \in [Jobs -> {None} \cup Job] /\ Created' = Created
        /\ (Working /\ Counted /\ Brought /\ IngestedIsReported /\ CompletedIsImported)'
    BY <1>1, <2>1, ItemSetStays DEF ItemStatus
  <2>3. ImportTypeOK'
    BY <1>1, <2>1, <2>2 DEF IInv, ImportTypeOK
  <2>. QED
    BY <1>1, <2>1, <2>2, <2>3, AgentStays DEF IInv
<1>3. CASE <<j, p>> \notin lost
  <2>1. jobs' = [jobs EXCEPT ![j].items[p] = "RUNNING", ![j].took[p] = sel[p]]
    BY <1>3 DEF StartItem
  <2>2. /\ work' \in Work /\ work'.at \in {"files", "closing"} /\ work'.job = j /\ work'.pick = p
        /\ work'.at = "files" => work'.targets = sel[p] /\ work'.todo = Under[p]
        /\ work'.at = "closing" => work'.bad
    <3>1. work' = IF connected
                  THEN [Resting EXCEPT !.at = "files", !.job = j, !.pick = p,
                                       !.targets = sel[p], !.todo = Under[p]]
                  ELSE [Resting EXCEPT !.at = "closing", !.job = j, !.pick = p, !.bad = TRUE]
      BY <1>3 DEF StartItem
    <3>2. sel[p] \in SUBSET Targets /\ Under[p] \in SUBSET Files
      BY ImportAssumption DEF IInv, ImportTypeOK
    <3>. QED
      BY <3>1, <3>2 DEF Resting, Work
  <2>3. /\ jobs' \in [Jobs -> {None} \cup Job] /\ Created' = Created
        /\ \A k \in Created :
             /\ jobs'[k].asked = jobs[k].asked
             /\ \A q \in Picks :
                  /\ jobs'[k].items[q] = IF k = j /\ q = p THEN "RUNNING" ELSE jobs[k].items[q]
                  /\ jobs'[k].took[q] = IF k = j /\ q = p THEN sel[p] ELSE jobs[k].took[q]
    <3>1. jobs \in [Jobs -> {None} \cup Job] /\ jobs[j] \in Job /\ None \notin Job
      BY <1>1, NonesDiffer DEF IInv, ImportTypeOK, Created
    <3>2. sel[p] \in SUBSET Targets
      BY DEF IInv, ImportTypeOK
    <3>3. /\ [jobs[j].items EXCEPT ![p] = "RUNNING"] \in [Picks -> ItemStatus]
          /\ [jobs[j].took EXCEPT ![p] = sel[p]] \in [Picks -> SUBSET Targets]
      BY <3>1, <3>2 DEF Job, ItemStatus
    <3>4. [jobs[j] EXCEPT !.items = [jobs[j].items EXCEPT ![p] = "RUNNING"],
                          !.took = [jobs[j].took EXCEPT ![p] = sel[p]]] \in Job
      BY <3>1, <3>3 DEF Job
    <3>5. jobs' = [jobs EXCEPT ![j] =
            [jobs[j] EXCEPT !.items = [jobs[j].items EXCEPT ![p] = "RUNNING"],
                            !.took = [jobs[j].took EXCEPT ![p] = sel[p]]]]
      BY <2>1, <3>1 DEF Job
    <3>6. jobs' \in [Jobs -> {None} \cup Job] /\ Created' = Created
      BY <3>1, <3>4, <3>5 DEF Created
    <3>7. ASSUME NEW k \in Created
          PROVE  /\ jobs'[k].asked = jobs[k].asked
                 /\ \A q \in Picks :
                      /\ jobs'[k].items[q] = IF k = j /\ q = p THEN "RUNNING" ELSE jobs[k].items[q]
                      /\ jobs'[k].took[q] = IF k = j /\ q = p THEN sel[p] ELSE jobs[k].took[q]
      BY <3>1, <3>4, <3>5 DEF Created, Job
    <3>. QED
      BY <3>6, <3>7
  <2>4. ImportTypeOK'
    BY <1>1, <2>2, <2>3 DEF IInv, ImportTypeOK
  <2>5. Working' /\ Counted'
    BY <1>1, <2>2, <2>3 DEF Working, Counted, J, Busy
  <2>6. Brought'
    BY <2>2 DEF Brought
  <2>7. IngestedIsReported' /\ CompletedIsImported'
    BY <1>1, <2>3 DEF IInv, ImportTypeOK, IngestedIsReported, CompletedIsImported
  <2>8. (Waiting /\ VouchedIsSound /\ OverwrittenIsSound)'
    BY <1>1, <2>2, QuietStays DEF Vouched
  <2>. QED
    BY <2>4, <2>5, <2>6, <2>7, <2>8 DEF IInv
<1>. QED
  BY <1>2, <1>3

\* The item in hand goes wrong, and the agent is not concerned.
LEMMA EndsInError ==
  ASSUME IInv, work.at \notin {"idle", "calling"}, GoesWrong,
         controls' \in 0 .. MaxControls, mishaps' \in 0 .. MaxMishaps, retries' \in 0 .. MaxRetries,
         UNCHANGED <<connected, session, gone, library, sel, lost, submit, order, jobs, books, calls, disks>>
  PROVE  IInv'
<1>1. /\ work' \in Work /\ work'.at = "closing"
      /\ (Working /\ Counted /\ Brought /\ IngestedIsReported /\ CompletedIsImported)'
  BY GoesWrongStays DEF books
<1>2. ImportTypeOK'
  BY <1>1 DEF IInv, ImportTypeOK, books, disks, Created
<1>3. (Waiting /\ VouchedIsSound /\ OverwrittenIsSound)'
  BY <1>1, QuietStays DEF books, disks, Vouched
<1>. QED
  BY <1>1, <1>2, <1>3 DEF IInv

LEMMA StatementFailsKeeps ==
  ASSUME IInv, StatementFails
  PROVE  IInv'
<1>1. /\ work.at \notin {"idle", "calling"} /\ GoesWrong
      /\ UNCHANGED <<connected, session, gone, library, sel, lost, submit, order, jobs, books, calls, disks>>
  BY DEF StatementFails, device, draft, desk
<1>2. controls' \in 0 .. MaxControls /\ mishaps' \in 0 .. MaxMishaps /\ retries' \in 0 .. MaxRetries
  BY ControlStep DEF IInv, StatementFails
<1>. QED
  BY <1>1, <1>2, EndsInError

LEMMA TimeOutKeeps ==
  ASSUME IInv, TimeOut
  PROVE  IInv'
<1>1. /\ work.at = "calling" /\ calls' = Unheard /\ GoesWrong
      /\ UNCHANGED <<connected, session, gone, library, sel, lost, submit, order, jobs, report, replica, counted, brought,
                     dest, torn, controls, mishaps, retries>>
  BY DEF TimeOut, device, draft, desk, books, disks, bounds
<1>2. /\ work' \in Work /\ work'.at = "closing"
      /\ (Working /\ Counted /\ Brought /\ IngestedIsReported /\ CompletedIsImported)'
  BY <1>1, GoesWrongStays
<1>3. /\ calls' \in [Calls -> {None} \cup Call]
      /\ (Waiting /\ VouchedIsSound /\ OverwrittenIsSound)'
  BY <1>1, <1>2, UnheardStays
<1>4. ImportTypeOK'
  BY <1>1, <1>2, <1>3 DEF IInv, ImportTypeOK, Created
<1>. QED
  BY <1>2, <1>3, <1>4 DEF IInv

LEMMA CenterCrashesKeeps ==
  ASSUME IInv, CenterCrashes
  PROVE  IInv'
<1>1. /\ work' = Resting /\ calls' = Unheard /\ submit' = "idle" /\ order' = None
      /\ UNCHANGED <<connected, session, gone, library, sel, lost, report, replica, counted, brought, dest, torn>>
      /\ jobs' = IF work.at = "idle" THEN jobs
                 ELSE [jobs EXCEPT ![work.job].items[work.pick] = "QUEUED"]
  BY DEF CenterCrashes, device, draft, desk, books, disks
<1>2. controls' \in 0 .. MaxControls /\ mishaps' \in 0 .. MaxMishaps /\ retries' \in 0 .. MaxRetries
  BY ControlStep DEF IInv, CenterCrashes
<1>3. work' \in Work /\ work'.at = "idle"
  BY <1>1, RestingTyped
<1>4. /\ calls' \in [Calls -> {None} \cup Call]
      /\ (Waiting /\ VouchedIsSound /\ OverwrittenIsSound)'
  BY <1>1, <1>3, UnheardStays
<1>5. /\ jobs' \in [Jobs -> {None} \cup Job] /\ Created' = Created
      /\ \A k \in Created :
           /\ jobs'[k].asked = jobs[k].asked /\ jobs'[k].took = jobs[k].took
           /\ \A q \in Picks : jobs'[k].items[q] \in {jobs[k].items[q], "QUEUED"}
  <2>1. CASE work.at = "idle"
    BY <1>1, <2>1 DEF IInv, ImportTypeOK, Created
  <2>2. CASE work.at # "idle"
    <3>1. work.job \in Created /\ work.pick \in Picks /\ SetItem(work.job, work.pick, "QUEUED")
      BY <1>1, <2>2 DEF IInv, Working, SetItem
    <3>. QED
      BY <3>1, ItemSet DEF IInv, ItemStatus
  <2>. QED
    BY <2>1, <2>2
<1>6. ImportTypeOK'
  BY <1>1, <1>2, <1>3, <1>4, <1>5 DEF IInv, ImportTypeOK
<1>7. Working' /\ Counted' /\ Brought'
  BY <1>3 DEF Working, Counted, Brought
<1>8. IngestedIsReported' /\ CompletedIsImported'
  BY <1>1, <1>5 DEF IInv, ImportTypeOK, IngestedIsReported, CompletedIsImported
<1>. QED
  BY <1>4, <1>6, <1>7, <1>8 DEF IInv

LEMMA RetryItemKeeps ==
  ASSUME IInv, NEW j \in Jobs, NEW p \in Picks, RetryItem(j, p)
  PROVE  IInv'
<1>1. /\ j \in Created /\ jobs[j].items[p] = "FAILED" /\ SetItem(j, p, "QUEUED")
      /\ UNCHANGED <<connected, session, gone, library, sel, lost, submit, order, report, replica, counted, brought,
                     work, calls, dest, torn, controls, mishaps>>
  BY DEF RetryItem, device, draft, desk, books, disks
<1>2. retries' \in 0 .. MaxRetries
  BY ImportAssumption DEF RetryItem, IInv, ImportTypeOK
<1>3. /\ jobs' \in [Jobs -> {None} \cup Job] /\ Created' = Created
      /\ (Working /\ Counted /\ Brought /\ IngestedIsReported /\ CompletedIsImported)'
  BY <1>1, ItemSetStays DEF ItemStatus
<1>4. ImportTypeOK'
  BY <1>1, <1>2, <1>3 DEF IInv, ImportTypeOK
<1>. QED
  BY <1>1, <1>3, <1>4, AgentStays DEF IInv

LEMMA EndItemKeeps ==
  ASSUME IInv, EndItem
  PROVE  IInv'
<1>1. /\ work.at = "closing" /\ work' = Resting
      /\ UNCHANGED <<connected, gone, library, sel, lost, submit, order, report, replica, counted, brought,
                     calls, dest, torn, controls, mishaps, retries>>
      /\ session' \in {"OPEN", "DISCONNECTED"}
  BY DEF EndItem, RefreshReportAggregate, draft, desk, books, disks, bounds, IInv, ImportTypeOK
<1>2. PICK status \in {"FAILED", "COMPLETED"} :
        SetItem(work.job, work.pick, status) /\ (status = "COMPLETED" => ~work.bad)
  BY DEF EndItem
<1>3. work.job \in Created /\ work.pick \in Picks
  BY <1>1 DEF IInv, Working
<1>4. /\ jobs' \in [Jobs -> {None} \cup Job] /\ Created' = Created
      /\ \A k \in Created :
           /\ jobs'[k].asked = jobs[k].asked /\ jobs'[k].took = jobs[k].took
           /\ \A q \in Picks : jobs'[k].items[q] =
                IF k = work.job /\ q = work.pick THEN status ELSE jobs[k].items[q]
  BY <1>2, <1>3, ItemSet DEF IInv, ItemStatus
<1>5. work' \in Work /\ work'.at = "idle"
  BY <1>1, RestingTyped
<1>6. ImportTypeOK'
  BY <1>1, <1>4, <1>5 DEF IInv, ImportTypeOK
<1>7. Working' /\ Counted' /\ Brought'
  BY <1>5 DEF Working, Counted, Brought
<1>8. IngestedIsReported'
  BY <1>1, <1>4 DEF IInv, ImportTypeOK, IngestedIsReported
<1>9. CompletedIsImported'
  <2>1. status = "COMPLETED" => Under[work.pick] \X J.took[work.pick] \subseteq replica
    BY <1>1, <1>2 DEF IInv, Brought
  <2>. QED
    BY <1>1, <1>4, <2>1 DEF IInv, CompletedIsImported, J
<1>10. (Waiting /\ VouchedIsSound /\ OverwrittenIsSound)'
  BY <1>1, <1>5, QuietStays DEF Vouched
<1>. QED
  BY <1>6, <1>7, <1>8, <1>9, <1>10 DEF IInv

LEMMA CallAgentKeeps ==
  ASSUME IInv, NEW f \in Files, CallAgent(f)
  PROVE  IInv'
<1>1. /\ work.at = "files" /\ f \in work.todo
      /\ UNCHANGED <<connected, session, gone, library, sel, lost, submit, order, jobs, report, replica, counted, brought,
                     dest, torn, controls, mishaps, retries>>
      /\ work' = [work EXCEPT !.at = "calling", !.file = f, !.todo = @ \ {f}]
  BY DEF CallAgent, device, draft, desk, books, disks, bounds
<1>2. /\ work' \in Work /\ work'.at = "calling" /\ work'.file = f /\ work'.todo = work.todo \ {f}
      /\ \A i \in {"job", "pick", "targets", "good", "left", "bad"} : work'[i] = work[i]
      /\ work.targets \subseteq Targets
  BY <1>1, Typed DEF IInv, Work
<1>3. Working' /\ Counted'
  BY <1>1, <1>2 DEF IInv, Working, Counted, Created, J, Busy
<1>4. Brought'
  BY <1>1, <1>2 DEF IInv, Brought
<1>5. IngestedIsReported' /\ CompletedIsImported'
  BY <1>1 DEF IInv, ImportTypeOK, IngestedIsReported, CompletedIsImported, Created
<1>6. \A c \in Calls : calls[c] # None => ~calls[c].heard
  BY <1>1 DEF IInv, Waiting
<1>7. ASSUME calls' = calls
      PROVE  calls' \in [Calls -> {None} \cup Call] /\ (Waiting /\ VouchedIsSound /\ OverwrittenIsSound)'
  <2>1. \A s \in Spots : Sound(s)' <=> Sound(s)
    BY <1>1, <1>7 DEF Sound, Owned, Spot
  <2>2. VouchedIsSound' /\ OverwrittenIsSound'
    BY <1>1, <1>2, <1>6, <1>7, <2>1 DEF IInv, VouchedIsSound, Vouched, OverwrittenIsSound
  <2>3. Waiting'
    BY <1>6, <1>7 DEF IInv, Waiting
  <2>. QED
    BY <1>7, <2>2, <2>3 DEF IInv, ImportTypeOK
<1>8. ASSUME NEW c \in Calls, calls[c] = None,
             calls' = [calls EXCEPT ![c] =
               [file |-> f, left |-> work.targets, on |-> None, writing |-> FALSE,
                own |-> FALSE, good |-> {}, heard |-> TRUE]]
      PROVE  calls' \in [Calls -> {None} \cup Call] /\ (Waiting /\ VouchedIsSound /\ OverwrittenIsSound)'
  <2>1. calls \in [Calls -> {None} \cup Call]
    BY DEF IInv, ImportTypeOK
  <2>2. /\ \A d \in Calls \ {c} : calls'[d] = calls[d]
        /\ calls'[c] \in Call /\ calls'[c].file = f /\ calls'[c].on = None /\ ~calls'[c].writing
        /\ calls'[c].good = {} /\ calls'[c].heard
    BY <1>2, <1>8, <2>1 DEF Call
  <2>3. calls' \in [Calls -> {None} \cup Call]
    BY <1>8, <2>1, <2>2
  <2>4. Waiting'
    BY <1>2, <1>6, <2>2 DEF IInv, Waiting
  <2>5. \A s \in Spots : Sound(s) => Sound(s)'
    BY <1>1, <1>8, <2>2 DEF Sound, Owned, Spot
  <2>6. \A s \in Spots : Vouched(s)' => Vouched(s)
    BY <1>1, <1>2, <1>6, <2>2 DEF Vouched
  <2>7. OverwrittenIsSound'
    BY <1>6, <2>2 DEF OverwrittenIsSound
  <2>. QED
    BY <2>3, <2>4, <2>5, <2>6, <2>7 DEF IInv, VouchedIsSound
<1>9. calls' \in [Calls -> {None} \cup Call] /\ (Waiting /\ VouchedIsSound /\ OverwrittenIsSound)'
  BY <1>7, <1>8 DEF CallAgent
<1>10. ImportTypeOK'
  BY <1>1, <1>2, <1>9 DEF IInv, ImportTypeOK, Created
<1>. QED
  BY <1>3, <1>4, <1>5, <1>9, <1>10 DEF IInv

LEMMA RecordKeeps ==
  ASSUME IInv, NEW c \in Calls, RecordReportFileOutcome(c)
  PROVE  IInv'
<1>1. /\ calls[c] # None /\ calls[c].heard /\ calls[c].left = {} /\ calls[c].on = None
      /\ calls' = [calls EXCEPT ![c] = None]
      /\ UNCHANGED <<connected, session, gone, library, sel, lost, submit, order, jobs, report, replica, brought,
                     dest, torn, controls, mishaps, retries>>
  BY DEF RecordReportFileOutcome, device, draft, desk, disks, bounds
<1>2. /\ calls \in [Calls -> {None} \cup Call] /\ calls[c] \in Call
      /\ work.at = "calling" /\ calls[c].file = work.file /\ ~calls[c].writing
      /\ \A d \in Calls \ {c} : calls[d] # None => ~calls[d].heard
      /\ work.job \in Created /\ jobs[work.job] \in Job /\ work.file \in Files
  BY <1>1, Typed DEF IInv, ImportTypeOK, Waiting, Working
<1>3. /\ calls' \in [Calls -> {None} \cup Call]
      /\ calls'[c] = None /\ \A d \in Calls \ {c} : calls'[d] = calls[d]
  BY <1>1, <1>2
<1>4. Waiting'
  BY <1>2, <1>3 DEF IInv, Waiting
<1>5. \A s \in Spots : Sound(s) => Sound(s)'
  BY <1>1, <1>2, <1>3 DEF Sound, Owned, Spot
<1>6. OverwrittenIsSound'
  BY <1>2, <1>3 DEF OverwrittenIsSound
<1>7. CASE work.job \in report
  <2>1. /\ counted' = counted \cup Reported(c)
        /\ work' = [work EXCEPT !.at = "counted", !.good = calls[c].good, !.left = work.targets]
    BY <1>7 DEF RecordReportFileOutcome
  <2>2. /\ work' \in Work /\ work'.at = "counted" /\ work'.good = calls[c].good /\ work'.left = work.targets
        /\ \A i \in {"job", "pick", "targets", "todo", "file", "bad"} : work'[i] = work[i]
    BY <1>2, <2>1, Typed DEF IInv, Work, Call
  <2>3. counted' \subseteq Jobs \X Spots
    BY <1>2, <2>1 DEF IInv, ImportTypeOK, Call, Spots, Reported, Created
  <2>4. ImportTypeOK'
    BY <1>1, <1>3, <2>2, <2>3 DEF IInv, ImportTypeOK, Created
  <2>5. Working'
    BY <1>1, <1>2, <1>7, <2>2 DEF IInv, Working, Created, J, Busy
  <2>6. Counted'
    BY <1>1, <2>1, <2>2 DEF Counted, J, Reported
  <2>7. Brought'
    BY <1>1, <1>2, <2>2 DEF IInv, Brought
  <2>8. IngestedIsReported' /\ CompletedIsImported'
    BY <1>1, <2>1 DEF IInv, ImportTypeOK, IngestedIsReported, CompletedIsImported, Created
  <2>9. \A s \in Spots : Vouched(s)' => Vouched(s)
    BY <1>1, <1>2, <1>3, <2>2 DEF Vouched
  <2>. QED
    BY <1>4, <1>5, <1>6, <2>4, <2>5, <2>6, <2>7, <2>8, <2>9 DEF IInv, VouchedIsSound
<1>8. CASE work.job \notin report
  <2>1. GoesWrong /\ UNCHANGED counted
    BY <1>8 DEF RecordReportFileOutcome
  <2>2. /\ work' \in Work /\ work'.at = "closing"
        /\ (Working /\ Counted /\ Brought /\ IngestedIsReported /\ CompletedIsImported)'
    BY <1>1, <1>2, <2>1, GoesWrongStays
  <2>3. ImportTypeOK'
    BY <1>1, <1>3, <2>1, <2>2 DEF IInv, ImportTypeOK, Created
  <2>4. \A s \in Spots : Vouched(s)' => Vouched(s)
    BY <1>1, <1>2, <1>3, <2>2 DEF Vouched
  <2>. QED
    BY <1>4, <1>5, <1>6, <2>2, <2>3, <2>4 DEF IInv, VouchedIsSound
<1>. QED
  BY <1>7, <1>8

LEMMA IngestKeeps ==
  ASSUME IInv, NEW t \in Targets, IngestImportedReplica(t)
  PROVE  IInv'
<1>1. /\ work.at = "counted" /\ t \in work.left
      /\ UNCHANGED <<connected, session, gone, library, sel, lost, submit, order, jobs, report, counted,
                     calls, dest, torn, controls, mishaps, retries>>
  BY DEF IngestImportedReplica, device, draft, desk, disks, bounds
<1>2. /\ work \in Work /\ work.job \in Created /\ jobs[work.job] \in Job /\ work.file \in Files
  BY <1>1, Typed DEF IInv, Working
<1>3. CASE t \notin work.good
  <2>1. work' = [work EXCEPT !.left = @ \ {t}, !.bad = TRUE] /\ UNCHANGED <<replica, brought>>
    BY <1>3 DEF IngestImportedReplica
  <2>2. /\ work' \in Work /\ work'.bad
        /\ \A i \in {"at", "job", "pick", "targets", "todo", "file", "good"} : work'[i] = work[i]
    BY <1>2, <2>1 DEF Work
  <2>3. ImportTypeOK'
    BY <1>1, <2>1, <2>2 DEF IInv, ImportTypeOK, Created
  <2>4. Working' /\ Counted'
    BY <1>1, <2>2 DEF IInv, Working, Counted, Created, J, Busy
  <2>5. Brought'
    BY <2>2 DEF Brought
  <2>6. IngestedIsReported' /\ CompletedIsImported'
    BY <1>1, <2>1 DEF IInv, ImportTypeOK, IngestedIsReported, CompletedIsImported, Created
  <2>. QED
    BY <1>1, <2>1, <2>2, <2>3, <2>4, <2>5, <2>6, AgentStays DEF IInv
<1>4. CASE t \in work.good /\ LibraryOf[t] # J.library
  <2>1. GoesWrong /\ UNCHANGED books
    BY <1>1, <1>4 DEF IngestImportedReplica, books
  <2>2. controls' \in 0 .. MaxControls /\ mishaps' \in 0 .. MaxMishaps /\ retries' \in 0 .. MaxRetries
    BY <1>1 DEF IInv, ImportTypeOK
  <2>. QED
    BY <1>1, <2>1, <2>2, EndsInError DEF disks
<1>5. CASE t \in work.good /\ LibraryOf[t] = J.library
  <2>1. /\ replica' = replica \cup {<<work.file, t>>}
        /\ brought' = brought \cup {<<work.job, <<work.file, t>>>>}
        /\ work' = [work EXCEPT !.left = @ \ {t}]
    BY <1>5 DEF IngestImportedReplica, Register
  <2>2. /\ work' \in Work /\ work'.left = work.left \ {t}
        /\ \A i \in {"at", "job", "pick", "targets", "todo", "file", "good", "bad"} : work'[i] = work[i]
    BY <1>2, <2>1 DEF Work
  <2>3. replica' \subseteq Spots /\ brought' \subseteq Created \X Spots
    BY <1>2, <2>1 DEF IInv, ImportTypeOK, Spots
  <2>4. ImportTypeOK'
    BY <1>1, <2>2, <2>3 DEF IInv, ImportTypeOK, Created
  <2>5. Working' /\ Counted'
    BY <1>1, <2>2 DEF IInv, Working, Counted, Created, J, Busy
  <2>6. Brought'
    BY <1>1, <2>1, <2>2 DEF IInv, Brought
  <2>7. IngestedIsReported'
    <3>1. t \in J.asked => <<work.job, <<work.file, t>>>> \in counted
      BY <1>1, <1>5 DEF IInv, Counted
    <3>. QED
      BY <1>1, <1>2, <2>1, <3>1 DEF IInv, IngestedIsReported, Created, J
  <2>8. CompletedIsImported'
    BY <1>1, <2>1 DEF IInv, CompletedIsImported, Created
  <2>9. \A s \in Spots : Vouched(s)' => Vouched(s)
    BY <1>1, <1>5, <2>1, <2>2 DEF Vouched
  <2>. QED
    BY <1>1, <2>4, <2>5, <2>6, <2>7, <2>8, <2>9, QuietStays DEF IInv
<1>. QED
  BY <1>3, <1>4, <1>5

LEMMA NextFileKeeps ==
  ASSUME IInv, NextFile \/ AllFilesDone
  PROVE  IInv'
<1>1. /\ work.at \in {"files", "counted"}
      /\ UNCHANGED <<connected, session, gone, library, sel, lost, submit, order, jobs, report, replica, counted, brought,
                     calls, dest, torn, controls, mishaps, retries>>
  BY DEF NextFile, AllFilesDone, device, draft, desk, books, disks, bounds
<1>2. /\ work' \in Work /\ work'.at \notin {"idle", "calling", "counted"}
      /\ \A i \in {"job", "pick", "bad"} : work'[i] = work[i]
      /\ work'.at = "files" =>
           /\ \A i \in {"targets", "todo"} : work'[i] = work[i]
           /\ work.at = "counted" /\ work.left = {}
      /\ work'.at = "closing" => work.at = "files" /\ work.todo = {}
  <2>1. work \in Work
    BY Typed DEF IInv
  <2>2. CASE NextFile
    BY <2>1, <2>2 DEF NextFile, Work
  <2>3. CASE AllFilesDone
    <3>1. work.bad \in BOOLEAN
      BY <2>1 DEF Work
    <3>. QED
      BY <2>3, <3>1, ClosingTyped DEF AllFilesDone, IInv
  <2>. QED
    BY <2>2, <2>3
<1>3. ImportTypeOK'
  BY <1>1, <1>2 DEF IInv, ImportTypeOK, Created
<1>4. Working' /\ Counted'
  BY <1>1, <1>2 DEF IInv, Working, Counted, Created, J, Busy
<1>5. Brought'
  <2>1. ASSUME ~work.bad, work'.at = "files"
        PROVE  (Under[work.pick] \ work.todo) \X work.targets \subseteq replica
    BY <1>2, <2>1 DEF IInv, Brought
  <2>2. ASSUME ~work.bad, work'.at = "closing"
        PROVE  Under[work.pick] \X J.took[work.pick] \subseteq replica
    BY <1>2, <2>2 DEF IInv, Brought, Working, Busy
  <2>. QED
    BY <1>1, <1>2, <2>1, <2>2 DEF Brought, J
<1>6. IngestedIsReported' /\ CompletedIsImported'
  BY <1>1 DEF IInv, ImportTypeOK, IngestedIsReported, CompletedIsImported, Created
<1>7. (Waiting /\ VouchedIsSound /\ OverwrittenIsSound)'
  BY <1>1, <1>2, QuietStays DEF Vouched
<1>. QED
  BY <1>3, <1>4, <1>5, <1>6, <1>7 DEF IInv

-----------------------------------------------------------------------------
(***************************************************************************)
(* The agent.                                                              *)
(***************************************************************************)
LEMMA NothingVouched ==
  ASSUME UNCHANGED <<replica, work>>,
         \A d \in Calls : calls'[d] # None /\ calls'[d].heard =>
           /\ calls[d] # None /\ calls[d].heard
           /\ calls'[d].file = calls[d].file /\ calls'[d].good = calls[d].good
  PROVE  \A s \in Spots : Vouched(s)' => Vouched(s)
BY DEF Vouched

LEMMA BeginTargetKeeps ==
  ASSUME IInv, NEW c \in Calls, NEW t \in Targets, BeginTarget(c, t)
  PROVE  IInv'
<1>1. /\ calls[c] # None /\ calls[c].on = None /\ calls[c].heard /\ t \in calls[c].left
      /\ calls' = [calls EXCEPT ![c].on = t, ![c].left = @ \ {t}]
      /\ UNCHANGED <<connected, session, gone, library, sel, lost, submit, order, jobs, report, replica, counted, brought,
                     work, dest, torn, controls, mishaps, retries>>
  BY DEF BeginTarget, device, draft, desk, books, disks, bounds
<1>2. calls \in [Calls -> {None} \cup Call] /\ calls[c] \in Call
  BY <1>1, Typed DEF IInv, ImportTypeOK
<1>3. /\ calls'[c] \in Call /\ calls'[c].on = t /\ calls'[c].left = calls[c].left \ {t}
      /\ calls'[c].file = calls[c].file /\ calls'[c].writing = calls[c].writing
      /\ calls'[c].own = calls[c].own /\ calls'[c].good = calls[c].good
      /\ calls'[c].heard = calls[c].heard
      /\ \A d \in Calls \ {c} : calls'[d] = calls[d]
  BY <1>1, <1>2 DEF Call
<1>4. calls' \in [Calls -> {None} \cup Call] /\ calls'[c] # None
  BY <1>1, <1>2, <1>3, NonesDiffer
<1>5. ImportTypeOK'
  BY <1>1, <1>4 DEF IInv, ImportTypeOK, Created
<1>6. ~calls[c].writing
  BY <1>1 DEF IInv, Waiting
<1>7. Waiting'
  BY <1>1, <1>3, <1>4, NonesDiffer DEF IInv, Waiting
<1>8. \A s \in Spots : Sound(s) => Sound(s)'
  BY <1>1, <1>3, <1>6 DEF Sound, Owned, Spot
<1>9. \A s \in Spots : Vouched(s)' => Vouched(s)
  BY <1>1, <1>3, NothingVouched
<1>10. OverwrittenIsSound'
  <2>1. ASSUME NEW d \in Calls, calls'[d] # None, calls'[d].heard, calls'[d].writing, ~calls'[d].own
        PROVE  Sound(Spot(d))'
    <3>1. d # c
      BY <1>3, <1>6, <2>1
    <3>2. Spot(d)' = Spot(d) /\ Spot(d) \in Spots /\ Sound(Spot(d))
      <4>1. calls[d] \in Call /\ calls[d].on # None
        BY <1>3, <2>1, <3>1, Typed DEF IInv, Waiting
      <4>. QED
        BY <1>3, <2>1, <3>1, <4>1 DEF IInv, OverwrittenIsSound, Spot, Spots, Call
    <3>. QED
      BY <1>8, <3>2
  <2>. QED
    BY <2>1 DEF OverwrittenIsSound
<1>. QED
  BY <1>1, <1>5, <1>7, <1>8, <1>9, <1>10, CenterStays DEF IInv, VouchedIsSound

LEMMA TruncateKeeps ==
  ASSUME IInv, NEW c \in Calls, Truncate(c)
  PROVE  IInv'
<1>1. /\ calls[c] # None /\ calls[c].on # None
      /\ dest' = [dest EXCEPT ![Spot(c)] = "part"]
      /\ calls' = [d \in Calls |->
           IF d = c THEN [calls[d] EXCEPT !.writing = TRUE, !.own = TRUE]
           ELSE IF calls[d] # None /\ Spot(d) = Spot(c) THEN [calls[d] EXCEPT !.own = FALSE]
           ELSE calls[d]]
      /\ UNCHANGED <<connected, session, gone, library, sel, lost, submit, order, jobs, report, replica, counted, brought,
                     work, torn, controls, mishaps, retries>>
  BY DEF Truncate, device, draft, desk, books, bounds
<1>2. calls[c] \in Call /\ Spot(c) \in Spots
  BY <1>1, Typed DEF IInv, Spot, Spots, Call
<1>3. ASSUME NEW d \in Calls, calls[d] # None
      PROVE  /\ calls'[d] \in Call
             /\ calls'[d].file = calls[d].file /\ calls'[d].left = calls[d].left
             /\ calls'[d].on = calls[d].on /\ calls'[d].good = calls[d].good
             /\ calls'[d].heard = calls[d].heard
             /\ calls'[d].writing = (calls[d].writing \/ d = c)
             /\ calls'[d].own = (d = c \/ (calls[d].own /\ Spot(d) # Spot(c)))
  <2>1. calls[d] \in Call
    BY <1>3, Typed DEF IInv
  <2>2. CASE d = c
    BY <1>1, <2>1, <2>2 DEF Call
  <2>3. CASE d # c /\ Spot(d) = Spot(c)
    <3>1. calls'[d] = [calls[d] EXCEPT !.own = FALSE]
      BY <1>1, <1>3, <2>3
    <3>. QED
      BY <2>1, <2>3, <3>1 DEF Call
  <2>4. CASE d # c /\ Spot(d) # Spot(c)
    <3>1. calls'[d] = calls[d]
      BY <1>1, <1>3, <2>4
    <3>. QED
      BY <2>1, <2>4, <3>1 DEF Call
  <2>. QED
    BY <2>2, <2>3, <2>4
<1>4. \A d \in Calls : calls[d] = None => calls'[d] = None
  BY <1>1
<1>5. calls' \in [Calls -> {None} \cup Call]
  <2>1. calls' = [d \in Calls |-> calls'[d]]
    BY <1>1
  <2>. QED
    BY <1>3, <1>4, <2>1
<1>6. dest' \in [Spots -> {None, "part", "whole"}]
  BY <1>1 DEF IInv, ImportTypeOK
<1>7. ImportTypeOK'
  BY <1>1, <1>5, <1>6 DEF IInv, ImportTypeOK, Created
<1>8. \A d \in Calls : (calls'[d] # None <=> calls[d] # None) /\ (calls[d] # None => Spot(d)' = Spot(d))
  BY <1>3, <1>4, NonesDiffer DEF Spot
<1>9. Waiting'
  <2>1. ASSUME NEW d \in Calls, calls'[d] # None
        PROVE  /\ calls'[d].heard => work'.at = "calling" /\ calls'[d].file = work'.file
               /\ calls'[d].on # None => calls'[d].on \notin calls'[d].left \cup calls'[d].good
               /\ calls'[d].left \cap calls'[d].good = {}
               /\ calls'[d].writing => calls'[d].on # None
               /\ ~calls'[d].heard => calls'[d].on # None
    <3>1. calls[d] # None /\ (d = c => calls[d].on # None)
      BY <1>1, <1>8, <2>1
    <3>2. /\ calls[d].heard => work.at = "calling" /\ calls[d].file = work.file
          /\ calls[d].on # None => calls[d].on \notin calls[d].left \cup calls[d].good
          /\ calls[d].left \cap calls[d].good = {}
          /\ calls[d].writing => calls[d].on # None
          /\ ~calls[d].heard => calls[d].on # None
      BY <3>1 DEF IInv, Waiting
    <3>3. /\ calls'[d].file = calls[d].file /\ calls'[d].left = calls[d].left
          /\ calls'[d].on = calls[d].on /\ calls'[d].good = calls[d].good
          /\ calls'[d].heard = calls[d].heard
          /\ calls'[d].writing = (calls[d].writing \/ d = c)
      BY <1>3, <3>1
    <3>4. work' = work
      BY <1>1
    <3>. QED
      BY <3>1, <3>2, <3>3, <3>4
  <2>2. ASSUME NEW d \in Calls, calls'[d] # None, calls'[d].heard, NEW e \in Calls \ {d}, calls'[e] # None
        PROVE  ~calls'[e].heard
    <3>1. calls[d] # None /\ calls[d].heard /\ calls[e] # None
      BY <1>3, <1>8, <2>2
    <3>2. ~calls[e].heard
      BY <2>2, <3>1 DEF IInv, Waiting
    <3>. QED
      BY <1>3, <3>1, <3>2
  <2>. QED
    BY <2>1, <2>2 DEF Waiting
<1>10. \A s \in Spots : Sound(s) \/ s = Spot(c) => Sound(s)'
  <2>1. calls'[c] # None /\ calls'[c].writing /\ calls'[c].own /\ Spot(c)' = Spot(c)
    BY <1>1, <1>3, <1>8
  <2>2. ASSUME NEW s \in Spots, s = Spot(c) PROVE Sound(s)'
    <3>1. Owned(s)'
      BY <2>1, <2>2 DEF Owned
    <3>. QED
      BY <3>1 DEF Sound
  <2>3. ASSUME NEW s \in Spots, s # Spot(c), Sound(s) PROVE Sound(s)'
    <3>1. ASSUME Owned(s) PROVE Owned(s)'
      <4>1. PICK e \in Calls : calls[e] # None /\ calls[e].writing /\ calls[e].own /\ Spot(e) = s
        BY <3>1 DEF Owned
      <4>2. calls'[e] # None /\ Spot(e)' = s
        BY <1>8, <4>1
      <4>3. calls'[e].writing /\ calls'[e].own
        BY <1>3, <2>3, <4>1
      <4>. QED
        BY <4>2, <4>3 DEF Owned
    <3>2. dest'[s] = dest[s]
      BY <1>1, <2>3 DEF IInv, ImportTypeOK
    <3>. QED
      BY <1>1, <2>3, <3>1, <3>2 DEF Sound
  <2>. QED
    BY <2>2, <2>3
<1>11. \A s \in Spots : Vouched(s)' => Vouched(s)
  BY <1>1, <1>3, <1>8, NothingVouched
<1>12. OverwrittenIsSound'
  <2>1. ASSUME NEW d \in Calls, calls'[d] # None, calls'[d].heard, calls'[d].writing, ~calls'[d].own
        PROVE  Sound(Spot(d))'
    <3>1. d # c /\ calls[d] # None /\ calls[d].writing /\ calls[d].heard
      BY <1>3, <1>8, <2>1
    <3>2. calls[d] \in Call /\ calls[d].on # None
      BY <3>1, Typed DEF IInv, Waiting
    <3>3. Spot(d) \in Spots
      BY <3>2 DEF Spot, Spots, Call
    <3>4. Sound(Spot(d)) \/ Spot(d) = Spot(c)
      BY <1>3, <2>1, <3>1 DEF IInv, OverwrittenIsSound
    <3>5. Spot(d)' = Spot(d)
      BY <1>8, <3>1
    <3>6. ASSUME NEW s \in Spots, s = Spot(d), s = Spot(d)' PROVE Sound(Spot(d))'
      <4>1. Sound(s)'
        BY <1>10, <3>4, <3>6
      <4>. QED
        BY <3>6, <4>1 DEF Sound, Owned
    <3>. QED
      BY <3>3, <3>5, <3>6
  <2>. QED
    BY <2>1 DEF OverwrittenIsSound
<1>. QED
  BY <1>1, <1>7, <1>9, <1>10, <1>11, <1>12, CenterStays DEF IInv, VouchedIsSound

\* A copy leaves its target, and its call is forgotten when nobody waits.
LEMMA LeavesTarget ==
  ASSUME IInv, NEW c \in Calls, calls[c] # None, calls[c].on # None, NEW good \in SUBSET Targets,
         good \in {calls[c].good, calls[c].good \cup {calls[c].on}},
         After(c, [Over(c) EXCEPT !.good = good]),
         UNCHANGED work
  PROVE  /\ calls' \in [Calls -> {None} \cup Call]
         /\ \A d \in Calls \ {c} : calls'[d] = calls[d]
         /\ ~calls[c].heard => calls'[c] = None
         /\ calls[c].heard =>
              /\ calls'[c] \in Call /\ calls'[c] # None
              /\ calls'[c].file = calls[c].file /\ calls'[c].left = calls[c].left
              /\ calls'[c].good = good /\ calls'[c].on = None /\ ~calls'[c].writing
         /\ Waiting'
<1>1. calls \in [Calls -> {None} \cup Call] /\ calls[c] \in Call
  BY Typed DEF IInv, ImportTypeOK
<1>2. /\ [Over(c) EXCEPT !.good = good] \in Call
      /\ [Over(c) EXCEPT !.good = good].heard = calls[c].heard
      /\ [Over(c) EXCEPT !.good = good].file = calls[c].file
      /\ [Over(c) EXCEPT !.good = good].left = calls[c].left
      /\ [Over(c) EXCEPT !.good = good].good = good
      /\ [Over(c) EXCEPT !.good = good].on = None
      /\ ~[Over(c) EXCEPT !.good = good].writing
  BY <1>1 DEF Over, Call
<1>3. calls' = [calls EXCEPT ![c] = IF calls[c].heard THEN [Over(c) EXCEPT !.good = good] ELSE None]
  <2>1. calls' = [calls EXCEPT ![c] = IF [Over(c) EXCEPT !.good = good].heard
                                      THEN [Over(c) EXCEPT !.good = good] ELSE None]
    BY Zenon DEF After
  <2>2. [Over(c) EXCEPT !.good = good].heard = calls[c].heard
    BY <1>2
  <2>. QED
    BY <2>1, <2>2, Zenon
<1>4. /\ calls' \in [Calls -> {None} \cup Call]
      /\ \A d \in Calls \ {c} : calls'[d] = calls[d]
      /\ ~calls[c].heard => calls'[c] = None
      /\ calls[c].heard => calls'[c] = [Over(c) EXCEPT !.good = good]
  BY <1>1, <1>2, <1>3
<1>5. ASSUME NEW d \in Calls, calls'[d] # None
      PROVE  /\ calls'[d].heard => work'.at = "calling" /\ calls'[d].file = work'.file
             /\ calls'[d].on # None => calls'[d].on \notin calls'[d].left \cup calls'[d].good
             /\ calls'[d].left \cap calls'[d].good = {}
             /\ calls'[d].writing => calls'[d].on # None
             /\ ~calls'[d].heard => calls'[d].on # None
  <2>1. /\ calls[d] # None
        /\ calls[d].heard => work.at = "calling" /\ calls[d].file = work.file
        /\ calls[d].on # None => calls[d].on \notin calls[d].left \cup calls[d].good
        /\ calls[d].left \cap calls[d].good = {}
        /\ calls[d].writing => calls[d].on # None
        /\ ~calls[d].heard => calls[d].on # None
    BY <1>4, <1>5 DEF IInv, Waiting
  <2>2. CASE d # c
    BY <1>4, <2>1, <2>2
  <2>3. CASE d = c
    <3>1. calls[c].heard /\ calls'[c] = [Over(c) EXCEPT !.good = good]
      BY <1>4, <1>5, <2>3
    <3>2. calls[c].left \cap good = {}
      BY <2>1, <2>3
    <3>. QED
      BY <1>2, <2>1, <2>3, <3>1, <3>2
  <2>. QED
    BY <2>2, <2>3
<1>6. ASSUME NEW d \in Calls, calls'[d] # None, calls'[d].heard, NEW e \in Calls \ {d}, calls'[e] # None
      PROVE  ~calls'[e].heard
  <2>1. calls[d] # None /\ calls[d].heard /\ calls[e] # None
    BY <1>2, <1>4, <1>6
  <2>2. ~calls[e].heard
    BY <1>6, <2>1 DEF IInv, Waiting
  <2>. QED
    BY <1>2, <1>4, <1>6, <2>1, <2>2
<1>7. Waiting'
  BY <1>5, <1>6 DEF Waiting
<1>. QED
  BY <1>2, <1>4, <1>7, NonesDiffer

\* Whoever is waited for is the call that leaves.
LEMMA LeavesNothingOverwritten ==
  ASSUME IInv, NEW c \in Calls, calls[c] # None,
         \A d \in Calls \ {c} : calls'[d] = calls[d],
         calls'[c] # None => ~calls'[c].writing,
         ~calls[c].heard => \A s \in Spots : Sound(s) => Sound(s)'
  PROVE  OverwrittenIsSound'
<1>1. SUFFICES ASSUME NEW d \in Calls, calls'[d] # None, calls'[d].heard, calls'[d].writing, ~calls'[d].own
               PROVE  Sound(Spot(d))'
  BY DEF OverwrittenIsSound
<1>2. d # c /\ calls'[d] = calls[d]
  BY <1>1
<1>3. ~calls[c].heard
  BY <1>1, <1>2 DEF IInv, Waiting
<1>4. calls[d] \in Call /\ calls[d].on # None
  BY <1>1, <1>2, Typed DEF IInv, Waiting
<1>5. Spot(d) \in Spots /\ Spot(d)' = Spot(d) /\ Sound(Spot(d))
  BY <1>1, <1>2, <1>4 DEF IInv, OverwrittenIsSound, Spot, Spots, Call
<1>6. ASSUME NEW s \in Spots, s = Spot(d), s = Spot(d)' PROVE Sound(Spot(d))'
  <2>1. Sound(s)'
    BY <1>3, <1>5, <1>6
  <2>. QED
    BY <1>6, <2>1 DEF Sound, Owned
<1>. QED
  BY <1>5, <1>6

LEMMA CopyEndsKeeps ==
  ASSUME IInv, NEW c \in Calls, CopyEnds(c)
  PROVE  IInv'
<1>1. /\ calls[c] # None /\ calls[c].writing
      /\ dest' = IF calls[c].own THEN [dest EXCEPT ![Spot(c)] = "whole"] ELSE dest
      /\ UNCHANGED <<connected, session, gone, library, sel, lost, submit, order, jobs, report, replica, counted, brought,
                     work, torn, controls, mishaps, retries>>
  BY DEF CopyEnds, device, draft, desk, books, bounds
<1>2. PICK passed \in BOOLEAN :
        After(c, [Over(c) EXCEPT !.good = IF passed THEN @ \cup {calls[c].on} ELSE @])
  BY DEF CopyEnds
<1>3. calls[c] \in Call /\ calls[c].on # None
  BY <1>1, Typed DEF IInv, Waiting
<1>4. PICK good \in SUBSET Targets :
        /\ good \in {calls[c].good, calls[c].good \cup {calls[c].on}}
        /\ After(c, [Over(c) EXCEPT !.good = good])
  <2>1. Over(c).good = calls[c].good
    BY <1>3 DEF Over, Call
  <2>2. calls[c].good \subseteq Targets /\ calls[c].on \in Targets
    BY <1>3 DEF Call
  <2>. QED
    BY <1>2, <2>1, <2>2
<1>5. /\ calls' \in [Calls -> {None} \cup Call]
      /\ \A d \in Calls \ {c} : calls'[d] = calls[d]
      /\ ~calls[c].heard => calls'[c] = None
      /\ calls[c].heard =>
           /\ calls'[c] # None /\ calls'[c].file = calls[c].file
           /\ calls'[c].good = good /\ ~calls'[c].writing
      /\ Waiting'
  BY <1>1, <1>3, <1>4, LeavesTarget
<1>6. Spot(c) \in Spots
  BY <1>3 DEF Spot, Spots, Call
<1>7. dest' \in [Spots -> {None, "part", "whole"}]
  BY <1>1, <1>6 DEF IInv, ImportTypeOK
<1>8. ImportTypeOK'
  BY <1>1, <1>5, <1>7 DEF IInv, ImportTypeOK, Created
<1>9. ASSUME NEW s \in Spots, Sound(s) PROVE Sound(s)'
  <2>1. CASE calls[c].own /\ s = Spot(c)
    <3>1. dest'[s] = "whole"
      BY <1>1, <1>6, <2>1 DEF IInv, ImportTypeOK
    <3>. QED
      BY <3>1 DEF Sound
  <2>2. CASE ~(calls[c].own /\ s = Spot(c))
    <3>1. dest'[s] = dest[s]
      BY <1>1, <1>6, <2>2 DEF IInv, ImportTypeOK
    <3>2. Owned(s) => Owned(s)'
      BY <1>5, <2>2 DEF Owned, Spot
    <3>. QED
      BY <1>1, <1>9, <3>1, <3>2 DEF Sound
  <2>. QED
    BY <2>1, <2>2
<1>10. OverwrittenIsSound'
  BY <1>1, <1>5, <1>9, LeavesNothingOverwritten
<1>11. ASSUME NEW s \in Spots, Vouched(s)' PROVE Sound(s)'
  <2>1. CASE Vouched(s)
    BY <1>9, <2>1 DEF IInv, VouchedIsSound
  <2>2. CASE ~Vouched(s)
    <3>1. calls[c].heard /\ s = Spot(c)
      BY <1>1, <1>4, <1>5, <1>11, <2>2 DEF Vouched, Spot, Spots
    <3>2. calls[c].own \/ Sound(s)
      BY <1>1, <3>1 DEF IInv, OverwrittenIsSound
    <3>3. CASE calls[c].own
      <4>1. dest'[s] = "whole"
        BY <1>1, <1>6, <3>1, <3>3 DEF IInv, ImportTypeOK
      <4>. QED
        BY <4>1 DEF Sound
    <3>. QED
      BY <1>9, <3>2, <3>3
  <2>. QED
    BY <2>1, <2>2
<1>. QED
  BY <1>1, <1>5, <1>8, <1>10, <1>11, CenterStays DEF IInv, VouchedIsSound

LEMMA CopyFailsKeeps ==
  ASSUME IInv, NEW c \in Calls, CopyFails(c)
  PROVE  IInv'
<1>1. /\ calls[c] # None /\ calls[c].on # None
      /\ torn' = torn \cup Tears(c) /\ After(c, Over(c))
      /\ UNCHANGED <<connected, session, gone, library, sel, lost, submit, order, jobs, report, replica, counted, brought,
                     work, dest>>
  BY DEF CopyFails, device, draft, desk, books
<1>2. controls' \in 0 .. MaxControls /\ mishaps' \in 0 .. MaxMishaps /\ retries' \in 0 .. MaxRetries
  BY ControlStep DEF IInv, CopyFails
<1>3. calls[c] \in Call
  BY <1>1, Typed DEF IInv
<1>4. After(c, [Over(c) EXCEPT !.good = calls[c].good]) /\ calls[c].good \in SUBSET Targets
  <2>1. [Over(c) EXCEPT !.good = calls[c].good] = Over(c)
    BY <1>3 DEF Over, Call
  <2>. QED
    BY <1>1, <1>3, <2>1 DEF Call
<1>5. /\ calls' \in [Calls -> {None} \cup Call]
      /\ \A d \in Calls \ {c} : calls'[d] = calls[d]
      /\ ~calls[c].heard => calls'[c] = None
      /\ calls[c].heard =>
           /\ calls'[c] # None /\ calls'[c].file = calls[c].file
           /\ calls'[c].good = calls[c].good /\ ~calls'[c].writing
      /\ Waiting'
  BY <1>1, <1>4, LeavesTarget
<1>6. Tears(c) \subseteq Spots
  BY <1>1, <1>3 DEF Tears, Spot, Spots, Call
<1>7. ImportTypeOK'
  BY <1>1, <1>2, <1>5, <1>6 DEF IInv, ImportTypeOK, Created
<1>8. ASSUME NEW s \in Spots, Sound(s), ~calls[c].heard \/ s \in replica \/ s # Spot(c)
      PROVE  Sound(s)'
  <2>1. CASE calls[c].writing /\ s = Spot(c)
    <3>1. s \in torn'
      BY <1>1, <1>8, <2>1 DEF Tears
    <3>. QED
      BY <3>1 DEF Sound
  <2>2. CASE ~(calls[c].writing /\ s = Spot(c))
    <3>1. Owned(s) => Owned(s)'
      BY <1>5, <2>2 DEF Owned, Spot
    <3>. QED
      BY <1>1, <1>8, <3>1 DEF Sound
  <2>. QED
    BY <2>1, <2>2
<1>9. OverwrittenIsSound'
  BY <1>1, <1>5, <1>8, LeavesNothingOverwritten
<1>10. ASSUME NEW s \in Spots, Vouched(s)' PROVE Sound(s)'
  <2>1. Vouched(s)
    BY <1>1, <1>5, <1>10, NothingVouched
  <2>2. Sound(s)
    BY <2>1 DEF IInv, VouchedIsSound
  <2>3. calls[c].heard /\ s = Spot(c) => s \in replica
    <3>1. ASSUME calls[c].heard, s = Spot(c) PROVE s \in replica
      <4>1. work.at = "calling" /\ calls[c].on \notin calls[c].good
            /\ \A d \in Calls \ {c} : calls[d] # None => ~calls[d].heard
        BY <1>1, <3>1 DEF IInv, Waiting
      <4>. QED
        BY <2>1, <3>1, <4>1 DEF Vouched, Spot
    <3>. QED
      BY <3>1
  <2>. QED
    BY <1>8, <2>2, <2>3
<1>. QED
  BY <1>1, <1>5, <1>7, <1>9, <1>10, CenterStays DEF IInv, VouchedIsSound

LEMMA AgentCrashesKeeps ==
  ASSUME IInv, AgentCrashes
  PROVE  IInv'
<1>1. /\ torn' = torn \cup UNION {Tears(c) : c \in {d \in Calls : calls[d] # None}}
      /\ calls' = [c \in Calls |-> None]
      /\ UNCHANGED <<connected, session, gone, library, sel, lost, submit, order, jobs, report, replica, counted, brought, dest>>
      /\ IF work.at = "calling" THEN GoesWrong ELSE UNCHANGED work
  BY DEF AgentCrashes, device, draft, desk, books
<1>2. controls' \in 0 .. MaxControls /\ mishaps' \in 0 .. MaxMishaps /\ retries' \in 0 .. MaxRetries
  BY ControlStep DEF IInv, AgentCrashes
<1>3. /\ work' \in Work /\ work'.at # "calling" /\ (work'.at = "counted" => UNCHANGED work)
      /\ (Working /\ Counted /\ Brought /\ IngestedIsReported /\ CompletedIsImported)'
  <2>1. CASE work.at = "calling"
    BY <1>1, <2>1, GoesWrongStays
  <2>2. CASE work.at # "calling"
    BY <1>1, <2>2, CenterStays, Typed DEF IInv
  <2>. QED
    BY <2>1, <2>2
<1>4. torn' \subseteq Spots
  <2>1. \A c \in Calls : calls[c] # None => Tears(c) \subseteq Spots
    <3>1. ASSUME NEW c \in Calls, calls[c] # None PROVE Tears(c) \subseteq Spots
      <4>1. calls[c] \in Call /\ (calls[c].writing => calls[c].on # None)
        BY <3>1, Typed DEF IInv, Waiting
      <4>. QED
        BY <4>1 DEF Tears, Spot, Spots, Call
    <3>. QED
      BY <3>1
  <2>. QED
    BY <1>1, <2>1 DEF IInv, ImportTypeOK
<1>5. calls' \in [Calls -> {None} \cup Call] /\ \A c \in Calls : calls'[c] = None
  BY <1>1
<1>6. ImportTypeOK'
  BY <1>1, <1>2, <1>3, <1>4, <1>5 DEF IInv, ImportTypeOK, Created
<1>7. Waiting' /\ OverwrittenIsSound'
  BY <1>5 DEF Waiting, OverwrittenIsSound
<1>8. ASSUME NEW s \in Spots, Vouched(s)' PROVE Sound(s)'
  <2>1. s \in replica \/ work.at = "counted"
    BY <1>1, <1>3, <1>5, <1>8 DEF Vouched
  <2>2. Vouched(s)
    BY <1>1, <1>3, <1>5, <1>8 DEF Vouched
  <2>3. Sound(s)
    BY <2>2 DEF IInv, VouchedIsSound
  <2>4. Owned(s) => s \in torn'
    <3>1. ASSUME NEW c \in Calls, calls[c] # None, calls[c].writing, Spot(c) = s PROVE s \in torn'
      <4>1. ~calls[c].heard \/ s \in replica
        BY <2>1, <3>1 DEF IInv, Waiting
      <4>2. s \in Tears(c)
        BY <3>1, <4>1 DEF Tears
      <4>. QED
        BY <1>1, <3>1, <4>2
    <3>. QED
      BY <3>1 DEF Owned
  <2>. QED
    BY <1>1, <2>3, <2>4 DEF Sound
<1>. QED
  BY <1>3, <1>6, <1>7, <1>8 DEF IInv, VouchedIsSound

-----------------------------------------------------------------------------
LEMMA Preservation == IInv /\ [ImportNext]_vars => IInv'
<1>. SUFFICES ASSUME IInv, [ImportNext]_vars PROVE IInv'
  OBVIOUS
<1>1. CASE Pull \/ RefreshSessions \/ Draft
  BY <1>1, DraftKeeps
<1>2. CASE Submit
  BY <1>2, SubmitKeeps
<1>3. CASE Execute
  <2>1. CASE TimeOut
    BY <2>1, TimeOutKeeps
  <2>2. CASE NextFile \/ AllFilesDone
    BY <2>2, NextFileKeeps
  <2>3. CASE EndItem
    BY <2>3, EndItemKeeps
  <2>4. CASE \E f \in Files : CallAgent(f)
    BY <2>4, CallAgentKeeps
  <2>5. CASE \E t \in Targets : IngestImportedReplica(t)
    BY <2>5, IngestKeeps
  <2>6. CASE \E c \in Calls : RecordReportFileOutcome(c)
    BY <2>6, RecordKeeps
  <2>. QED
    BY <1>3, <2>1, <2>2, <2>3, <2>4, <2>5, <2>6 DEF Execute
<1>4. CASE Agent
  BY <1>4, TruncateKeeps, CopyEndsKeeps, CopyFailsKeeps, BeginTargetKeeps DEF Agent
<1>5. CASE \E j \in Jobs, p \in Picks : StartItem(j, p) \/ RetryItem(j, p)
  BY <1>5, StartItemKeeps, RetryItemKeeps
<1>6. CASE CenterCrashes \/ StatementFails \/ AgentCrashes
  BY <1>6, CenterCrashesKeeps, StatementFailsKeeps, AgentCrashesKeeps
<1>7. CASE UNCHANGED vars
  <2>1. UNCHANGED <<connected, session, gone, library, sel, lost, submit, order, jobs, report, replica, counted, brought,
                    work, calls, dest, torn, controls, mishaps, retries>>
    BY <1>7 DEF vars, device, draft, desk, books, disks, bounds
  <2>2. ImportTypeOK'
    BY <2>1 DEF IInv, ImportTypeOK, Created
  <2>. QED
    BY <2>1, <2>2, AgentStays, CenterStays DEF IInv
<1>. QED
  BY <1>1, <1>2, <1>3, <1>4, <1>5, <1>6, <1>7 DEF ImportNext

\* The inductive invariant of imports.
THEOREM Invariance == ImportSpec => []IInv
<1>1. ImportInit => IInv
  BY InitHolds
<1>2. IInv /\ [ImportNext]_vars => IInv'
  BY Preservation
<1>. QED
  BY <1>1, <1>2, PTL DEF ImportSpec

\* The variables keep their types: a draft never loses its library, and reports
\* are those of jobs that were created.
THEOREM ImportsTyped == ImportSpec => []ImportTypeOK
<1>1. IInv => ImportTypeOK
  BY DEF IInv
<1>. QED
  BY <1>1, Invariance, PTL

\* What imports put in the catalogue is whole on its target, whatever copies of
\* earlier attempts still run: but for a copy that is at work on it or was broken off.
THEOREM ImportedFilesAreWhole == ImportSpec => []ImportedIsWhole
<1>1. IInv => ImportedIsWhole
  <2>1. ASSUME IInv, NEW s \in replica \ torn
        PROVE  dest[s] = "whole" \/ \E c \in Calls : calls[c] # None /\ calls[c].writing /\ Spot(c) = s
    <3>1. s \in Spots /\ Vouched(s)
      BY <2>1 DEF IInv, ImportTypeOK, Vouched
    <3>. QED
      BY <2>1, <3>1 DEF IInv, VouchedIsSound, Sound, Owned
  <2>. QED
    BY <2>1 DEF ImportedIsWhole
<1>. QED
  BY <1>1, Invariance, PTL

\* Whatever the execution of a job puts in the catalogue, the report of that same job
\* has counted, but for targets that were not chosen when the job was submitted.
THEOREM IngestsAreReported == ImportSpec => []IngestedIsReported
<1>1. IInv => IngestedIsReported
  BY DEF IInv
<1>. QED
  BY <1>1, Invariance, PTL

\* An item that completes has brought all its files to all the targets it found.
THEOREM CompletedAreImported == ImportSpec => []CompletedIsImported
<1>1. IInv => CompletedIsImported
  BY DEF IInv
<1>. QED
  BY <1>1, Invariance, PTL
=============================================================================
