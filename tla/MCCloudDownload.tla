--------------------------- MODULE MCCloudDownload ---------------------------
(***************************************************************************)
(* Instances of CloudDownload for TLC.                                     *)
(***************************************************************************)
EXTENDS CloudDownload, TLC

CONSTANTS i1, i2

OneJob == [i \in Items |-> 1]

ItemControls == {"PauseJobItem", "ResumeJobItem", "CancelJobItem"}
JobControls  == {"PauseJob", "ResumeJob", "CancelJob", "RetryJob"}
AllControls  == JobControls \cup ItemControls
NoControls   == {}

Symmetry == Permutations({i1, i2})

\* Bound: two disturbances beside two downloads, one beside three.
FewDisturbances == controls + crashes + lapses + Len(tasks) <= 4
=============================================================================
