----------------------------- MODULE MCJobEngine -----------------------------
(***************************************************************************)
(* Instances of JobEngine for TLC.                                         *)
(***************************************************************************)
EXTENDS JobEngine, TLC

CONSTANTS i1, i2, i3

OneJob  == [i \in Items |-> 1]
UnevenJobs == i1 :> 1 @@ i2 :> 1 @@ i3 :> 2

ItemControls == {"PauseJobItem", "ResumeJobItem", "CancelJobItem"}
JobControls  == {"PauseJob", "ResumeJob", "CancelJob", "RetryJob"}
AllControls  == JobControls \cup ItemControls
QueueControls == AllControls \cup {"UpdatePriority"}

Symmetry == Permutations({i1, i2})
=============================================================================
