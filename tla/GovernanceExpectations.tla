------------------------ MODULE GovernanceExpectations ------------------------
(***************************************************************************)
(* What the documentation says of the governance scheduler that the code   *)
(* does not keep.                                                          *)
(***************************************************************************)
EXTENDS MCGovernance

OneScheduled == {[m \in Mounts |-> "SCHEDULED"]}

\* When a replica with an open issue is found again by a scan, the issue does not
\* stay open for good (plan of slice 12, line 253; the message "the missing replica
\* has recovered, the issue was closed automatically" in missing_sync.go).
RecoveredIsResolved ==
  \A m \in Stocked : []<>~(issue[m] = "OPEN" /\ row[m] = "AVAILABLE")
=============================================================================
