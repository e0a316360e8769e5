---------------------------- MODULE MCGovernance ----------------------------
(***************************************************************************)
(* Instances of Governance for TLC.                                        *)
(***************************************************************************)
EXTENDS Governance

CONSTANTS m1, m2

OneScheduledOneAtStart == {[m \in Mounts |-> IF m = m1 THEN "SCHEDULED" ELSE "ON_START"]}
=============================================================================
