---------------------------- MODULE MCIssueCentre ----------------------------
(***************************************************************************)
(* Instances of IssueCentre for TLC.  An item is a pair of its job and its *)
(* number, so that jobs can be exchanged together with their items.        *)
(***************************************************************************)
EXTENDS IssueCentre, TLC

CONSTANTS j1, j2

OneItemEach == {j1, j2} \X {1}
TwoItems == {j1} \X {1, 2}
ItsJob == [i \in Items |-> i[1]]

\* All failures are about one object.
OneObject == [x \in Jobs \cup Items |-> 0]

Symmetry == Permutations({j1, j2})
==============================================================================
