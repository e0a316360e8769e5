----------------------------- MODULE MCCatalogue -----------------------------
(***************************************************************************)
(* Instances of Catalogue for TLC.                                         *)
(***************************************************************************)
EXTENDS Catalogue, TLC

CONSTANTS local, nas, v1, v2

SameContents == Permutations(Versions)
=============================================================================
