--------------------------- MODULE MCImportSession ---------------------------
(***************************************************************************)
(* Instances of ImportSession for TLC.                                     *)
(***************************************************************************)
EXTENDS ImportSession

CONSTANTS f1, f2, t1, t2, l1, l2, dir, one

\* A directory, and a file.
DirAndFile == [p \in Picks |-> IF p = dir THEN Files ELSE {f1}]

OneLibrary == [t \in Targets |-> l1]
=============================================================================
