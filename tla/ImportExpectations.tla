-------------------------- MODULE ImportExpectations --------------------------
(***************************************************************************)
(* What the code says of imports and does not keep.                        *)
(***************************************************************************)
EXTENDS MCImportSession

\* The precheck blocks while the device is known to be gone ("the source device
\* is disconnected, connect it again before you go on", buildSelectionPrecheck).
GoneStaysBlocked == [][submit = "idle" /\ submit' = "passed" => ~gone]_vars
=============================================================================
