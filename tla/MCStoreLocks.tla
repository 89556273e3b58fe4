----------------------------- MODULE MCStoreLocks -----------------------------
(* Processes for StoreLocks. *)
EXTENDS StoreLocks

CONSTANTS p1, p2, p3

TwoProcs   == {p1, p2}
ThreeProcs == {p1, p2, p3}
=============================================================================
