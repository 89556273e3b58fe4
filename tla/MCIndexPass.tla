----------------------------- MODULE MCIndexPass -----------------------------
(* IndexPass on small instances: the constants the configurations share. *)
EXTENDS IndexPass, TLC

CONSTANTS f1, f2

TwoFiles == {f1, f2}
OneFile  == {f1}
TwoParts == {1, 2}

Symmetric == Permutations(Files)
=============================================================================
