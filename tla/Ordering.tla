------------------------------ MODULE Ordering ------------------------------
(***************************************************************************)
(* What sort and filter make of a list: some of its members, in an order.  *)
(***************************************************************************)
EXTENDS Integers, FiniteSets, Sequences

Least(S) == CHOOSE i \in S : \A j \in S : i <= j
Greatest(S) == CHOOSE i \in S : \A j \in S : i >= j

Tuple(s) == <<>> \o s       \* s, which TLC computes once

\* What s has at the indices S, in an order of them: pairs of the earlier and the later.
Place(i, S, before) == Cardinality({j \in S : <<j, i>> \in before}) + 1
Arranged(s, S, before) ==
    Tuple([k \in 1..Cardinality(S) |-> s[CHOOSE i \in S : Place(i, S, before) = k]])

InPlace(s) == {e \in (DOMAIN s) \X (DOMAIN s) : e[1] < e[2]}
=============================================================================
