------------------------------- MODULE Filter -------------------------------
(***************************************************************************)
(* What a filter leaves of a sequence.  It is given by the places it       *)
(* keeps, not by a test of one element, so that a place may be judged by   *)
(* what stands around it; and it is written without recursion, so that     *)
(* what it does to a sequence of any length can be proved.                 *)
(***************************************************************************)
EXTENDS Naturals, Sequences, FiniteSets

\* How many of the places up to p are kept.
Rank(places, p) == Cardinality(places \cap (1..p))

\* The elements of s at some of its places, in their order.
Keep(s) ==
    [places \in SUBSET DOMAIN s |->
        [k \in 1..Cardinality(places) |->
            s[CHOOSE p \in places : Rank(places, p) = k]]]
=============================================================================
