------------------------------ MODULE Positions ------------------------------
(***************************************************************************)
(* Positions in a text, which is a sequence of characters: how many of     *)
(* some positions are at or before one of them, the n-th of them, and what *)
(* stands there.                                                           *)
(***************************************************************************)
EXTENDS Integers, Sequences, FiniteSets

Rank(I, i) == Cardinality({j \in I : j <= i})
Nth(I, n) == CHOOSE i \in I : Rank(I, i) = n
Selected(t, I) == [n \in 1 .. Cardinality(I) |-> t[Nth(I, n)]]
=============================================================================
