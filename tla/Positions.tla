------------------------------ MODULE Positions ------------------------------
(***************************************************************************)
(* Enumerations in ascending order: of a finite set of integers, and of    *)
(* the items of a sequence at some of its positions.  They give what       *)
(* SetToSortSeq and SelectSeq give, defined so that the proofs can expand  *)
(* them (module SequenceLemmas).                                           *)
(***************************************************************************)
EXTENDS Integers, FiniteSets

\* The members of S from the least to the greatest.
Ascending(S) ==
  [i \in 1..Cardinality(S) |-> CHOOSE x \in S : Cardinality({y \in S : y < x}) = i - 1]

\* The items of s at the positions I, in their order in s.
ItemsAt(s, I) == [i \in 1..Cardinality(I) |-> s[Ascending(I)[i]]]

=============================================================================
