------------------------------- MODULE Filtered -------------------------------
(***************************************************************************)
(* items.filter((item) => item is not e): what the recent ring of sessions *)
(* and the history document do before they put an item in front, and the   *)
(* order lists of a marker before they put a name last. It says what       *)
(* Remove of SequencesExt says, without a predicate as a parameter, so     *)
(* that proofs can speak of its elements.                                  *)
(***************************************************************************)
EXTENDS Integers, Sequences, FiniteSets

(* The k-th element that is kept is the one with k kept places up to it.    *)
Without(s, e) ==
  LET kept == {i \in DOMAIN s : s[i] # e}
      rank(i) == Cardinality({j \in kept : j <= i})
  IN [k \in 1..Cardinality(kept) |-> s[CHOOSE i \in kept : rank(i) = k]]
=============================================================================
