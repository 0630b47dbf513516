----------------------------- MODULE MCReducer ------------------------------
(* Instances of Reducer for TLC: every family of lists over the given words,
   in every order, with counts up to MaxCount. *)
EXTENDS Reducer

CONSTANTS a, b, c, MaxCount

(* The lists an adder can leave: distinct words, in any order. *)
ListsOver(words) ==
  {list \in UNION {[1..n -> [word : words, count : 1..MaxCount]]
                     : n \in 0..Cardinality(words)} : Distinct(list)}

AllFamilies == [Replicas -> ListsOver(Words)]
=============================================================================
