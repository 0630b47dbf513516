----------------------------- MODULE WordCount ------------------------------
(***************************************************************************)
(* What the word count of prog3 promises, without threads, buffers and     *)
(* lists: every occurrence of every word of the file is counted once, in   *)
(* any order, and when all are counted the result is published.            *)
(*                                                                         *)
(* Two reservations, which are the code's: the process may die, and the    *)
(* summing of the partial counts may be skewed, that is, may move counts   *)
(* from one word to another, without changing their sum.                   *)
(***************************************************************************)
EXTENDS Integers, FiniteSetsExt

CONSTANTS
  Words,       (* the words of the file                                    *)
  Text,        (* how often each occurs, an element of [Words -> Nat]      *)
  NoResult     (* nothing published yet, not an element of it              *)

VARIABLES
  counted,     (* the occurrences counted so far                           *)
  skewed,      (* have counts been moved between words?                    *)
  result,      (* the published counts                                     *)
  died         (* the process is gone                                      *)

vars == <<counted, skewed, result, died>>

Sum(counts) == SumFunctionOnSet(counts, Words)

Summing == ~died /\ result = NoResult /\ counted = Text

Count(w) ==
  /\ ~died
  /\ counted'[w] = counted[w] + 1
  /\ counted'[w] <= Text[w]
  /\ counted' = [counted EXCEPT ![w] = @ + 1]
  /\ UNCHANGED <<skewed, result, died>>

Skew ==
  /\ ~skewed /\ skewed' = TRUE
  /\ Summing
  /\ UNCHANGED <<counted, result, died>>

(* The result, with the exact counts if they were not skewed. *)
Publish ==
  /\ result' # NoResult
  /\ Summing
  /\ result' \in [Words -> 0..Sum(Text)]
  /\ Sum(result') = Sum(Text)
  /\ ~skewed => result' = Text
  /\ UNCHANGED <<counted, skewed, died>>

Die ==
  /\ ~died
  /\ died' = TRUE
  /\ UNCHANGED <<counted, skewed, result>>

Init ==
  /\ counted = [w \in Words |-> 0]
  /\ skewed = FALSE
  /\ result = NoResult
  /\ died = FALSE

Next == (\E w \in Words : Count(w)) \/ Skew \/ Publish \/ Die

Spec == Init /\ [][Next]_vars
=============================================================================
