--------------------------- MODULE SequenceQueue ----------------------------
(***************************************************************************)
(* What prog1 takes its ready list for: a sequence of threads, to whose    *)
(* end threads are added, from which any can be dropped, and which the     *)
(* scheduler turns.  Module Threads is written in terms of it.             *)
(*                                                                         *)
(* The calls do not keep the timer out, so the promise ends when two uses  *)
(* of the list overlap: the queue may break.                               *)
(***************************************************************************)
EXTENDS Integers, SequencesExt

CONSTANTS MaxThreads, RR, LOT, FCFS

VARIABLES policy, queue, broken

Threads == 1..MaxThreads

(* The first occurrence of t goes. *)
Without(s, t) ==
  IF Contains(s, t) THEN RemoveAt(s, SelectInSeq(s, LAMBDA u : u = t)) ELSE s

Add(t)  == queue' = Append(queue, t)
Drop(t) == queue' = Without(queue, t)

(* What the walk over all threads makes of the queue: those that wake are added,
   and those that have finished dropped, in the order of the threads. *)
AfterWalk(woken, finished) ==
  LET after[t \in 0..MaxThreads] ==
        IF t = 0 THEN queue
        ELSE IF t \in woken THEN Append(after[t - 1], t)
        ELSE IF t \in finished THEN Without(after[t - 1], t)
        ELSE after[t - 1]
  IN  after[MaxThreads]

(* The choice of the next thread, if there is one. *)
Turned(s) ==
  CASE policy = RR   -> {Tail(s)}
    [] policy = LOT  -> {Append(RemoveAt(s, k), s[k]) : k \in DOMAIN s}
    [] policy = FCFS -> {s}

(* A dispatch: the walk, the preempted thread is added in RR, and the next one
   is chosen. *)
Dispatch ==
  \E woken, finished \in SUBSET Threads,
     preempted \in {<<>>} \union {<<t>> : t \in Threads} :
    LET s == AfterWalk(woken, finished) \o preempted
    IN  queue' \in IF s = <<>> THEN {<<>>} ELSE Turned(s)

Break == broken' = TRUE /\ queue' = <<>>

Init == queue = <<>> /\ broken = FALSE

Next ==
  /\ ~broken
  /\ policy' = policy
  /\ \/ Break
     \/ /\ \/ \E t \in Threads : Add(t) \/ Drop(t)
           \/ Dispatch
        /\ broken' = FALSE

Spec == Init /\ [][Next]_<<policy, queue, broken>>
=============================================================================
