------------------------------ MODULE Coalesce -------------------------------
(***************************************************************************)
(* psumemory.c: coalesce(), which psufree would call at its end; the call  *)
(* is commented out.  It is a function of the free list.                   *)
(***************************************************************************)
EXTENDS Allocator

(* bot, botIn: the address that follows a node's claim. *)
Bottom(n) == n.addr + NodeExtent(n)

(* Mutant: the popped node's own 16 bytes are not counted. *)
AbsorbForgetsNode(q, h, k) ==
  RemoveAt([q EXCEPT ![h].size = @ + q[k].size], k)

(* Node k is popped, and node h, wherever it lies, takes over its bytes. *)
Absorb(q, h, k) ==
  RemoveAt([q EXCEPT ![h].size = @ + NodeExtent(q[k])], k)

(* A turn of the inner loop over list q, with current at position i and currentC
   at position j: a neighbour above takes over current and the loop breaks off,
   a neighbour below is taken over by current, or currentC moves on. *)
InnerTurn(s) ==
  LET q == s.q  i == s.i  j == s.j
  IN  IF s.flag \/ j > Len(q) THEN s
      ELSE IF q[j].addr = Bottom(q[i])
      THEN [s EXCEPT !.q = Absorb(q, j, i), !.flag = TRUE]
      ELSE IF q[i].addr = Bottom(q[j])
      THEN [s EXCEPT !.q = Absorb(q, i, j), !.i = IF j < i THEN i - 1 ELSE i]
      ELSE [s EXCEPT !.j = j + 1]

(* Each turn has one node less to look at. *)
InnerLoop(q, i) ==
  LET after[n \in 0..Len(q)] ==
        IF n = 0 THEN [q |-> q, i |-> i, j |-> 1, flag |-> FALSE]
        ELSE InnerTurn(after[n - 1])
  IN  after[Len(q)]

(* A turn of the outer loop: current moves on, or starts again. *)
OuterTurn(s) ==
  IF s.i > Len(s.q) THEN s
  ELSE LET t == InnerLoop(s.q, s.i)
       IN  [q |-> t.q, i |-> IF t.flag THEN 1 ELSE t.i + 1]

OuterLoop(q) ==
  LET turns == (Len(q) + 1) * (Len(q) + 2)
      after[n \in 0..turns] ==
        IF n = 0 THEN [q |-> q, i |-> 1] ELSE OuterTurn(after[n - 1])
  IN  after[turns]

coalesce(q) == OuterLoop(q).q

(* If psufree did coalesce, the loops, which start again after each node that a
   neighbour above takes over, would come to the end of the list within
   quadratically many turns, and the nodes would claim as many bytes as
   before. *)
CoalesceConserves ==
  /\ OuterLoop(free).i > Len(coalesce(free))
  /\ TotalClaim(coalesce(free)) = TotalClaim(free)
=============================================================================
