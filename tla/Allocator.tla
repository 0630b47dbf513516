----------------------------- MODULE Allocator ------------------------------
(***************************************************************************)
(* prog2/psumemory.c: psumeminit, psumalloc (best fit or worst fit) and    *)
(* psufree over one mmap'ed region, for a program that frees only what it  *)
(* was given and writes the bytes it asked for.                            *)
(*                                                                         *)
(* The addresses are offsets in the region.  A free node or a header says  *)
(* how many bytes its block claims; the model follows these claims until   *)
(* the first time that two blocks' bytes collide, where the behaviour of   *)
(* the C program stops being defined and the model stops too.              *)
(***************************************************************************)
EXTENDS Integers, FiniteSets, SequencesExt

CONSTANTS
  Strategies,      (* the first argument of psumeminit: 0, 1               *)
  sizeOfRegion,    (* the argument of psumeminit                           *)
  PageSize,        (* getpagesize()                                        *)
  Requests,        (* the sizes the program asks for                       *)
  MaxSplits        (* bound: splits the run makes                          *)

BEST_FIT  == 0
WORST_FIT == 1
MIN_SIZE  == 16
Header    == 8     (* sizeof(header_t): the size and the magic number      *)
Node      == 16    (* sizeof(node_t): the size, padding and next           *)

ASSUME StratAssumption    == Strategies \subseteq {BEST_FIT, WORST_FIT}
ASSUME RegionAssumption   == sizeOfRegion \in Nat /\ PageSize \in Nat \ {0}
                             /\ PageSize >= Node
ASSUME RequestsAssumption == Requests \subseteq Nat
ASSUME SplitsAssumption   == MaxSplits \in Nat

VARIABLES
  strat,     (* the strategy, for good                                      *)
  free,      (* the free list: for each node its address and its size field *)
  live,      (* the blocks handed out: address of the header, header->size
                and the bytes the program asked for                         *)
  splits,    (* ghost: how many times a block was split                     *)
  crashed    (* a NULL head was dereferenced                                *)

vars == <<strat, free, live, splits, crashed>>

-----------------------------------------------------------------------------
(* The region psumeminit maps: a region smaller than a page takes one page
   and, unless it is empty, one more. *)
Region ==
  (IF sizeOfRegion < PageSize THEN PageSize
   ELSE (sizeOfRegion \div PageSize) * PageSize)
  + (IF sizeOfRegion % PageSize # 0 THEN PageSize ELSE 0)

(* The bytes a block claims, its node or header included. *)
NodeExtent(n)  == n.size + Node
BlockExtent(b) == b.size + Header

TotalSize(size) == (IF size < MIN_SIZE THEN MIN_SIZE ELSE size) + Header

(* A loop over the free list that moves from position p to k when the pair
   <<k, p>> is in `better`; 0 is NULL. *)
Search(start, better) ==
  LET found[k \in 0..Len(free)] ==
        IF k = 0 THEN start
        ELSE LET p == found[k - 1] IN IF <<k, p>> \in better THEN k ELSE p
  IN  found[Len(free)]

Positions == (1..Len(free)) \X (0..Len(free))

(* Mutant: a block that fits exactly is passed over. *)
BestFitStrict(total) ==
  Search(0, {m \in Positions :
               LET k == m[1]  best == m[2]
               IN  /\ NodeExtent(free[k]) > total
                   /\ best = 0 \/ NodeExtent(free[k]) < NodeExtent(free[best])})

(* Mutant: the header is not counted in. *)
BestFitForgetsHeader(total) ==
  Search(0, {m \in Positions :
               LET k == m[1]  best == m[2]
               IN  /\ NodeExtent(free[k]) >= total - Header
                   /\ best = 0 \/ NodeExtent(free[k]) < NodeExtent(free[best])})

BestFit(total) ==
  Search(0, {m \in Positions :
               LET k == m[1]  best == m[2]
               IN  /\ NodeExtent(free[k]) >= total
                   /\ best = 0 \/ NodeExtent(free[k]) < NodeExtent(free[best])})

(* worstFit starts from the head, moves to a larger node only if that is larger
   than the total too, and compares the size fields, not the extents. *)
WorstFit(total) ==
  LET worst == Search(1, {m \in Positions :
                            LET k == m[1]  w == m[2]
                            IN  /\ w # 0 /\ free[k].size > free[w].size
                                /\ free[k].size > total})
  IN  IF free[worst].size < total THEN 0 ELSE worst

Fit(total) == IF strat = BEST_FIT THEN BestFit(total) ELSE WorstFit(total)

-----------------------------------------------------------------------------
(***************************************************************************)
(* Which bytes are really used: the 16 of a node, and of a block that was  *)
(* handed out its header and what the program asked for.                   *)
(***************************************************************************)
NodeEnd(n)  == n.addr + Node
BlockEnd(b) == b.addr + Header + b.used

NodeStarts  == {n.addr : n \in ToSet(free)}
BlockStarts == {b.addr : b \in live}

(* Two start at the same byte, or one reaches to where another starts or out of
   the region. *)
Collision ==
  LET nodes  == NodeStarts
      blocks == BlockStarts
      Reaches(start, end) ==
        \/ end > Region
        \/ \E byte \in (start + 1)..(end - 1) : byte \in nodes \/ byte \in blocks
  IN  \/ Cardinality(nodes) # Len(free)
      \/ Cardinality(blocks) # Cardinality(live)
      \/ \E start \in nodes : start \in blocks
      \/ \E n \in ToSet(free) : Reaches(n.addr, NodeEnd(n))
      \/ \E b \in live : Reaches(b.addr, BlockEnd(b))

NoCollision == ~Collision

Runs == ~crashed /\ ~Collision

(* popNode unlinks a node; its bytes keep their values. *)
PopNode(k) == RemoveAt(free, k)

(* The header that takes the place of node k, for a block of `extent` bytes of
   which the program is going to write `used`. *)
Handed(k, extent, used) ==
  [addr |-> free[k].addr, size |-> extent - Header, used |-> used]

(* What node k has beyond the total, and the node that is made of it: its size
   field is the whole rest, room for the node itself is not subtracted. *)
Rest(k, total) == NodeExtent(free[k]) - total

RestNode(k, total) == [addr |-> free[k].addr + total, size |-> Rest(k, total)]

Splittable(k, total) == Rest(k, total) > MIN_SIZE + 8

(* Both strategies read the head before they test it. *)
MallocOnEmptyList ==
  /\ Runs /\ free = <<>>
  /\ crashed' = TRUE
  /\ UNCHANGED <<strat, free, live, splits>>

Found(size) == Runs /\ free # <<>> /\ Fit(TotalSize(size)) # 0

(* No node is found: NULL is returned. *)
MallocNull(size) ==
  /\ Runs /\ free # <<>> /\ Fit(TotalSize(size)) = 0
  /\ UNCHANGED vars

(* Enough is left over: the rest goes to the head of the list. *)
MallocSplit(size, used) ==
  LET total == TotalSize(size)
      k     == Fit(total)
  IN  /\ Found(size) /\ Splittable(k, total)
      /\ live' = live \union {Handed(k, total, used)}
      /\ free' = <<RestNode(k, total)>> \o PopNode(k)
      /\ splits' = splits + 1
      /\ UNCHANGED <<strat, crashed>>

(* Mutant: the header records what was asked for, and the rest leaks. *)
MallocWholeLeaks(size, used) ==
  LET k == Fit(TotalSize(size))
  IN  /\ Found(size) /\ ~Splittable(k, TotalSize(size))
      /\ live' = live \union {Handed(k, TotalSize(size), used)}
      /\ free' = PopNode(k)
      /\ UNCHANGED <<strat, splits, crashed>>

(* Too little is left over: the block is handed out whole. *)
MallocWhole(size, used) ==
  LET k == Fit(TotalSize(size))
  IN  /\ Found(size) /\ ~Splittable(k, TotalSize(size))
      /\ live' = live \union {Handed(k, NodeExtent(free[k]), used)}
      /\ free' = PopNode(k)
      /\ UNCHANGED <<strat, splits, crashed>>

(* Mutant: the node's own bytes are not taken off its size. *)
FreeUnprorated(b) ==
  /\ Runs
  /\ live' = live \ {b}
  /\ free' = <<[addr |-> b.addr, size |-> b.size]>> \o free
  /\ UNCHANGED <<strat, splits, crashed>>

(* psufree: a node takes the place of the header and goes to the head of the
   list.  Nothing is coalesced. *)
Free(b) ==
  /\ Runs
  /\ live' = live \ {b}
  /\ free' = <<[addr |-> b.addr, size |-> BlockExtent(b) - Node]>> \o free
  /\ UNCHANGED <<strat, splits, crashed>>

-----------------------------------------------------------------------------
(* psumeminit *)
Init ==
  /\ strat \in Strategies
  /\ free = <<[addr |-> 0, size |-> Region - Node]>>
  /\ live = {}
  /\ splits = 0
  /\ crashed = FALSE

Next ==
  \/ MallocOnEmptyList
  \/ \E size \in Requests :
       \/ splits < MaxSplits /\ MallocSplit(size, size)
       \/ MallocWhole(size, size) \/ MallocNull(size)
  \/ \E b \in live : Free(b)

Spec == Init /\ [][Next]_vars

-----------------------------------------------------------------------------
(***************************************************************************)
(* Properties                                                              *)
(***************************************************************************)
(* The types; in particular a block that was handed out says it has room for
   what the program asked for. *)
TypeOK ==
  /\ strat \in {BEST_FIT, WORST_FIT}
  /\ free \in Seq([addr : Nat, size : Nat])
  /\ \A b \in live : /\ b \in [addr : Nat, size : Nat, used : Nat]
                      /\ b.used <= b.size
  /\ splits \in Nat
  /\ crashed \in BOOLEAN

TotalClaim(q) == SumFunction([k \in DOMAIN q |-> NodeExtent(q[k])])

Claimed == TotalClaim(free) + SumFunction([b \in live |-> BlockExtent(b)])

(* Nothing but a split changes how many bytes the blocks claim in all, and
   each split makes it 16 more. *)
ClaimsDriftBySplits == Claimed = Region + Node * splits

(* No byte of the region is lost: each is claimed by some block, so what is
   freed can be handed out again.  The first byte that is lost would be byte 0
   or follow the last byte of a block. *)
NoByteLost ==
  \A byte \in {0} \union {n.addr + NodeExtent(n) : n \in ToSet(free)}
                 \union {b.addr + BlockExtent(b) : b \in live} :
    \/ byte >= Region
    \/ \E n \in ToSet(free) : n.addr <= byte /\ byte < n.addr + NodeExtent(n)
    \/ \E b \in live : b.addr <= byte /\ byte < b.addr + BlockExtent(b)

(* bestFit finds a smallest node that is large enough, and NULL only if none
   is; worstFit compares size fields: it finds a largest node, but where the head's
   size is below the total it passes over the nodes whose size is at most the
   total, and with them extents up to the total and 16 bytes more. *)
FitIsRight ==
  \A size \in Requests :
    LET total == TotalSize(size)
        fits  == {h \in DOMAIN free : NodeExtent(free[h]) >= total}
        best  == BestFit(total)
        worst == WorstFit(total)
    IN  /\ best = 0 <=> fits = {}
        /\ best # 0 => /\ best \in fits
                       /\ \A h \in fits :
                            NodeExtent(free[best]) <= NodeExtent(free[h])
        /\ free # <<>> =>
             IF worst = 0 THEN \A h \in DOMAIN free : free[h].size <= total
             ELSE /\ free[worst].size >= total
                  /\ \A h \in DOMAIN free : free[h].size <= free[worst].size

(***************************************************************************)
(* What the comments and the tests say and the code does not do.           *)
(***************************************************************************)
(* psumemory.c:33 "1 that is size+sizeof(header_t), and one that is whatever
   remains": no block reaches into another or out of the region. *)
BlocksDisjoint == NoCollision
=============================================================================
