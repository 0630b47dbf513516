--------------------------- MODULE AllocatorProofs ---------------------------
(***************************************************************************)
(* What prog2/psumemory.c guarantees for every region, page size, request  *)
(* and number of splits, up to the first collision.                        *)
(***************************************************************************)
EXTENDS AllocatorPrograms, Coalesce, CollectionLemmas

-----------------------------------------------------------------------------
(***************************************************************************)
(* The search loops.                                                       *)
(***************************************************************************)
(* One turn of the loop, at node k, from position p. *)
SearchStep(better, k, p) == IF <<k, p>> \in better THEN k ELSE p

(* What holds of the start, and after each turn when it held before it, holds of
   the position that the loop finds.  P[k] has the positions it may be at after
   node k. *)
LEMMA SearchInduction ==
  ASSUME NEW better, NEW start,
         Len(free) \in Nat,
         NEW P \in [0..Len(free) -> SUBSET (0..Len(free))],
         start \in P[0],
         \A k \in 1..Len(free) : \A p \in P[k - 1] : SearchStep(better, k, p) \in P[k]
  PROVE  Search(start, better) \in P[Len(free)]
<1> DEFINE n == Len(free)
           T == 0..n
           Def(found) == found = [k \in 0..n |->
              IF k = 0 THEN start
              ELSE LET p == found[k - 1]
                   IN  IF <<k, p>> \in better THEN k ELSE p]
           Turn == [k \in 1..n |-> [p \in T |-> SearchStep(better, k, p)]]
<1>1. n \in Nat /\ start \in T
  OBVIOUS
<1>2. Turn \in [1..n -> [T -> T]]
  BY DEF SearchStep
<1>3. PICK f \in [0..n -> T] :
        f[0] = start /\ \A k \in 1..n : f[k] = Turn[k][f[k - 1]]
  <2>1. n \in Nat /\ start \in T /\ Turn \in [1..n -> [T -> T]]
    BY <1>1, <1>2
  <2> HIDE DEF Turn, n, T
  <2>2. \E f : MadeInSteps(f, n, T, start, Turn)
    BY ONLY <2>1, RecursionExists
  <2> QED
    BY <2>2 DEF MadeInSteps
<1>4. \A k \in 1..n : f[k] = SearchStep(better, k, f[k - 1])
  <2> TAKE k \in 1..n
  <2>1. k - 1 \in 0..n
    BY <1>1
  <2>2. f[k - 1] \in T
    <3> HIDE DEF T
    <3> QED
      BY <2>1
  <2> QED
    BY <1>3, <2>2
<1>5. Def(f)
  <2> DEFINE g == [k \in 0..n |-> IF k = 0 THEN start
                                  ELSE SearchStep(better, k, f[k - 1])]
  <2>1. ASSUME NEW k \in 0..n PROVE f[k] = g[k]
    <3>1. k = 0 \/ k \in 1..n
      BY <1>1
    <3> QED
      BY <1>3, <1>4, <3>1
  <2>2. f = [k \in 0..n |-> f[k]] /\ g = [k \in 0..n |-> g[k]]
    OBVIOUS
  <2>3. f = g
    <3> HIDE DEF g
    <3> QED
      BY <2>1, <2>2
  <2> QED
    BY <2>3 DEF SearchStep
<1>6. Search(start, better) = (CHOOSE found : Def(found))[n]
  BY DEF Search
<1> DEFINE g == CHOOSE found : Def(found)
<1>7. Def(g)
  <2> HIDE DEF Def
  <2> QED
    BY <1>5
<1>8. /\ g[0] = start
      /\ \A k \in 1..n : g[k] = SearchStep(better, k, g[k - 1])
  <2> HIDE DEF g
  <2>1. g = [k \in 0..n |-> IF k = 0 THEN start ELSE SearchStep(better, k, g[k - 1])]
    BY <1>7 DEF SearchStep
  <2>2. ASSUME NEW k \in 0..n
        PROVE  g[k] = IF k = 0 THEN start ELSE SearchStep(better, k, g[k - 1])
    BY ONLY <2>1, k \in 0..n
  <2> QED
    BY <1>1, <2>2
<1> DEFINE S == {k \in Nat : k <= n => g[k] \in P[k]}
<1>9. 0 \in S
  <2> HIDE DEF g, Def
  <2> QED
    BY <1>8
<1>10. ASSUME NEW k \in Nat, k \in S PROVE k + 1 \in S
  <2> HIDE DEF g, Def
  <2> SUFFICES ASSUME k + 1 <= n PROVE g[k + 1] \in P[k + 1]
    OBVIOUS
  <2>1. k + 1 \in 1..n /\ (k + 1) - 1 = k /\ g[k] \in P[k]
    BY <1>1, <1>10
  <2> QED
    BY <1>8, <2>1
<1>11. n \in S
  <2> HIDE DEF S
  <2> QED
    BY <1>1, <1>9, <1>10, Induction
<1> HIDE DEF g, Def
<1> QED
  BY <1>1, <1>6, <1>11 DEF g

(* The free list as its types say: its nodes and their extents. *)
LEMMA FreeList ==
  ASSUME TypeOK
  PROVE  /\ Len(free) \in Nat /\ DOMAIN free = 1..Len(free)
         /\ \A k \in 1..Len(free) :
              /\ free[k] \in [addr : Nat, size : Nat]
              /\ free[k].addr \in Nat /\ free[k].size \in Nat
              /\ NodeExtent(free[k]) = free[k].size + 16
<1>1. free \in Seq([addr : Nat, size : Nat])
  BY DEF TypeOK
<1>2. /\ Len(free) \in Nat /\ DOMAIN free = 1..Len(free)
      /\ \A k \in 1..Len(free) : free[k] \in [addr : Nat, size : Nat]
  BY <1>1, LenProperties, ElementOfSeq
<1> QED
  BY <1>2 DEF NodeExtent, Node

LEMMA TotalSizeType ==
  ASSUME NEW size \in Nat
  PROVE  TotalSize(size) \in Nat /\ TotalSize(size) >= 24 /\ TotalSize(size) >= size + 8
BY DEF TotalSize, MIN_SIZE, Header

(* bestFit finds a smallest node that is large enough, or NULL if none is. *)
LEMMA BestFitProperties ==
  ASSUME TypeOK, NEW total \in Nat
  PROVE  LET fits == {h \in DOMAIN free : NodeExtent(free[h]) >= total}
             best == BestFit(total)
         IN  /\ best \in 0..Len(free)
             /\ best = 0 <=> fits = {}
             /\ best # 0 => /\ best \in fits
                            /\ \A h \in fits :
                                 NodeExtent(free[best]) <= NodeExtent(free[h])
<1> DEFINE n == Len(free)
           fits == {h \in DOMAIN free : NodeExtent(free[h]) >= total}
           best == BestFit(total)
           better == {m \in Positions :
                        LET k == m[1]  p == m[2]
                        IN  /\ NodeExtent(free[k]) >= total
                            /\ p = 0 \/ NodeExtent(free[k]) < NodeExtent(free[p])}
           Right(k, p) ==
             /\ p = 0 => \A h \in 1..k : NodeExtent(free[h]) < total
             /\ p # 0 => /\ p <= k /\ NodeExtent(free[p]) >= total
                         /\ \A h \in 1..k : NodeExtent(free[h]) >= total =>
                              NodeExtent(free[p]) <= NodeExtent(free[h])
           P == [k \in 0..n |-> {p \in 0..n : Right(k, p)}]
<1>1. /\ n \in Nat /\ DOMAIN free = 1..n
      /\ \A k \in 1..n : NodeExtent(free[k]) \in Nat
  BY FreeList
<1>2. 0 \in P[0]
  BY <1>1
<1>3. ASSUME NEW k \in 1..n, NEW p \in P[k - 1]
      PROVE  SearchStep(better, k, p) \in P[k]
  <2>1. p \in 0..n /\ Right(k - 1, p)
    BY <1>1
  <2>2. <<k, p>> \in better <=>
          /\ NodeExtent(free[k]) >= total
          /\ p = 0 \/ NodeExtent(free[k]) < NodeExtent(free[p])
    BY <1>1, <2>1 DEF Positions
  <2>3. \A h \in 1..k : h = k \/ h \in 1..(k - 1)
    BY <1>1
  <2>4. CASE <<k, p>> \in better
    <3>1. Right(k, k)
      BY <1>1, <2>1, <2>2, <2>3, <2>4
    <3> QED
      BY <1>1, <2>4, <3>1 DEF SearchStep
  <2>5. CASE <<k, p>> \notin better
    <3>1. Right(k, p)
      BY <1>1, <2>1, <2>2, <2>3, <2>5
    <3> QED
      BY <1>1, <2>1, <2>5, <3>1 DEF SearchStep
  <2> QED
    BY <2>4, <2>5
<1>4. P \in [0..n -> SUBSET (0..n)]
  OBVIOUS
<1>5. best = Search(0, better)
  BY DEF BestFit
<1>6. best \in P[n]
  <2> HIDE DEF P, better, best
  <2> QED
    BY <1>1, <1>2, <1>3, <1>4, <1>5, SearchInduction
<1>7. best \in 0..n /\ Right(n, best)
  BY <1>1, <1>6
<1> HIDE DEF best
<1> QED
  BY <1>1, <1>7 DEF best

(* worstFit finds a largest node, or NULL although a node that is not the head
   fits exactly. *)
LEMMA WorstFitProperties ==
  ASSUME TypeOK, free # <<>>, NEW total \in Nat
  PROVE  LET worst == WorstFit(total)
         IN  /\ worst \in 0..Len(free)
             /\ worst = 0 => \A h \in DOMAIN free : free[h].size <= total
             /\ worst # 0 => /\ free[worst].size >= total
                             /\ \A h \in DOMAIN free :
                                  free[h].size <= free[worst].size
<1> DEFINE n == Len(free)
           better == {m \in Positions :
                        LET k == m[1]  w == m[2]
                        IN  /\ w # 0 /\ free[k].size > free[w].size
                            /\ free[k].size > total}
           found == Search(1, better)
           Right(k, w) ==
             /\ w # 0
             /\ \A h \in 1..k : free[h].size <= free[w].size \/ free[h].size <= total
           P == [k \in 0..n |-> {w \in 0..n : Right(k, w)}]
<1>1. /\ n \in Nat /\ DOMAIN free = 1..n
      /\ \A k \in 1..n : free[k].size \in Nat
  BY FreeList
<1>2. n # 0
  BY EmptySeq, LenProperties DEF TypeOK
<1>3. 1 \in P[0]
  BY <1>1, <1>2
<1>4. ASSUME NEW k \in 1..n, NEW w \in P[k - 1]
      PROVE  SearchStep(better, k, w) \in P[k]
  <2>1. w \in 1..n /\ Right(k - 1, w)
    BY <1>1
  <2>2. <<k, w>> \in better <=> free[k].size > free[w].size /\ free[k].size > total
    BY <1>1, <2>1 DEF Positions
  <2>3. \A h \in 1..k : h = k \/ h \in 1..(k - 1)
    BY <1>1
  <2>4. CASE <<k, w>> \in better
    <3>1. Right(k, k)
      BY <1>1, <2>1, <2>2, <2>3, <2>4
    <3> QED
      BY <1>1, <2>4, <3>1 DEF SearchStep
  <2>5. CASE <<k, w>> \notin better
    <3>1. Right(k, w)
      BY <1>1, <2>1, <2>2, <2>3, <2>5
    <3> QED
      BY <1>1, <2>1, <2>5, <3>1 DEF SearchStep
  <2> QED
    BY <2>4, <2>5
<1>5. P \in [0..n -> SUBSET (0..n)]
  OBVIOUS
<1>6. found \in P[n]
  <2> HIDE DEF P, better
  <2> QED
    BY <1>1, <1>3, <1>4, <1>5, SearchInduction
<1>7. found \in 1..n /\ Right(n, found)
  BY <1>1, <1>6
<1>8. WorstFit(total) = IF free[found].size < total THEN 0 ELSE found
  BY DEF WorstFit
<1> HIDE DEF found
<1>9. free[found].size \in Nat
  BY <1>1, <1>7
<1> QED
  BY <1>1, <1>7, <1>8, <1>9

(* Whatever strategy is followed, the node it finds has room for the total. *)
LEMMA FitProperties ==
  ASSUME TypeOK, free # <<>>, NEW total \in Nat
  PROVE  /\ Fit(total) \in 0..Len(free)
         /\ Fit(total) # 0 => /\ Fit(total) \in 1..Len(free)
                               /\ NodeExtent(free[Fit(total)]) >= total
<1>1. CASE strat = BEST_FIT
  BY <1>1, FreeList, BestFitProperties DEF Fit
<1>2. CASE strat # BEST_FIT
  <2> DEFINE worst == WorstFit(total)
  <2>1. /\ worst \in 0..Len(free)
        /\ worst # 0 => free[worst].size >= total
    BY WorstFitProperties
  <2>2. Fit(total) = worst
    BY <1>2 DEF Fit
  <2> HIDE DEF worst
  <2>3. worst # 0 => /\ worst \in 1..Len(free)
                     /\ NodeExtent(free[worst]) = free[worst].size + 16
                     /\ free[worst].size \in Nat
    BY <2>1, FreeList
  <2> QED
    BY <2>1, <2>2, <2>3
<1> QED
  BY <1>1, <1>2

LEMMA TypeGivesFit == TypeOK => FitIsRight
<1> SUFFICES ASSUME TypeOK, NEW size \in Requests
             PROVE  LET total == TotalSize(size)
                        fits  == {h \in DOMAIN free : NodeExtent(free[h]) >= total}
                        best  == BestFit(total)
                        worst == WorstFit(total)
                    IN  /\ best = 0 <=> fits = {}
                        /\ best # 0 => /\ best \in fits
                                       /\ \A h \in fits :
                                            NodeExtent(free[best]) <= NodeExtent(free[h])
                        /\ free # <<>> =>
                             IF worst = 0 THEN \A h \in DOMAIN free : free[h].size <= total
                             ELSE /\ free[worst].size >= total
                                  /\ \A h \in DOMAIN free : free[h].size <= free[worst].size
  BY DEF FitIsRight
<1> DEFINE total == TotalSize(size)
<1>1. total \in Nat
  BY RequestsAssumption, TotalSizeType
<1> HIDE DEF total
<1>2. LET fits == {h \in DOMAIN free : NodeExtent(free[h]) >= total}
          best == BestFit(total)
      IN  /\ best = 0 <=> fits = {}
          /\ best # 0 => /\ best \in fits
                         /\ \A h \in fits :
                              NodeExtent(free[best]) <= NodeExtent(free[h])
  BY <1>1, BestFitProperties
<1>3. ASSUME free # <<>>
      PROVE  LET worst == WorstFit(total)
             IN  IF worst = 0 THEN \A h \in DOMAIN free : free[h].size <= total
                 ELSE /\ free[worst].size >= total
                      /\ \A h \in DOMAIN free : free[h].size <= free[worst].size
  BY <1>1, <1>3, WorstFitProperties
<1> QED
  BY <1>2, <1>3 DEF total
-----------------------------------------------------------------------------
(***************************************************************************)
(* The free list as a sequence, and what its nodes and the blocks handed   *)
(* out claim.                                                              *)
(***************************************************************************)
Nodes == [addr : Nat, size : Nat]
Blocks == [addr : Nat, size : Nat, used : Nat]

(* A node that goes to the head of the list. *)
LEMMA PushProperties ==
  ASSUME NEW q \in Seq(Nodes), NEW n \in Nodes
  PROVE  /\ <<n>> \o q \in Seq(Nodes)
         /\ Len(<<n>> \o q) = Len(q) + 1 /\ Len(q) \in Nat
         /\ (<<n>> \o q)[1] = n
         /\ \A k \in 1..Len(q) : (<<n>> \o q)[k + 1] = q[k]
         /\ ToSet(<<n>> \o q) = {n} \union ToSet(q)
<1> DEFINE s == <<n>> \o q
<1>1. <<n>> \in Seq(Nodes) /\ Len(<<n>>) = 1 /\ <<n>>[1] = n
  OBVIOUS
<1>2. /\ s \in Seq(Nodes) /\ Len(s) = Len(q) + 1 /\ Len(q) \in Nat
      /\ s[1] = n /\ \A k \in 1..Len(q) : s[k + 1] = q[k]
  <2> DEFINE one == <<n>>
  <2>1. one \in Seq(Nodes) /\ Len(one) = 1 /\ one[1] = n
    BY <1>1
  <2> HIDE DEF one
  <2>2. Len(q) \in Nat
    BY LenProperties
  <2>3. one \o q \in Seq(Nodes) /\ Len(one \o q) = Len(q) + 1
    BY <2>1, <2>2, ConcatProperties
  <2>4. (one \o q)[1] = n
    BY <2>1, <2>2, ConcatProperties
  <2>5. ASSUME NEW k \in 1..Len(q) PROVE (one \o q)[k + 1] = q[k]
    <3>1. k + 1 \in 1..(Len(one) + Len(q)) /\ ~(k + 1 <= Len(one)) /\ (k + 1) - Len(one) = k
      BY <2>1, <2>2
    <3>2. (one \o q)[k + 1] = IF k + 1 <= Len(one) THEN one[k + 1]
                              ELSE q[(k + 1) - Len(one)]
      BY <2>1, <3>1, ConcatProperties
    <3> QED
      BY <3>1, <3>2
  <2> QED
    BY <2>2, <2>3, <2>4, <2>5 DEF one
<1>3. DOMAIN s = 1..(Len(q) + 1) /\ DOMAIN q = 1..Len(q)
  BY <1>2, LenProperties
<1> HIDE DEF s
<1>4. ToSet(s) = {n} \union ToSet(q)
  <2>1. ASSUME NEW k \in 1..(Len(q) + 1)
        PROVE  k = 1 \/ \E j \in 1..Len(q) : k = j + 1
    <3>1. k = 1 \/ (k - 1 \in 1..Len(q) /\ k = (k - 1) + 1)
      BY <1>2
    <3> QED
      BY <3>1
  <2>2. 1 \in 1..(Len(q) + 1) /\ \A j \in 1..Len(q) : j + 1 \in 1..(Len(q) + 1)
    BY <1>2
  <2>3. ASSUME NEW x \in ToSet(s) PROVE x \in {n} \union ToSet(q)
    <3>1. PICK k \in 1..(Len(q) + 1) : x = s[k]
      BY <1>3 DEF ToSet
    <3>2. CASE k = 1
      BY <1>2, <3>1, <3>2
    <3>3. CASE k # 1
      <4>1. PICK j \in 1..Len(q) : k = j + 1
        BY <2>1, <3>3
      <4>2. x = q[j] /\ j \in DOMAIN q
        BY <1>2, <1>3, <3>1, <4>1
      <4> QED
        BY <4>2 DEF ToSet
    <3> QED
      BY <3>2, <3>3
  <2>4. ASSUME NEW x \in ToSet(q) PROVE x \in ToSet(s)
    <3>1. PICK j \in 1..Len(q) : x = q[j]
      BY <1>3 DEF ToSet
    <3>2. x = s[j + 1] /\ j + 1 \in DOMAIN s
      BY <1>2, <1>3, <2>2, <3>1
    <3> QED
      BY <3>2 DEF ToSet
  <2>5. n \in ToSet(s)
    <3>1. n = s[1] /\ 1 \in DOMAIN s
      BY <1>2, <1>3, <2>2
    <3> QED
      BY <3>1 DEF ToSet
  <2> QED
    BY <2>3, <2>4, <2>5
<1> QED
  BY <1>2, <1>4 DEF s

(* A node that is taken off the list. *)
LEMMA PopProperties ==
  ASSUME NEW q \in Seq(Nodes), NEW k \in 1..Len(q)
  PROVE  /\ RemoveAt(q, k) \in Seq(Nodes)
         /\ ToSet(q) = {q[k]} \union ToSet(RemoveAt(q, k))
<1> DEFINE rest == RemoveAt(q, k)
<1>1. /\ rest \in Seq(Nodes) /\ Len(rest) = Len(q) - 1 /\ Len(q) \in Nat
      /\ DOMAIN rest = 1..(Len(q) - 1) /\ DOMAIN q = 1..Len(q)
      /\ \A j \in 1..(Len(q) - 1) : rest[j] = IF j < k THEN q[j] ELSE q[j + 1]
  BY RemoveAtProperties, LenProperties
<1> HIDE DEF rest
<1>2. ASSUME NEW j \in 1..(Len(q) - 1) PROVE rest[j] \in ToSet(q)
  <2>1. j \in 1..Len(q) /\ j + 1 \in 1..Len(q)
    BY <1>1
  <2> QED
    BY <1>1, <2>1 DEF ToSet
<1>3. ASSUME NEW j \in 1..Len(q), j # k PROVE q[j] \in ToSet(rest)
  <2>1. CASE j < k
    <3>1. j \in 1..(Len(q) - 1) /\ rest[j] = q[j]
      BY <1>1, <2>1
    <3> QED
      BY <1>1, <3>1 DEF ToSet
  <2>2. CASE j > k
    <3>1. j - 1 \in 1..(Len(q) - 1) /\ (j - 1) + 1 = j /\ ~(j - 1 < k)
      BY <1>1, <2>2
    <3>2. rest[j - 1] = q[j]
      BY <1>1, <3>1
    <3> QED
      BY <1>1, <3>1, <3>2 DEF ToSet
  <2> QED
    BY <1>1, <1>3, <2>1, <2>2
<1>4. ToSet(q) = {q[k]} \union ToSet(rest)
  BY <1>1, <1>2, <1>3 DEF ToSet
<1> QED
  BY <1>1, <1>4 DEF rest

LEMMA NodeExtentType ==
  ASSUME NEW q \in Seq(Nodes)
  PROVE  /\ DOMAIN q = 1..Len(q) /\ Len(q) \in Nat
         /\ IsFiniteSet(1..Len(q))
         /\ \A k \in 1..Len(q) : q[k] \in Nodes /\ NodeExtent(q[k]) \in Int
<1>1. \A k \in 1..Len(q) : q[k] \in Nodes
  BY ElementOfSeq
<1>2. DOMAIN q = 1..Len(q) /\ Len(q) \in Nat
  BY LenProperties
<1>3. IsFiniteSet(1..Len(q))
  BY <1>2, FS_Interval
<1>4. \A k \in 1..Len(q) : NodeExtent(q[k]) \in Int
  BY <1>1 DEF NodeExtent, Node, Nodes
<1> QED
  BY <1>1, <1>2, <1>3, <1>4

(* Pushing a node adds what it claims, and popping one takes it off. *)
LEMMA ClaimPopped ==
  ASSUME NEW q \in Seq(Nodes), NEW k \in 1..Len(q)
  PROVE  /\ TotalClaim(RemoveAt(q, k)) \in Int
         /\ TotalClaim(q) = NodeExtent(q[k]) + TotalClaim(RemoveAt(q, k))
<1> DEFINE rest == RemoveAt(q, k)
           f == [j \in 1..Len(q) |-> NodeExtent(q[j])]
           h == [j \in 1..(Len(q) - 1) |-> NodeExtent(rest[j])]
<1>1. /\ rest \in Seq(Nodes) /\ Len(rest) = Len(q) - 1 /\ Len(q) \in Nat
      /\ DOMAIN rest = 1..(Len(q) - 1) /\ DOMAIN q = 1..Len(q)
      /\ \A j \in 1..(Len(q) - 1) : rest[j] = IF j < k THEN q[j] ELSE q[j + 1]
  BY RemoveAtProperties, LenProperties
<1>2. \A j \in 1..Len(q) : f[j] \in Int
  BY NodeExtentType
<1>3. /\ \A j \in 1..(Len(q) - 1) : h[j] \in Int
      /\ IsFiniteSet(1..(Len(q) - 1))
  BY <1>1, NodeExtentType
<1>4. ASSUME NEW j \in 1..(Len(q) - 1) PROVE h[j] = IF j < k THEN f[j] ELSE f[j + 1]
  <2>1. j \in 1..Len(q) /\ j + 1 \in 1..Len(q)
    BY <1>1
  <2>2. h[j] = NodeExtent(rest[j]) /\ f[j] = NodeExtent(q[j])
        /\ f[j + 1] = NodeExtent(q[j + 1])
    BY <2>1
  <2> QED
    BY <1>1, <2>2
<1>5. TotalClaim(q) = SumFunctionOnSet(f, 1..Len(q))
  BY <1>1 DEF TotalClaim, SumFunction
<1>6. TotalClaim(rest) = SumFunctionOnSet(h, 1..(Len(q) - 1))
  <2> HIDE DEF rest
  <2> QED
    BY <1>1 DEF TotalClaim, SumFunction
<1>7. f[k] = NodeExtent(q[k])
  OBVIOUS
<1> HIDE DEF f, h, rest
<1>8. SumFunctionOnSet(f, 1..Len(q))
        = f[k] + SumFunctionOnSet(h, 1..(Len(q) - 1))
  BY <1>2, <1>4, SumRemoveAt
<1>9. SumFunctionOnSet(h, 1..(Len(q) - 1)) \in Int
  BY <1>3, SumOnSet
<1> QED
  BY <1>5, <1>6, <1>7, <1>8, <1>9 DEF rest

LEMMA ClaimPushed ==
  ASSUME NEW q \in Seq(Nodes), NEW n \in Nodes
  PROVE  /\ TotalClaim(q) \in Int
         /\ TotalClaim(<<n>> \o q) = NodeExtent(n) + TotalClaim(q)
<1> DEFINE s == <<n>> \o q
<1>1. /\ s \in Seq(Nodes) /\ Len(s) = Len(q) + 1 /\ Len(q) \in Nat
      /\ s[1] = n /\ \A k \in 1..Len(q) : s[k + 1] = q[k]
  BY PushProperties
<1> HIDE DEF s
<1>2. 1 \in 1..Len(s)
  BY <1>1
<1>3. RemoveAt(s, 1) = q
  <2> DEFINE rest == RemoveAt(s, 1)
  <2>1. /\ rest \in Seq(Nodes) /\ Len(rest) = Len(s) - 1
        /\ \A j \in 1..(Len(s) - 1) : rest[j] = IF j < 1 THEN s[j] ELSE s[j + 1]
    BY <1>1, <1>2, RemoveAtProperties
  <2> HIDE DEF rest
  <2>2. Len(rest) = Len(q) /\ \A j \in 1..Len(q) : rest[j] = q[j]
    BY <1>1, <2>1
  <2>3. rest = q
    BY <2>1, <2>2, SeqEqual
  <2> QED
    BY <2>3 DEF rest
<1> QED
  BY <1>1, <1>2, <1>3, ClaimPopped DEF s

(* What the blocks handed out claim. *)
BlockClaim(blocks) == SumFunction([b \in blocks |-> BlockExtent(b)])

LEMMA BlockClaimAdded ==
  ASSUME NEW blocks \in SUBSET Blocks, IsFiniteSet(blocks),
         NEW b \in Blocks, b \notin blocks
  PROVE  /\ BlockClaim(blocks) \in Int
         /\ BlockClaim(blocks \union {b}) = BlockExtent(b) + BlockClaim(blocks)
<1> DEFINE more == blocks \union {b}
           f == [c \in blocks |-> BlockExtent(c)]
           h == [c \in more |-> BlockExtent(c)]
<1>1. IsFiniteSet(more) /\ b \in more /\ more \ {b} = blocks
  BY FS_AddElement
<1>2. ASSUME NEW c \in more PROVE BlockExtent(c) \in Int
  BY DEF BlockExtent, Header, Blocks
<1>3. /\ \A c \in more : h[c] \in Int
      /\ \A c \in blocks : f[c] \in Int /\ h[c] = f[c]
  BY <1>2
<1>4. h[b] = BlockExtent(b)
  OBVIOUS
<1>5. BlockClaim(blocks) = SumFunctionOnSet(f, blocks)
      /\ BlockClaim(more) = SumFunctionOnSet(h, more)
  BY DEF BlockClaim, SumFunction
<1> HIDE DEF f, h, more
<1>6. SumFunctionOnSet(h, more) = h[b] + SumFunctionOnSet(h, more \ {b})
  BY <1>1, <1>3, SumOnSet
<1>7. SumFunctionOnSet(h, blocks) = SumFunctionOnSet(f, blocks)
  BY <1>3, SumEqual
<1>8. SumFunctionOnSet(f, blocks) \in Int
  BY <1>3, SumOnSet
<1> QED
  BY <1>1, <1>4, <1>5, <1>6, <1>7, <1>8 DEF more
-----------------------------------------------------------------------------
(***************************************************************************)
(* The inductive invariant.  A block has at least the bytes that psufree   *)
(* takes off it for a node; the set of blocks is finite, so their claims   *)
(* have a sum; and every byte of the region, not only the ones that        *)
(* NoByteLost looks at, is claimed.                                        *)
(***************************************************************************)
Covers(nodes, blocks, byte) ==
  \/ \E n \in nodes : n.addr <= byte /\ byte < n.addr + NodeExtent(n)
  \/ \E b \in blocks : b.addr <= byte /\ byte < b.addr + BlockExtent(b)

RoomForNode  == \A b \in live : b.size >= MIN_SIZE
EveryClaimed == \A byte \in Nat : byte < Region => Covers(ToSet(free), live, byte)

AllocInv ==
  /\ TypeOK
  /\ IsFiniteSet(live)
  /\ RoomForNode
  /\ ClaimsDriftBySplits
  /\ EveryClaimed

LEMMA RegionType == Region \in Nat /\ Region >= Node
<1> DEFINE pages == sizeOfRegion \div PageSize
<1>1. sizeOfRegion \in Nat /\ PageSize \in Nat /\ PageSize >= 16
  BY RegionAssumption DEF Node
<1>2. ASSUME sizeOfRegion >= PageSize
      PROVE  pages * PageSize \in Nat /\ pages * PageSize >= 16
  <2>1. pages \in Nat
    BY <1>1
  <2>2. pages # 0
    BY <1>1, <1>2
  <2> HIDE DEF pages
  <2> QED
    BY <1>1, <2>1, <2>2
<1> HIDE DEF pages
<1>3. Region = (IF sizeOfRegion < PageSize THEN PageSize ELSE pages * PageSize)
               + (IF sizeOfRegion % PageSize # 0 THEN PageSize ELSE 0)
  BY DEF Region, pages
<1> QED
  BY <1>1, <1>2, <1>3 DEF Node

LEMMA LiveBlocks ==
  ASSUME TypeOK
  PROVE  /\ live \in SUBSET Blocks
         /\ free \in Seq(Nodes)
         /\ \A b \in live : /\ b.addr \in Nat /\ b.size \in Nat /\ b.used \in Nat
                             /\ BlockExtent(b) = b.size + 8
                             /\ BlockEnd(b) = b.addr + 8 + b.used
BY DEF TypeOK, Blocks, Nodes, BlockExtent, BlockEnd, Header

(* No block's header is where a free node is. *)
LEMMA FreshHeader ==
  ASSUME TypeOK, NoCollision, NEW k \in 1..Len(free)
  PROVE  \A b \in live : b.addr # free[k].addr
<1>1. DOMAIN free = 1..Len(free)
  BY FreeList
<1>2. free[k] \in ToSet(free)
  BY <1>1 DEF ToSet
<1>3. free[k].addr \in NodeStarts
  BY <1>2 DEF NodeStarts
<1>4. free[k].addr \notin BlockStarts
  BY <1>3 DEF NoCollision, Collision
<1> QED
  BY <1>4 DEF BlockStarts

(* The block that takes the place of node k. *)
LEMMA HandedProperties ==
  ASSUME TypeOK, NoCollision, NEW k \in 1..Len(free), NEW extent \in Nat, NEW used \in Nat,
         extent >= 24, used <= extent - 8
  PROVE  LET b == Handed(k, extent, used)
         IN  /\ b \in Blocks /\ b \notin live
             /\ b \in [addr : Nat, size : Nat, used : Nat]
             /\ b.addr = free[k].addr
             /\ b.used <= b.size /\ b.size >= MIN_SIZE
             /\ BlockExtent(b) = extent
<1>1. free[k].addr \in Nat
  BY FreeList
<1>2. Handed(k, extent, used)
        = [addr |-> free[k].addr, size |-> extent - 8, used |-> used]
  BY DEF Handed, Header
<1>3. extent - 8 \in Nat /\ extent - 8 >= 16 /\ (extent - 8) + 8 = extent
  OBVIOUS
<1> DEFINE b == Handed(k, extent, used)
<1>4. /\ b.addr = free[k].addr /\ b.size = extent - 8 /\ b.used = used
      /\ b \in Blocks
  BY <1>1, <1>2, <1>3 DEF Blocks
<1> HIDE DEF b
<1>5. b \notin live
  BY <1>4, FreshHeader
<1>6. BlockExtent(b) = extent
  BY <1>3, <1>4 DEF BlockExtent, Header
<1> QED
  BY <1>3, <1>4, <1>5, <1>6 DEF b, Blocks, MIN_SIZE

-----------------------------------------------------------------------------
(* A block that is added to the live ones. *)
LEMMA LiveGrows ==
  ASSUME AllocInv, NEW b \in Blocks, b \notin live, live' = live \union {b},
         b.used <= b.size, b.size >= MIN_SIZE
  PROVE  /\ \A c \in live' : c \in [addr : Nat, size : Nat, used : Nat]
                                /\ c.used <= c.size
         /\ IsFiniteSet(live') /\ RoomForNode'
         /\ BlockClaim(live) \in Int
         /\ BlockClaim(live') = BlockExtent(b) + BlockClaim(live)
<1>1. \A c \in live' : c \in [addr : Nat, size : Nat, used : Nat] /\ c.used <= c.size
  BY DEF AllocInv, TypeOK, Blocks
<1>2. IsFiniteSet(live) /\ live \in SUBSET Blocks
  BY LiveBlocks DEF AllocInv
<1>3. IsFiniteSet(live')
  BY <1>2, FS_AddElement
<1>4. RoomForNode'
  BY DEF AllocInv, RoomForNode
<1>5. /\ BlockClaim(live) \in Int
      /\ BlockClaim(live') = BlockExtent(b) + BlockClaim(live)
  BY <1>2, BlockClaimAdded
<1> QED
  BY <1>1, <1>3, <1>4, <1>5

(* What is claimed in all. *)
LEMMA ClaimedIs ==
  /\ Claimed = TotalClaim(free) + BlockClaim(live)
  /\ Claimed' = TotalClaim(free') + BlockClaim(live')
  /\ ClaimsDriftBySplits <=>
       TotalClaim(free) + BlockClaim(live) = Region + 16 * splits
  /\ ClaimsDriftBySplits' <=>
       TotalClaim(free') + BlockClaim(live') = Region + 16 * splits'
BY DEF Claimed, BlockClaim, ClaimsDriftBySplits, Node
(* The node that psumalloc takes. *)
LEMMA FoundProperties ==
  ASSUME TypeOK, NEW size \in Nat, NEW used \in 0..size, Found(size)
  PROVE  LET total == TotalSize(size)
             k     == Fit(total)
         IN  /\ k \in 1..Len(free)
             /\ total \in Nat /\ total >= 24 /\ used \in Nat /\ used <= total - 8
             /\ free[k].addr \in Nat /\ free[k] \in Nodes
             /\ NodeExtent(free[k]) \in Nat
             /\ NodeExtent(free[k]) >= total
             /\ NodeExtent(free[k]) = free[k].size + 16
<1> DEFINE total == TotalSize(size)
           k     == Fit(total)
<1>1. total \in Nat /\ total >= 24 /\ total >= size + 8
  BY TotalSizeType
<1>2. free # <<>> /\ k # 0
  BY DEF Found
<1> HIDE DEF total
<1>3. k \in 1..Len(free) /\ NodeExtent(free[k]) >= total
  BY <1>1, <1>2, FitProperties
<1> HIDE DEF k
<1>4. /\ free[k].addr \in Nat /\ free[k] \in Nodes
      /\ NodeExtent(free[k]) \in Nat
      /\ NodeExtent(free[k]) = free[k].size + 16
  BY <1>3, FreeList DEF Nodes
<1> QED
  BY <1>1, <1>3, <1>4 DEF k, total

LEMMA MallocWholeKeeps ==
  ASSUME AllocInv, NEW size \in Nat, NEW used \in 0..size, MallocWhole(size, used)
  PROVE  AllocInv'
<1> DEFINE total == TotalSize(size)
           k     == Fit(total)
           b     == Handed(k, NodeExtent(free[k]), used)
           rest  == RemoveAt(free, k)
<1>1. TypeOK /\ NoCollision /\ Found(size)
  BY DEF AllocInv, MallocWhole, Found, Runs, NoCollision
<1>2. /\ k \in 1..Len(free)
      /\ total \in Nat /\ total >= 24 /\ used \in Nat /\ used <= total - 8
      /\ free[k].addr \in Nat /\ free[k] \in Nodes
      /\ NodeExtent(free[k]) \in Nat
      /\ NodeExtent(free[k]) >= total
      /\ NodeExtent(free[k]) = free[k].size + 16
  BY <1>1, FoundProperties
<1>3. /\ live' = live \union {b} /\ free' = rest
      /\ strat' = strat /\ splits' = splits /\ crashed' = crashed
  BY DEF MallocWhole, PopNode
<1> HIDE DEF total, k
<1>4. NodeExtent(free[k]) >= 24 /\ used <= NodeExtent(free[k]) - 8
  BY <1>2
<1>5. /\ b \in Blocks /\ b \notin live
      /\ b.addr = free[k].addr
      /\ b.used <= b.size /\ b.size >= MIN_SIZE
      /\ BlockExtent(b) = NodeExtent(free[k])
  BY <1>1, <1>2, <1>4, HandedProperties
<1> HIDE DEF b
<1>6. /\ \A c \in live' : c \in [addr : Nat, size : Nat, used : Nat]
                            /\ c.used <= c.size
      /\ IsFiniteSet(live') /\ RoomForNode'
      /\ BlockClaim(live) \in Int
      /\ BlockClaim(live') = BlockExtent(b) + BlockClaim(live)
  BY <1>3, <1>5, LiveGrows
<1>7. free \in Seq(Nodes)
  BY <1>1, LiveBlocks
<1>8. rest \in Seq(Nodes) /\ ToSet(free) = {free[k]} \union ToSet(rest)
  BY <1>2, <1>7, PopProperties
<1>9. TypeOK'
  BY <1>1, <1>3, <1>6, <1>8 DEF TypeOK, Nodes
<1>10. ClaimsDriftBySplits'
  <2>1. /\ TotalClaim(rest) \in Int
        /\ TotalClaim(free) = NodeExtent(free[k]) + TotalClaim(rest)
    BY <1>2, <1>7, ClaimPopped
  <2>2. TotalClaim(free) + BlockClaim(live) = Region + 16 * splits
    BY ClaimedIs DEF AllocInv
  <2> HIDE DEF rest
  <2>3. TotalClaim(free') + BlockClaim(live') = Region + 16 * splits'
    BY <1>2, <1>3, <1>5, <1>6, <2>1, <2>2
  <2> QED
    BY <2>3, ClaimedIs
<1>11. EveryClaimed'
  <2> SUFFICES ASSUME NEW byte \in Nat, byte < Region
               PROVE  Covers(ToSet(free'), live', byte)
    BY DEF EveryClaimed, Region
  <2>1. Covers(ToSet(free), live, byte)
    BY DEF AllocInv, EveryClaimed
  <2> HIDE DEF rest
  <2>2. CASE free[k].addr <= byte /\ byte < free[k].addr + NodeExtent(free[k])
    BY <1>3, <1>5, <2>2 DEF Covers
  <2>3. CASE ~(free[k].addr <= byte /\ byte < free[k].addr + NodeExtent(free[k]))
    BY <1>3, <1>8, <2>1, <2>3 DEF Covers
  <2> QED
    BY <2>2, <2>3
<1> QED
  BY <1>6, <1>9, <1>10, <1>11 DEF AllocInv

LEMMA MallocSplitKeeps ==
  ASSUME AllocInv, NEW size \in Nat, NEW used \in 0..size, MallocSplit(size, used)
  PROVE  AllocInv'
<1> DEFINE total == TotalSize(size)
           k     == Fit(total)
           b     == Handed(k, total, used)
           n     == RestNode(k, total)
           rest  == RemoveAt(free, k)
<1>1. TypeOK /\ NoCollision /\ Found(size)
  BY DEF AllocInv, MallocSplit, Found, Runs, NoCollision
<1>2. /\ k \in 1..Len(free)
      /\ total \in Nat /\ total >= 24 /\ used \in Nat /\ used <= total - 8
      /\ free[k].addr \in Nat /\ free[k] \in Nodes
      /\ NodeExtent(free[k]) \in Nat
      /\ NodeExtent(free[k]) >= total
      /\ NodeExtent(free[k]) = free[k].size + 16
  BY <1>1, FoundProperties
<1>3. /\ live' = live \union {b} /\ free' = <<n>> \o rest
      /\ strat' = strat /\ splits' = splits + 1 /\ crashed' = crashed
  BY DEF MallocSplit, PopNode
<1> HIDE DEF total, k
<1>4. /\ b \in Blocks /\ b \notin live
      /\ b.addr = free[k].addr
      /\ b.used <= b.size /\ b.size >= MIN_SIZE
      /\ BlockExtent(b) = total
  BY <1>1, <1>2, HandedProperties
<1>5. /\ n \in Nodes
      /\ n.addr = free[k].addr + total
      /\ NodeExtent(n) = (NodeExtent(free[k]) - total) + 16
  <2>1. n = [addr |-> free[k].addr + total, size |-> NodeExtent(free[k]) - total]
    BY DEF RestNode, Rest
  <2>2. free[k].addr + total \in Nat /\ NodeExtent(free[k]) - total \in Nat
    BY <1>2
  <2> HIDE DEF n
  <2> QED
    BY <2>1, <2>2 DEF Nodes, NodeExtent, Node
<1> HIDE DEF b, n
<1>6. /\ \A c \in live' : c \in [addr : Nat, size : Nat, used : Nat]
                            /\ c.used <= c.size
      /\ IsFiniteSet(live') /\ RoomForNode'
      /\ BlockClaim(live) \in Int
      /\ BlockClaim(live') = BlockExtent(b) + BlockClaim(live)
  BY <1>3, <1>4, LiveGrows
<1>7. free \in Seq(Nodes)
  BY <1>1, LiveBlocks
<1>8. rest \in Seq(Nodes) /\ ToSet(free) = {free[k]} \union ToSet(rest)
  BY <1>2, <1>7, PopProperties
<1> HIDE DEF rest
<1>9. free' \in Seq(Nodes) /\ ToSet(free') = {n} \union ToSet(rest)
  BY <1>3, <1>5, <1>8, PushProperties
<1>10. TypeOK'
  BY <1>1, <1>3, <1>6, <1>9 DEF TypeOK, Nodes
<1>11. ClaimsDriftBySplits'
  <2>1. /\ TotalClaim(rest) \in Int
        /\ TotalClaim(free) = NodeExtent(free[k]) + TotalClaim(rest)
    BY <1>2, <1>7, ClaimPopped DEF rest
  <2>2. TotalClaim(free') = NodeExtent(n) + TotalClaim(rest)
    BY <1>3, <1>5, <1>8, ClaimPushed
  <2>3. TotalClaim(free) + BlockClaim(live) = Region + 16 * splits
    BY ClaimedIs DEF AllocInv
  <2>4. Region \in Nat /\ splits \in Nat
    BY <1>1, RegionType DEF TypeOK
  <2>5. TotalClaim(free') + BlockClaim(live') = Region + 16 * splits'
    <3>1. /\ TotalClaim(free') = NodeExtent(n) + TotalClaim(rest)
          /\ BlockClaim(live') = total + BlockClaim(live)
          /\ NodeExtent(n) = (NodeExtent(free[k]) - total) + 16
          /\ TotalClaim(free) = NodeExtent(free[k]) + TotalClaim(rest)
      BY <1>4, <1>5, <1>6, <2>1, <2>2
    <3>2. /\ TotalClaim(rest) \in Int /\ BlockClaim(live) \in Int
          /\ NodeExtent(free[k]) \in Int /\ total \in Int
      BY <1>2, <1>6, <2>1
    <3>3. TotalClaim(free') + BlockClaim(live')
            = (TotalClaim(free) + BlockClaim(live)) + 16
      BY ONLY <3>1, <3>2
    <3>4. (Region + 16 * splits) + 16 = Region + 16 * splits'
      BY <1>3, <2>4
    <3> QED
      BY ONLY <2>3, <3>3, <3>4
  <2> QED
    BY <2>5, ClaimedIs
<1>12. EveryClaimed'
  <2> SUFFICES ASSUME NEW byte \in Nat, byte < Region
               PROVE  Covers(ToSet(free'), live', byte)
    BY DEF EveryClaimed, Region
  <2>1. Covers(ToSet(free), live, byte)
    BY DEF AllocInv, EveryClaimed
  <2>2. CASE free[k].addr <= byte /\ byte < free[k].addr + total
    BY <1>3, <1>4, <2>2 DEF Covers
  <2>3. CASE n.addr <= byte /\ byte < n.addr + NodeExtent(n)
    BY <1>9, <2>3 DEF Covers
  <2>4. CASE ~(free[k].addr <= byte /\ byte < free[k].addr + NodeExtent(free[k]))
    BY <1>3, <1>8, <1>9, <2>1, <2>4 DEF Covers
  <2> QED
    BY <1>2, <1>5, <2>2, <2>3, <2>4
<1> QED
  BY <1>6, <1>10, <1>11, <1>12 DEF AllocInv

LEMMA FreeKeeps ==
  ASSUME AllocInv, NEW b \in live, Free(b)
  PROVE  AllocInv'
<1> DEFINE n == [addr |-> b.addr, size |-> BlockExtent(b) - Node]
           others == live \ {b}
<1>1. TypeOK /\ IsFiniteSet(live) /\ b \in Blocks /\ free \in Seq(Nodes)
  BY LiveBlocks DEF AllocInv
<1>2. /\ live' = others /\ free' = <<n>> \o free
      /\ strat' = strat /\ splits' = splits /\ crashed' = crashed
  BY DEF Free
<1>3. /\ b.addr \in Nat /\ b.size \in Nat /\ BlockExtent(b) = b.size + 8
      /\ b.size >= 16
  BY <1>1, LiveBlocks DEF AllocInv, RoomForNode, MIN_SIZE
<1>4. /\ n \in Nodes
      /\ n.addr = b.addr /\ NodeExtent(n) = BlockExtent(b)
  <2>1. BlockExtent(b) - 16 \in Nat /\ (BlockExtent(b) - 16) + 16 = BlockExtent(b)
    BY <1>3
  <2> QED
    BY <1>3, <2>1 DEF Nodes, NodeExtent, Node
<1> HIDE DEF n
<1>5. free' \in Seq(Nodes) /\ ToSet(free') = {n} \union ToSet(free)
  BY <1>1, <1>2, <1>4, PushProperties
<1>6. IsFiniteSet(others)
  BY <1>1, FS_RemoveElement
<1>7. RoomForNode'
  BY <1>2 DEF AllocInv, RoomForNode
<1>8. TypeOK'
  BY <1>1, <1>2, <1>5 DEF TypeOK, Nodes
<1>9. ClaimsDriftBySplits'
  <2>1. /\ TotalClaim(free) \in Int
        /\ TotalClaim(free') = NodeExtent(n) + TotalClaim(free)
    BY <1>1, <1>2, <1>4, ClaimPushed
  <2>2. /\ others \in SUBSET Blocks /\ b \notin others
        /\ live = others \union {b}
    BY <1>1, LiveBlocks
  <2> HIDE DEF others
  <2>3. /\ BlockClaim(others) \in Int
        /\ BlockClaim(live) = BlockExtent(b) + BlockClaim(others)
    BY <1>1, <1>6, <2>2, BlockClaimAdded
  <2>4. TotalClaim(free) + BlockClaim(live) = Region + 16 * splits
    BY ClaimedIs DEF AllocInv
  <2>5. TotalClaim(free') + BlockClaim(live') = Region + 16 * splits'
    BY <1>2, <1>3, <1>4, <2>1, <2>3, <2>4
  <2> QED
    BY <2>5, ClaimedIs
<1>10. EveryClaimed'
  <2> SUFFICES ASSUME NEW byte \in Nat, byte < Region
               PROVE  Covers(ToSet(free'), live', byte)
    BY DEF EveryClaimed, Region
  <2>1. Covers(ToSet(free), live, byte)
    BY DEF AllocInv, EveryClaimed
  <2>2. CASE b.addr <= byte /\ byte < b.addr + BlockExtent(b)
    BY <1>4, <1>5, <2>2 DEF Covers
  <2>3. CASE ~(b.addr <= byte /\ byte < b.addr + BlockExtent(b))
    BY <1>2, <1>5, <2>1, <2>3 DEF Covers
  <2> QED
    BY <2>2, <2>3
<1> QED
  BY <1>2, <1>6, <1>7, <1>8, <1>9, <1>10 DEF AllocInv

-----------------------------------------------------------------------------
(* NoByteLost looks at the bytes where the first loss would show. *)
LEMMA ClaimedNotLost == AllocInv => NoByteLost
<1> SUFFICES ASSUME AllocInv PROVE NoByteLost
  OBVIOUS
<1> DEFINE Ends == {0} \union {n.addr + NodeExtent(n) : n \in ToSet(free)}
                       \union {b.addr + BlockExtent(b) : b \in live}
<1>1. Region \in Nat
  BY RegionType
<1>2. \A byte \in Ends : byte \in Nat
  BY FreeList, LiveBlocks DEF AllocInv, ToSet
<1> HIDE DEF Ends
<1>3. \A byte \in Ends : byte >= Region \/ Covers(ToSet(free), live, byte)
  BY <1>1, <1>2 DEF AllocInv, EveryClaimed
<1> QED
  BY <1>3 DEF NoByteLost, Covers, Ends

LEMMA InitAllocInv == Init => AllocInv
<1> SUFFICES ASSUME Init PROVE AllocInv
  OBVIOUS
<1> DEFINE n == [addr |-> 0, size |-> Region - Node]
<1>1. /\ strat \in Strategies /\ free = <<n>> /\ live = {} /\ splits = 0
      /\ crashed = FALSE
  BY DEF Init
<1>2. /\ n \in Nodes /\ n.addr = 0 /\ NodeExtent(n) = Region /\ Region \in Nat
  BY RegionType DEF Nodes, NodeExtent, Node
<1> HIDE DEF n
<1>3. << >> \in Seq(Nodes) /\ <<n>> \in Seq(Nodes) /\ free = <<n>> \o << >>
  BY <1>1, <1>2
<1>4. TypeOK
  <2>1. free \in Seq([addr : Nat, size : Nat])
    BY <1>1, <1>3 DEF Nodes
  <2>2. strat \in {BEST_FIT, WORST_FIT} /\ splits \in Nat /\ crashed \in BOOLEAN
    BY <1>1, StratAssumption
  <2> QED
    BY <1>1, <2>1, <2>2 DEF TypeOK
<1>5. IsFiniteSet(live) /\ RoomForNode
  BY <1>1, FS_EmptySet DEF RoomForNode
<1>6. ClaimsDriftBySplits
  <2>1. TotalClaim(<< >>) = 0
    <3> DEFINE f == [k \in {} |-> NodeExtent(<< >>[k])]
    <3>1. SumFunctionOnSet(f, {}) = 0
      BY FS_EmptySet, SumOnSet
    <3> QED
      BY <3>1 DEF TotalClaim, SumFunction
  <2>2. BlockClaim({}) = 0
    <3> DEFINE f == [b \in {} |-> BlockExtent(b)]
    <3>1. SumFunctionOnSet(f, {}) = 0
      BY FS_EmptySet, SumOnSet
    <3> QED
      BY <3>1 DEF BlockClaim, SumFunction
  <2>3. TotalClaim(free) = NodeExtent(n) + TotalClaim(<< >>)
    BY <1>2, <1>3, ClaimPushed
  <2>4. TotalClaim(free) + BlockClaim(live) = Region + 16 * splits
    BY <1>1, <1>2, <2>1, <2>2, <2>3
  <2> QED
    BY <2>4, ClaimedIs
<1>7. EveryClaimed
  <2>1. n \in ToSet(free)
    BY <1>1 DEF ToSet
  <2> QED
    BY <1>2, <2>1 DEF EveryClaimed, Covers
<1> QED
  BY <1>4, <1>5, <1>6, <1>7 DEF AllocInv

LEMMA NextAllocInv == AllocInv /\ [Next]_vars => AllocInv'
<1> SUFFICES ASSUME AllocInv, [Next]_vars PROVE AllocInv'
  OBVIOUS
<1>1. ASSUME UNCHANGED <<strat, free, live, splits>>, crashed' \in BOOLEAN PROVE AllocInv'
  <2>1. TypeOK'
    BY <1>1 DEF AllocInv, TypeOK
  <2>2. IsFiniteSet(live') /\ RoomForNode'
    BY <1>1 DEF AllocInv, RoomForNode
  <2>3. ClaimsDriftBySplits'
    BY <1>1, ClaimedIs DEF AllocInv
  <2>4. EveryClaimed'
    BY <1>1 DEF AllocInv, EveryClaimed, Region
  <2> QED
    BY <2>1, <2>2, <2>3, <2>4 DEF AllocInv
<1>2. CASE MallocOnEmptyList
  BY <1>1, <1>2 DEF MallocOnEmptyList
<1>3. ASSUME NEW size \in Requests, MallocSplit(size, size) PROVE AllocInv'
  BY <1>3, MallocSplitKeeps, RequestsAssumption
<1>4. ASSUME NEW size \in Requests, MallocWhole(size, size) PROVE AllocInv'
  BY <1>4, MallocWholeKeeps, RequestsAssumption
<1>5. ASSUME NEW size \in Requests, MallocNull(size) PROVE AllocInv'
  BY <1>1, <1>5 DEF MallocNull, vars, AllocInv, TypeOK
<1>6. ASSUME NEW b \in live, Free(b) PROVE AllocInv'
  BY <1>6, FreeKeeps
<1>7. CASE UNCHANGED vars
  BY <1>1, <1>7 DEF vars, AllocInv, TypeOK
<1> QED
  BY <1>2, <1>3, <1>4, <1>5, <1>6, <1>7 DEF Next

LEMMA AllocInvInvariant == Spec => []AllocInv
  BY InitAllocInv, NextAllocInv, PTL DEF Spec

-----------------------------------------------------------------------------
(***************************************************************************)
(* The programs.  Each script is a sequence of calls that write no more    *)
(* than they ask for; so the invariant holds in all of them, and not only  *)
(* in the program that makes any call at any time.                         *)
(***************************************************************************)
MallocOps == {o \in [op : {"malloc"}, slot : Nat, sizes : SUBSET Nat, used : Nat] :
                \A size \in o.sizes : o.used <= size}
Ops == {SetNull} \union {Release(slot) : slot \in Nat} \union MallocOps

LEMMA OpsProperties ==
  /\ SetNull \in Ops
  /\ \A slot \in Nat : Release(slot) \in Ops
  /\ \A slot \in Nat, sizes \in SUBSET Nat, used \in Nat :
       (\A size \in sizes : used <= size) => Malloc(slot, sizes, used) \in Ops
  /\ \A o \in Ops : o.op = "malloc" =>
       \A size \in o.sizes : size \in Nat /\ o.used \in 0..size
<1>1. SetNull \in Ops /\ \A slot \in Nat : Release(slot) \in Ops
  BY DEF Ops
<1>2. ASSUME NEW slot \in Nat, NEW sizes \in SUBSET Nat, NEW used \in Nat,
             \A size \in sizes : used <= size
      PROVE  Malloc(slot, sizes, used) \in Ops
  BY <1>2 DEF Malloc, MallocOps, Ops
<1>3. ASSUME NEW o \in Ops, o.op = "malloc", NEW size \in o.sizes
      PROVE  size \in Nat /\ o.used \in 0..size
  <2>1. o \in MallocOps
    BY <1>3 DEF Ops, SetNull, Release
  <2> QED
    BY <2>1 DEF MallocOps
<1> QED
  BY <1>1, <1>2, <1>3

(* The order in which the arrays are freed. *)
Halves(half, From) ==
  IF half = 0 THEN <<0>>
  ELSE [k \in 1..half |-> half + k - 1] \o From[half \div 2]

LEMMA HalvesType ==
  ASSUME NEW half \in Nat, NEW From, half # 0 => From[half \div 2] \in Seq(Nat)
  PROVE  Halves(half, From) \in Seq(Nat)
<1>1. CASE half = 0
  <2>1. <<0>> \in Seq(Nat)
    OBVIOUS
  <2> QED
    BY <1>1, <2>1 DEF Halves
<1>2. CASE half # 0
  <2> DEFINE upper == [k \in 1..half |-> half + k - 1]
  <2>1. upper \in Seq(Nat)
    OBVIOUS
  <2> HIDE DEF upper
  <2>2. upper \o From[half \div 2] \in Seq(Nat)
    BY <1>2, <2>1, ConcatProperties
  <2> QED
    BY <1>2, <2>2 DEF Halves, upper
<1> QED
  BY <1>1, <1>2

LEMMA FreeOrderUnfolds ==
  \E From : /\ FreeOrder = From[Batches \div 2]
            /\ \A half \in 0..Batches : From[half] = Halves(half, From)
<1> DEFINE N == Batches
           Def(From) == From = [half \in 0..N |->
              IF half = 0 THEN <<0>>
              ELSE [k \in 1..half |-> half + k - 1] \o From[half \div 2]]
           Upto(m) == \E f \in [0..m -> Seq(Nat)] : \A h \in 0..m : f[h] = Halves(h, f)
           S == {m \in Nat : Upto(m)}
<1>1. N \in Nat \ {0}
  BY ArraysAssumption
<1>2. ASSUME NEW h \in Nat, h # 0
      PROVE  h \div 2 \in Nat /\ h \div 2 < h /\ h \div 2 <= h - 1
  BY <1>2
<1>3. 0 \in S
  <2> DEFINE f == [h \in 0..0 |-> <<0>>]
  <2>1. f \in [0..0 -> Seq(Nat)] /\ \A h \in 0..0 : h = 0 /\ f[h] = <<0>>
    OBVIOUS
  <2> HIDE DEF f
  <2>2. \A h \in 0..0 : f[h] = Halves(h, f)
    BY <2>1 DEF Halves
  <2> QED
    BY <2>1, <2>2
<1>4. ASSUME NEW m \in Nat, m \in S PROVE m + 1 \in S
  <2>1. PICK f \in [0..m -> Seq(Nat)] : \A h \in 0..m : f[h] = Halves(h, f)
    BY <1>4
  <2> DEFINE n == m + 1
             g == [h \in 0..n |-> IF h = n THEN Halves(n, f) ELSE f[h]]
  <2>2. n \in Nat /\ n # 0 /\ n \div 2 \in 0..m
    BY <1>2
  <2>3. Halves(n, f) \in Seq(Nat)
    <3> HIDE DEF n
    <3>1. f[n \div 2] \in Seq(Nat)
      BY <2>2
    <3> QED
      BY <2>2, <3>1, HalvesType
  <2>4. \A h \in 0..n : h = n \/ h \in 0..m
    OBVIOUS
  <2>5. g \in [0..n -> Seq(Nat)]
    <3> HIDE DEF n
    <3> QED
      BY <2>3, <2>4
  <2>6. ASSUME NEW h \in 0..n PROVE g[h] = Halves(h, g)
    <3>1. h # 0 => h \div 2 \in 0..m /\ h \div 2 \in 0..n /\ h \div 2 # n
      BY <1>2
    <3>2. g[h] = Halves(h, f)
      BY <2>1, <2>4
    <3>3. h # 0 => g[h \div 2] = f[h \div 2]
      BY <3>1
    <3> HIDE DEF g
    <3> QED
      BY <3>2, <3>3 DEF Halves
  <2>7. Upto(n)
    <3> HIDE DEF g, n
    <3> QED
      BY <2>5, <2>6
  <2> QED
    BY <2>2, <2>7
<1>5. Upto(N)
  <2>1. N \in S
    <3> HIDE DEF S
    <3> QED
      BY <1>1, <1>3, <1>4, Induction
  <2> QED
    BY <2>1
<1>6. \E f : Def(f)
  <2>1. PICK f \in [0..N -> Seq(Nat)] : \A h \in 0..N : f[h] = Halves(h, f)
    BY <1>5
  <2>2. f = [h \in 0..N |-> Halves(h, f)]
    BY <2>1
  <2> QED
    BY <2>2 DEF Halves
<1> DEFINE From == CHOOSE f : Def(f)
<1>7. Def(From)
  <2> HIDE DEF Def
  <2> QED
    BY <1>6
<1>8. FreeOrder = From[N \div 2]
  BY DEF FreeOrder
<1>9. ASSUME NEW h \in 0..N PROVE From[h] = Halves(h, From)
  <2> HIDE DEF From
  <2>1. From = [half \in 0..N |-> Halves(half, From)]
    BY <1>7 DEF Halves
  <2> QED
    BY ONLY <2>1, h \in 0..N
<1> HIDE DEF From
<1> QED
  BY <1>8, <1>9

LEMMA FreeOrderType == FreeOrder \in Seq(Nat)
<1> DEFINE N == Batches
<1>1. N \in Nat \ {0}
  BY ArraysAssumption
<1>2. ASSUME NEW h \in Nat, h # 0
      PROVE  h \div 2 \in Nat /\ h \div 2 < h /\ h \div 2 <= h - 1
  BY <1>2
<1>7. PICK From : /\ FreeOrder = From[N \div 2]
                  /\ \A h \in 0..N : From[h] = Halves(h, From)
  BY FreeOrderUnfolds
<1>8. FreeOrder = From[N \div 2]
  BY <1>7
<1>9. ASSUME NEW h \in 0..N PROVE From[h] = Halves(h, From)
  BY <1>7
<1> DEFINE R == {m \in Nat : \A h \in 0..m : h <= N => From[h] \in Seq(Nat)}
<1>10. 0 \in R
  <2>1. 0 \in 0..N /\ \A h \in 0..0 : h = 0
    BY <1>1
  <2>2. From[0] \in Seq(Nat)
    BY <1>9, <2>1, HalvesType
  <2> QED
    BY <2>1, <2>2
<1>11. ASSUME NEW m \in Nat, m \in R PROVE m + 1 \in R
  <2> SUFFICES ASSUME NEW h \in 0..(m + 1), h <= N PROVE From[h] \in Seq(Nat)
    OBVIOUS
  <2>1. CASE h \in 0..m
    BY <1>11, <2>1
  <2>2. CASE h = m + 1
    <3>1. h \in Nat /\ h \in 0..N /\ h # 0 /\ h \div 2 \in 0..m /\ h \div 2 <= N
      BY <1>1, <1>2, <2>2
    <3>2. From[h \div 2] \in Seq(Nat)
      BY <1>11, <3>1
    <3> QED
      BY <1>9, <3>1, <3>2, HalvesType
  <2> QED
    BY <2>1, <2>2
<1>12. N \in R
  <2> HIDE DEF R
  <2> QED
    BY <1>1, <1>10, <1>11, Induction
<1>13. N \div 2 \in 0..N
  BY <1>1, <1>2
<1> QED
  BY <1>8, <1>12, <1>13

-----------------------------------------------------------------------------
LEMMA MallocsType ==
  ASSUME NEW n \in Nat, NEW s, NEW used \in Nat,
         \A k \in 1..n : s[k] \in SUBSET Nat /\ \A size \in s[k] : used <= size
  PROVE  [k \in 1..n |-> Malloc(k - 1, s[k], used)] \in Seq(Ops)
<1>1. \A k \in 1..n : Malloc(k - 1, s[k], used) \in Ops
  BY OpsProperties
<1> QED
  BY <1>1

LEMMA SymmetricType ==
  ASSUME NEW sizes, NEW used \in Nat,
         \A j \in Calls : sizes[j] \in SUBSET Nat /\ \A size \in sizes[j] : used <= size
  PROVE  Symmetric(sizes, used) \in Seq(Ops)
<1> DEFINE mallocs == [k \in 1..NUM |-> Malloc(k - 1, sizes[k - 1], used)]
           frees == [k \in 1..NUM |-> Release(k - 1)]
           round == <<SetNull>> \o mallocs \o frees
           rounds == [r \in 1..Rounds |-> round]
<1>1. NUM \in Nat /\ PerBatch \in Nat /\ Rounds \in Nat
  BY ArraysAssumption
<1>2. ASSUME NEW k \in 1..NUM
      PROVE  Malloc(k - 1, sizes[k - 1], used) \in Ops /\ Release(k - 1) \in Ops
  <2>1. k - 1 \in Calls /\ k - 1 \in Nat
    BY <1>1 DEF Calls
  <2> QED
    BY <2>1, OpsProperties
<1>3. mallocs \in Seq(Ops) /\ frees \in Seq(Ops)
  BY <1>1, <1>2
<1>4. <<SetNull>> \in Seq(Ops)
  BY OpsProperties
<1>5. round \in Seq(Ops)
  <2> HIDE DEF mallocs, frees
  <2> QED
    BY <1>3, <1>4, ConcatProperties
<1>6. rounds \in Seq(Seq(Ops))
  <2> HIDE DEF round
  <2> QED
    BY <1>1, <1>5
<1>7. Symmetric(sizes, used) = FlattenSeq(rounds)
  BY DEF Symmetric
<1> HIDE DEF rounds
<1> QED
  BY <1>6, <1>7, FlattenType

LEMMA AsymmetricType ==
  ASSUME NEW sizes, NEW used \in Nat,
         \A j \in Calls : sizes[j] \in SUBSET Nat /\ \A size \in sizes[j] : used <= size
  PROVE  Asymmetric(sizes, used) \in Seq(Ops)
<1> DEFINE total == Batches * PerBatch
           call(k) == Malloc(k - 1, sizes[(k - 1) % PerBatch], used)
           mallocs == [k \in 1..total |-> call(k)]
           array(i) == [k \in 1..PerBatch |-> Release(FreeOrder[i] * PerBatch + k - 1)]
           arrays == [i \in DOMAIN FreeOrder |-> array(i)]
<1>1. NUM \in Nat /\ PerBatch \in Nat /\ Batches \in Nat
  BY ArraysAssumption
<1>2. total \in Nat /\ (PerBatch = 0 => total = 0)
  BY <1>1
<1>3. ASSUME NEW k \in 1..total
      PROVE  call(k) \in Ops
  <2>1. PerBatch # 0 /\ k - 1 \in Nat
    BY <1>1, <1>2
  <2>2. (k - 1) % PerBatch \in 0..(PerBatch - 1)
    BY <1>1, <2>1
  <2>3. (k - 1) % PerBatch \in Calls
    BY <1>1, <2>2 DEF Calls
  <2> QED
    BY <2>1, <2>3, OpsProperties
<1>4. mallocs \in Seq(Ops)
  <2> HIDE DEF total, call
  <2> QED
    BY <1>2, <1>3
<1>5. /\ DOMAIN FreeOrder = 1..Len(FreeOrder) /\ Len(FreeOrder) \in Nat
      /\ \A i \in 1..Len(FreeOrder) : FreeOrder[i] \in Nat
  BY FreeOrderType, LenProperties, ElementOfSeq
<1>6. ASSUME NEW i \in 1..Len(FreeOrder) PROVE array(i) \in Seq(Ops)
  <2>1. ASSUME NEW k \in 1..PerBatch
        PROVE  Release(FreeOrder[i] * PerBatch + k - 1) \in Ops
    <3>1. FreeOrder[i] * PerBatch \in Nat
      BY <1>1, <1>5
    <3>2. FreeOrder[i] * PerBatch + k - 1 \in Nat
      BY <3>1
    <3> QED
      BY <3>2, OpsProperties
  <2> QED
    BY <1>1, <2>1
<1>7. arrays \in Seq(Seq(Ops))
  <2> HIDE DEF array
  <2> QED
    BY <1>5, <1>6
<1>8. FlattenSeq(arrays) \in Seq(Ops)
  <2> HIDE DEF arrays
  <2> QED
    BY <1>7, FlattenType
<1>9. <<SetNull>> \in Seq(Ops)
  BY OpsProperties
<1>10. Asymmetric(sizes, used) = <<SetNull>> \o mallocs \o FlattenSeq(arrays)
  BY DEF Asymmetric
<1> HIDE DEF mallocs, arrays
<1> QED
  BY <1>4, <1>8, <1>9, <1>10, ConcatProperties

LEMMA MainType == MainScript \in Seq(Ops)
<1> DEFINE first == <<SetNull, Malloc(0, {4}, 4), Malloc(1, {4}, 4)>>
           three == [k \in 1..3 |-> Malloc(k + 1, {32}, 32)]
           last == <<Release(0), Release(1), Malloc(5, {4}, 4), Release(5),
                     Release(2), Release(3), Release(4), Malloc(6, {32}, 0), Release(6)>>
<1>1. /\ SetNull \in Ops /\ Malloc(0, {4}, 4) \in Ops /\ Malloc(1, {4}, 4) \in Ops
      /\ Malloc(5, {4}, 4) \in Ops /\ Malloc(6, {32}, 0) \in Ops
      /\ \A k \in 1..3 : Malloc(k + 1, {32}, 32) \in Ops
      /\ \A slot \in 0..6 : Release(slot) \in Ops
  BY OpsProperties
<1>2. first \in Seq(Ops) /\ three \in Seq(Ops) /\ last \in Seq(Ops)
  BY <1>1
<1>3. MainScript = first \o three \o last
  BY DEF MainScript
<1> HIDE DEF first, three, last
<1> QED
  BY <1>2, <1>3, ConcatProperties

(* Every driver writes no more than it asks for. *)
LEMMA SizesAsked ==
  /\ \A j \in Calls : Small[j] \in SUBSET Nat /\ \A size \in Small[j] : SmallTest <= size
  /\ \A j \in Calls : /\ SmallFirst[j] \in SUBSET Nat /\ LargeFirst[j] \in SUBSET Nat
                      /\ \A size \in SmallFirst[j] : LargeTest <= size /\ 0 <= size
                      /\ \A size \in LargeFirst[j] : LargeTest <= size
  /\ SmallTest \in Nat /\ LargeTest \in Nat /\ 0 \in Nat
<1>1. \A j \in Calls : Small[j] \in SUBSET Nat /\ \A size \in Small[j] : SmallTest <= size
  BY SizesAssumption DEF Small
<1>2. ASSUME NEW j \in Calls
      PROVE  /\ SmallFirst[j] \in SUBSET Nat /\ LargeFirst[j] \in SUBSET Nat
             /\ \A size \in SmallFirst[j] : LargeTest <= size /\ 0 <= size
             /\ \A size \in LargeFirst[j] : LargeTest <= size
  <2>1. j \in Nat /\ (j % 2) + 1 \in {1, 2} /\ ((j + 1) % 2) + 1 \in {1, 2}
    BY ArraysAssumption DEF Calls
  <2>2. \A i \in {1, 2} : LargeSizes[i] \in Nat /\ LargeSizes[i] >= 16
    BY SizesAssumption DEF LargeTest
  <2>3. SmallFirst[j] = {LargeSizes[(j % 2) + 1]} /\ LargeFirst[j] = {LargeSizes[((j + 1) % 2) + 1]}
    BY DEF SmallFirst, LargeFirst
  <2> QED
    BY <2>1, <2>2, <2>3 DEF LargeTest
<1>3. SmallTest \in Nat /\ LargeTest \in Nat /\ 0 \in Nat
  BY DEF SmallTest, LargeTest
<1> QED
  BY <1>1, <1>2, <1>3

LEMMA ScriptType ==
  ASSUME program \in Programs
  PROVE  Script \in Seq(Ops)
<1>1. SmallSymmetric \in Seq(Ops) /\ SmallAsymmetric \in Seq(Ops)
  BY SizesAsked, SymmetricType, AsymmetricType DEF SmallSymmetric, SmallAsymmetric
<1>2. LargeSymmetric \in Seq(Ops)
  BY SizesAsked, SymmetricType DEF LargeSymmetric
<1>3. LargeUnwritten \in Seq(Ops)
  BY SizesAsked, SymmetricType DEF LargeUnwritten
<1>4. LargeAsymmetric \in Seq(Ops)
  BY SizesAsked, AsymmetricType DEF LargeAsymmetric
<1>5. program \in {"any", "main", "small_symmetric", "small_asymmetric",
                   "large_symmetric", "large_asymmetric"}
  BY ProgramsAssumption
<1> QED
  BY <1>1, <1>2, <1>3, <1>4, <1>5, MainType DEF Script

ProgramInv == AllocInv /\ program \in Programs /\ at \in Nat \ {0}

LEMMA ProgramStep == ProgramInv /\ [ProgramNext]_programVars => ProgramInv'
<1> SUFFICES ASSUME ProgramInv, [ProgramNext]_programVars PROVE ProgramInv'
  OBVIOUS
<1> USE DEF ProgramInv
<1>1. ASSUME NEW op, Step(op), AllocInv' PROVE ProgramInv'
  BY <1>1 DEF Step
<1>2. ASSUME UNCHANGED vars PROVE AllocInv'
  BY <1>2, NextAllocInv
<1>3. CASE NewArray
  BY <1>1, <1>2, <1>3 DEF NewArray
<1>4. CASE GetsBlock
  <2>1. Step("malloc")
    BY <1>4 DEF GetsBlock
  <2>2. PICK size \in Op.sizes : MallocSplit(size, Op.used) \/ MallocWhole(size, Op.used)
    BY <1>4 DEF GetsBlock
  <2>3. Op \in Ops /\ Op.op = "malloc"
    <3>1. at \in 1..Len(Script) /\ Op.op = "malloc"
      BY <2>1, ScriptType, LenProperties DEF Step, Done
    <3> QED
      BY <3>1, ScriptType, ElementOfSeq DEF Op
  <2>4. size \in Nat /\ Op.used \in 0..size
    BY <2>2, <2>3, OpsProperties
  <2>5. AllocInv'
    BY <2>2, <2>4, MallocSplitKeeps, MallocWholeKeeps
  <2> QED
    BY <1>1, <2>1, <2>5
<1>5. CASE GetsNull
  <2>1. Step("malloc")
    BY <1>5 DEF GetsNull
  <2>2. AllocInv'
    BY <1>2, <1>5, NextAllocInv DEF GetsNull, MallocNull, Next
  <2> QED
    BY <1>1, <2>1, <2>2
<1>6. CASE FreesBlock
  <2>1. Step("free") /\ AllocInv'
    BY <1>6, FreeKeeps DEF FreesBlock
  <2> QED
    BY <1>1, <2>1
<1>7. CASE FreesNull
  BY <1>1, <1>2, <1>7 DEF FreesNull
<1>8. CASE Next /\ UNCHANGED <<program, at, pointer_array, served>>
  BY <1>8, NextAllocInv
<1>9. CASE UNCHANGED programVars
  BY <1>2, <1>9 DEF programVars
<1> QED
  BY <1>3, <1>4, <1>5, <1>6, <1>7, <1>8, <1>9 DEF ProgramNext

LEMMA ProgramInvariant == ProgramSpec => []AllocInv
<1>1. ProgramInit => ProgramInv
  BY InitAllocInv DEF ProgramInit, ProgramInv
<1>2. ProgramInv => AllocInv
  BY DEF ProgramInv
<1> QED
  BY <1>1, <1>2, ProgramStep, PTL DEF ProgramSpec

-----------------------------------------------------------------------------
(***************************************************************************)
(* The theorems hold of main.c and of the eight drivers, whatever the      *)
(* region, the length of their arrays and the sizes that rand() gives      *)
(* them, and of any program that frees what it was given.                  *)
(***************************************************************************)
(* Sizes and addresses stay naturals, also where the code subtracts, and a block
   that is handed out has room for what was asked for. *)
THEOREM TypeCorrect == ProgramSpec => []TypeOK
<1>1. AllocInv => TypeOK
  BY DEF AllocInv
<1> QED
  BY <1>1, ProgramInvariant, PTL

(* Each split makes 16 bytes out of nothing, and nothing else changes how many
   bytes psumalloc and psufree think they have. *)
THEOREM SixteenBytesPerSplit == ProgramSpec => []ClaimsDriftBySplits
<1>1. AllocInv => ClaimsDriftBySplits
  BY DEF AllocInv
<1> QED
  BY <1>1, ProgramInvariant, PTL

(* psumalloc and psufree lose no byte of the region. *)
THEOREM NothingLost == ProgramSpec => []NoByteLost
<1>1. AllocInv => NoByteLost
  BY ClaimedNotLost
<1> QED
  BY <1>1, ProgramInvariant, PTL

(* In every state psumalloc can be called in, both search loops find what their
   strategies say, whatever the request. *)
THEOREM RightFit == ProgramSpec => []FitIsRight
<1>1. AllocInv => FitIsRight
  BY TypeGivesFit DEF AllocInv
<1> QED
  BY <1>1, ProgramInvariant, PTL

(* All of this holds of any program that frees what it was given and writes the
   bytes it asked for, whatever the sizes. *)
THEOREM AnyProgram ==
  Spec => [](TypeOK /\ ClaimsDriftBySplits /\ NoByteLost /\ FitIsRight)
<1>1. AllocInv => TypeOK /\ ClaimsDriftBySplits /\ NoByteLost /\ FitIsRight
  BY ClaimedNotLost, TypeGivesFit DEF AllocInv
<1> QED
  BY <1>1, AllocInvInvariant, PTL

-----------------------------------------------------------------------------
(***************************************************************************)
(* coalesce().                                                             *)
(***************************************************************************)
(* A node that takes over another one claims what both claimed. *)
LEMMA AbsorbProperties ==
  ASSUME NEW q \in Seq(Nodes), NEW h \in 1..Len(q), NEW k \in 1..Len(q), h # k
  PROVE  /\ Absorb(q, h, k) \in Seq(Nodes) /\ Len(Absorb(q, h, k)) = Len(q) - 1
         /\ TotalClaim(Absorb(q, h, k)) = TotalClaim(q)
<1> DEFINE n == Len(q)
           bigger == [q[h] EXCEPT !.size = @ + NodeExtent(q[k])]
           r == [q EXCEPT ![h] = bigger]
<1>1. n \in Nat /\ DOMAIN q = 1..n /\ \A j \in 1..n : q[j] \in Nodes
  BY NodeExtentType
<1>2. /\ bigger \in Nodes
      /\ NodeExtent(bigger) = NodeExtent(q[h]) + NodeExtent(q[k])
  <2>1. q[h] \in Nodes /\ q[k] \in Nodes
    BY <1>1
  <2>2. ASSUME NEW x \in Nodes, NEW y \in Nodes
        PROVE  LET b == [x EXCEPT !.size = @ + NodeExtent(y)]
               IN  b \in Nodes /\ NodeExtent(b) = NodeExtent(x) + NodeExtent(y)
    <3>1. /\ x.size \in Nat /\ y.size \in Nat /\ x.addr \in Nat
          /\ x = [addr |-> x.addr, size |-> x.size]
          /\ NodeExtent(x) = x.size + 16 /\ NodeExtent(y) = y.size + 16
      BY DEF Nodes, NodeExtent, Node
    <3>2. [x EXCEPT !.size = @ + NodeExtent(y)]
            = [addr |-> x.addr, size |-> x.size + NodeExtent(y)]
      BY <3>1
    <3> DEFINE m == x.size + NodeExtent(y)
               z == [addr |-> x.addr, size |-> m]
    <3>3. \A a, c \in Nat : /\ a + (c + 16) \in Nat
                           /\ (a + (c + 16)) + 16 = (a + 16) + (c + 16)
      OBVIOUS
    <3>4. m \in Nat /\ m + 16 = NodeExtent(x) + NodeExtent(y)
      BY <3>1, <3>3
    <3> HIDE DEF m
    <3>5. z \in Nodes
      BY <3>1, <3>4 DEF Nodes
    <3>6. NodeExtent(z) = m + 16
      BY DEF NodeExtent, Node
    <3>7. [x EXCEPT !.size = @ + NodeExtent(y)] = z
      BY <3>2 DEF m
    <3> HIDE DEF z
    <3> QED
      BY <3>4, <3>5, <3>6, <3>7
  <2> QED
    BY <2>1, <2>2
<1>3. Absorb(q, h, k) = RemoveAt(r, k)
  BY DEF Absorb
<1> HIDE DEF bigger
<1>4. /\ r \in Seq(Nodes) /\ Len(r) = n /\ r[h] = bigger /\ r[k] = q[k]
      /\ \A j \in 1..n : j # h => r[j] = q[j]
  BY <1>1, <1>2
<1>5. h \in 1..Len(r) /\ k \in 1..Len(r)
  BY <1>4
<1> HIDE DEF r
<1>6. RemoveAt(r, h) = RemoveAt(q, h)
  <2> DEFINE a == RemoveAt(r, h)
             b == RemoveAt(q, h)
  <2>1. /\ a \in Seq(Nodes) /\ Len(a) = n - 1
        /\ \A j \in 1..(n - 1) : a[j] = IF j < h THEN r[j] ELSE r[j + 1]
    BY <1>4, <1>5, RemoveAtProperties
  <2>2. /\ b \in Seq(Nodes) /\ Len(b) = n - 1
        /\ \A j \in 1..(n - 1) : b[j] = IF j < h THEN q[j] ELSE q[j + 1]
    BY RemoveAtProperties
  <2> HIDE DEF a, b
  <2>3. ASSUME NEW j \in 1..(n - 1) PROVE a[j] = b[j]
    <3>1. CASE j < h
      <4>1. j \in 1..n /\ j # h
        BY <1>1, <3>1
      <4> QED
        BY <1>4, <2>1, <2>2, <3>1, <4>1
    <3>2. CASE ~(j < h)
      <4>1. j + 1 \in 1..n /\ j + 1 # h
        BY <1>1, <3>2
      <4> QED
        BY <1>4, <2>1, <2>2, <3>2, <4>1
    <3> QED
      BY <3>1, <3>2
  <2>4. a = b
    BY <2>1, <2>2, <2>3, SeqEqual
  <2> QED
    BY <2>4 DEF a, b
<1>7. /\ TotalClaim(q) = NodeExtent(q[h]) + TotalClaim(RemoveAt(q, h))
      /\ TotalClaim(RemoveAt(q, h)) \in Int
  BY ClaimPopped
<1>8. /\ TotalClaim(r) = NodeExtent(bigger) + TotalClaim(RemoveAt(q, h))
      /\ TotalClaim(r) = NodeExtent(q[k]) + TotalClaim(RemoveAt(r, k))
      /\ TotalClaim(RemoveAt(r, k)) \in Int
  BY <1>4, <1>5, <1>6, ClaimPopped
<1>9. NodeExtent(q[h]) \in Int /\ NodeExtent(q[k]) \in Int
  BY NodeExtentType
<1>10. TotalClaim(RemoveAt(r, k)) = TotalClaim(q)
  BY <1>2, <1>7, <1>8, <1>9
<1>11. RemoveAt(r, k) \in Seq(Nodes) /\ Len(RemoveAt(r, k)) = n - 1
  BY <1>4, <1>5, RemoveAtProperties
<1> QED
  BY <1>3, <1>10, <1>11

(* The states of the inner loop over list q, from position i of current, after k
   turns. *)
Inner == [q : Seq(Nodes), i : Nat, j : Nat, flag : BOOLEAN]
InnerAfter(q, i, k) ==
  {s \in Inner :
     /\ s.i \in 1..Len(q) /\ (s.flag \/ s.i <= Len(s.q)) /\ s.j # 0
     /\ TotalClaim(s.q) = TotalClaim(q) /\ Len(s.q) <= Len(q)
     /\ Len(s.q) < Len(q) \/ (s.i = i /\ ~s.flag)
     /\ s.flag \/ Len(s.q) < s.j \/ (Len(s.q) - s.j) + k < Len(q)}

LEMMA InnerTurns ==
  ASSUME NEW q \in Seq(Nodes), NEW i \in 1..Len(q), NEW k \in 1..Len(q),
         NEW s \in InnerAfter(q, i, k - 1)
  PROVE  InnerTurn(s) \in InnerAfter(q, i, k)
<1> DEFINE n == Len(q)
           list == s.q
           a == s.i
           b == s.j
<1>1. /\ list \in Seq(Nodes) /\ a \in Nat /\ b \in Nat /\ s.flag \in BOOLEAN
      /\ a \in 1..n /\ (s.flag \/ a <= Len(list)) /\ b # 0
      /\ TotalClaim(list) = TotalClaim(q) /\ Len(list) <= n
      /\ Len(list) < n \/ (a = i /\ ~s.flag)
      /\ s.flag \/ Len(list) < b \/ (Len(list) - b) + (k - 1) < n
      /\ s = [q |-> list, i |-> a, j |-> b, flag |-> s.flag]
      /\ s \in Inner
  BY DEF InnerAfter, Inner
<1>2. n \in Nat /\ Len(list) \in Nat
  BY <1>1, LenProperties
<1>3. CASE s.flag \/ b > Len(list)
  <2>1. InnerTurn(s) = s
    BY <1>3 DEF InnerTurn
  <2>2. s.flag \/ Len(list) < b
    BY <1>1, <1>2, <1>3
  <2> QED
    BY <1>1, <2>1, <2>2 DEF InnerAfter
<1>4. CASE ~(s.flag \/ b > Len(list))
  <2>1. a \in 1..Len(list) /\ b \in 1..Len(list) /\ s.flag = FALSE
    BY <1>1, <1>2, <1>4
  <2>2. list[a] \in Nodes /\ list[b] \in Nodes
    BY <1>1, <2>1, ElementOfSeq
  <2>3. list[b].addr = Bottom(list[a]) \/ list[a].addr = Bottom(list[b]) => a # b
    <3>1. ASSUME NEW x \in Nodes PROVE x.addr # Bottom(x)
      <4>1. x.addr \in Nat /\ x.size \in Nat
        BY DEF Nodes
      <4> QED
        BY <4>1 DEF Bottom, NodeExtent, Node
    <3> QED
      BY <2>2, <3>1
  <2>4. CASE list[b].addr = Bottom(list[a])
    <3> DEFINE r == Absorb(list, b, a)
               t == [q |-> r, i |-> a, j |-> b, flag |-> TRUE]
    <3>1. r \in Seq(Nodes) /\ Len(r) = Len(list) - 1 /\ TotalClaim(r) = TotalClaim(list)
      BY <1>1, <2>1, <2>3, <2>4, AbsorbProperties
    <3>2. InnerTurn(s) = [s EXCEPT !.q = r, !.flag = TRUE]
      BY <1>4, <2>4 DEF InnerTurn
    <3> HIDE DEF r
    <3>3. InnerTurn(s) = t
      BY <1>1, <3>2
    <3>4. t \in InnerAfter(q, i, k)
      BY <1>1, <1>2, <3>1 DEF InnerAfter, Inner
    <3> QED
      BY <3>3, <3>4
  <2>5. CASE ~(list[b].addr = Bottom(list[a])) /\ list[a].addr = Bottom(list[b])
    <3> DEFINE r == Absorb(list, a, b)
               c == IF b < a THEN a - 1 ELSE a
               t == [q |-> r, i |-> c, j |-> b, flag |-> FALSE]
    <3>1. r \in Seq(Nodes) /\ Len(r) = Len(list) - 1 /\ TotalClaim(r) = TotalClaim(list)
      BY <1>1, <2>1, <2>3, <2>5, AbsorbProperties
    <3>2. InnerTurn(s) = [s EXCEPT !.q = r, !.i = c]
      BY <1>4, <2>5 DEF InnerTurn
    <3> HIDE DEF r
    <3>3. InnerTurn(s) = t
      BY <1>1, <2>1, <3>2
    <3>4. c \in 1..n /\ c <= Len(r) /\ c \in Nat
      <4>1. a # b
        BY <2>3, <2>5
      <4> QED
        BY <1>1, <1>2, <2>1, <3>1, <4>1
    <3>5. (Len(r) - b) + k < n \/ Len(r) < b
      BY <1>1, <1>2, <2>1, <3>1
    <3> HIDE DEF c
    <3>6. t \in InnerAfter(q, i, k)
      BY <1>1, <1>2, <3>1, <3>4, <3>5 DEF InnerAfter, Inner
    <3> QED
      BY <3>3, <3>6
  <2>6. CASE ~(list[b].addr = Bottom(list[a])) /\ ~(list[a].addr = Bottom(list[b]))
    <3> DEFINE t == [q |-> list, i |-> a, j |-> b + 1, flag |-> FALSE]
    <3>1. InnerTurn(s) = [s EXCEPT !.j = b + 1]
      BY <1>4, <2>6 DEF InnerTurn
    <3>2. InnerTurn(s) = t
      BY <1>1, <2>1, <3>1
    <3>3. (Len(list) - (b + 1)) + k < n
      BY <1>1, <1>2, <2>1
    <3>4. t \in InnerAfter(q, i, k)
      BY <1>1, <1>2, <2>1, <3>3 DEF InnerAfter, Inner
    <3> QED
      BY <3>2, <3>4
  <2> QED
    BY <2>4, <2>5, <2>6
<1> QED
  BY <1>3, <1>4

(* The inner loop comes to its end, and claims what the list claimed. *)
LEMMA InnerLoopEnds ==
  ASSUME NEW q \in Seq(Nodes), NEW i \in 1..Len(q)
  PROVE  LET t == InnerLoop(q, i) IN
         t \in InnerAfter(q, i, Len(q)) /\ (t.flag \/ t.j > Len(t.q))
<1> DEFINE n == Len(q)
           base == [q |-> q, i |-> i, j |-> 1, flag |-> FALSE]
           P == [k \in 0..n |-> InnerAfter(q, i, k)]
           F == [s \in Inner |-> InnerTurn(s)]
           Def(after) == after = [k \in 0..n |-> IF k = 0 THEN base
                                                 ELSE InnerTurn(after[k - 1])]
           g == CHOOSE after : Def(after)
<1>1. n \in Nat
  BY LenProperties
<1>2. P \in [0..n -> SUBSET Inner] /\ \A k \in 0..n : P[k] = InnerAfter(q, i, k)
  BY DEF InnerAfter
<1>3. base \in P[0]
  <2>1. base \in InnerAfter(q, i, 0)
    BY <1>1 DEF InnerAfter, Inner
  <2> QED
    BY <1>1, <2>1
<1>4. \A k \in 1..n : \A s \in P[k - 1] : s \in Inner /\ F[s] = InnerTurn(s)
                                          /\ InnerTurn(s) \in P[k]
  <2> TAKE k \in 1..n
  <2>1. k - 1 \in 0..n /\ k \in 0..n
    BY <1>1
  <2> TAKE s \in P[k - 1]
  <2>2. s \in InnerAfter(q, i, k - 1)
    BY <2>1
  <2>3. s \in Inner
    BY <2>2 DEF InnerAfter
  <2>4. InnerTurn(s) \in InnerAfter(q, i, k)
    BY <2>2, InnerTurns
  <2> QED
    BY <2>1, <2>3, <2>4
<1> HIDE DEF P, F, base
<1>5. PICK f : (\A k \in 0..n : f[k] \in P[k]) /\ IsLoop(f, n, base, F)
  BY <1>1, <1>2, <1>3, <1>4, LoopExists
<1>6. Def(f)
  <2> DEFINE h == [k \in 0..n |-> IF k = 0 THEN base ELSE InnerTurn(f[k - 1])]
             d == [k \in 0..n |-> IF k = 0 THEN base ELSE F[f[k - 1]]]
  <2>1. ASSUME NEW k \in 0..n PROVE d[k] = h[k]
    <3>1. CASE k = 0
      BY <3>1
    <3>2. CASE k # 0
      <4>1. k \in 1..n /\ k - 1 \in 0..n
        BY <1>1, <3>2
      <4>2. F[f[k - 1]] = InnerTurn(f[k - 1])
        BY <1>4, <1>5, <4>1
      <4> QED
        BY <3>2, <4>2
    <3> QED
      BY <3>1, <3>2
  <2>2. d = [k \in 0..n |-> d[k]] /\ h = [k \in 0..n |-> h[k]]
    OBVIOUS
  <2>3. d = h
    <3> HIDE DEF d, h
    <3> QED
      BY <2>1, <2>2
  <2>4. f = d
    BY <1>5 DEF IsLoop
  <2> HIDE DEF d
  <2> QED
    BY <2>3, <2>4
<1>7. InnerLoop(q, i) = g[n]
  BY DEF InnerLoop, base
<1>8. Def(g)
  <2> HIDE DEF Def
  <2> QED
    BY <1>6
<1> HIDE DEF g
<1>9. g[0] = base /\ \A k \in 1..n : g[k] = InnerTurn(g[k - 1])
  <2>1. ASSUME NEW k \in 0..n
        PROVE  g[k] = IF k = 0 THEN base ELSE InnerTurn(g[k - 1])
    BY <1>8
  <2> HIDE DEF Def
  <2> QED
    BY <1>1, <2>1
<1>10. g[n] \in P[n]
  <2>1. \A k \in 1..n : g[k - 1] \in P[k - 1] => g[k] \in P[k]
    BY <1>4, <1>9
  <2>2. \A k \in 0..n : g[k] \in P[k]
    BY <1>1, <1>3, <1>9, <2>1, LoopInduction
  <2> QED
    BY <1>1, <2>2
<1>11. g[n] \in InnerAfter(q, i, n)
  BY <1>1, <1>2, <1>10
<1>12. g[n].flag \/ g[n].j > Len(g[n].q)
  <2> DEFINE t == g[n]
  <2>1. /\ t.q \in Seq(Nodes) /\ t.j \in Nat
        /\ t.flag \/ Len(t.q) < t.j \/ (Len(t.q) - t.j) + n < n
    BY <1>11 DEF InnerAfter, Inner
  <2>2. Len(t.q) \in Nat
    BY <2>1, LenProperties
  <2> HIDE DEF t
  <2>3. t.flag \/ t.j > Len(t.q)
    BY <1>1, <2>1, <2>2
  <2> QED
    BY <2>3 DEF t
<1> QED
  BY <1>7, <1>11, <1>12

(* The states of the outer loop over list q after k turns: it has come to its end
   or has a turn less to make.  A node that goes is worth more turns than there
   are positions to start again from. *)
Outer == [q : Seq(Nodes), i : Nat]
OuterAfter(q, k) ==
  {s \in Outer :
     LET b == Len(q) + 2  m == Len(s.q)
     IN  /\ s.i \in 1..(m + 1) /\ m <= Len(q)
         /\ TotalClaim(s.q) = TotalClaim(q)
         /\ s.i > m \/ m * b + (b - s.i) + k < (Len(q) + 1) * b}

LEMMA OuterTurns ==
  ASSUME NEW q \in Seq(Nodes), NEW k \in Nat, k # 0, NEW s \in OuterAfter(q, k - 1)
  PROVE  OuterTurn(s) \in OuterAfter(q, k)
<1> DEFINE b == Len(q) + 2
           m == Len(s.q)
           t == InnerLoop(s.q, s.i)
           w == [q |-> t.q, i |-> IF t.flag THEN 1 ELSE t.i + 1]
<1>1. /\ s \in Outer /\ s.q \in Seq(Nodes) /\ s.i \in Nat /\ m \in Nat /\ b \in Nat
      /\ Len(q) \in Nat /\ s.i \in 1..(m + 1) /\ m <= Len(q)
      /\ TotalClaim(s.q) = TotalClaim(q)
      /\ s.i > m \/ m * b + (b - s.i) + (k - 1) < (Len(q) + 1) * b
  BY LenProperties DEF OuterAfter, Outer
<1>2. CASE s.i > m
  <2>1. OuterTurn(s) = s
    BY <1>2 DEF OuterTurn
  <2> QED
    BY <1>1, <1>2, <2>1 DEF OuterAfter
<1>3. CASE ~(s.i > m)
  <2>1. OuterTurn(s) = w
    BY <1>3 DEF OuterTurn
  <2>2. s.i \in 1..m
    BY <1>1, <1>3
  <2>3. /\ t \in InnerAfter(s.q, s.i, m) /\ (t.flag \/ t.j > Len(t.q))
    BY <1>1, <2>2, InnerLoopEnds
  <2>4. /\ t.q \in Seq(Nodes) /\ t.i \in Nat /\ t.i \in 1..m /\ (t.flag \/ t.i <= Len(t.q))
        /\ TotalClaim(t.q) = TotalClaim(s.q) /\ Len(t.q) <= m
        /\ Len(t.q) < m \/ (t.i = s.i /\ ~t.flag)
    BY <2>3 DEF InnerAfter, Inner
  <2>5. Len(t.q) \in Nat
    BY <2>4, LenProperties
  <2> DEFINE x == IF t.flag THEN 1 ELSE t.i + 1
             l == Len(t.q)
             list == t.q
  <2>6. x \in Nat /\ x \in 1..(l + 1) /\ (l < m \/ x = s.i + 1) /\ l <= m /\ l \in Nat
    BY <2>4, <2>5
  <2>7. list \in Seq(Nodes) /\ TotalClaim(list) = TotalClaim(q)
    BY <1>1, <2>4
  <2> HIDE DEF x, m, b
  <2>8. l * b + (b - x) + k < (Len(q) + 1) * b
    <3>1. m * b + (b - s.i) + (k - 1) < (Len(q) + 1) * b
      BY <1>1, <1>3
    <3>2. /\ m * b \in Int /\ l * b \in Int /\ (Len(q) + 1) * b \in Int
          /\ m \in Nat /\ b \in Nat /\ s.i \in Nat
      BY <1>1, <2>6
    <3>3. CASE l = m
      BY <2>6, <3>1, <3>2, <3>3
    <3>4. CASE l # m
      <4>1. l <= m - 1
        BY <2>6, <3>2, <3>4
      <4>2. l * b <= (m - 1) * b
        <5>1. b * l <= b * (m - 1)
          BY <2>6, <3>2, <4>1, ProductMonotone
        <5>2. b * l = l * b /\ b * (m - 1) = (m - 1) * b
          BY <2>6, <3>2
        <5> QED
          BY <5>1, <5>2
      <4>3. (m - 1) * b = m * b - b
        BY <3>2
      <4>4. s.i <= b - 1 /\ x >= 1
        BY <1>1, <2>6, <3>2 DEF b
      <4> HIDE DEF l
      <4> QED
        BY <2>6, <3>1, <3>2, <4>2, <4>3, <4>4
    <3> QED
      BY <3>3, <3>4
  <2>9. w = [q |-> list, i |-> x]
    BY DEF x
  <2> HIDE DEF t, w
  <2>10. w \in Outer /\ w.q = list /\ w.i = x
    BY <2>6, <2>7, <2>9 DEF Outer
  <2>11. /\ w.i \in 1..(Len(w.q) + 1) /\ Len(w.q) <= Len(q)
         /\ TotalClaim(w.q) = TotalClaim(q)
         /\ Len(w.q) * (Len(q) + 2) + ((Len(q) + 2) - w.i) + k
              < (Len(q) + 1) * (Len(q) + 2)
    <3>1. Len(w.q) = l /\ b = Len(q) + 2 /\ TotalClaim(w.q) = TotalClaim(q)
      BY <2>7, <2>10 DEF b
    <3>2. l <= Len(q)
      BY <1>1, <2>6 DEF m
    <3> HIDE DEF l, list
    <3> QED
      BY <2>6, <2>8, <2>10, <3>1, <3>2
  <2> QED
    BY <2>1, <2>10, <2>11 DEF OuterAfter
<1> QED
  BY <1>2, <1>3

LEMMA OuterLoopEnds ==
  ASSUME NEW q \in Seq(Nodes)
  PROVE  /\ OuterLoop(q).i > Len(OuterLoop(q).q)
         /\ TotalClaim(OuterLoop(q).q) = TotalClaim(q)
<1> DEFINE n == (Len(q) + 1) * (Len(q) + 2)
           base == [q |-> q, i |-> 1]
           P == [k \in 0..n |-> OuterAfter(q, k)]
           F == [s \in Outer |-> OuterTurn(s)]
           Def(after) == after = [k \in 0..n |-> IF k = 0 THEN base
                                                 ELSE OuterTurn(after[k - 1])]
           g == CHOOSE after : Def(after)
<1>1. n \in Nat /\ Len(q) \in Nat
  BY LenProperties
<1>2. P \in [0..n -> SUBSET Outer] /\ \A k \in 0..n : P[k] = OuterAfter(q, k)
  BY DEF OuterAfter
<1>3. base \in P[0]
  <2>1. Len(q) * (Len(q) + 2) + ((Len(q) + 2) - 1) + 0 < (Len(q) + 1) * (Len(q) + 2)
    BY <1>1
  <2>2. base \in Outer /\ base.q = q /\ base.i = 1
    BY DEF Outer
  <2> HIDE DEF base
  <2>3. base \in OuterAfter(q, 0)
    <3>1. /\ base.i \in 1..(Len(base.q) + 1) /\ Len(base.q) <= Len(q)
          /\ TotalClaim(base.q) = TotalClaim(q)
          /\ Len(base.q) * (Len(q) + 2) + ((Len(q) + 2) - base.i) + 0
               < (Len(q) + 1) * (Len(q) + 2)
      BY <1>1, <2>1, <2>2
    <3> QED
      BY <2>2, <3>1 DEF OuterAfter
  <2> QED
    BY <1>1, <2>3
<1>4. \A k \in 1..n : \A s \in P[k - 1] : s \in Outer /\ F[s] = OuterTurn(s)
                                          /\ OuterTurn(s) \in P[k]
  <2> TAKE k \in 1..n
  <2>1. k - 1 \in 0..n /\ k \in 0..n /\ k \in Nat /\ k # 0
    BY <1>1
  <2> TAKE s \in P[k - 1]
  <2>2. s \in OuterAfter(q, k - 1)
    BY <2>1
  <2>3. s \in Outer
    BY <2>2 DEF OuterAfter
  <2>4. OuterTurn(s) \in OuterAfter(q, k)
    BY <2>1, <2>2, OuterTurns
  <2> QED
    BY <2>1, <2>3, <2>4
<1> HIDE DEF P, F, base, n
<1>5. PICK f : (\A k \in 0..n : f[k] \in P[k]) /\ IsLoop(f, n, base, F)
  <2>1. \A k \in 1..n : \A s \in P[k - 1] : F[s] \in P[k]
    BY <1>4
  <2>2. P \in [0..n -> SUBSET Outer]
    BY <1>2
  <2>3. n \in Nat
    BY <1>1
  <2> QED
    BY <2>3, <1>3, <2>1, <2>2, LoopExists
<1>6. Def(f)
  <2> DEFINE h == [k \in 0..n |-> IF k = 0 THEN base ELSE OuterTurn(f[k - 1])]
             d == [k \in 0..n |-> IF k = 0 THEN base ELSE F[f[k - 1]]]
  <2>1. ASSUME NEW k \in 0..n PROVE d[k] = h[k]
    <3>1. CASE k = 0
      BY <3>1
    <3>2. CASE k # 0
      <4>1. k \in 1..n /\ k - 1 \in 0..n
        BY <1>1, <3>2
      <4>2. F[f[k - 1]] = OuterTurn(f[k - 1])
        BY <1>4, <1>5, <4>1
      <4> QED
        BY <3>2, <4>2
    <3> QED
      BY <3>1, <3>2
  <2>2. d = [k \in 0..n |-> d[k]] /\ h = [k \in 0..n |-> h[k]]
    OBVIOUS
  <2>3. d = h
    <3> HIDE DEF d, h
    <3> QED
      BY <2>1, <2>2
  <2>4. f = d
    BY <1>5 DEF IsLoop
  <2> HIDE DEF d
  <2> QED
    BY <2>3, <2>4
<1>7. OuterLoop(q) = g[n]
  BY DEF OuterLoop, base, n
<1>8. Def(g)
  <2> HIDE DEF Def
  <2> QED
    BY <1>6
<1> HIDE DEF g
<1>9. g[0] = base /\ \A k \in 1..n : g[k] = OuterTurn(g[k - 1])
  <2>1. ASSUME NEW k \in 0..n
        PROVE  g[k] = IF k = 0 THEN base ELSE OuterTurn(g[k - 1])
    BY <1>8
  <2> HIDE DEF Def
  <2> QED
    BY <1>1, <2>1
<1>10. g[n] \in P[n]
  <2>1. \A k \in 1..n : g[k - 1] \in P[k - 1] => g[k] \in P[k]
    BY <1>4, <1>9
  <2>2. \A k \in 0..n : g[k] \in P[k]
    BY <1>1, <1>3, <1>9, <2>1, LoopInduction
  <2> QED
    BY <1>1, <2>2
<1>11. g[n] \in OuterAfter(q, n)
  BY <1>1, <1>2, <1>10
<1>12. g[n].i > Len(g[n].q) /\ TotalClaim(g[n].q) = TotalClaim(q)
  <2> DEFINE t == g[n]
             b == Len(q) + 2
             m == Len(t.q)
  <2>1. /\ t.q \in Seq(Nodes) /\ t.i \in Nat /\ t.i \in 1..(m + 1) /\ m <= Len(q)
        /\ TotalClaim(t.q) = TotalClaim(q)
        /\ t.i > m \/ m * b + (b - t.i) + n < (Len(q) + 1) * b
    BY <1>11 DEF OuterAfter, Outer
  <2>2. m \in Nat /\ b \in Nat /\ m * b \in Nat
    <3>1. m \in Nat
      BY <2>1, LenProperties
    <3> QED
      <4>1. \A x, y \in Nat : x * y \in Nat
        OBVIOUS
      <4>2. b \in Nat
        BY <1>1
      <4> HIDE DEF b, m
      <4> QED
        BY <3>1, <4>1, <4>2
  <2>3. n = (Len(q) + 1) * b /\ t.i <= b
    BY <1>1, <2>1, <2>2 DEF n
  <2> HIDE DEF t, b, m
  <2>4. t.i > m
    BY <1>1, <2>1, <2>2, <2>3
  <2> QED
    BY <2>1, <2>4 DEF t, m
<1> QED
  BY <1>7, <1>12

(* If psufree called coalesce, its loops would end, whatever the free list, and no
   byte would be lost or made. *)
THEOREM CoalescingConserves == ProgramSpec => []CoalesceConserves
<1>1. AllocInv => CoalesceConserves
  <2> SUFFICES ASSUME AllocInv PROVE CoalesceConserves
    OBVIOUS
  <2>1. free \in Seq(Nodes)
    BY DEF AllocInv, TypeOK, Nodes
  <2> QED
    BY <2>1, OuterLoopEnds DEF CoalesceConserves, coalesce
<1> QED
  BY <1>1, ProgramInvariant, PTL

-----------------------------------------------------------------------------
(***************************************************************************)
(* The pointers of a program.  A ledger says which slots hold what the     *)
(* program has yet to give back, and which are still NULL; the books of a  *)
(* script are the ledgers before and after each of its calls.              *)
(***************************************************************************)
Ledger == [held : SUBSET Slots, clean : SUBSET Slots]

(* Call o is in order under ledger l, and m is the ledger after it: a pointer is
   taken only into a slot that is NULL, and freed only once. *)
Entry(o, l, m) ==
  \/ o = SetNull /\ l.held = {} /\ m = [held |-> {}, clean |-> Slots]
  \/ /\ o.op = "malloc" /\ o.slot \in l.clean
     /\ m = [held |-> l.held \union {o.slot}, clean |-> l.clean \ {o.slot}]
  \/ /\ o.op = "free" /\ o.slot \in l.held
     /\ m = [held |-> l.held \ {o.slot}, clean |-> l.clean]

Accounts(script, books) ==
  /\ books \in [1..(Len(script) + 1) -> Ledger]
  /\ \A p \in 1..Len(script) : Entry(script[p], books[p], books[p + 1])

(* The script is in order, and takes ledger l to ledger m. *)
InOrder(script, l, m) ==
  \E books : /\ Accounts(script, books)
             /\ books[1] = l /\ books[Len(script) + 1] = m

LEMMA InOrderLedgers ==
  ASSUME NEW s \in Seq(Ops), NEW l, NEW m, InOrder(s, l, m)
  PROVE  l \in Ledger /\ m \in Ledger
<1>1. PICK books : Accounts(s, books) /\ books[1] = l /\ books[Len(s) + 1] = m
  BY DEF InOrder
<1>2. Len(s) \in Nat
  BY LenProperties
<1> QED
  BY <1>1, <1>2 DEF Accounts

LEMMA NothingInOrder ==
  ASSUME NEW l \in Ledger
  PROVE  InOrder(<<>>, l, l)
<1> DEFINE books == [p \in 1..1 |-> l]
<1>1. Accounts(<<>>, books) /\ books[1] = l
  BY DEF Accounts
<1> QED
  BY <1>1 DEF InOrder

LEMMA OneInOrder ==
  ASSUME NEW o \in Ops, NEW l \in Ledger, NEW m \in Ledger, Entry(o, l, m)
  PROVE  InOrder(<<o>>, l, m)
<1> DEFINE s == <<o>>
           books == [p \in 1..2 |-> IF p = 1 THEN l ELSE m]
<1>1. Len(s) = 1 /\ s[1] = o
  OBVIOUS
<1>2. books \in [1..2 -> Ledger] /\ books[1] = l /\ books[2] = m
  OBVIOUS
<1> HIDE DEF s, books
<1>3. Accounts(s, books)
  BY <1>1, <1>2 DEF Accounts
<1>4. InOrder(s, l, m)
  BY <1>1, <1>2, <1>3 DEF InOrder
<1> QED
  BY <1>4 DEF s

(* Two scripts one after the other. *)
LEMMA JoinInOrder ==
  ASSUME NEW s \in Seq(Ops), NEW t \in Seq(Ops), NEW l, NEW m, NEW n,
         InOrder(s, l, m), InOrder(t, m, n)
  PROVE  InOrder(s \o t, l, n)
<1>1. PICK bs : Accounts(s, bs) /\ bs[1] = l /\ bs[Len(s) + 1] = m
  BY DEF InOrder
<1>2. PICK bt : Accounts(t, bt) /\ bt[1] = m /\ bt[Len(t) + 1] = n
  BY DEF InOrder
<1> DEFINE i == Len(s)
           j == Len(t)
           r == s \o t
           books == [p \in 1..(i + j + 1) |-> IF p <= i THEN bs[p] ELSE bt[p - i]]
<1>3. i \in Nat /\ j \in Nat
  BY LenProperties
<1>4. /\ r \in Seq(Ops) /\ Len(r) = i + j
      /\ \A p \in 1..i : r[p] = s[p]
      /\ \A p \in 1..j : r[i + p] = t[p]
  <2>1. /\ r \in Seq(Ops) /\ Len(r) = i + j
        /\ \A p \in 1..(i + j) : r[p] = IF p <= i THEN s[p] ELSE t[p - i]
    BY ConcatProperties
  <2> HIDE DEF r, i, j
  <2>2. ASSUME NEW p \in 1..j PROVE r[i + p] = t[p]
    <3>1. i + p \in 1..(i + j) /\ ~(i + p <= i) /\ (i + p) - i = p
      BY <1>3
    <3> QED
      BY <2>1, <3>1
  <2>3. ASSUME NEW p \in 1..i PROVE r[p] = s[p]
    <3>1. p \in 1..(i + j) /\ p <= i
      BY <1>3
    <3> QED
      BY <2>1, <3>1
  <2> QED
    BY <2>1, <2>2, <2>3
<1>5. /\ bs \in [1..(i + 1) -> Ledger] /\ bt \in [1..(j + 1) -> Ledger]
      /\ \A p \in 1..i : Entry(s[p], bs[p], bs[p + 1])
      /\ \A p \in 1..j : Entry(t[p], bt[p], bt[p + 1])
      /\ bs[1] = l /\ bs[i + 1] = m /\ bt[1] = m /\ bt[j + 1] = n
  BY <1>1, <1>2 DEF Accounts
<1> HIDE DEF r, i, j
<1>6. /\ \A p \in 1..i : books[p] = bs[p]
      /\ \A p \in 1..(j + 1) : books[i + p] = bt[p]
  <2>1. ASSUME NEW p \in 1..i PROVE books[p] = bs[p]
    <3>1. p \in 1..(i + j + 1) /\ p <= i
      BY <1>3
    <3> QED
      BY <3>1
  <2>2. ASSUME NEW p \in 1..(j + 1) PROVE books[i + p] = bt[p]
    <3>1. i + p \in 1..(i + j + 1) /\ ~(i + p <= i) /\ (i + p) - i = p
      BY <1>3
    <3> QED
      BY <3>1
  <2> QED
    BY <2>1, <2>2
<1>7. books \in [1..(i + j + 1) -> Ledger]
  <2> SUFFICES ASSUME NEW p \in 1..(i + j + 1) 
               PROVE  (IF p <= i THEN bs[p] ELSE bt[p - i]) \in Ledger
    OBVIOUS
  <2>1. (p <= i => p \in 1..(i + 1)) /\ (~(p <= i) => p - i \in 1..(j + 1))
    BY <1>3
  <2> QED
    BY <1>5, <2>1
<1> HIDE DEF books
<1>8. books[i + 1] = m
  <2>1. 1 \in 1..(j + 1)
    BY <1>3
  <2> QED
    BY <1>5, <1>6, <2>1
<1>9. ASSUME NEW p \in 1..(i + j) PROVE Entry(r[p], books[p], books[p + 1])
  <2>1. CASE p \in 1..i
    <3>1. books[p + 1] = bs[p + 1]
      <4>1. CASE p = i
        BY <1>5, <1>8, <4>1
      <4>2. CASE p # i
        <5>1. p + 1 \in 1..i
          BY <1>3, <2>1, <4>2
        <5> QED
          BY <1>6, <5>1
      <4> QED
        BY <4>1, <4>2
    <3> QED
      BY <1>4, <1>5, <1>6, <2>1, <3>1
  <2>2. CASE p \notin 1..i
    <3> DEFINE q == p - i
    <3>1. /\ q \in 1..j /\ q \in 1..(j + 1) /\ q + 1 \in 1..(j + 1)
          /\ p = i + q /\ p + 1 = i + (q + 1)
      BY <1>3, <2>2
    <3> HIDE DEF q
    <3>2. books[p] = bt[q] /\ books[p + 1] = bt[q + 1] /\ r[p] = t[q]
      BY <1>4, <1>6, <3>1
    <3> QED
      BY <1>5, <3>1, <3>2
  <2> QED
    BY <2>1, <2>2
<1>10. Accounts(r, books)
  BY <1>4, <1>7, <1>9 DEF Accounts
<1>11. books[1] = l
  <2>1. CASE i = 0
    BY <1>5, <1>8, <2>1
  <2>2. CASE i # 0
    <3>1. 1 \in 1..i
      BY <1>3, <2>2
    <3> QED
      BY <1>5, <1>6, <3>1
  <2> QED
    BY <2>1, <2>2
<1>12. books[(i + j) + 1] = n
  <2>1. j + 1 \in 1..(j + 1) /\ (i + j) + 1 = i + (j + 1)
    BY <1>3
  <2> QED
    BY <1>5, <1>6, <2>1
<1>13. InOrder(r, l, n)
  BY <1>4, <1>10, <1>11, <1>12 DEF InOrder
<1> QED
  BY <1>13 DEF r

(* Many scripts one after the other. *)
LEMMA AllInOrder ==
  ASSUME NEW seqs \in Seq(Seq(Ops)), NEW marks, marks[1] \in Ledger,
         \A i \in 1..Len(seqs) : InOrder(seqs[i], marks[i], marks[i + 1])
  PROVE  InOrder(FlattenSeq(seqs), marks[1], marks[Len(seqs) + 1])
<1> DEFINE n == Len(seqs)
<1>1. n \in Nat
  BY LenProperties
<1>2. CASE n = 0
  <2>1. FlattenSeq(seqs) = seqs /\ seqs = << >>
    BY <1>2, EmptySeq DEF FlattenSeq
  <2> QED
    BY <1>2, <2>1, NothingInOrder
<1>3. CASE n # 0
  <2>1. PICK fl : /\ fl[1] = seqs[1]
                  /\ \A k \in 1..(n - 1) : fl[k + 1] = fl[k] \o seqs[k + 1]
                  /\ FlattenSeq(seqs) = fl[n]
    BY <1>3, FlattenSteps
  <2> DEFINE S == {k \in Nat : k + 1 <= n =>
                     fl[k + 1] \in Seq(Ops) /\ InOrder(fl[k + 1], marks[1], marks[k + 2])}
  <2>2. \A i \in 1..n : seqs[i] \in Seq(Ops)
    BY ElementOfSeq
  <2> HIDE DEF n
  <2>3. 0 \in S
    <3>1. 1 \in 1..n /\ 0 + 1 = 1 /\ 0 + 2 = 1 + 1
      BY <1>1, <1>3
    <3>2. fl[1] \in Seq(Ops) /\ InOrder(fl[1], marks[1], marks[1 + 1])
      BY <2>1, <2>2, <3>1 DEF n
    <3> QED
      BY <3>1, <3>2
  <2>4. ASSUME NEW k \in Nat, k \in S PROVE k + 1 \in S
    <3> DEFINE h == k + 1
    <3> SUFFICES ASSUME h + 1 <= n
                 PROVE  fl[h + 1] \in Seq(Ops) /\ InOrder(fl[h + 1], marks[1], marks[h + 2])
      OBVIOUS
    <3>1. h \in 1..(n - 1) /\ h + 1 \in 1..n /\ h <= n /\ k + 2 = h + 1 /\ (h + 1) + 1 = h + 2
      BY <1>1
    <3>2. fl[h] \in Seq(Ops) /\ InOrder(fl[h], marks[1], marks[h + 1])
      BY <2>4, <3>1
    <3> HIDE DEF h, S
    <3>3. fl[h + 1] = fl[h] \o seqs[h + 1] /\ seqs[h + 1] \in Seq(Ops)
      BY <2>1, <2>2, <3>1
    <3>4. InOrder(seqs[h + 1], marks[h + 1], marks[h + 2])
      BY <3>1 DEF n
    <3>5. InOrder(fl[h] \o seqs[h + 1], marks[1], marks[h + 2])
      BY <3>2, <3>3, <3>4, JoinInOrder
    <3> QED
      BY <3>2, <3>3, <3>5, ConcatProperties
  <2>5. n - 1 \in S
    <3> HIDE DEF S
    <3> QED
      BY <1>1, <1>3, <2>3, <2>4, Induction
  <2>6. InOrder(fl[n], marks[1], marks[n + 1])
    <3>1. (n - 1) + 1 = n /\ (n - 1) + 2 = n + 1 /\ n <= n
      BY <1>1
    <3> QED
      BY <2>5, <3>1
  <2> QED
    BY <2>1, <2>6 DEF n
<1> QED
  BY <1>2, <1>3

-----------------------------------------------------------------------------
(* The first n slots. *)
First(n) == {s \in Slots : s < n}

LEMMA SlotsType == /\ Slots \subseteq Nat
                   /\ \A s \in 0..(NUM - 1) : s \in Slots
                   /\ \A s \in 0..(Batches * PerBatch - 1) : s \in Slots
                   /\ \A s \in 0..6 : s \in Slots
                   /\ NUM \in Nat /\ PerBatch \in Nat /\ Batches \in Nat \ {0}
                   /\ Batches * PerBatch \in Nat
<1>1. NUM \in Nat /\ PerBatch \in Nat /\ Batches \in Nat \ {0} /\ Rounds \in Nat
  BY ArraysAssumption
<1> DEFINE t == Batches * PerBatch
<1>2. t \in Nat /\ t = PerBatch * Batches
  BY <1>1
<1>3. Slots = 0..(7 + NUM + t)
  BY <1>2 DEF Slots, MainPointers
<1> HIDE DEF t
<1> QED
  BY <1>1, <1>2, <1>3 DEF t

LEMMA NullInOrder ==
  ASSUME NEW l \in Ledger, l.held = {}
  PROVE  InOrder(<<SetNull>>, l, [held |-> {}, clean |-> Slots])
<1>1. [held |-> {}, clean |-> Slots] \in Ledger
  BY DEF Ledger
<1>2. Entry(SetNull, l, [held |-> {}, clean |-> Slots])
  BY DEF Entry
<1> QED
  BY <1>1, <1>2, OneInOrder, OpsProperties

(* An array is filled. *)
LEMMA MallocsInOrder ==
  ASSUME NEW n \in Nat, \A s \in 0..(n - 1) : s \in Slots, NEW sizes, NEW used
  PROVE  InOrder([k \in 1..n |-> Malloc(k - 1, sizes[k], used)],
                 [held |-> {}, clean |-> Slots],
                 [held |-> First(n), clean |-> Slots \ First(n)])
<1> DEFINE L(p) == [held |-> First(p - 1), clean |-> Slots \ First(p - 1)]
           books == [p \in 1..(n + 1) |-> L(p)]
           script == [k \in 1..n |-> Malloc(k - 1, sizes[k], used)]
<1>1. Len(script) = n /\ \A k \in 1..n : script[k] = Malloc(k - 1, sizes[k], used)
  OBVIOUS
<1>2. books \in [1..(n + 1) -> Ledger] /\ \A p \in 1..(n + 1) : books[p] = L(p)
  <2>1. \A p \in 1..(n + 1) : L(p) \in Ledger
    BY DEF First, Ledger
  <2> HIDE DEF L
  <2> QED
    BY <2>1
<1>3. First(0) = {}
  <2>1. \A x \in Nat : ~(x < 0)
    OBVIOUS
  <2>2. \A x \in Slots : x \in Nat
    BY SlotsType
  <2> QED
    BY <2>1, <2>2 DEF First
<1> HIDE DEF script, books
<1>4. ASSUME NEW p \in 1..n PROVE Entry(script[p], books[p], books[p + 1])
  <2> DEFINE s == p - 1
  <2>1. /\ p \in 1..(n + 1) /\ p + 1 \in 1..(n + 1) /\ s \in 0..(n - 1)
        /\ (p + 1) - 1 = p /\ p = s + 1 /\ s \in Nat
    OBVIOUS
  <2>2. script[p] = Malloc(s, sizes[p], used)
    BY <1>1
  <2>3. s \in Slots /\ s \notin First(s) /\ First(p) = First(s) \union {s}
    <3>1. s \in Slots /\ Slots \subseteq Nat
      BY <2>1, SlotsType
    <3> HIDE DEF s
    <3>2. \A x \in Nat : (x < p <=> x < s \/ x = s) /\ ~(s < s)
      BY <2>1
    <3> QED
      BY <3>1, <3>2 DEF First
  <2>4. books[p] = L(p) /\ books[p + 1] = L(p + 1)
    BY <1>2, <2>1
  <2>5. /\ books[p] = [held |-> First(s), clean |-> Slots \ First(s)]
        /\ books[p + 1] = [held |-> First(p), clean |-> Slots \ First(p)]
    BY <2>1, <2>4
  <2> HIDE DEF s
  <2>6. script[p].op = "malloc" /\ script[p].slot = s
    BY <2>2 DEF Malloc
  <2>7. books[p + 1] = [held |-> books[p].held \union {s}, clean |-> books[p].clean \ {s}]
    <3>1. Slots \ First(p) = (Slots \ First(s)) \ {s}
      BY <2>3
    <3> QED
      BY <2>3, <2>5, <3>1
  <2>8. s \in books[p].clean
    BY <2>3, <2>5
  <2> QED
    BY <2>6, <2>7, <2>8 DEF Entry
<1>5. Accounts(script, books)
  BY <1>1, <1>2, <1>4 DEF Accounts
<1>6. books[1] = [held |-> {}, clean |-> Slots]
  <2>1. 1 \in 1..(n + 1) /\ 1 - 1 = 0
    OBVIOUS
  <2>2. books[1] = [held |-> First(0), clean |-> Slots \ First(0)]
    BY <1>2, <2>1
  <2> QED
    BY <1>3, <2>2
<1>7. books[n + 1] = [held |-> First(n), clean |-> Slots \ First(n)]
  <2>1. n + 1 \in 1..(n + 1) /\ (n + 1) - 1 = n
    OBVIOUS
  <2> QED
    BY <1>2, <2>1
<1>8. InOrder(script, books[1], books[n + 1])
  BY <1>1, <1>5 DEF InOrder
<1> QED
  BY <1>6, <1>7, <1>8 DEF script

(* An array that begins at slot `base` is freed. *)
LEMMA ReleasesInOrder ==
  ASSUME NEW n \in Nat, NEW base \in Nat, NEW rest \in SUBSET Slots,
         NEW clean \in SUBSET Slots,
         \A k \in 1..n : base + k - 1 \in Slots /\ base + k - 1 \notin rest
  PROVE  InOrder([k \in 1..n |-> Release(base + k - 1)],
                 [held |-> rest \union {base + k - 1 : k \in 1..n}, clean |-> clean],
                 [held |-> rest, clean |-> clean])
<1> DEFINE Slot(k) == base + k - 1
           Left(p) == rest \union {Slot(k) : k \in p..n}
           L(p) == [held |-> Left(p), clean |-> clean]
           books == [p \in 1..(n + 1) |-> L(p)]
           script == [k \in 1..n |-> Release(Slot(k))]
<1>0. /\ \A k \in 1..n : Slot(k) \in Slots /\ Slot(k) \notin rest
      /\ \A h, k \in 1..n : Slot(h) = Slot(k) => h = k
  OBVIOUS
<1> HIDE DEF Slot
<1>1. Len(script) = n /\ \A k \in 1..n : script[k] = Release(Slot(k))
  OBVIOUS
<1>2. books \in [1..(n + 1) -> Ledger] /\ \A p \in 1..(n + 1) : books[p] = L(p)
  <2>1. ASSUME NEW p \in 1..(n + 1) PROVE L(p) \in Ledger
    <3>1. \A k \in p..n : k \in 1..n
      OBVIOUS
    <3>2. Left(p) \in SUBSET Slots
      BY <1>0, <3>1
    <3> HIDE DEF Left
    <3> QED
      BY <3>2 DEF Ledger
  <2> HIDE DEF L
  <2> QED
    BY <2>1
<1> HIDE DEF script, books
<1>4. ASSUME NEW p \in 1..n PROVE Entry(script[p], books[p], books[p + 1])
  <2>1. p \in 1..(n + 1) /\ p + 1 \in 1..(n + 1)
    OBVIOUS
  <2>2. \A k \in (p + 1)..n : k \in p..n /\ k \in 1..n /\ k # p
    OBVIOUS
  <2>3. \A k \in p..n : k = p \/ k \in (p + 1)..n
    OBVIOUS
  <2>4. p \in p..n
    OBVIOUS
  <2>5. Slot(p) \in Left(p) /\ Left(p + 1) = Left(p) \ {Slot(p)}
    <3>1. Slot(p) \notin Left(p + 1)
      BY <1>0, <2>2
    <3>2. Left(p + 1) \subseteq Left(p)
      BY <2>2
    <3>3. Left(p) \subseteq Left(p + 1) \union {Slot(p)}
      BY <2>3
    <3>4. Slot(p) \in Left(p)
      BY <2>4
    <3> HIDE DEF Left
    <3> QED
      BY <3>1, <3>2, <3>3, <3>4
  <2> HIDE DEF Left
  <2>6. /\ books[p] = [held |-> Left(p), clean |-> clean]
        /\ books[p + 1] = [held |-> Left(p + 1), clean |-> clean]
    BY <1>2, <2>1
  <2>7. script[p].op = "free" /\ script[p].slot = Slot(p)
    BY <1>1 DEF Release
  <2>8. books[p].held = Left(p) /\ books[p].clean = clean
    BY <2>6
  <2> QED
    BY <2>5, <2>6, <2>7, <2>8 DEF Entry
<1>5. Accounts(script, books)
  BY <1>1, <1>2, <1>4 DEF Accounts
<1>6. books[1] = [held |-> rest \union {Slot(k) : k \in 1..n}, clean |-> clean]
  <2>1. 1 \in 1..(n + 1)
    OBVIOUS
  <2> QED
    BY <1>2, <2>1
<1>7. books[n + 1] = [held |-> rest, clean |-> clean]
  <2>1. n + 1 \in 1..(n + 1) /\ (n + 1)..n = {}
    OBVIOUS
  <2>2. Left(n + 1) = rest
    BY <2>1
  <2> HIDE DEF Left
  <2> QED
    BY <1>2, <2>1, <2>2
<1>8. InOrder(script, books[1], books[n + 1])
  BY <1>1, <1>5 DEF InOrder
<1> QED
  BY <1>6, <1>7, <1>8 DEF script, Slot

(* Each round of a symmetric driver gives back what it takes. *)
LEMMA SymmetricInOrder ==
  ASSUME NEW sizes, NEW used \in Nat,
         \A j \in Calls : sizes[j] \in SUBSET Nat /\ \A size \in sizes[j] : used <= size
  PROVE  \E m : m.held = {} /\ InOrder(Symmetric(sizes, used), [held |-> {}, clean |-> Slots], m)
<1> DEFINE mallocs == [k \in 1..NUM |-> Malloc(k - 1, sizes[k - 1], used)]
           frees == [k \in 1..NUM |-> Release(k - 1)]
           round == <<SetNull>> \o mallocs \o frees
           rounds == [r \in 1..Rounds |-> round]
           all == [held |-> {}, clean |-> Slots]
           full == [held |-> First(NUM), clean |-> Slots \ First(NUM)]
           back == [held |-> {}, clean |-> Slots \ First(NUM)]
           marks == [r \in 1..(Rounds + 1) |-> IF r = 1 THEN all ELSE back]
<1>1. NUM \in Nat /\ PerBatch \in Nat /\ Rounds \in Nat
  BY ArraysAssumption
<1>2. ASSUME NEW k \in 1..NUM
      PROVE  Malloc(k - 1, sizes[k - 1], used) \in Ops /\ Release(k - 1) \in Ops
  <2>1. k - 1 \in Calls /\ k - 1 \in Nat
    BY <1>1 DEF Calls
  <2> QED
    BY <2>1, OpsProperties
<1>3. mallocs \in Seq(Ops) /\ frees \in Seq(Ops)
  BY <1>1, <1>2
<1>4. <<SetNull>> \in Seq(Ops)
  BY OpsProperties
<1>5. InOrder(mallocs, all, full)
  <2> DEFINE asked == [k \in 1..NUM |-> sizes[k - 1]]
             m2 == [k \in 1..NUM |-> Malloc(k - 1, asked[k], used)]
  <2>1. InOrder(m2, all, full)
    <3> HIDE DEF asked
    <3> QED
      BY <1>1, SlotsType, MallocsInOrder
  <2>2. \A k \in 1..NUM : Malloc(k - 1, asked[k], used) = Malloc(k - 1, sizes[k - 1], used)
    OBVIOUS
  <2>3. m2 = mallocs
    <3> HIDE DEF asked
    <3> QED
      BY <2>2
  <2> QED
    BY <2>1, <2>3
<1>6. InOrder(frees, full, back)
  <2> DEFINE slots == {} \union {0 + k - 1 : k \in 1..NUM}
             f2 == [k \in 1..NUM |-> Release(0 + k - 1)]
  <2>1. slots = First(NUM)
    <3>1. ASSUME NEW s \in slots PROVE s \in First(NUM)
      BY <1>1, SlotsType DEF First
    <3>2. ASSUME NEW s \in First(NUM) PROVE s \in slots
      <4>1. s + 1 \in 1..NUM /\ s = 0 + (s + 1) - 1
        BY <1>1, SlotsType DEF First
      <4> QED
        BY <4>1
    <3> HIDE DEF slots
    <3> QED
      BY <3>1, <3>2
  <2>2. InOrder(f2, [held |-> slots, clean |-> Slots \ First(NUM)], back)
    <3>1. \A k \in 1..NUM : 0 + k - 1 \in Slots /\ 0 + k - 1 \notin {}
      BY <1>1, SlotsType
    <3> QED
      BY <1>1, <3>1, ReleasesInOrder
  <2>3. f2 = frees
    <3>1. \A k \in 1..NUM : 0 + k - 1 = k - 1
      BY <1>1
    <3> QED
      BY <3>1
  <2> HIDE DEF slots, f2, frees
  <2> QED
    BY <2>1, <2>2, <2>3
<1>7. all \in Ledger /\ back \in Ledger
  BY DEF Ledger
<1> HIDE DEF mallocs, frees
<1>8. round \in Seq(Ops)
  BY <1>3, <1>4, ConcatProperties
<1>9. ASSUME NEW l \in Ledger, l.held = {} PROVE InOrder(round, l, back)
  <2>1. InOrder(<<SetNull>>, l, all)
    BY <1>9, NullInOrder
  <2>2. InOrder(<<SetNull>> \o mallocs, l, full)
    BY <1>3, <1>4, <1>5, <2>1, JoinInOrder
  <2>3. <<SetNull>> \o mallocs \in Seq(Ops)
    BY <1>3, <1>4, ConcatProperties
  <2> QED
    BY <1>3, <1>6, <2>2, <2>3, JoinInOrder
<1>10. all.held = {} /\ back.held = {}
  OBVIOUS
<1> HIDE DEF round, all, back, full
<1>11. rounds \in Seq(Seq(Ops)) /\ Len(rounds) = Rounds /\ \A r \in 1..Rounds : rounds[r] = round
  BY <1>1, <1>8
<1>12. /\ \A r \in 1..(Rounds + 1) : marks[r] \in Ledger /\ marks[r].held = {}
       /\ \A r \in 1..Rounds : marks[r + 1] = back
       /\ marks[1] = all
  BY <1>1, <1>7, <1>10
<1> HIDE DEF marks, rounds
<1>13. \A r \in 1..Len(rounds) : InOrder(rounds[r], marks[r], marks[r + 1])
  <2> SUFFICES ASSUME NEW r \in 1..Rounds PROVE InOrder(round, marks[r], back)
    BY <1>11, <1>12
  <2>1. r \in 1..(Rounds + 1)
    BY <1>1
  <2> QED
    BY <1>9, <1>12, <2>1
<1>14. InOrder(FlattenSeq(rounds), marks[1], marks[Rounds + 1])
  <2>1. 1 \in 1..(Rounds + 1)
    BY <1>1
  <2> QED
    BY <1>11, <1>12, <1>13, <2>1, AllInOrder
<1>15. Symmetric(sizes, used) = FlattenSeq(rounds)
  BY DEF Symmetric, rounds, round, mallocs, frees
<1>16. marks[Rounds + 1].held = {}
  BY <1>1, <1>12
<1> QED
  BY <1>12, <1>14, <1>15, <1>16 DEF all

-----------------------------------------------------------------------------
(* The asymmetric drivers free each of their arrays once, if halving is exact. *)
Enumerates(s, m) ==
  /\ s \in Seq(Nat)
  /\ \A i \in 1..Len(s) : s[i] \in 0..(m - 1)
  /\ \A i, j \in 1..Len(s) : s[i] = s[j] => i = j
  /\ \A a \in 0..(m - 1) : \E i \in 1..Len(s) : s[i] = a

LEMMA UpperHalf ==
  ASSUME NEW half \in Nat \ {0}, NEW low, Enumerates(low, half)
  PROVE  Enumerates([k \in 1..half |-> half + k - 1] \o low, 2 * half)
<1> DEFINE upper == [k \in 1..half |-> half + k - 1]
           s == upper \o low
           n == Len(low)
<1>1. /\ low \in Seq(Nat) /\ n \in Nat
      /\ \A i \in 1..n : low[i] \in 0..(half - 1)
      /\ \A i, j \in 1..n : low[i] = low[j] => i = j
      /\ \A a \in 0..(half - 1) : \E i \in 1..n : low[i] = a
  BY LenProperties DEF Enumerates
<1>2. upper \in Seq(Nat) /\ Len(upper) = half /\ \A k \in 1..half : upper[k] = half + k - 1
  OBVIOUS
<1> HIDE DEF upper
<1>3. /\ s \in Seq(Nat) /\ Len(s) = half + n
      /\ \A p \in 1..(half + n) : s[p] = IF p <= half THEN upper[p] ELSE low[p - half]
  <2>1. /\ s \in Seq(Nat) /\ Len(s) = Len(upper) + Len(low)
        /\ \A p \in 1..(Len(upper) + Len(low)) :
             s[p] = IF p <= Len(upper) THEN upper[p] ELSE low[p - Len(upper)]
    <3>1. upper \in Seq(Nat) /\ low \in Seq(Nat)
      BY <1>1, <1>2
    <3> QED
      BY <3>1, ConcatProperties
  <2> HIDE DEF s
  <2> QED
    BY <1>2, <2>1
<1> HIDE DEF s, n
<1>4. ASSUME NEW p \in 1..(half + n)
      PROVE  \/ p \in 1..half /\ s[p] = half + p - 1
             \/ p - half \in 1..n /\ s[p] = low[p - half] /\ s[p] \in 0..(half - 1)
  <2>1. CASE p <= half
    <3>1. p \in 1..half
      BY <2>1
    <3> QED
      BY <1>2, <1>3, <2>1, <3>1
  <2>2. CASE ~(p <= half)
    <3>1. p - half \in 1..n
      BY <1>1, <2>2
    <3> QED
      BY <1>1, <1>3, <2>2, <3>1
  <2> QED
    BY <2>1, <2>2
<1>5. ASSUME NEW p \in 1..(half + n) PROVE s[p] \in 0..(2 * half - 1)
  BY <1>4
<1>6. ASSUME NEW p \in 1..(half + n), NEW q \in 1..(half + n), s[p] = s[q]
      PROVE  p = q
  <2>1. CASE p \in 1..half /\ s[p] = half + p - 1
    <3>1. \/ q \in 1..half /\ s[q] = half + q - 1
          \/ s[q] \in 0..(half - 1)
      BY <1>4
    <3> QED
      BY <1>6, <2>1, <3>1
  <2>2. CASE p - half \in 1..n /\ s[p] = low[p - half] /\ s[p] \in 0..(half - 1)
    <3>1. q - half \in 1..n /\ s[q] = low[q - half]
      <4>1. \/ q \in 1..half /\ s[q] = half + q - 1
            \/ q - half \in 1..n /\ s[q] = low[q - half]
        BY <1>4
      <4> QED
        BY <1>6, <2>2, <4>1
    <3>2. p - half = q - half
      BY <1>1, <1>6, <2>2, <3>1
    <3> QED
      BY <3>2
  <2> QED
    BY <1>4, <2>1, <2>2
<1>7. ASSUME NEW a \in 0..(2 * half - 1) PROVE \E p \in 1..(half + n) : s[p] = a
  <2>1. CASE a \in 0..(half - 1)
    <3>1. PICK i \in 1..n : low[i] = a
      BY <1>1, <2>1
    <3>2. half + i \in 1..(half + n) /\ ~(half + i <= half) /\ (half + i) - half = i
      BY <1>1
    <3> QED
      BY <1>3, <3>1, <3>2
  <2>2. CASE a \notin 0..(half - 1)
    <3> DEFINE k == a - half + 1
    <3>1. k \in 1..half /\ k \in 1..(half + n) /\ k <= half /\ half + k - 1 = a
      BY <1>1, <2>2
    <3> HIDE DEF k
    <3> QED
      BY <1>2, <1>3, <3>1
  <2> QED
    BY <2>1, <2>2
<1>8. Enumerates(s, 2 * half)
  BY <1>3, <1>5, <1>6, <1>7 DEF Enumerates
<1> QED
  BY <1>8 DEF s, upper

LEMMA FreeOrderEnumerates == Enumerates(FreeOrder, Batches)
<1>1. Batches \in Nat \ {0}
  BY ArraysAssumption
<1>2. PICK From : /\ FreeOrder = From[Batches \div 2]
                  /\ \A half \in 0..Batches : From[half] = Halves(half, From)
  BY FreeOrderUnfolds
<1>3. PICK Halving \in SUBSET (1..Batches) :
        /\ Batches \in Halving
        /\ \A half \in Halving : half = 1 \/ (half % 2 = 0 /\ half \div 2 \in Halving)
  BY HalvesAssumption
<1>4. ASSUME NEW half \in Halving
      PROVE  /\ half \in Nat \ {0} /\ half \in 0..Batches
             /\ half = 1 => half \div 2 = 0
             /\ half # 1 => /\ half \div 2 \in Halving /\ half \div 2 \in Nat \ {0}
                            /\ 2 * (half \div 2) = half /\ half \div 2 < half
  <2>1. half \in Nat \ {0} /\ half \in 0..Batches
    BY <1>1, <1>3
  <2>2. half # 1 => half % 2 = 0 /\ half \div 2 \in Halving
    BY <1>3
  <2> QED
    BY <2>1, <2>2
(* From[half \div 2] enumerates the arrays below half. *)
<1> DEFINE Below(half) == Enumerates(From[half \div 2], half)
           S == {m \in Nat : \A half \in Halving : half <= m => Below(half)}
<1>5. Enumerates(From[0], 1)
  <2>1. From[0] = <<0>>
    <3>1. 0 \in 0..Batches
      BY <1>1
    <3> QED
      BY <1>2, <3>1 DEF Halves
  <2> DEFINE one == <<0>>
  <2>2. one \in Seq(Nat) /\ Len(one) = 1 /\ one[1] = 0
    OBVIOUS
  <2> HIDE DEF one
  <2>3. Enumerates(one, 1)
    BY <2>2 DEF Enumerates
  <2> QED
    BY <2>1, <2>3 DEF one
<1>6. 0 \in S
  BY <1>4
<1>7. ASSUME NEW m \in Nat, m \in S PROVE m + 1 \in S
  <2> SUFFICES ASSUME NEW half \in Halving, half <= m + 1 PROVE Below(half)
    OBVIOUS
  <2>1. CASE half = 1
    BY <1>4, <1>5, <2>1
  <2>2. CASE half # 1
    <3> DEFINE h == half \div 2
    <3>1. /\ half \in Nat /\ h \in Halving /\ h \in Nat \ {0} /\ 2 * h = half /\ h < half
          /\ h \in 0..Batches
      BY <1>4, <2>2
    <3> HIDE DEF h
    <3>2. h <= m
      BY <3>1
    <3>3. Enumerates(From[h \div 2], h)
      BY <1>7, <3>1, <3>2
    <3>4. From[h] = [k \in 1..h |-> h + k - 1] \o From[h \div 2]
      BY <1>2, <3>1 DEF Halves
    <3>5. Enumerates(From[h], half)
      BY <3>1, <3>3, <3>4, UpperHalf
    <3> QED
      BY <3>5 DEF h
  <2> QED
    BY <2>1, <2>2
<1>8. Batches \in S
  <2> HIDE DEF S
  <2> QED
    BY <1>1, <1>6, <1>7, Induction
<1>9. Below(Batches)
  BY <1>1, <1>3, <1>8
<1> QED
  BY <1>2, <1>9

LEMMA ByArray ==
  ASSUME NEW s \in 0..(Batches * PerBatch - 1)
  PROVE  \E a \in 0..(Batches - 1), k \in 1..PerBatch : s = a * PerBatch + k - 1
<1>1. PerBatch \in Nat /\ Batches \in Nat
  BY ArraysAssumption
<1>2. PerBatch # 0
  <2>1. PerBatch = 0 => Batches * PerBatch = 0
    BY <1>1
  <2> QED
    BY <2>1
<1>3. s \in Nat /\ s < Batches * PerBatch /\ Batches * PerBatch \in Nat
  <2>1. Batches * PerBatch \in Nat
    BY <1>1
  <2> QED
    BY <2>1
<1> DEFINE a == s \div PerBatch
           k == (s % PerBatch) + 1
<1>4. a \in Nat /\ k \in 1..PerBatch /\ s = PerBatch * a + (k - 1)
  BY <1>1, <1>2, <1>3
<1> HIDE DEF a, k
<1>5. a < Batches
  <2> SUFFICES ASSUME Batches <= a PROVE FALSE
    BY <1>1, <1>4
  <2>1. PerBatch * Batches <= PerBatch * a
    BY <1>1, <1>4, ProductMonotone
  <2>2. PerBatch * Batches = Batches * PerBatch /\ PerBatch * a \in Nat
    BY <1>1, <1>4
  <2> QED
    BY <1>3, <1>4, <2>1, <2>2
<1>6. PerBatch * a = a * PerBatch /\ a * PerBatch \in Nat
  BY <1>1, <1>4
<1>7. s = a * PerBatch + k - 1
  BY <1>4, <1>6
<1> QED
  BY <1>1, <1>4, <1>5, <1>7

(* The slots of two arrays lie apart, below all arrays' end. *)
LEMMA ArraysApart ==
  ASSUME NEW a \in 0..(Batches - 1), NEW k \in 1..PerBatch
  PROVE  /\ a * PerBatch + k - 1 \in 0..(Batches * PerBatch - 1)
         /\ a * PerBatch \in Nat
         /\ \A b \in 0..(Batches - 1), h \in 1..PerBatch :
              a * PerBatch + k - 1 = b * PerBatch + h - 1 => a = b
<1>1. PerBatch \in Nat /\ Batches \in Nat \ {0} /\ a \in Nat
  BY ArraysAssumption
<1>2. ASSUME NEW x \in Nat, NEW y \in Nat, x < y
      PROVE  x * PerBatch + PerBatch <= y * PerBatch /\ x * PerBatch \in Nat /\ y * PerBatch \in Nat
  <2>1. PerBatch * (x + 1) <= PerBatch * y
    BY <1>1, <1>2, ProductMonotone
  <2>2. /\ PerBatch * (x + 1) = x * PerBatch + PerBatch /\ PerBatch * y = y * PerBatch
        /\ x * PerBatch \in Nat /\ y * PerBatch \in Nat
    BY <1>1
  <2> QED
    BY <2>1, <2>2
<1>3. a * PerBatch + PerBatch <= Batches * PerBatch /\ a * PerBatch \in Nat /\ Batches * PerBatch \in Nat
  BY <1>1, <1>2
<1>4. a * PerBatch + k - 1 \in 0..(Batches * PerBatch - 1)
  BY <1>1, <1>3
<1>5. ASSUME NEW b \in 0..(Batches - 1), NEW h \in 1..PerBatch, a # b
      PROVE  a * PerBatch + k - 1 # b * PerBatch + h - 1
  <2>1. CASE a < b
    <3>1. a * PerBatch + PerBatch <= b * PerBatch /\ a * PerBatch \in Nat /\ b * PerBatch \in Nat
      BY <1>1, <1>2, <2>1
    <3> QED
      BY <1>1, <3>1
  <2>2. CASE b < a
    <3>1. b * PerBatch + PerBatch <= a * PerBatch /\ a * PerBatch \in Nat /\ b * PerBatch \in Nat
      BY <1>1, <1>2, <2>2
    <3> QED
      BY <1>1, <3>1
  <2> QED
    BY <1>1, <1>5, <2>1, <2>2
<1> QED
  BY <1>3, <1>4, <1>5

(* An asymmetric driver gives back what it takes, in another order. *)
LEMMA AsymmetricInOrder ==
  ASSUME NEW sizes, NEW used \in Nat,
         \A j \in Calls : sizes[j] \in SUBSET Nat /\ \A size \in sizes[j] : used <= size
  PROVE  \E m : m.held = {} /\ InOrder(Asymmetric(sizes, used), [held |-> {}, clean |-> Slots], m)
<1> DEFINE total == Batches * PerBatch
           call(k) == Malloc(k - 1, sizes[(k - 1) % PerBatch], used)
           mallocs == [k \in 1..total |-> call(k)]
           base(i) == FreeOrder[i] * PerBatch
           array(i) == [k \in 1..PerBatch |-> Release(base(i) + k - 1)]
           arrays == [i \in DOMAIN FreeOrder |-> array(i)]
           n == Len(FreeOrder)
           all == [held |-> {}, clean |-> Slots]
           clean == Slots \ First(total)
           Block(i) == {base(i) + k - 1 : k \in 1..PerBatch}
           Left(i) == UNION {Block(j) : j \in i..n}
           marks == [i \in 1..(n + 1) |-> [held |-> Left(i), clean |-> clean]]
<1>1. PerBatch \in Nat /\ Batches \in Nat \ {0} /\ total \in Nat /\ (PerBatch = 0 => total = 0)
  BY ArraysAssumption
<1>2. /\ DOMAIN FreeOrder = 1..n /\ n \in Nat
      /\ \A i \in 1..n : FreeOrder[i] \in 0..(Batches - 1)
      /\ \A i, j \in 1..n : FreeOrder[i] = FreeOrder[j] => i = j
      /\ \A a \in 0..(Batches - 1) : \E i \in 1..n : FreeOrder[i] = a
  BY FreeOrderEnumerates, LenProperties DEF Enumerates
<1>3. /\ \A i \in 1..n : base(i) \in Nat /\ Block(i) \subseteq 0..(total - 1)
      /\ \A i, j \in 1..n : i # j => Block(i) \cap Block(j) = {}
      /\ \A s \in 0..(total - 1) : \E i \in 1..n : s \in Block(i)
  <2>1. ASSUME NEW i \in 1..n PROVE base(i) \in Nat /\ Block(i) \subseteq 0..(total - 1)
    <3>1. FreeOrder[i] \in 0..(Batches - 1)
      BY <1>2
    <3>2. base(i) \in Nat
      BY <1>1, <3>1
    <3>3. \A k \in 1..PerBatch : base(i) + k - 1 \in 0..(total - 1)
      BY <3>1, ArraysApart
    <3> QED
      BY <3>2, <3>3
  <2>2. ASSUME NEW i \in 1..n, NEW j \in 1..n, i # j,
               NEW k \in 1..PerBatch, NEW h \in 1..PerBatch
        PROVE  base(i) + k - 1 # base(j) + h - 1
    <3>1. FreeOrder[i] \in 0..(Batches - 1) /\ FreeOrder[j] \in 0..(Batches - 1)
          /\ FreeOrder[i] # FreeOrder[j]
      BY <1>2, <2>2
    <3> QED
      BY <3>1, ArraysApart
  <2>3. ASSUME NEW s \in 0..(total - 1) PROVE \E i \in 1..n : s \in Block(i)
    <3>1. PICK a \in 0..(Batches - 1), k \in 1..PerBatch : s = a * PerBatch + k - 1
      BY ByArray
    <3>2. PICK i \in 1..n : FreeOrder[i] = a
      BY <1>2
    <3>3. s = base(i) + k - 1
      BY <3>1, <3>2
    <3> QED
      BY <3>3
  <2> HIDE DEF base, total
  <2>4. ASSUME NEW i \in 1..n, NEW j \in 1..n, i # j PROVE Block(i) \cap Block(j) = {}
    BY <2>2, <2>4
  <2> QED
    BY <2>1, <2>3, <2>4
<1>4. ASSUME NEW k \in 1..total PROVE call(k) \in Ops
  <2>1. PerBatch # 0 /\ k - 1 \in Nat
    BY <1>1
  <2>2. (k - 1) % PerBatch \in 0..(PerBatch - 1)
    BY <1>1, <2>1
  <2>3. (k - 1) % PerBatch \in Calls
    BY <1>1, <2>2, ArraysAssumption DEF Calls
  <2> QED
    BY <2>1, <2>3, OpsProperties
<1>5. mallocs \in Seq(Ops)
  <2> HIDE DEF total, call
  <2> QED
    BY <1>1, <1>4
<1>6. InOrder(mallocs, all, [held |-> First(total), clean |-> clean])
  <2> DEFINE asked == [k \in 1..total |-> sizes[(k - 1) % PerBatch]]
             m2 == [k \in 1..total |-> Malloc(k - 1, asked[k], used)]
  <2>1. \A s \in 0..(total - 1) : s \in Slots
    BY SlotsType
  <2>2. \A k \in 1..total : Malloc(k - 1, asked[k], used) = call(k)
    <3> HIDE DEF total
    <3> QED
      OBVIOUS
  <2> HIDE DEF total, asked
  <2>3. InOrder(m2, all, [held |-> First(total), clean |-> clean])
    BY <1>1, <2>1, MallocsInOrder
  <2>4. m2 = mallocs
    <3> HIDE DEF call
    <3> QED
      BY <2>2
  <2> QED
    BY <2>3, <2>4
<1>7. \A s \in 0..(total - 1) : s \in Slots /\ s \in Nat /\ s < total
  BY <1>1, SlotsType
<1>8. First(total) = Left(1)
  <2> HIDE DEF total, Block
  <2>1. ASSUME NEW s \in First(total) PROVE s \in Left(1)
    <3>1. s \in 0..(total - 1)
      BY <1>1, SlotsType DEF First
    <3> QED
      BY <1>3, <3>1
  <2>2. ASSUME NEW s \in Left(1) PROVE s \in First(total)
    <3>1. PICK j \in 1..n : s \in Block(j)
      OBVIOUS
    <3>2. s \in 0..(total - 1)
      BY <1>3, <3>1
    <3> QED
      BY <1>7, <3>2 DEF First
  <2> HIDE DEF Left
  <2> QED
    BY <2>1, <2>2
<1>9. ASSUME NEW i \in 1..n
      PROVE  /\ array(i) \in Seq(Ops)
             /\ InOrder(array(i), [held |-> Left(i), clean |-> clean],
                                  [held |-> Left(i + 1), clean |-> clean])
  <2>1. base(i) \in Nat /\ Block(i) \subseteq Slots
    BY <1>3, <1>7
  <2>2. array(i) \in Seq(Ops)
    <3> HIDE DEF base
    <3>1. \A k \in 1..PerBatch : base(i) + k - 1 \in Nat
      BY <2>1
    <3>2. \A k \in 1..PerBatch : Release(base(i) + k - 1) \in Ops
      BY <3>1, OpsProperties
    <3> QED
      BY <1>1, <3>2
  <2>3. /\ Left(i) = Left(i + 1) \union Block(i)
        /\ Left(i + 1) \in SUBSET Slots
        /\ Left(i + 1) \cap Block(i) = {}
    <3> HIDE DEF Block, base, total
    <3>1. /\ \A j \in i..n : j = i \/ j \in (i + 1)..n
          /\ \A j \in (i + 1)..n : j \in i..n /\ j \in 1..n /\ j # i
          /\ i \in i..n
      BY <1>2
    <3>2. Left(i) = Left(i + 1) \union Block(i)
      BY <3>1
    <3>3. Left(i + 1) \in SUBSET Slots
      BY <1>3, <1>7, <3>1
    <3>4. ASSUME NEW s \in Left(i + 1) PROVE s \notin Block(i)
      <4>1. PICK j \in (i + 1)..n : s \in Block(j)
        OBVIOUS
      <4> QED
        BY <1>3, <3>1, <4>1
    <3> HIDE DEF Left
    <3> QED
      BY <3>2, <3>3, <3>4
  <2>4. \A k \in 1..PerBatch : base(i) + k - 1 \in Block(i)
    OBVIOUS
  <2> DEFINE rest == Left(i + 1)
             b == base(i)
  <2>5. /\ b \in Nat /\ rest \in SUBSET Slots /\ clean \in SUBSET Slots
        /\ \A k \in 1..PerBatch : b + k - 1 \in Slots /\ b + k - 1 \notin rest
    <3> HIDE DEF base, Left, Block
    <3> QED
      BY <2>1, <2>3, <2>4
  <2>6. Left(i) = rest \union {b + k - 1 : k \in 1..PerBatch}
    BY <2>3
  <2> HIDE DEF rest, b, Left, clean
  <2>7. InOrder([k \in 1..PerBatch |-> Release(b + k - 1)],
                [held |-> rest \union {b + k - 1 : k \in 1..PerBatch}, clean |-> clean],
                [held |-> rest, clean |-> clean])
    BY <1>1, <2>5, ReleasesInOrder
  <2>8. InOrder(array(i), [held |-> Left(i), clean |-> clean], [held |-> rest, clean |-> clean])
    BY <2>6, <2>7 DEF b
  <2> QED
    BY <2>2, <2>8 DEF rest
<1>10. Left(n + 1) = {}
  <2>1. (n + 1)..n = {}
    BY <1>2
  <2> QED
    BY <2>1
<1> HIDE DEF array, Left, Block, base
<1>11. arrays \in Seq(Seq(Ops)) /\ Len(arrays) = n /\ \A i \in 1..n : arrays[i] = array(i)
  <2>1. DOMAIN FreeOrder = 1..n /\ n \in Nat
    BY <1>2
  <2>2. \A i \in 1..n : array(i) \in Seq(Ops)
    BY <1>9
  <2> HIDE DEF n
  <2> QED
    BY <2>1, <2>2
<1>12. Left(1) \subseteq Slots
  BY <1>8 DEF First
<1>13. /\ marks[1] = [held |-> Left(1), clean |-> clean]
       /\ marks[n + 1] = [held |-> {}, clean |-> clean]
       /\ \A i \in 1..n : /\ marks[i] = [held |-> Left(i), clean |-> clean]
                          /\ marks[i + 1] = [held |-> Left(i + 1), clean |-> clean]
  <2> DEFINE L(i) == [held |-> Left(i), clean |-> clean]
  <2>1. \A i \in 1..(n + 1) : marks[i] = L(i)
    OBVIOUS
  <2>2. /\ 1 \in 1..(n + 1) /\ n + 1 \in 1..(n + 1)
        /\ \A i \in 1..n : i \in 1..(n + 1) /\ i + 1 \in 1..(n + 1)
    <3>1. n \in Nat
      BY <1>2
    <3> HIDE DEF n
    <3> QED
      BY <3>1
  <2>3. L(n + 1) = [held |-> {}, clean |-> clean]
    BY <1>10
  <2> HIDE DEF marks, n, clean
  <2> QED
    BY <2>1, <2>2, <2>3
<1> HIDE DEF marks, arrays, n, mallocs, clean, total
<1>14. marks[1] \in Ledger
  BY <1>12, <1>13 DEF Ledger, clean
<1>15. \A i \in 1..Len(arrays) : InOrder(arrays[i], marks[i], marks[i + 1])
  BY <1>9, <1>11, <1>13
<1>16. InOrder(FlattenSeq(arrays), marks[1], marks[n + 1])
  BY <1>11, <1>14, <1>15, AllInOrder
<1>17. FlattenSeq(arrays) \in Seq(Ops)
  BY <1>11, FlattenType
<1>18. all \in Ledger /\ all.held = {}
  BY DEF Ledger
<1>19. InOrder(<<SetNull>>, all, all)
  BY <1>18, NullInOrder
<1>20. <<SetNull>> \in Seq(Ops)
  BY OpsProperties
<1>21. InOrder(mallocs, all, marks[1])
  BY <1>6, <1>8, <1>13
<1> DEFINE begin == <<SetNull>> \o mallocs
<1> HIDE DEF all
<1>22. InOrder(begin, all, marks[1]) /\ begin \in Seq(Ops)
  BY <1>5, <1>19, <1>20, <1>21, JoinInOrder, ConcatProperties
<1> HIDE DEF begin
<1>23. InOrder(begin \o FlattenSeq(arrays), all, marks[n + 1])
  BY <1>16, <1>17, <1>22, JoinInOrder
<1>24. Asymmetric(sizes, used) = begin \o FlattenSeq(arrays)
  BY DEF Asymmetric, begin, mallocs, arrays, array, base, total
<1> QED
  BY <1>13, <1>23, <1>24 DEF all

(* main.c has a pointer for each block, and fills them one after the other. *)
LEMMA MainInOrder ==
  \E m : m.held = {} /\ InOrder(MainScript, [held |-> {}, clean |-> Slots], m)
<1> DEFINE first == <<SetNull, Malloc(0, {4}, 4), Malloc(1, {4}, 4)>>
           three == [k \in 1..3 |-> Malloc(k + 1, {32}, 32)]
           last == <<Release(0), Release(1), Malloc(5, {4}, 4), Release(5),
                     Release(2), Release(3), Release(4), Malloc(6, {32}, 0), Release(6)>>
           L(S, c) == [held |-> S, clean |-> Slots \ First(c)]
           books == <<L({}, 0), L({}, 0), L({0}, 1), L({0, 1}, 2), L({0, 1, 2}, 3),
                      L({0, 1, 2, 3}, 4), L({0, 1, 2, 3, 4}, 5), L({1, 2, 3, 4}, 5),
                      L({2, 3, 4}, 5), L({2, 3, 4, 5}, 6), L({2, 3, 4}, 6), L({3, 4}, 6),
                      L({4}, 6), L({}, 6), L({6}, 7), L({}, 7)>>
           s == MainScript
<1>1. \A i \in 0..6 : i \in Slots
  BY SlotsType
<1>2. ASSUME NEW c \in 0..6
      PROVE  c \notin First(c) /\ First(c + 1) = First(c) \union {c}
  <2>1. Slots \subseteq Nat /\ c \in Slots
    BY SlotsType
  <2>2. \A x \in Nat : (x < c + 1 <=> x < c \/ x = c) /\ ~(c < c)
    OBVIOUS
  <2> QED
    BY <2>1, <2>2 DEF First
<1>3. ASSUME NEW c \in 0..6, NEW S, NEW sizes, NEW used
      PROVE  Entry(Malloc(c, sizes, used), L(S, c), L(S \union {c}, c + 1))
  <2> DEFINE o == Malloc(c, sizes, used)
             l == L(S, c)
             m == L(S \union {c}, c + 1)
  <2>1. o.op = "malloc" /\ o.slot = c
    BY DEF Malloc
  <2>2. l.held = S /\ l.clean = Slots \ First(c) /\ c \in l.clean
    BY <1>1, <1>2
  <2>3. Slots \ First(c + 1) = (Slots \ First(c)) \ {c}
    BY <1>2
  <2>4. m = [held |-> l.held \union {c}, clean |-> l.clean \ {c}]
    BY <2>2, <2>3
  <2> HIDE DEF o, l, m
  <2>5. Entry(o, l, m)
    BY <2>1, <2>2, <2>4 DEF Entry
  <2> QED
    BY <2>5 DEF o, l, m
<1>4. ASSUME NEW c, NEW i, NEW S, i \in S
      PROVE  Entry(Release(i), L(S, c), L(S \ {i}, c))
  BY <1>4 DEF Entry, Release
<1>5. Entry(SetNull, L({}, 0), L({}, 0))
  <2>1. First(0) = {}
    <3>1. \A x \in Nat : ~(x < 0)
      OBVIOUS
    <3>2. \A x \in Slots : x \in Nat
      BY SlotsType
    <3> QED
      BY <3>1, <3>2 DEF First
  <2> QED
    BY <2>1 DEF Entry
<1>6. /\ Len(s) = 15
      /\ s[1] = SetNull /\ s[2] = Malloc(0, {4}, 4) /\ s[3] = Malloc(1, {4}, 4)
      /\ s[4] = Malloc(2, {32}, 32) /\ s[5] = Malloc(3, {32}, 32) /\ s[6] = Malloc(4, {32}, 32)
      /\ s[7] = Release(0) /\ s[8] = Release(1) /\ s[9] = Malloc(5, {4}, 4)
      /\ s[10] = Release(5) /\ s[11] = Release(2) /\ s[12] = Release(3)
      /\ s[13] = Release(4) /\ s[14] = Malloc(6, {32}, 0) /\ s[15] = Release(6)
  <2>1. /\ Len(first) = 3 /\ first[1] = SetNull /\ first[2] = Malloc(0, {4}, 4)
        /\ first[3] = Malloc(1, {4}, 4)
    OBVIOUS
  <2>2. /\ Len(three) = 3 /\ three[1] = Malloc(2, {32}, 32) /\ three[2] = Malloc(3, {32}, 32)
        /\ three[3] = Malloc(4, {32}, 32)
    OBVIOUS
  <2>3. /\ Len(last) = 9
        /\ last[1] = Release(0) /\ last[2] = Release(1) /\ last[3] = Malloc(5, {4}, 4)
        /\ last[4] = Release(5) /\ last[5] = Release(2) /\ last[6] = Release(3)
        /\ last[7] = Release(4) /\ last[8] = Malloc(6, {32}, 0) /\ last[9] = Release(6)
    OBVIOUS
  <2> DEFINE begin == first \o three
             T == {first[k] : k \in 1..3} \union {three[k] : k \in 1..3}
                  \union {last[k] : k \in 1..9}
  <2>4. first \in Seq(T) /\ three \in Seq(T) /\ last \in Seq(T)
    OBVIOUS
  <2>5. s = begin \o last
    BY DEF MainScript
  <2> HIDE DEF first, three, last, T
  <2>6. /\ begin \in Seq(T) /\ Len(begin) = 6
        /\ begin[1] = first[1] /\ begin[2] = first[2] /\ begin[3] = first[3]
        /\ begin[4] = three[1] /\ begin[5] = three[2] /\ begin[6] = three[3]
    <3>1. /\ begin \in Seq(T) /\ Len(begin) = Len(first) + Len(three)
          /\ \A k \in 1..(Len(first) + Len(three)) :
               begin[k] = IF k <= Len(first) THEN first[k] ELSE three[k - Len(first)]
      BY <2>4, ConcatProperties
    <3>2. Len(first) = 3 /\ Len(three) = 3
      BY <2>1, <2>2
    <3> HIDE DEF begin
    <3>3. /\ Len(begin) = 6
          /\ \A k \in 1..6 : begin[k] = IF k <= 3 THEN first[k] ELSE three[k - 3]
      BY <3>1, <3>2
    <3>4. begin[1] = first[1] /\ begin[2] = first[2] /\ begin[3] = first[3]
      BY ONLY <3>3
    <3>5. begin[4] = three[1] /\ begin[5] = three[2] /\ begin[6] = three[3]
      <4>1. 4 - 3 = 1 /\ 5 - 3 = 2 /\ 6 - 3 = 3
        OBVIOUS
      <4> QED
        BY ONLY <3>3, <4>1
    <3> QED
      BY <3>1, <3>3, <3>4, <3>5
  <2> HIDE DEF begin, s
  <2>7. /\ Len(s) = 15
        /\ \A k \in 1..15 : s[k] = IF k <= 6 THEN begin[k] ELSE last[k - 6]
    <3>1. /\ Len(s) = Len(begin) + Len(last)
          /\ \A k \in 1..(Len(begin) + Len(last)) :
               s[k] = IF k <= Len(begin) THEN begin[k] ELSE last[k - Len(begin)]
      <4>1. begin \in Seq(T) /\ last \in Seq(T)
        BY <2>4, <2>6
      <4> QED
        BY <2>5, <4>1, ConcatProperties
    <3>2. Len(begin) = 6 /\ Len(last) = 9
      BY <2>3, <2>6
    <3> QED
      BY <3>1, <3>2
  <2>8. /\ s[1] = begin[1] /\ s[2] = begin[2] /\ s[3] = begin[3]
        /\ s[4] = begin[4] /\ s[5] = begin[5] /\ s[6] = begin[6]
    BY <2>7
  <2>9. /\ s[7] = last[1] /\ s[8] = last[2] /\ s[9] = last[3] /\ s[10] = last[4]
        /\ s[11] = last[5] /\ s[12] = last[6] /\ s[13] = last[7] /\ s[14] = last[8]
        /\ s[15] = last[9]
    BY <2>7
  <2> QED
    BY <2>1, <2>2, <2>3, <2>6, <2>7, <2>8, <2>9
<1> HIDE DEF s, L
<1>7. /\ Entry(s[2], L({}, 0), L({0}, 1)) /\ Entry(s[3], L({0}, 1), L({0, 1}, 2))
      /\ Entry(s[4], L({0, 1}, 2), L({0, 1, 2}, 3))
      /\ Entry(s[5], L({0, 1, 2}, 3), L({0, 1, 2, 3}, 4))
      /\ Entry(s[6], L({0, 1, 2, 3}, 4), L({0, 1, 2, 3, 4}, 5))
      /\ Entry(s[9], L({2, 3, 4}, 5), L({2, 3, 4, 5}, 6))
      /\ Entry(s[14], L({}, 6), L({6}, 7))
  <2>1. /\ {} \union {0} = {0} /\ {0} \union {1} = {0, 1}
        /\ {0, 1} \union {2} = {0, 1, 2} /\ {0, 1, 2} \union {3} = {0, 1, 2, 3}
        /\ {0, 1, 2, 3} \union {4} = {0, 1, 2, 3, 4}
        /\ {2, 3, 4} \union {5} = {2, 3, 4, 5} /\ {} \union {6} = {6}
    OBVIOUS
  <2>2. /\ Entry(s[2], L({}, 0), L({} \union {0}, 0 + 1))
        /\ Entry(s[3], L({0}, 1), L({0} \union {1}, 1 + 1))
        /\ Entry(s[4], L({0, 1}, 2), L({0, 1} \union {2}, 2 + 1))
        /\ Entry(s[5], L({0, 1, 2}, 3), L({0, 1, 2} \union {3}, 3 + 1))
        /\ Entry(s[6], L({0, 1, 2, 3}, 4), L({0, 1, 2, 3} \union {4}, 4 + 1))
    BY <1>3, <1>6
  <2>3. /\ Entry(s[9], L({2, 3, 4}, 5), L({2, 3, 4} \union {5}, 5 + 1))
        /\ Entry(s[14], L({}, 6), L({} \union {6}, 6 + 1))
    BY <1>3, <1>6
  <2>4. 0 + 1 = 1 /\ 1 + 1 = 2 /\ 2 + 1 = 3 /\ 3 + 1 = 4 /\ 4 + 1 = 5 /\ 5 + 1 = 6 /\ 6 + 1 = 7
    OBVIOUS
  <2> QED
    BY <2>1, <2>2, <2>3, <2>4
<1>8. /\ Entry(s[7], L({0, 1, 2, 3, 4}, 5), L({1, 2, 3, 4}, 5))
      /\ Entry(s[8], L({1, 2, 3, 4}, 5), L({2, 3, 4}, 5))
      /\ Entry(s[10], L({2, 3, 4, 5}, 6), L({2, 3, 4}, 6))
      /\ Entry(s[11], L({2, 3, 4}, 6), L({3, 4}, 6))
      /\ Entry(s[12], L({3, 4}, 6), L({4}, 6))
      /\ Entry(s[13], L({4}, 6), L({}, 6)) /\ Entry(s[15], L({6}, 7), L({}, 7))
  <2>1. /\ {0, 1, 2, 3, 4} \ {0} = {1, 2, 3, 4} /\ {1, 2, 3, 4} \ {1} = {2, 3, 4}
        /\ {2, 3, 4, 5} \ {5} = {2, 3, 4} /\ {2, 3, 4} \ {2} = {3, 4}
        /\ {3, 4} \ {3} = {4} /\ {4} \ {4} = {} /\ {6} \ {6} = {}
    OBVIOUS
  <2>2. /\ Entry(s[7], L({0, 1, 2, 3, 4}, 5), L({0, 1, 2, 3, 4} \ {0}, 5))
        /\ Entry(s[8], L({1, 2, 3, 4}, 5), L({1, 2, 3, 4} \ {1}, 5))
        /\ Entry(s[10], L({2, 3, 4, 5}, 6), L({2, 3, 4, 5} \ {5}, 6))
        /\ Entry(s[11], L({2, 3, 4}, 6), L({2, 3, 4} \ {2}, 6))
    BY <1>4, <1>6
  <2>3. /\ Entry(s[12], L({3, 4}, 6), L({3, 4} \ {3}, 6))
        /\ Entry(s[13], L({4}, 6), L({4} \ {4}, 6))
        /\ Entry(s[15], L({6}, 7), L({6} \ {6}, 7))
    BY <1>4, <1>6
  <2> QED
    BY <2>1, <2>2, <2>3
<1>9. /\ \A S, c : S \subseteq 0..6 => L(S, c) \in Ledger
      /\ L({}, 0) = [held |-> {}, clean |-> Slots]
  <2>1. ASSUME NEW S, NEW c, S \subseteq 0..6 PROVE L(S, c) \in Ledger
    <3>1. S \in SUBSET Slots
      BY <1>1, <2>1
    <3> QED
      BY <3>1 DEF Ledger, L
  <2>2. First(0) = {}
    <3>1. \A x \in Nat : ~(x < 0)
      OBVIOUS
    <3>2. \A x \in Slots : x \in Nat
      BY SlotsType
    <3> QED
      BY <3>1, <3>2 DEF First
  <2> QED
    BY <2>1, <2>2 DEF L
<1>10. books \in [1..16 -> Ledger]
  <2>1. /\ {} \subseteq 0..6 /\ {0} \subseteq 0..6 /\ {0, 1} \subseteq 0..6
        /\ {0, 1, 2} \subseteq 0..6 /\ {0, 1, 2, 3} \subseteq 0..6
        /\ {0, 1, 2, 3, 4} \subseteq 0..6 /\ {1, 2, 3, 4} \subseteq 0..6
        /\ {2, 3, 4} \subseteq 0..6 /\ {2, 3, 4, 5} \subseteq 0..6
        /\ {3, 4} \subseteq 0..6 /\ {4} \subseteq 0..6 /\ {6} \subseteq 0..6
    OBVIOUS
  <2>2. /\ L({}, 0) \in Ledger /\ L({0}, 1) \in Ledger /\ L({0, 1}, 2) \in Ledger
        /\ L({0, 1, 2}, 3) \in Ledger /\ L({0, 1, 2, 3}, 4) \in Ledger
        /\ L({0, 1, 2, 3, 4}, 5) \in Ledger /\ L({1, 2, 3, 4}, 5) \in Ledger
        /\ L({2, 3, 4}, 5) \in Ledger
    BY <1>9, <2>1
  <2>3. /\ L({2, 3, 4, 5}, 6) \in Ledger /\ L({2, 3, 4}, 6) \in Ledger
        /\ L({3, 4}, 6) \in Ledger /\ L({4}, 6) \in Ledger /\ L({}, 6) \in Ledger
        /\ L({6}, 7) \in Ledger /\ L({}, 7) \in Ledger
    BY <1>9, <2>1
  <2> QED
    BY <2>2, <2>3
<1>11. \A p \in 1..15 : Entry(s[p], books[p], books[p + 1])
  <2>1. Entry(s[1], L({}, 0), L({}, 0))
    BY <1>5, <1>6
  <2> QED
    BY <1>7, <1>8, <2>1
<1>12. Accounts(s, books)
  <2>1. 15 + 1 = 16
    OBVIOUS
  <2> HIDE DEF books
  <2> QED
    BY <1>6, <1>10, <1>11, <2>1 DEF Accounts
<1>13. books[1] = L({}, 0) /\ books[16] = L({}, 7) /\ L({}, 7).held = {}
  BY DEF L
<1>14. InOrder(s, books[1], books[16])
  <2>1. 15 + 1 = 16
    OBVIOUS
  <2> HIDE DEF books
  <2> QED
    BY <1>6, <1>12, <2>1 DEF InOrder
<1> HIDE DEF books
<1> QED
  BY <1>9, <1>13, <1>14 DEF s

LEMMA ScriptInOrder ==
  ASSUME program \in Programs, program # "any"
  PROVE  \E m : m.held = {} /\ InOrder(Script, [held |-> {}, clean |-> Slots], m)
<1> DEFINE Good(s) == \E m : m.held = {} /\ InOrder(s, [held |-> {}, clean |-> Slots], m)
<1>1. Good(SmallSymmetric)
  BY SizesAsked, SymmetricInOrder DEF SmallSymmetric
<1>2. Good(SmallAsymmetric)
  BY SizesAsked, AsymmetricInOrder DEF SmallAsymmetric
<1>3. Good(LargeSymmetric)
  BY SizesAsked, SymmetricInOrder DEF LargeSymmetric
<1>4. Good(LargeUnwritten)
  BY SizesAsked, SymmetricInOrder DEF LargeUnwritten
<1>5. Good(LargeAsymmetric)
  BY SizesAsked, AsymmetricInOrder DEF LargeAsymmetric
<1>6. Good(MainScript)
  BY MainInOrder
<1>7. program \in {"main", "small_symmetric", "small_asymmetric",
                    "large_symmetric", "large_asymmetric"}
  BY ProgramsAssumption
<1> HIDE DEF Good
<1>8. Good(Script)
  BY <1>1, <1>2, <1>3, <1>4, <1>5, <1>6, <1>7 DEF Script
<1> QED
  BY <1>8 DEF Good

-----------------------------------------------------------------------------
(* The ledger is true: a slot that is to be freed holds NULL or a live block,
   each live block is in one such slot, and a clean slot is NULL. *)
True(l, array, blocks) ==
  /\ \A s \in l.clean : array[s] = NULL
  /\ \A s \in l.held : array[s] \in {NULL} \union {b.addr : b \in blocks}
  /\ \A s, t \in l.held : array[s] = array[t] /\ array[s] # NULL => s = t
  /\ \A b \in blocks : \E s \in l.held : array[s] = b.addr

BooksTrue ==
  program # "any" =>
    /\ at \in 1..(Len(Script) + 1) /\ pointer_array \in [Slots -> Int]
    /\ \E books : /\ Accounts(Script, books) /\ books[Len(Script) + 1].held = {}
                  /\ True(books[at], pointer_array, live)

(* A block whose bytes collide with no other's has an address of its own. *)
LEMMA AddressesApart ==
  ASSUME TypeOK, NoCollision, IsFiniteSet(live)
  PROVE  /\ \A b \in live : b.addr \in Nat
         /\ \A b, c \in live : b.addr = c.addr => b = c
         /\ \A k \in 1..Len(free) : /\ free[k].addr \in Nat
                                    /\ \A b \in live : b.addr # free[k].addr
<1>1. \A b \in live : b.addr \in Nat
  BY DEF TypeOK
<1>2. \A k \in 1..Len(free) : free[k].addr \in Nat
  BY FreeList
<1>3. \A b, c \in live : b.addr = c.addr => b = c
  <2> DEFINE addrOf == [b \in live |-> b.addr]
  <2>1. addrOf \in Surjection(live, BlockStarts)
    BY DEF Surjection, BlockStarts
  <2>2. Cardinality(BlockStarts) = Cardinality(live)
    BY DEF NoCollision, Collision
  <2>3. addrOf \in Injection(live, BlockStarts)
    BY <2>1, <2>2, FS_Surjection
  <2> QED
    BY <2>3 DEF Injection, IsInjective
<1> QED
  BY <1>1, <1>2, <1>3, FreshHeader

LEMMA BooksTrueStep ==
  ProgramInv /\ BooksTrue /\ [ProgramNext]_programVars => BooksTrue'
<1> SUFFICES ASSUME ProgramInv, BooksTrue, [ProgramNext]_programVars, program' # "any"
             PROVE  BooksTrue'
  BY DEF BooksTrue
<1>1. program' = program /\ strat' = strat
  BY DEF ProgramNext, NewArray, GetsBlock, GetsNull, FreesBlock, FreesNull, Step, vars,
         programVars, Next, MallocOnEmptyList, MallocSplit, MallocWhole, MallocNull, Free
<1>2. Script' = Script
  BY <1>1 DEF Script
<1>3. PICK books : /\ Accounts(Script, books) /\ books[Len(Script) + 1].held = {}
                   /\ True(books[at], pointer_array, live)
  BY <1>1 DEF BooksTrue
<1>4. /\ at \in 1..(Len(Script) + 1) /\ pointer_array \in [Slots -> Int]
      /\ Len(Script) \in Nat /\ Script \in Seq(Ops) /\ TypeOK
  BY <1>1, ScriptType, LenProperties DEF BooksTrue, ProgramInv, AllocInv
<1> DEFINE l == books[at]
           m == books[at + 1]
<1>5. SUFFICES /\ at' \in 1..(Len(Script) + 1) /\ pointer_array' \in [Slots -> Int]
               /\ True(books[at'], pointer_array', live')
  <2>1. at' \in 1..(Len(Script) + 1) /\ pointer_array' \in [Slots -> Int] /\ True(books[at'], pointer_array', live')
    BY <1>5
  <2> QED
    BY <1>2, <1>3, <2>1 DEF BooksTrue
<1>6. ASSUME NEW op, Step(op)
      PROVE  /\ at \in 1..Len(Script) /\ at' = at + 1 /\ at' \in 1..(Len(Script) + 1)
             /\ Op \in Ops /\ Op.op = op /\ Entry(Op, l, m)
             /\ l \in Ledger /\ m \in Ledger
  <2>1. at \in 1..Len(Script) /\ at' = at + 1 /\ Op.op = op
    BY <1>4, <1>6 DEF Step, Done
  <2>2. Op \in Ops
    BY <1>4, <2>1, ElementOfSeq DEF Op
  <2>3. at \in 1..(Len(Script) + 1) /\ at + 1 \in 1..(Len(Script) + 1)
    BY <1>4, <2>1
  <2> QED
    BY <1>3, <2>1, <2>2, <2>3 DEF Accounts, Op
<1>7. /\ SetNull.op = "null"
      /\ \A s \in l.clean : pointer_array[s] = NULL
      /\ \A s \in l.held : pointer_array[s] \in {NULL} \union {b.addr : b \in live}
      /\ \A s, t \in l.held :
           pointer_array[s] = pointer_array[t] /\ pointer_array[s] # NULL => s = t
      /\ \A b \in live : \E s \in l.held : pointer_array[s] = b.addr
  BY <1>3 DEF True, SetNull
<1> HIDE DEF l, m
<1>8. CASE NewArray
  <2>1. Step("null") /\ live' = live /\ pointer_array' = [slot \in Slots |-> NULL]
    BY <1>8 DEF NewArray, vars
  <2>2. at' = at + 1 /\ at' \in 1..(Len(Script) + 1) /\ Entry(Op, l, m) /\ Op.op = "null"
    BY <1>6, <2>1
  <2>3. l.held = {} /\ m = [held |-> {}, clean |-> Slots]
    BY <2>2 DEF Entry
  <2>4. live = {}
    BY <1>7, <2>3
  <2>5. pointer_array' \in [Slots -> Int] /\ \A s \in Slots : pointer_array'[s] = NULL
    BY <2>1 DEF NULL
  <2>6. True(m, pointer_array', live')
    BY <2>1, <2>3, <2>4, <2>5 DEF True, m
  <2> QED
    BY <2>2, <2>5, <2>6 DEF m
<1>9. CASE GetsBlock
  <2>1. Step("malloc")
    BY <1>9 DEF GetsBlock
  <2>2. PICK size \in Op.sizes :
          /\ MallocSplit(size, Op.used) \/ MallocWhole(size, Op.used)
          /\ pointer_array' =
               [pointer_array EXCEPT ![Op.slot] = free[Fit(TotalSize(size))].addr]
    BY <1>9 DEF GetsBlock
  <2> DEFINE k == Fit(TotalSize(size))
             slot == Op.slot
             a == free[k].addr
  <2>3. /\ at' = at + 1 /\ at' \in 1..(Len(Script) + 1) /\ Entry(Op, l, m)
        /\ Op.op = "malloc" /\ Op \in Ops /\ l \in Ledger
    BY <1>6, <2>1
  <2>4. /\ slot \in l.clean /\ l.held \subseteq Slots /\ l.clean \subseteq Slots
        /\ m = [held |-> l.held \union {slot}, clean |-> l.clean \ {slot}]
    BY <1>7, <2>3 DEF Entry, Ledger
  <2>5. NoCollision /\ k \in 1..Len(free)
    <3>1. Found(size)
      BY <2>2 DEF MallocSplit, MallocWhole
    <3>2. size \in Nat
      BY <2>2, <2>3, OpsProperties
    <3>3. 0 \in 0..size
      BY <3>2
    <3>4. k \in 1..Len(free)
      BY <1>4, <3>1, <3>2, <3>3, FoundProperties
    <3> QED
      BY <3>1, <3>4 DEF Found, Runs, NoCollision
  <2>6. PICK block : block.addr = a /\ live' = live \union {block}
    BY <2>2 DEF MallocSplit, MallocWhole, Handed
  <2>7. a \in Nat /\ \A b \in live : b.addr # a
    BY <1>4, <2>5, AddressesApart DEF ProgramInv, AllocInv
  <2>8. /\ pointer_array' \in [Slots -> Int] /\ pointer_array'[slot] = a
        /\ \A s \in Slots : s # slot => pointer_array'[s] = pointer_array[s]
    BY <1>4, <2>2, <2>4, <2>7
  <2> HIDE DEF k, slot, a
  <2>9. /\ \A s \in m.held : s = slot \/ s \in l.held
        /\ \A s \in l.held : s \in m.held
        /\ slot \in m.held
        /\ \A s \in m.clean : s # slot /\ s \in l.clean
    BY <2>4
  <2>10. a # NULL /\ \A b \in live : b.addr # a
    BY <2>7 DEF NULL
  <2>11. \A s \in l.held : s # slot => pointer_array'[s] = pointer_array[s] /\ pointer_array'[s] # a
    BY <1>7, <2>4, <2>8, <2>10
  <2>12. pointer_array[slot] = NULL
    BY <1>7, <2>4
  <2>13. \A s \in m.clean : pointer_array'[s] = NULL
    BY <1>7, <2>4, <2>8, <2>9
  <2>14. \A s \in m.held : pointer_array'[s] \in {NULL} \union {b.addr : b \in live'}
    BY <1>7, <2>6, <2>8, <2>9, <2>11
  <2>15. \A s, t \in m.held :
           pointer_array'[s] = pointer_array'[t] /\ pointer_array'[s] # NULL => s = t
    BY <1>7, <2>8, <2>9, <2>11
  <2>16. ASSUME NEW b \in live' PROVE \E s \in m.held : pointer_array'[s] = b.addr
    <3>1. CASE b \in live
      <4>1. PICK s \in l.held : pointer_array[s] = b.addr
        BY <1>7, <3>1
      <4>2. s # slot
        <5>1. b.addr # NULL
          <6>1. b.addr \in Nat
            BY <1>4, <3>1 DEF TypeOK
          <6> QED
            BY <6>1 DEF NULL
        <5> QED
          BY <2>12, <4>1, <5>1
      <4> QED
        BY <2>9, <2>11, <4>1, <4>2
    <3>2. CASE b = block
      BY <2>6, <2>8, <2>9, <3>2
    <3> QED
      BY <2>6, <3>1, <3>2
  <2>17. True(m, pointer_array', live')
    BY <2>13, <2>14, <2>15, <2>16 DEF True, m
  <2> QED
    BY <2>3, <2>8, <2>17 DEF m
<1>10. CASE GetsNull
  <2>1. Step("malloc") /\ live' = live /\ pointer_array' = pointer_array
    BY <1>10 DEF GetsNull, MallocOnEmptyList, MallocNull, vars
  <2>2. /\ at' = at + 1 /\ at' \in 1..(Len(Script) + 1) /\ Entry(Op, l, m)
        /\ Op.op = "malloc"
    BY <1>6, <2>1
  <2>3. /\ Op.slot \in l.clean
        /\ m = [held |-> l.held \union {Op.slot}, clean |-> l.clean \ {Op.slot}]
    BY <1>7, <2>2 DEF Entry
  <2>4. pointer_array[Op.slot] = NULL
    BY <1>7, <2>3
  <2>5. /\ \A s \in m.held : s = Op.slot \/ s \in l.held
        /\ \A s \in l.held : s \in m.held
        /\ \A s \in m.clean : s \in l.clean
    BY <2>3
  <2>6. True(m, pointer_array', live')
    BY <1>7, <2>1, <2>4, <2>5 DEF True, m
  <2> QED
    BY <1>4, <2>1, <2>2, <2>6 DEF m
<1>11. CASE FreesBlock
  <2>1. Step("free") /\ pointer_array' = pointer_array
    BY <1>11 DEF FreesBlock
  <2>2. PICK block \in live : block.addr = pointer_array[Op.slot] /\ Free(block)
    BY <1>11 DEF FreesBlock
  <2>3. /\ at' = at + 1 /\ at' \in 1..(Len(Script) + 1) /\ Entry(Op, l, m)
        /\ Op.op = "free"
    BY <1>6, <2>1
  <2>4. /\ Op.slot \in l.held
        /\ m = [held |-> l.held \ {Op.slot}, clean |-> l.clean]
    BY <1>7, <2>3 DEF Entry
  <2>5. live' = live \ {block} /\ NoCollision
    BY <2>2 DEF Free, Runs, NoCollision
  <2>6. /\ \A b \in live : b.addr \in Nat
        /\ \A b \in live : b.addr = block.addr => b = block
    BY <1>4, <2>2, <2>5, AddressesApart DEF ProgramInv, AllocInv
  <2>7. \A b \in live : b.addr # NULL
    BY <2>6 DEF NULL
  <2>8. /\ \A s \in m.held : s \in l.held /\ s # Op.slot
        /\ \A s \in l.held : s # Op.slot => s \in m.held
        /\ m.clean = l.clean
    BY <2>4
  <2>9. \A s \in m.held : pointer_array[s] # block.addr
    BY <1>7, <2>2, <2>4, <2>7, <2>8
  <2>10. \A s \in m.held : pointer_array'[s] \in {NULL} \union {b.addr : b \in live'}
    BY <1>7, <2>1, <2>5, <2>8, <2>9
  <2>11. ASSUME NEW b \in live' PROVE \E s \in m.held : pointer_array'[s] = b.addr
    <3>1. b \in live /\ b # block
      BY <2>5
    <3>2. PICK s \in l.held : pointer_array[s] = b.addr
      BY <1>7, <3>1
    <3>3. s # Op.slot
      BY <2>2, <2>6, <3>1, <3>2
    <3> QED
      BY <2>1, <2>8, <3>2, <3>3
  <2>12. True(m, pointer_array', live')
    BY <1>7, <2>1, <2>8, <2>10, <2>11 DEF True, m
  <2> QED
    BY <1>4, <2>1, <2>3, <2>12 DEF m
<1>12. CASE FreesNull
  <2>1. Step("free") /\ pointer_array' = pointer_array /\ live' = live
        /\ pointer_array[Op.slot] = NULL
    BY <1>12 DEF FreesNull, vars
  <2>2. /\ at' = at + 1 /\ at' \in 1..(Len(Script) + 1) /\ Entry(Op, l, m)
        /\ Op.op = "free"
    BY <1>6, <2>1
  <2>3. /\ Op.slot \in l.held
        /\ m = [held |-> l.held \ {Op.slot}, clean |-> l.clean]
    BY <1>7, <2>2 DEF Entry
  <2>4. \A b \in live : b.addr # NULL
    <3>1. \A b \in live : b.addr \in Nat
      BY <1>4 DEF TypeOK
    <3> QED
      BY <3>1 DEF NULL
  <2>5. /\ \A s \in m.held : s \in l.held
        /\ \A s \in l.held : s # Op.slot => s \in m.held
        /\ m.clean = l.clean
    BY <2>3
  <2>6. True(m, pointer_array', live')
    BY <1>7, <2>1, <2>4, <2>5 DEF True, m
  <2> QED
    BY <1>4, <2>1, <2>2, <2>6 DEF m
<1>13. CASE UNCHANGED programVars
  <2>1. at' = at /\ pointer_array' = pointer_array /\ live' = live
    BY <1>13 DEF programVars, vars
  <2>2. True(books[at'], pointer_array', live')
    BY <1>3, <2>1 DEF True
  <2> QED
    BY <1>4, <2>1, <2>2
<1> QED
  BY <1>1, <1>8, <1>9, <1>10, <1>11, <1>12, <1>13 DEF ProgramNext

(* No program frees a block twice, whatever the calls that fail, and none that
   comes to its end keeps one: not with arrays of any length, in any region, with
   any sizes drawn, nor with arrays freed by halves. *)
THEOREM FreedOnce == ProgramSpec => []FreesEachBlockOnce
<1>1. ProgramInit => ProgramInv /\ BooksTrue
  <2> SUFFICES ASSUME ProgramInit PROVE ProgramInv /\ BooksTrue
    OBVIOUS
  <2>1. ProgramInv
    BY InitAllocInv DEF ProgramInit, ProgramInv
  <2>2. ASSUME program # "any" PROVE BooksTrue
    <3>1. /\ live = {} /\ at = 1 /\ pointer_array = [slot \in Slots |-> NULL]
          /\ program \in Programs
      BY DEF ProgramInit, Init
    <3>2. PICK last : last.held = {} /\ InOrder(Script, [held |-> {}, clean |-> Slots], last)
      BY <2>2, <3>1, ScriptInOrder
    <3>3. PICK books : /\ Accounts(Script, books)
                       /\ books[1] = [held |-> {}, clean |-> Slots]
                       /\ books[Len(Script) + 1] = last
      BY <3>2 DEF InOrder
    <3>4. Len(Script) \in Nat /\ 1 \in 1..(Len(Script) + 1)
      <4>1. Len(Script) \in Nat
        BY <3>1, ScriptType, LenProperties
      <4> QED
        BY <4>1
    <3>5. pointer_array \in [Slots -> Int] /\ \A s \in Slots : pointer_array[s] = NULL
      BY <3>1 DEF NULL
    <3>6. True(books[at], pointer_array, live)
      BY <3>1, <3>3, <3>5 DEF True
    <3> QED
      BY <3>1, <3>2, <3>3, <3>4, <3>5, <3>6 DEF BooksTrue
  <2> QED
    BY <2>1, <2>2 DEF BooksTrue
<1>2. ProgramInv /\ BooksTrue => FreesEachBlockOnce
  <2> SUFFICES ASSUME ProgramInv, BooksTrue PROVE FreesEachBlockOnce
    OBVIOUS
  <2>1. CASE program = "any"
    <3>1. Script = <<>>
      BY <2>1 DEF Script
    <3>2. Done
      <4>1. Len(<<>>) = 0 /\ at > 0
        BY DEF ProgramInv
      <4> QED
        BY <3>1, <4>1 DEF Done
    <3> QED
      BY <2>1, <3>2 DEF FreesEachBlockOnce
  <2>2. CASE program # "any"
    <3>1. PICK books : /\ Accounts(Script, books) /\ books[Len(Script) + 1].held = {}
                       /\ True(books[at], pointer_array, live)
      BY <2>2 DEF BooksTrue
    <3>2. at \in 1..(Len(Script) + 1) /\ Len(Script) \in Nat
      BY <2>2, ScriptType, LenProperties DEF BooksTrue, ProgramInv
    <3>3. ASSUME ~Done, Op.op = "free"
          PROVE  pointer_array[Op.slot] \in {NULL} \union {b.addr : b \in live}
      <4>1. at \in 1..Len(Script)
        BY <3>2, <3>3 DEF Done
      <4>2. Entry(Op, books[at], books[at + 1]) /\ SetNull.op = "null"
        BY <3>1, <4>1 DEF Accounts, Op, SetNull
      <4>3. Op.slot \in books[at].held
        BY <3>3, <4>2 DEF Entry
      <4> QED
        BY <3>1, <4>3 DEF True
    <3>4. ASSUME Done PROVE live = {}
      <4>1. at = Len(Script) + 1
        BY <3>2, <3>4 DEF Done
      <4> QED
        BY <3>1, <4>1 DEF True
    <3> QED
      BY <3>3, <3>4 DEF FreesEachBlockOnce
  <2> QED
    BY <2>1, <2>2
<1> QED
  BY <1>1, <1>2, ProgramStep, BooksTrueStep, PTL DEF ProgramSpec
=============================================================================
