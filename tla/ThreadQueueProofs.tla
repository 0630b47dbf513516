------------------------- MODULE ThreadQueueProofs --------------------------
(***************************************************************************)
(* Theorems about the ready list in memory, for every number of threads    *)
(* and nodes and every policy, wherever the timer fires, until two uses of *)
(* the list overlap.                                                       *)
(***************************************************************************)
EXTENDS ThreadQueue, CollectionLemmas

-----------------------------------------------------------------------------
(***************************************************************************)
(* Nodes that point to each other.                                         *)
(***************************************************************************)
(* No node can be reached from itself: every set of nodes has one that
   points out of it. *)
NoCycle(next) == \A S \in SUBSET Nodes : S # {} => \E n \in S : next[n] \notin S

(* What a recursive definition along next says of f. *)
Follows(f, next, label) ==
  \A n \in Nodes : f[n] = <<label[n]>> \o f[next[n]]

Pointers == [Nodes -> Nodes \union {NULL}]

(* From the first node of c the pointers lead along c and to the end. *)
First(c) == IF c = <<>> THEN NULL ELSE c[1]
Along(next, c) ==
  /\ c \in Seq(Nodes)
  /\ \A k \in 1..Len(c) : next[c[k]] = IF k = Len(c) THEN NULL ELSE c[k + 1]

Labelings(T) == [Nodes -> T]
Collectors(T) == [Nodes \union {NULL} -> Seq(T)]
Labels(label, c) == [k \in 1..Len(c) |-> label[c[k]]]

LEMMA NodesFinite ==
  /\ IsFiniteSet(Nodes) /\ NULL \notin Nodes
  /\ \A S \in SUBSET Nodes : IsFiniteSet(S) /\ Cardinality(S) \in Nat
<1>1. IsFiniteSet(Nodes)
  BY BoundsAssumption, FS_Interval DEF Nodes
<1>2. NULL \notin Nodes
  BY BoundsAssumption DEF Nodes, NULL
<1>3. ASSUME NEW S \in SUBSET Nodes
      PROVE  IsFiniteSet(S) /\ Cardinality(S) \in Nat
  <2>1. IsFiniteSet(S)
    BY <1>1, FS_Subset
  <2> QED
    BY <2>1, FS_CardinalityType
<1> QED
  BY <1>1, <1>2, <1>3

(* Without a cycle such an f exists: it can be made for one node more as long
   as there is one left, because one of those left points out of them. *)
LEMMA FollowerExists ==
  ASSUME NEW next \in Pointers, NoCycle(next), NEW T, NEW label \in [Nodes -> T]
  PROVE  \E f \in [Nodes \union {NULL} -> Seq(T)] :
           f[NULL] = <<>> /\ Follows(f, next, label)
<1> DEFINE D == Nodes \union {NULL}
           Made(X) == /\ \A n \in X : next[n] \in X \union {NULL}
                      /\ \E f \in [D -> Seq(T)] :
                           /\ f[NULL] = <<>>
                           /\ \A n \in X : f[n] = <<label[n]>> \o f[next[n]]
           Left == {Cardinality(Nodes \ X) : X \in {X \in SUBSET Nodes : Made(X)}}
<1>1. Made({})
  <2> DEFINE f == [n \in D |-> <<>>]
  <2>1. f \in [D -> Seq(T)] /\ f[NULL] = <<>>
    OBVIOUS
  <2> HIDE DEF f
  <2> QED
    BY <2>1
<1>2. Left \in SUBSET Nat /\ Left # {}
  <2>1. {} \in {X \in SUBSET Nodes : Made(X)}
    BY <1>1
  <2>2. \A X \in SUBSET Nodes : Cardinality(Nodes \ X) \in Nat
    BY NodesFinite
  <2> HIDE DEF Made
  <2> QED
    BY <2>1, <2>2
<1>3. PICK least \in Left : \A k \in Left : least <= k
  BY <1>2, LeastNatural
<1>4. PICK X \in SUBSET Nodes : Made(X) /\ least = Cardinality(Nodes \ X)
  <2> HIDE DEF Made
  <2> QED
    BY <1>3
<1>5. X = Nodes
  <2> SUFFICES ASSUME Nodes \ X # {} PROVE FALSE
    OBVIOUS
  <2>1. PICK n \in Nodes \ X : next[n] \notin Nodes \ X
    BY DEF NoCycle
  <2>2. next[n] \in X \union {NULL}
    BY <2>1 DEF Pointers
  <2>3. PICK f \in [D -> Seq(T)] :
          /\ f[NULL] = <<>>
          /\ \A m \in X : f[m] = <<label[m]>> \o f[next[m]]
    BY <1>4
  <2> DEFINE g == [f EXCEPT ![n] = <<label[n]>> \o f[next[n]]]
             Y == X \union {n}
  <2>4. g \in [D -> Seq(T)] /\ g[NULL] = <<>> /\ g[n] = <<label[n]>> \o f[next[n]]
        /\ \A m \in D : m # n => g[m] = f[m]
    <3>1. next[n] \in D /\ n \in D /\ n # NULL /\ label[n] \in T
      BY <2>2, NodesFinite DEF Pointers
    <3>2. <<label[n]>> \o f[next[n]] \in Seq(T)
      <4>1. <<label[n]>> \in Seq(T) /\ f[next[n]] \in Seq(T)
        BY <3>1, <2>3
      <4> QED
        BY <4>1, ConcatProperties
    <3> QED
      BY <2>3, <3>1, <3>2
  <2> HIDE DEF g
  <2>5. \A m \in Y : next[m] \in X \union {NULL}
    BY <1>4, <2>2
  <2>6. \A m \in X \union {NULL} : m # n /\ m \in D
    BY <1>4, <2>1, NodesFinite
  <2>7. \A m \in Y : g[m] = <<label[m]>> \o g[next[m]]
    <3> SUFFICES ASSUME NEW m \in Y PROVE g[m] = <<label[m]>> \o g[next[m]]
      OBVIOUS
    <3>1. g[next[m]] = f[next[m]]
      BY <2>4, <2>5, <2>6
    <3>2. CASE m = n
      BY <2>4, <3>1, <3>2
    <3>3. CASE m # n
      <4>1. m \in X /\ m \in D
        BY <2>6, <3>3
      <4> QED
        BY <2>3, <2>4, <3>1, <3>3, <4>1
    <3> QED
      BY <3>2, <3>3
  <2>8. Made(Y) /\ Y \in SUBSET Nodes
    BY <2>4, <2>5, <2>7, <1>4, <2>1
  <2>9. Cardinality(Nodes \ Y) \in Left
    <3> HIDE DEF Made
    <3> QED
      BY <2>8
  <2>10. Cardinality(Nodes \ Y) = Cardinality(Nodes \ X) - 1
    <3>1. Nodes \ Y = (Nodes \ X) \ {n} /\ n \in Nodes \ X
      BY <2>1
    <3>2. IsFiniteSet(Nodes \ X)
      BY NodesFinite
    <3> DEFINE S == Nodes \ X
    <3> HIDE DEF S, Y
    <3>3. Cardinality(S \ {n}) = Cardinality(S) - 1
      BY <3>1, <3>2, FS_RemoveElement DEF S
    <3> QED
      BY <3>1, <3>3 DEF S
  <2>11. Cardinality(Nodes \ X) \in Nat
    BY NodesFinite
  <2> DEFINE left == Cardinality(Nodes \ X)
             less == Cardinality(Nodes \ Y)
  <2>12. left \in Nat /\ less = left - 1 /\ least = left /\ less \in Left
    BY <1>4, <2>9, <2>10, <2>11
  <2>13. left <= less
    BY <1>3, <2>12
  <2> HIDE DEF left, less
  <2> QED
    BY <2>12, <2>13
<1> QED
  BY <1>4, <1>5 DEF Follows

(* Along a path to the end it collects the labels. *)
LEMMA FollowerOnPath ==
  ASSUME NEW next \in Pointers, NEW T, NEW label \in Labelings(T),
         NEW f \in Collectors(T), f[NULL] = <<>>, Follows(f, next, label), NEW c, Along(next, c)
  PROVE  f[First(c)] = Labels(label, c)
<1>0. /\ c \in Seq(Nodes)
      /\ \A k \in 1..Len(c) : next[c[k]] = IF k = Len(c) THEN NULL ELSE c[k + 1]
  BY DEF Along
<1>01. label \in [Nodes -> T] /\ f \in [Nodes \union {NULL} -> Seq(T)]
  BY DEF Labelings, Collectors
<1> SUFFICES f[IF c = <<>> THEN NULL ELSE c[1]] = [k \in 1..Len(c) |-> label[c[k]]]
  BY DEF First, Labels
<1> DEFINE n == Len(c)
           Collects(j) ==
             LET s == f[c[n - j]]
             IN  /\ s \in Seq(T) /\ Len(s) = j + 1
                 /\ \A k \in 1..(j + 1) : s[k] = label[c[n - j + k - 1]]
           S == {j \in Nat : j < n => Collects(j)}
<1>1. n \in Nat /\ \A k \in 1..n : c[k] \in Nodes /\ label[c[k]] \in T
  BY <1>0, <1>01, LenProperties, ElementOfSeq
<1>2. ASSUME NEW k \in 1..n, NEW s \in Seq(T),
             s = f[IF k = n THEN NULL ELSE c[k + 1]]
      PROVE  /\ f[c[k]] \in Seq(T) /\ Len(f[c[k]]) = Len(s) + 1
             /\ f[c[k]][1] = label[c[k]]
             /\ \A m \in 1..Len(s) : f[c[k]][m + 1] = s[m]
  <2> DEFINE a == label[c[k]]
  <2>1. f[c[k]] = <<a>> \o s
    BY <1>0, <1>01, <1>1, <1>2 DEF Follows
  <2>2. a \in T
    BY <1>1
  <2> HIDE DEF a, n
  <2>3. <<a>> \in Seq(T) /\ Len(<<a>>) = 1 /\ <<a>>[1] = a
    BY <2>2
  <2>4. Len(s) \in Nat
    BY LenProperties
  <2>5. /\ <<a>> \o s \in Seq(T) /\ Len(<<a>> \o s) = 1 + Len(s)
        /\ \A m \in 1..(1 + Len(s)) :
             (<<a>> \o s)[m] = IF m <= 1 THEN <<a>>[m] ELSE s[m - 1]
    BY <2>3, ConcatProperties
  <2>6. \A m \in 1..Len(s) :
          m + 1 \in 1..(1 + Len(s)) /\ ~(m + 1 <= 1) /\ (m + 1) - 1 = m
    BY <2>4
  <2>7. 1 \in 1..(1 + Len(s))
    BY <2>4
  <2>8. (<<a>> \o s)[1] = a
    BY <2>3, <2>5, <2>7
  <2>9. \A m \in 1..Len(s) : (<<a>> \o s)[m + 1] = s[m]
    BY <2>5, <2>6
  <2> QED
    BY <2>1, <2>4, <2>5, <2>8, <2>9 DEF a
<1> HIDE DEF n
<1>3. ASSUME 0 < n PROVE Collects(0)
  <2>1. n \in 1..n /\ n - 0 = n
    BY <1>1, <1>3
  <2>2. <<>> \in Seq(T) /\ Len(<<>>) = 0
    BY EmptySeq
  <2>3. f[c[n]] \in Seq(T) /\ Len(f[c[n]]) = 0 + 1 /\ f[c[n]][1] = label[c[n]]
    BY <1>2, <2>1, <2>2
  <2>4. \A k \in 1..(0 + 1) : k = 1 /\ n - 0 + k - 1 = n
    BY <1>1
  <2> QED
    BY <2>1, <2>3, <2>4
<1>31. 0 \in S
  <2> HIDE DEF Collects
  <2> QED
    BY <1>3
<1>4. ASSUME NEW j \in Nat, j \in S PROVE j + 1 \in S
  <2> SUFFICES ASSUME j + 1 < n PROVE Collects(j + 1)
    <3> HIDE DEF Collects
    <3> QED
      OBVIOUS
  <2> DEFINE i == n - (j + 1)
             s == f[c[n - j]]
  <2>1. i \in 1..n /\ i # n /\ i + 1 = n - j /\ j < n
    BY <1>1
  <2>2. /\ s \in Seq(T) /\ Len(s) = j + 1
        /\ \A k \in 1..(j + 1) : s[k] = label[c[n - j + k - 1]]
    BY <1>4, <2>1
  <2>3. s = f[IF i = n THEN NULL ELSE c[i + 1]]
    BY <2>1
  <2> HIDE DEF s, i
  <2>4. /\ f[c[i]] \in Seq(T) /\ Len(f[c[i]]) = Len(s) + 1
        /\ f[c[i]][1] = label[c[i]]
        /\ \A m \in 1..Len(s) : f[c[i]][m + 1] = s[m]
    BY <1>2, <2>1, <2>2, <2>3
  <2>5. ASSUME NEW k \in 1..((j + 1) + 1)
        PROVE  f[c[i]][k] = label[c[n - (j + 1) + k - 1]]
    <3>1. CASE k = 1
      <4>1. n - (j + 1) + k - 1 = i
        BY <1>1, <3>1 DEF i
      <4> QED
        BY <2>4, <3>1, <4>1
    <3>2. CASE k # 1
      <4>1. /\ k - 1 \in 1..(j + 1) /\ (k - 1) + 1 = k
            /\ n - j + (k - 1) - 1 = n - (j + 1) + k - 1
        BY <1>1, <3>2
      <4>2. f[c[i]][k] = s[k - 1]
        BY <2>2, <2>4, <4>1
      <4> QED
        BY <2>2, <4>1, <4>2
    <3> QED
      BY <3>1, <3>2
  <2> QED
    BY <2>2, <2>4, <2>5 DEF i
<1>5. CASE n = 0
  <2>1. c = <<>> /\ 1..n = {}
    BY <1>5, EmptySeq DEF n
  <2> QED
    BY <2>1, <1>5 DEF n
<1>6. CASE n # 0
  <2>1. n - 1 \in Nat /\ n - 1 < n /\ n - (n - 1) = 1 /\ (n - 1) + 1 = n
        /\ \A k \in 1..n : 1 + k - 1 = k
    BY <1>1, <1>6
  <2>2. n - 1 \in S
    <3> HIDE DEF S
    <3> QED
      BY <1>31, <1>4, <2>1, Induction
  <2>3. Collects(n - 1)
    BY <2>1, <2>2
  <2>4. /\ f[c[1]] \in Seq(T) /\ Len(f[c[1]]) = n
        /\ \A k \in 1..n : f[c[1]][k] = label[c[k]]
    BY <2>1, <2>3
  <2>5. c # <<>>
    BY <1>6, EmptySeq DEF n
  <2>6. f[c[1]] = [k \in 1..n |-> f[c[1]][k]]
    BY <2>4, LenProperties
  <2> QED
    BY <2>4, <2>5, <2>6 DEF n
<1> QED
  BY <1>5, <1>6

-----------------------------------------------------------------------------
(***************************************************************************)
(* The list in memory.                                                     *)
(***************************************************************************)
Heaps == [head : Nodes \union {NULL}, tail : Nodes \union {NULL}, size : Int,
          next : Pointers, thread : [Nodes -> Threads \union {0}],
          alive : SUBSET Nodes, ok : BOOLEAN]

(* The nodes from the head to the end are c. *)
IsPath(h, c) == Along(h.next, c) /\ h.head = First(c)

IsFunction(f) == f = [n \in Nodes \union {NULL} |-> f[n]]

(* A function that follows the pointers is one of sequences. *)
LEMMA FollowerIs ==
  ASSUME NEW next \in Pointers, NoCycle(next), NEW T, NEW label \in Labelings(T),
         NEW f, IsFunction(f),
         f[NULL] = <<>>, Follows(f, next, label), NEW c, Along(next, c)
  PROVE  f[First(c)] = Labels(label, c)
<1>0. label \in [Nodes -> T]
  BY DEF Labelings
<1> DEFINE Other == {n \in Nodes : f[n] \notin Seq(T)}
<1>1. Other = {}
  <2> SUFFICES ASSUME Other # {} PROVE FALSE
    OBVIOUS
  <2>1. PICK n \in Other : next[n] \notin Other
    BY DEF NoCycle
  <2>2. n \in Nodes /\ next[n] \in Nodes \union {NULL}
    BY <2>1 DEF Pointers
  <2>3. <<>> \in Seq(T)
    OBVIOUS
  <2>4. f[next[n]] \in Seq(T)
    BY <2>1, <2>2, <2>3
  <2>5. <<label[n]>> \in Seq(T)
    <3>1. label[n] \in T
      BY <1>0, <2>2
    <3> QED
      BY <3>1
  <2>6. f[n] \in Seq(T)
    BY <2>2, <2>4, <2>5, ConcatProperties DEF Follows
  <2> QED
    BY <2>1, <2>6
<1>2. \A n \in Nodes \union {NULL} : f[n] \in Seq(T)
  <2>1. <<>> \in Seq(T)
    OBVIOUS
  <2>2. \A n \in Nodes : f[n] \in Seq(T)
    BY <1>1
  <2> QED
    BY <2>1, <2>2
<1>3. f \in Collectors(T)
  <2> DEFINE D == Nodes \union {NULL}
             Q == Seq(T)
  <2>1. f = [n \in D |-> f[n]] /\ \A n \in D : f[n] \in Q
    BY <1>2 DEF IsFunction
  <2> HIDE DEF D, Q
  <2>2. f \in [D -> Q]
    BY <2>1
  <2> QED
    BY <2>2 DEF D, Q, Collectors
<1> QED
  BY <1>3, FollowerOnPath

(* Where the nodes from the head on are c, Chain and Queue are what they are
   meant to be. *)
LEMMA PathIsChain ==
  ASSUME NEW h \in Heaps, NoCycle(h.next), NEW c, IsPath(h, c)
  PROVE  /\ Chain(h) = c
         /\ Queue(h) = Labels(h.thread, c)
<1> DEFINE D == Nodes \union {NULL}
           start == First(c)
<1>1. /\ h.next \in Pointers /\ h.thread \in [Nodes -> Threads \union {0}]
      /\ c \in Seq(Nodes) /\ Len(c) \in Nat /\ h.head = start
      /\ Along(h.next, c)
      /\ \A k \in 1..Len(c) : c[k] \in Nodes
  BY LenProperties, ElementOfSeq DEF Heaps, IsPath, Along
<1>2. NULL \in D /\ \A n \in D : n # NULL <=> n \in Nodes
  BY NodesFinite
<1>3. Chain(h) = c
  <2> DEFINE label == [n \in Nodes |-> n]
             Def(f) == f = [n \in D |-> IF n = NULL THEN <<>>
                                        ELSE <<n>> \o f[h.next[n]]]
             from == CHOOSE f : Def(f)
  <2>1. label \in [Nodes -> Nodes] /\ label \in Labelings(Nodes)
    BY DEF Labelings
  <2>2. PICK f \in [D -> Seq(Nodes)] :
          f[NULL] = <<>> /\ Follows(f, h.next, label)
    BY <1>1, <2>1, FollowerExists
  <2>3. Def(f)
    <3> DEFINE g == [n \in D |-> IF n = NULL THEN <<>> ELSE <<n>> \o f[h.next[n]]]
    <3>1. ASSUME NEW n \in D PROVE f[n] = g[n]
      BY <1>2, <2>2 DEF Follows
    <3>2. f = [n \in D |-> f[n]] /\ g = [n \in D |-> g[n]]
      BY <2>2
    <3> HIDE DEF g
    <3>3. f = g
      BY <3>1, <3>2
    <3> QED
      BY <3>3 DEF g
  <2>4. Def(from)
    <3> HIDE DEF Def
    <3> QED
      BY <2>3
  <2>5. Chain(h) = from[start]
    BY <1>1 DEF Chain
  <2> HIDE DEF from
  <2>6. /\ IsFunction(from)
        /\ \A n \in D : from[n] = IF n = NULL THEN <<>> ELSE <<n>> \o from[h.next[n]]
    <3>1. from = [n \in D |-> IF n = NULL THEN <<>> ELSE <<n>> \o from[h.next[n]]]
      BY <2>4
    <3>2. from = [n \in D |-> from[n]]
      BY ONLY <3>1
    <3>3. IsFunction(from)
      BY <3>2 DEF IsFunction
    <3>4. \A n \in D : from[n] = IF n = NULL THEN <<>> ELSE <<n>> \o from[h.next[n]]
      BY ONLY <3>1
    <3> QED
      BY <3>3, <3>4
  <2>7. from[NULL] = <<>> /\ Follows(from, h.next, label)
    BY <1>2, <2>6 DEF Follows
  <2> HIDE DEF label, Def
  <2>8. from[start] = Labels(label, c)
    BY <1>1, <2>1, <2>6, <2>7, FollowerIs
  <2>9. c = [k \in 1..Len(c) |-> c[k]]
    BY <1>1
  <2>10. \A k \in 1..Len(c) : label[c[k]] = c[k]
    BY <1>1 DEF label
  <2>11. from[start] = c
    BY <2>8, <2>9, <2>10 DEF Labels
  <2> QED
    BY <2>5, <2>11
<1>4. Queue(h) = Labels(h.thread, c)
  <2> DEFINE label == h.thread
             T == Threads \union {0}
             Def(f) == f = [n \in D |-> IF n = NULL THEN <<>>
                                        ELSE <<h.thread[n]>> \o f[h.next[n]]]
             from == CHOOSE f : Def(f)
  <2>1. label \in Labelings(T)
    BY <1>1 DEF Labelings
  <2>2. PICK f \in [D -> Seq(T)] :
          f[NULL] = <<>> /\ Follows(f, h.next, label)
    BY <1>1, FollowerExists
  <2>3. Def(f)
    <3> DEFINE g == [n \in D |-> IF n = NULL THEN <<>>
                                ELSE <<h.thread[n]>> \o f[h.next[n]]]
    <3>1. ASSUME NEW n \in D PROVE f[n] = g[n]
      BY <1>2, <2>2 DEF Follows
    <3>2. f = [n \in D |-> f[n]] /\ g = [n \in D |-> g[n]]
      BY <2>2
    <3> HIDE DEF g
    <3>3. f = g
      BY <3>1, <3>2
    <3> QED
      BY <3>3 DEF g
  <2>4. Def(from)
    <3> HIDE DEF Def
    <3> QED
      BY <2>3
  <2>5. Queue(h) = from[start]
    BY <1>1 DEF Queue
  <2> HIDE DEF from
  <2>6. /\ IsFunction(from)
        /\ \A n \in D : from[n] = IF n = NULL THEN <<>>
                                  ELSE <<h.thread[n]>> \o from[h.next[n]]
    <3>1. from = [n \in D |-> IF n = NULL THEN <<>>
                             ELSE <<h.thread[n]>> \o from[h.next[n]]]
      BY <2>4
    <3>2. from = [n \in D |-> from[n]]
      BY ONLY <3>1
    <3>3. IsFunction(from)
      BY <3>2 DEF IsFunction
    <3>4. \A n \in D : from[n] = IF n = NULL THEN <<>>
                               ELSE <<h.thread[n]>> \o from[h.next[n]]
      BY ONLY <3>1
    <3> QED
      BY <3>3, <3>4
  <2>7. from[NULL] = <<>> /\ Follows(from, h.next, label)
    BY <1>2, <2>6 DEF Follows
  <2> HIDE DEF Def
  <2>8. from[start] = Labels(label, c)
    BY <1>1, <2>1, <2>6, <2>7, FollowerIs
  <2> QED
    BY <2>5, <2>8
<1> QED
  BY <1>3, <1>4

-----------------------------------------------------------------------------
(***************************************************************************)
(* What the writes do to pointers without a cycle and to a path.           *)
(***************************************************************************)
On(c) == {c[k] : k \in 1..Len(c)}

(* c up to its i-th node, then n. *)
Grown(c, i, n) == Append(SubSeq(c, 1, i), n)

LEMMA PathFacts ==
  ASSUME NEW next \in Pointers, NEW c, Along(next, c)
  PROVE  /\ c \in Seq(Nodes) /\ Len(c) \in Nat
         /\ \A k \in 1..Len(c) : c[k] \in Nodes /\ c[k] \in On(c)
         /\ \A k \in 1..Len(c) : k # Len(c) => k + 1 \in 1..Len(c)
                                               /\ next[c[k]] = c[k + 1]
         /\ c # <<>> => Len(c) \in 1..Len(c) /\ 1 \in 1..Len(c)
                        /\ next[c[Len(c)]] = NULL /\ First(c) = c[1]
         /\ c = <<>> <=> Len(c) = 0
         /\ On(c) \subseteq Nodes
<1>1. c \in Seq(Nodes)
  BY DEF Along
<1>2. Len(c) \in Nat /\ (c = <<>> <=> Len(c) = 0)
  BY <1>1, EmptySeq, LenProperties
<1>3. \A k \in 1..Len(c) : c[k] \in Nodes
  BY <1>1, ElementOfSeq
<1> QED
  BY <1>1, <1>2, <1>3 DEF Along, On, First

(* The nodes of a path to the end are different from each other: those from
   the first to before the second occurrence of one would lead to each other
   only. *)
LEMMA PathIsSimple ==
  ASSUME NEW next \in Pointers, NoCycle(next), NEW c, Along(next, c)
  PROVE  \A i, j \in 1..Len(c) : c[i] = c[j] => i = j
<1>0. /\ Len(c) \in Nat /\ \A k \in 1..Len(c) : c[k] \in Nodes
      /\ \A k \in 1..Len(c) : k # Len(c) => next[c[k]] = c[k + 1]
  BY PathFacts
<1>1. ASSUME NEW i \in 1..Len(c), NEW j \in 1..Len(c), c[i] = c[j], i < j
      PROVE  FALSE
  <2> DEFINE S == {c[m] : m \in i..(j - 1)}
  <2>1. S \in SUBSET Nodes /\ S # {}
    <3>1. \A m \in i..(j - 1) : m \in 1..Len(c)
      BY <1>0
    <3>2. i \in i..(j - 1)
      BY <1>0, <1>1
    <3> QED
      BY <1>0, <3>1, <3>2
  <2>2. \A n \in S : next[n] \in S
    <3> SUFFICES ASSUME NEW m \in i..(j - 1) PROVE next[c[m]] \in S
      OBVIOUS
    <3>1. m \in 1..Len(c) /\ m # Len(c)
      BY <1>0, <1>1
    <3>2. next[c[m]] = c[m + 1]
      BY <1>0, <3>1
    <3>3. CASE m = j - 1
      <4>1. m + 1 = j /\ i \in i..(j - 1)
        BY <3>3, <1>1, <1>0
      <4> QED
        BY <4>1, <3>2, <1>1
    <3>4. CASE m # j - 1
      <4>1. m + 1 \in i..(j - 1)
        BY <3>4, <1>0
      <4> QED
        BY <4>1, <3>2
    <3> QED
      BY <3>3, <3>4
  <2> HIDE DEF S
  <2> QED
    BY <2>1, <2>2 DEF NoCycle
<1> QED
  BY <1>0, <1>1

(* A write to a node that is not on the path. *)
LEMMA OffPath ==
  ASSUME NEW next \in Pointers, NEW c, Along(next, c),
         NEW n \in Nodes \ On(c), NEW v
  PROVE  Along([next EXCEPT ![n] = v], c)
<1>1. /\ c \in Seq(Nodes) /\ \A k \in 1..Len(c) : c[k] \in Nodes /\ c[k] # n
  BY PathFacts DEF On
<1>2. \A k \in 1..Len(c) : [next EXCEPT ![n] = v][c[k]] = next[c[k]]
  BY <1>1 DEF Pointers
<1> QED
  BY <1>1, <1>2 DEF Along

LEMMA GrownProperties ==
  ASSUME NEW T, NEW c \in Seq(T), NEW i \in 0..Len(c), NEW n \in T
  PROVE  /\ Grown(c, i, n) \in Seq(T) /\ Len(Grown(c, i, n)) = i + 1
         /\ \A k \in 1..i : Grown(c, i, n)[k] = c[k]
         /\ Grown(c, i, n)[i + 1] = n
         /\ i = Len(c) => Grown(c, i, n) = Append(c, n)
         /\ i = 0 => Grown(c, i, n) = <<n>>
<1> DEFINE front == SubSeq(c, 1, i)
<1>0. Len(c) \in Nat /\ i \in Nat
  BY LenProperties
<1>1. /\ front \in Seq(T) /\ Len(front) = i /\ \A k \in 1..i : front[k] = c[k]
  OBVIOUS
<1>2. i = Len(c) => front = c
  BY <1>0
<1>3. i = 0 => front = <<>>
  BY <1>0, <1>1, EmptySeq
<1> HIDE DEF front
<1>4. /\ Append(front, n) \in Seq(T) /\ Len(Append(front, n)) = i + 1
      /\ \A k \in 1..i : Append(front, n)[k] = front[k]
      /\ Append(front, n)[i + 1] = n
  BY <1>0, <1>1, AppendProperties
<1>5. Append(<<>>, n) = <<n>>
  OBVIOUS
<1>6. Grown(c, i, n) = Append(front, n)
  BY DEF Grown, front
<1> QED
  BY <1>0, <1>1, <1>2, <1>3, <1>4, <1>5, <1>6

(* The i-th node of the path now points to a node with nothing behind it. *)
LEMMA Relinked ==
  ASSUME NEW next \in Pointers, NoCycle(next), NEW c, Along(next, c),
         NEW i \in 1..Len(c), NEW n \in Nodes \ On(c), next[n] = NULL
  PROVE  Along([next EXCEPT ![c[i]] = n], Grown(c, i, n))
<1> DEFINE d == Grown(c, i, n)
           g == [next EXCEPT ![c[i]] = n]
<1>1. /\ c \in Seq(Nodes) /\ Len(c) \in Nat
      /\ \A k \in 1..Len(c) : c[k] \in Nodes /\ c[k] \in On(c)
      /\ \A k \in 1..Len(c) : k # Len(c) => next[c[k]] = c[k + 1]
  BY PathFacts
<1>2. /\ d \in Seq(Nodes) /\ Len(d) = i + 1
      /\ \A k \in 1..i : d[k] = c[k]
      /\ d[i + 1] = n
  BY <1>1, GrownProperties
<1>3. \A j \in 1..Len(c) : j # i => c[j] # c[i]
  BY PathIsSimple
<1>4. ASSUME NEW k \in 1..Len(d)
      PROVE  g[d[k]] = IF k = Len(d) THEN NULL ELSE d[k + 1]
  <2> HIDE DEF d
  <2>1. CASE k = i + 1
    <3>1. d[k] = n /\ n # c[i] /\ n \in Nodes
      BY <2>1, <1>1, <1>2
    <3>2. g[n] = next[n]
      BY <3>1 DEF Pointers
    <3> QED
      BY <2>1, <3>1, <3>2, <1>2
  <2>2. CASE k = i
    <3>1. d[k] = c[i] /\ c[i] \in Nodes /\ k # Len(d) /\ d[k + 1] = n
      BY <2>2, <1>1, <1>2
    <3>2. g[c[i]] = n
      BY <3>1 DEF Pointers
    <3> QED
      BY <3>1, <3>2
  <2>3. CASE k # i /\ k # i + 1
    <3>1. k \in 1..i /\ k \in 1..Len(c) /\ k # Len(c) /\ k # Len(d) /\ k + 1 \in 1..i
      BY <2>3, <1>1, <1>2
    <3>2. d[k] = c[k] /\ c[k] \in Nodes /\ c[k] # c[i] /\ d[k + 1] = c[k + 1]
      BY <3>1, <1>1, <1>2, <1>3
    <3>3. g[c[k]] = next[c[k]]
      BY <3>2 DEF Pointers
    <3> QED
      BY <3>1, <3>2, <3>3, <1>1
  <2> QED
    BY <2>1, <2>2, <2>3
<1> HIDE DEF d, g
<1>5. Along(g, d)
  BY <1>2, <1>4 DEF Along
<1> QED
  BY <1>5 DEF d, g

(* The path without its first node. *)
LEMMA Beheaded ==
  ASSUME NEW next \in Pointers, NEW c, Along(next, c), c # <<>>
  PROVE  /\ Along(next, Tail(c)) /\ First(Tail(c)) = next[c[1]]
         /\ Len(Tail(c)) = Len(c) - 1
         /\ \A k \in 1..(Len(c) - 1) : Tail(c)[k] = c[k + 1]
         /\ Tail(c) = RemoveAt(c, 1)
<1> DEFINE d == Tail(c)
           n == Len(c)
<1>1. c \in Seq(Nodes) /\ n \in Nat /\ n # 0 /\ 1 \in 1..n
  BY PathFacts
<1>2. /\ d \in Seq(Nodes) /\ Len(d) = n - 1
      /\ \A k \in 1..(n - 1) : d[k] = c[k + 1]
  BY <1>1, HeadTailProperties
<1>3. d = RemoveAt(c, 1)
  <2> DEFINE e == RemoveAt(c, 1)
  <2>1. /\ e \in Seq(Nodes) /\ Len(e) = n - 1
        /\ \A k \in 1..(n - 1) : e[k] = IF k < 1 THEN c[k] ELSE c[k + 1]
    BY <1>1, RemoveAtProperties
  <2> HIDE DEF d, e, n
  <2>2. \A k \in 1..Len(d) : d[k] = e[k]
    BY <2>1, <1>2
  <2> QED
    BY <1>2, <2>1, <2>2, SeqEqual DEF d, e
<1>4. /\ \A k \in 1..n : k # n => next[c[k]] = c[k + 1]
      /\ next[c[n]] = NULL
  BY PathFacts
<1> HIDE DEF d, n
<1>5. ASSUME NEW k \in 1..Len(d)
      PROVE  next[d[k]] = IF k = Len(d) THEN NULL ELSE d[k + 1]
  <2>1. k + 1 \in 1..n /\ d[k] = c[k + 1] /\ (k = Len(d) <=> k + 1 = n)
    BY <1>1, <1>2
  <2>2. CASE k = Len(d)
    BY <2>1, <2>2, <1>4
  <2>3. CASE k # Len(d)
    <3>1. k + 1 \in 1..(n - 1)
      BY <2>3, <1>1, <1>2
    <3> QED
      BY <2>1, <2>3, <3>1, <1>2, <1>4
  <2> QED
    BY <2>2, <2>3
<1>6. First(d) = next[c[1]]
  <2>1. CASE n = 1
    <3>1. d = <<>>
      BY <2>1, <1>2, EmptySeq
    <3> QED
      BY <3>1, <2>1, <1>4 DEF First
  <2>2. CASE n # 1
    <3>1. d # <<>> /\ 1 \in 1..(n - 1)
      BY <2>2, <1>1, <1>2, EmptySeq
    <3> QED
      BY <3>1, <2>2, <1>1, <1>2, <1>4 DEF First
  <2> QED
    BY <2>1, <2>2
<1>7. Along(next, d)
  BY <1>2, <1>5 DEF Along
<1> QED
  BY <1>2, <1>3, <1>6, <1>7 DEF d, n

(* The path without a later node. *)
LEMMA Bypassed ==
  ASSUME NEW next \in Pointers, NoCycle(next), NEW c, Along(next, c),
         NEW k \in 2..Len(c)
  PROVE  /\ Along([next EXCEPT ![c[k - 1]] = next[c[k]]], RemoveAt(c, k))
         /\ First(RemoveAt(c, k)) = First(c)
         /\ RemoveAt(c, k) # <<>>
<1> DEFINE d == RemoveAt(c, k)
           g == [next EXCEPT ![c[k - 1]] = next[c[k]]]
           n == Len(c)
<1>1. /\ c \in Seq(Nodes) /\ n \in Nat
      /\ k \in 1..n /\ k - 1 \in 1..n /\ 1 \in 1..(n - 1) /\ 1 < k
      /\ \A j \in 1..n : c[j] \in Nodes
      /\ \A j \in 1..n : next[c[j]] = IF j = n THEN NULL ELSE c[j + 1]
  BY PathFacts DEF Along
<1>2. /\ d \in Seq(Nodes) /\ Len(d) = n - 1
      /\ \A j \in 1..(n - 1) : d[j] = IF j < k THEN c[j] ELSE c[j + 1]
  BY <1>1, RemoveAtProperties
<1>3. \A j \in 1..n : j # k - 1 => c[j] # c[k - 1]
  BY <1>1, PathIsSimple
<1>4. /\ g[c[k - 1]] = next[c[k]]
      /\ \A j \in 1..n : j # k - 1 => g[c[j]] = next[c[j]]
  BY <1>1, <1>3 DEF Pointers
<1> HIDE DEF d, g, n
<1>5. ASSUME NEW j \in 1..Len(d)
      PROVE  g[d[j]] = IF j = Len(d) THEN NULL ELSE d[j + 1]
  <2>0. j \in 1..(n - 1) /\ j \in 1..n /\ j + 1 \in 1..n
    BY <1>1, <1>2
  <2>1. CASE j < k - 1
    <3>1. j < k /\ j + 1 < k /\ j # k - 1 /\ j # n /\ j # Len(d)
          /\ j + 1 \in 1..(n - 1)
      BY <2>0, <2>1, <1>1, <1>2
    <3> QED
      BY <3>1, <2>0, <1>1, <1>2, <1>4
  <2>2. CASE j = k - 1
    <3>1. d[j] = c[k - 1] /\ g[d[j]] = next[c[k]]
      BY <2>0, <2>2, <1>1, <1>2, <1>4
    <3>2. CASE k = n
      BY <3>1, <3>2, <2>2, <1>1, <1>2
    <3>3. CASE k # n
      <4>1. k \in 1..(n - 1) /\ ~(k < k) /\ j + 1 = k /\ j # Len(d)
        BY <3>3, <2>2, <1>1, <1>2
      <4>2. d[j + 1] = c[k + 1]
        BY <4>1, <1>2
      <4> QED
        BY <4>1, <4>2, <3>1, <3>3, <1>1
    <3> QED
      BY <3>2, <3>3
  <2>3. CASE j > k - 1
    <3>1. ~(j < k) /\ j + 1 # k - 1 /\ d[j] = c[j + 1]
      BY <2>0, <2>3, <1>1, <1>2
    <3>2. g[d[j]] = next[c[j + 1]]
      BY <3>1, <2>0, <1>4
    <3>3. CASE j = n - 1
      BY <3>2, <3>3, <2>0, <1>1, <1>2
    <3>4. CASE j # n - 1
      <4>1. j + 1 \in 1..(n - 1) /\ ~(j + 1 < k) /\ j # Len(d) /\ j + 1 # n
        BY <3>4, <2>0, <2>3, <1>1, <1>2
      <4>2. d[j + 1] = c[(j + 1) + 1]
        BY <4>1, <1>2
      <4> QED
        BY <4>1, <4>2, <3>2, <2>0, <1>1
    <3> QED
      BY <3>3, <3>4
  <2> QED
    BY <2>0, <2>1, <2>2, <2>3, <1>1
<1>6. Along(g, d)
  BY <1>2, <1>5 DEF Along
<1>7. d # <<>> /\ c # <<>> /\ d[1] = c[1]
  BY <1>1, <1>2, EmptySeq DEF n
<1> QED
  BY <1>6, <1>7 DEF First, d, g

LEMMA StillNoCycle ==
  ASSUME NEW next \in Pointers, NoCycle(next), NEW m \in Nodes
  PROVE  /\ NoCycle([next EXCEPT ![m] = NULL])
         /\ \A n \in Nodes : next[n] = NULL /\ m # n
              => NoCycle([next EXCEPT ![m] = n])
         /\ next[m] \in Nodes => NoCycle([next EXCEPT ![m] = next[next[m]]])
<1>0. \A n \in Nodes : next[n] \in Nodes \union {NULL}
  BY DEF Pointers
<1>1. NoCycle([next EXCEPT ![m] = NULL])
  <2> DEFINE g == [next EXCEPT ![m] = NULL]
  <2>1. g[m] = NULL /\ \A x \in Nodes : x # m => g[x] = next[x]
    BY DEF Pointers
  <2> HIDE DEF g
  <2>2. ASSUME NEW S \in SUBSET Nodes, S # {} PROVE \E x \in S : g[x] \notin S
    <3>1. CASE m \in S
      BY <3>1, <2>1, NodesFinite
    <3>2. CASE m \notin S
      BY <3>2, <2>1, <2>2 DEF NoCycle
    <3> QED
      BY <3>1, <3>2
  <2> QED
    BY <2>2 DEF NoCycle, g
<1>2. ASSUME NEW n \in Nodes, next[n] = NULL, m # n
      PROVE  NoCycle([next EXCEPT ![m] = n])
  <2> DEFINE g == [next EXCEPT ![m] = n]
  <2>1. g[m] = n /\ \A x \in Nodes : x # m => g[x] = next[x]
    BY DEF Pointers
  <2> HIDE DEF g
  <2>2. ASSUME NEW S \in SUBSET Nodes, S # {} PROVE \E x \in S : g[x] \notin S
    <3>1. CASE n \in S
      BY <3>1, <2>1, <1>2, NodesFinite
    <3>2. CASE n \notin S /\ m \in S
      BY <3>2, <2>1
    <3>3. CASE m \notin S
      BY <3>3, <2>1, <2>2 DEF NoCycle
    <3> QED
      BY <3>1, <3>2, <3>3
  <2> QED
    BY <2>2 DEF NoCycle, g
<1>3. ASSUME next[m] \in Nodes
      PROVE  NoCycle([next EXCEPT ![m] = next[next[m]]])
  <2> DEFINE y == next[m]
             g == [next EXCEPT ![m] = next[y]]
  <2>1. g[m] = next[y] /\ \A x \in Nodes : x # m => g[x] = next[x]
    BY DEF Pointers
  <2> HIDE DEF g
  <2>2. ASSUME NEW S \in SUBSET Nodes, S # {} PROVE \E x \in S : g[x] \notin S
    <3>1. CASE m \notin S
      BY <3>1, <2>1, <2>2 DEF NoCycle
    <3>2. CASE m \in S
      <4> DEFINE R == S \union {y}
      <4>1. R \in SUBSET Nodes /\ R # {}
        BY <1>3, <3>2
      <4>2. PICK x \in R : next[x] \notin R
        BY <4>1 DEF NoCycle
      <4>3. x # m
        BY <4>2
      <4>4. CASE x \in S
        BY <4>2, <4>3, <4>4, <2>1
      <4>5. CASE x = y
        <5>1. next[y] \notin S
          BY <4>2, <4>5
        <5> QED
          BY <5>1, <3>2, <2>1
      <4> QED
        BY <4>4, <4>5
    <3> QED
      BY <3>1, <3>2
  <2> QED
    BY <2>2 DEF NoCycle, g
<1> QED
  BY <1>1, <1>2, <1>3

-----------------------------------------------------------------------------
(***************************************************************************)
(* What the operations do to the list in memory.                           *)
(***************************************************************************)
(* The pointers from the head make a path through allocated nodes, each of
   which has a thread, and thread_enqueue has somewhere to write. *)
Sound(h, c) ==
  /\ h \in Heaps /\ h.ok = TRUE /\ NoCycle(h.next)
  /\ IsPath(h, c) /\ On(c) \subseteq h.alive
  /\ \A n \in h.alive : h.thread[n] \in Threads
  /\ (h.size # 0 \/ c # <<>>) => h.tail \in h.alive

(* Besides, the size and the tail are those of the path. *)
Clean(h, c) ==
  /\ Sound(h, c) /\ h.size = Len(c)
  /\ c # <<>> => h.tail = c[Len(c)]

(* The nodes that were not on the path c are not on the path d, and are what
   they were. *)
Keeps(h, c, g, d) ==
  \A n \in h.alive \ On(c) :
    n \in g.alive \ On(d) /\ g.next[n] = h.next[n] /\ g.thread[n] = h.thread[n]

LEMMA KeepsTransitive ==
  ASSUME NEW h, NEW c, NEW g, NEW d, NEW f, NEW e,
         Keeps(h, c, g, d), Keeps(g, d, f, e)
  PROVE  Keeps(h, c, f, e)
BY DEF Keeps

LEMMA HeapFields ==
  ASSUME NEW h \in Heaps
  PROVE  /\ h.head \in Nodes \union {NULL} /\ h.tail \in Nodes \union {NULL}
         /\ h.size \in Int /\ h.next \in Pointers
         /\ h.thread \in [Nodes -> Threads \union {0}]
         /\ h.alive \in SUBSET Nodes /\ h.ok \in BOOLEAN
BY DEF Heaps

LEMMA NewNodeFields ==
  ASSUME NEW h \in Heaps, NEW t \in Threads \union {0}, NEW n \in Nodes
  PROVE  LET g == NewNode(h, t, n) IN
         /\ g \in Heaps /\ g.head = h.head /\ g.tail = h.tail /\ g.size = h.size
         /\ g.ok = h.ok /\ g.alive = h.alive \union {n}
         /\ g.next = [h.next EXCEPT ![n] = NULL]
         /\ g.thread = [h.thread EXCEPT ![n] = t]
<1>1. /\ h.next \in Pointers /\ h.thread \in [Nodes -> Threads \union {0}]
      /\ h.alive \in SUBSET Nodes
  BY HeapFields
<1>2. [h.next EXCEPT ![n] = NULL] \in Pointers
  BY <1>1 DEF Pointers
<1>3. [h.thread EXCEPT ![n] = t] \in [Nodes -> Threads \union {0}]
  BY <1>1
<1>4. h.alive \union {n} \in SUBSET Nodes
  BY <1>1
<1>5. NewNode(h, t, n) =
        [h EXCEPT !.alive = h.alive \union {n},
                  !.thread = [h.thread EXCEPT ![n] = t],
                  !.next = [h.next EXCEPT ![n] = NULL]]
  BY DEF NewNode, Heaps
<1> DEFINE nx == [h.next EXCEPT ![n] = NULL]
           th == [h.thread EXCEPT ![n] = t]
           al == h.alive \union {n}
<1> HIDE DEF nx, th, al
<1> QED
  BY <1>2, <1>3, <1>4, <1>5 DEF Heaps, nx, th, al

LEMMA ReleaseFields ==
  ASSUME NEW h \in Heaps, NEW n \in Nodes
  PROVE  LET g == Release(h, n) IN
         /\ g \in Heaps /\ g.head = h.head /\ g.tail = h.tail /\ g.size = h.size
         /\ g.ok = h.ok /\ g.alive = h.alive \ {n}
         /\ g.next = [h.next EXCEPT ![n] = NULL]
         /\ g.thread = [h.thread EXCEPT ![n] = 0]
<1>1. /\ h.next \in Pointers /\ h.thread \in [Nodes -> Threads \union {0}]
      /\ h.alive \in SUBSET Nodes
  BY HeapFields
<1>2. [h.next EXCEPT ![n] = NULL] \in Pointers
  BY <1>1 DEF Pointers
<1>3. [h.thread EXCEPT ![n] = 0] \in [Nodes -> Threads \union {0}]
  BY <1>1
<1>4. h.alive \ {n} \in SUBSET Nodes
  BY <1>1
<1>5. Release(h, n) =
        [h EXCEPT !.alive = h.alive \ {n},
                  !.thread = [h.thread EXCEPT ![n] = 0],
                  !.next = [h.next EXCEPT ![n] = NULL]]
  BY DEF Release, Heaps
<1> DEFINE nx == [h.next EXCEPT ![n] = NULL]
           th == [h.thread EXCEPT ![n] = 0]
           al == h.alive \ {n}
<1> HIDE DEF nx, th, al
<1> QED
  BY <1>2, <1>3, <1>4, <1>5 DEF Heaps, nx, th, al

LEMMA LinkFields ==
  ASSUME NEW h \in Heaps, NEW m \in h.alive, NEW n \in Nodes \union {NULL}
  PROVE  LET g == Link(h, m, n) IN
         /\ g \in Heaps /\ g.head = h.head /\ g.tail = h.tail /\ g.size = h.size
         /\ g.ok = h.ok /\ g.alive = h.alive /\ g.thread = h.thread
         /\ g.next = [h.next EXCEPT ![m] = n]
<1>1. h.next \in Pointers /\ m \in Nodes
  BY HeapFields
<1>2. [h.next EXCEPT ![m] = n] \in Pointers
  BY <1>1 DEF Pointers
<1>3. Link(h, m, n) = [h EXCEPT !.next = [h.next EXCEPT ![m] = n]]
  BY DEF Link, Heaps
<1> DEFINE nx == [h.next EXCEPT ![m] = n]
<1> HIDE DEF nx
<1> QED
  BY <1>2, <1>3 DEF Heaps, nx

LEMMA SetFields ==
  ASSUME NEW h \in Heaps, NEW n \in Nodes \union {NULL}, NEW d \in Int
  PROVE  /\ LET g == SetTail(h, n) IN
            /\ g \in Heaps /\ g.head = h.head /\ g.tail = n /\ g.size = h.size
            /\ g.ok = h.ok /\ g.alive = h.alive /\ g.thread = h.thread
            /\ g.next = h.next
         /\ LET g == SetHead(h, n) IN
            /\ g \in Heaps /\ g.head = n /\ g.tail = h.tail /\ g.size = h.size
            /\ g.ok = h.ok /\ g.alive = h.alive /\ g.thread = h.thread
            /\ g.next = h.next
         /\ LET g == Count(h, d) IN
            /\ g \in Heaps /\ g.head = h.head /\ g.tail = h.tail
            /\ g.size = h.size + d
            /\ g.ok = h.ok /\ g.alive = h.alive /\ g.thread = h.thread
            /\ g.next = h.next
BY DEF Heaps, SetTail, SetHead, Count

LEMMA mallocFree ==
  ASSUME NEW h, Nodes \ h.alive # {}
  PROVE  malloc(h) \in Nodes \ h.alive
<1>1. Nodes \ h.alive \in SUBSET Nat
  BY BoundsAssumption DEF Nodes
<1>2. \E x \in Nodes \ h.alive : \A y \in Nodes \ h.alive : x <= y
  BY <1>1, LeastNatural
<1> QED
  BY <1>2 DEF malloc, Min

LEMMA SoundFacts ==
  ASSUME NEW h, NEW c, Sound(h, c)
  PROVE  /\ h \in Heaps /\ h.next \in Pointers /\ NoCycle(h.next)
         /\ h.thread \in [Nodes -> Threads \union {0}]
         /\ h.alive \in SUBSET Nodes /\ h.size \in Int
         /\ h.head \in Nodes \union {NULL} /\ h.tail \in Nodes \union {NULL}
         /\ Along(h.next, c) /\ h.head = First(c) /\ c \in Seq(Nodes)
         /\ On(c) \subseteq h.alive
         /\ \A k \in 1..Len(c) : c[k] \in h.alive /\ h.thread[c[k]] \in Threads
         /\ Chain(h) = c /\ Queue(h) = Labels(h.thread, c)
         /\ Labels(h.thread, c) \in Seq(Threads)
         /\ Len(Labels(h.thread, c)) = Len(c)
<1>1. /\ h \in Heaps /\ h.next \in Pointers /\ NoCycle(h.next)
      /\ h.thread \in [Nodes -> Threads \union {0}]
      /\ h.alive \in SUBSET Nodes /\ h.size \in Int
      /\ h.head \in Nodes \union {NULL} /\ h.tail \in Nodes \union {NULL}
      /\ Along(h.next, c) /\ h.head = First(c) /\ IsPath(h, c)
      /\ On(c) \subseteq h.alive /\ \A n \in h.alive : h.thread[n] \in Threads
  BY HeapFields DEF Sound, IsPath
<1>2. c \in Seq(Nodes) /\ Len(c) \in Nat /\ \A k \in 1..Len(c) : c[k] \in On(c)
  BY <1>1, PathFacts
<1>3. \A k \in 1..Len(c) : c[k] \in h.alive /\ h.thread[c[k]] \in Threads
  BY <1>1, <1>2
<1>4. Chain(h) = c /\ Queue(h) = Labels(h.thread, c)
  BY <1>1, PathIsChain
<1>5. /\ Labels(h.thread, c) \in Seq(Threads)
      /\ Len(Labels(h.thread, c)) = Len(c)
  <2> DEFINE s == [k \in 1..Len(c) |-> h.thread[c[k]]]
  <2>1. s \in Seq(Threads) /\ Len(s) = Len(c)
    BY <1>2, <1>3
  <2> QED
    BY <2>1 DEF Labels
<1> QED
  BY <1>1, <1>2, <1>3, <1>4, <1>5

(* thread_enqueue adds the thread at the end of a list whose fields agree; of
   a list with a call in its window it leaves a path nonetheless. *)
LEMMA Enqueues ==
  ASSUME NEW h, NEW c, Sound(h, c), NEW t \in Threads, Nodes \ h.alive # {}
  PROVE  LET n == malloc(h)
             g == thread_enqueue(h, t)
         IN  /\ n \in Nodes \ h.alive /\ g.alive = h.alive \union {n}
             /\ \E d : Sound(g, d)
             /\ Clean(h, c) =>
                  /\ Clean(g, Append(c, n)) /\ Keeps(h, c, g, Append(c, n))
                  /\ Queue(g) = Append(Queue(h), t)
<1> DEFINE n == malloc(h)
           g == thread_enqueue(h, t)
           new0 == NewNode(h, t, n)
<1>1. n \in Nodes \ h.alive
  BY mallocFree
<1> HIDE DEF n
<1>2. /\ h \in Heaps /\ h.next \in Pointers /\ NoCycle(h.next)
      /\ h.thread \in [Nodes -> Threads \union {0}]
      /\ h.alive \in SUBSET Nodes /\ h.size \in Int /\ h.ok = TRUE
      /\ h.head \in Nodes \union {NULL} /\ h.tail \in Nodes \union {NULL}
      /\ Along(h.next, c) /\ h.head = First(c) /\ c \in Seq(Nodes)
      /\ On(c) \subseteq h.alive
      /\ \A m \in h.alive : h.thread[m] \in Threads
      /\ h.size # 0 => h.tail \in h.alive
      /\ Queue(h) = Labels(h.thread, c)
  BY SoundFacts DEF Sound
<1>3. /\ new0 \in Heaps /\ new0.head = h.head /\ new0.tail = h.tail
      /\ new0.size = h.size /\ new0.ok = h.ok
      /\ new0.alive = h.alive \union {n}
      /\ new0.next = [h.next EXCEPT ![n] = NULL]
      /\ new0.thread = [h.thread EXCEPT ![n] = t]
  <2>1. h \in Heaps /\ t \in Threads \union {0} /\ n \in Nodes
    BY <1>1, <1>2
  <2> HIDE DEF new0
  <2> QED
    BY <2>1, NewNodeFields DEF new0
<1>4. /\ NoCycle(new0.next) /\ Along(new0.next, c) /\ n \notin On(c)
      /\ new0.next \in Pointers /\ new0.next[n] = NULL
      /\ \A m \in Nodes : m # n => new0.next[m] = h.next[m]
  <2>1. n \in Nodes \ On(c)
    BY <1>1, <1>2
  <2>2. NoCycle([h.next EXCEPT ![n] = NULL])
    BY <1>1, <1>2, StillNoCycle
  <2>3. Along([h.next EXCEPT ![n] = NULL], c)
    BY <1>2, <2>1, OffPath
  <2> QED
    BY <1>1, <1>2, <1>3, <2>1, <2>2, <2>3, HeapFields DEF Pointers
<1>5. \A m \in h.alive \union {n} : new0.thread[m] \in Threads
  BY <1>1, <1>2, <1>3
<1>6. g = Count(IF h.size = 0 THEN SetHead(SetTail(new0, n), n)
                ELSE SetTail(Link(new0, h.tail, n), n), 1)
  BY DEF thread_enqueue, n
<1> HIDE DEF g, new0
<1>7. Len(c) \in Nat /\ (c = <<>> <=> Len(c) = 0)
      /\ \A k \in 1..Len(c) : c[k] \in Nodes
  BY <1>2, PathFacts
<1>8. /\ g \in Heaps /\ g.ok = TRUE /\ g.tail = n /\ g.size = h.size + 1
      /\ g.alive = h.alive \union {n} /\ g.thread = new0.thread
      /\ h.size = 0 => g.next = new0.next /\ g.head = n
      /\ h.size # 0 => g.next = [new0.next EXCEPT ![h.tail] = n] /\ g.head = h.head
  <2>1. n \in Nodes \union {NULL} /\ 1 \in Int
    BY <1>1
  <2>2. CASE h.size = 0
    <3> DEFINE a == SetTail(new0, n)
               b == SetHead(a, n)
    <3>1. /\ a \in Heaps /\ a.tail = n /\ a.size = new0.size
          /\ a.ok = new0.ok /\ a.alive = new0.alive /\ a.thread = new0.thread
          /\ a.next = new0.next
      BY <2>1, <1>3, SetFields
    <3> HIDE DEF a
    <3>2. /\ b \in Heaps /\ b.head = n /\ b.tail = n /\ b.size = new0.size
          /\ b.ok = new0.ok /\ b.alive = new0.alive /\ b.thread = new0.thread
          /\ b.next = new0.next
      BY <2>1, <3>1, SetFields
    <3> HIDE DEF b
    <3>3. g = Count(b, 1)
      BY <1>6, <2>2 DEF a, b
    <3>4. /\ g \in Heaps /\ g.head = b.head /\ g.tail = b.tail
          /\ g.size = b.size + 1 /\ g.ok = b.ok /\ g.alive = b.alive
          /\ g.thread = b.thread /\ g.next = b.next
      BY <2>1, <3>2, <3>3, SetFields
    <3> QED
      BY <3>2, <3>4, <2>2, <1>2, <1>3
  <2>3. CASE h.size # 0
    <3> DEFINE a == Link(new0, h.tail, n)
               b == SetTail(a, n)
    <3>1. /\ a \in Heaps /\ a.head = new0.head /\ a.size = new0.size
          /\ a.ok = new0.ok /\ a.alive = new0.alive /\ a.thread = new0.thread
          /\ a.next = [new0.next EXCEPT ![h.tail] = n]
      BY <2>1, <2>3, <1>2, <1>3, LinkFields
    <3> HIDE DEF a
    <3>2. /\ b \in Heaps /\ b.head = a.head /\ b.tail = n /\ b.size = a.size
          /\ b.ok = a.ok /\ b.alive = a.alive /\ b.thread = a.thread
          /\ b.next = a.next
      BY <2>1, <3>1, SetFields
    <3> HIDE DEF b
    <3>3. g = Count(b, 1)
      BY <1>6, <2>3 DEF a, b
    <3>4. /\ g \in Heaps /\ g.head = b.head /\ g.tail = b.tail
          /\ g.size = b.size + 1 /\ g.ok = b.ok /\ g.alive = b.alive
          /\ g.thread = b.thread /\ g.next = b.next
      BY <2>1, <3>2, <3>3, SetFields
    <3> QED
      BY <3>1, <3>2, <3>4, <2>3, <1>2, <1>3
  <2> QED
    BY <2>2, <2>3
<1>9. PICK d : /\ Along(g.next, d) /\ g.head = First(d) /\ NoCycle(g.next)
               /\ On(d) \subseteq On(c) \union {n}
               /\ Clean(h, c) => d = Append(c, n)
  <2>1. CASE h.size = 0
    <3> DEFINE d == <<n>>
    <3>1. d \in Seq(Nodes) /\ Len(d) = 1 /\ d[1] = n /\ d # <<>>
      BY <1>1
    <3> HIDE DEF d
    <3>2. Along(g.next, d) /\ First(d) = n /\ On(d) = {n}
      <4>1. \A k \in 1..1 : k = 1
        OBVIOUS
      <4> QED
        BY <3>1, <4>1, <2>1, <1>4, <1>8 DEF Along, First, On
    <3>3. Clean(h, c) => d = Append(c, n)
      <4> SUFFICES ASSUME Clean(h, c) PROVE d = Append(c, n)
        OBVIOUS
      <4>1. c = <<>>
        BY <2>1, <1>7 DEF Clean
      <4>2. Append(<<>>, n) = <<n>>
        OBVIOUS
      <4> QED
        BY <4>1, <4>2 DEF d
    <3> QED
      BY <3>2, <3>3, <2>1, <1>4, <1>8
  <2>2. CASE h.size # 0 /\ h.tail \notin On(c)
    <3>1. h.tail \in Nodes \ On(c) /\ h.tail # n /\ h.tail \in Nodes
      BY <2>2, <1>1, <1>2
    <3>2. Along(g.next, c)
      <4>1. Along([new0.next EXCEPT ![h.tail] = n], c)
        BY <3>1, <1>4, OffPath
      <4> QED
        BY <4>1, <2>2, <1>8
    <3>3. NoCycle(g.next)
      <4>1. n \in Nodes
        BY <1>1
      <4>2. NoCycle([new0.next EXCEPT ![h.tail] = n])
        BY <4>1, <3>1, <1>4, StillNoCycle
      <4> QED
        BY <4>2, <2>2, <1>8
    <3>4. ~Clean(h, c)
      <4> SUFFICES ASSUME Clean(h, c) PROVE FALSE
        OBVIOUS
      <4>1. c # <<>> /\ Len(c) \in 1..Len(c)
        BY <2>2, <1>7 DEF Clean
      <4> QED
        BY <4>1, <2>2 DEF Clean, On
    <3> QED
      BY <3>2, <3>3, <3>4, <2>2, <1>2, <1>8
  <2>3. CASE h.size # 0 /\ h.tail \in On(c)
    <3>1. PICK j \in 1..Len(c) : /\ h.tail = c[j]
                                 /\ Clean(h, c) => j = Len(c)
      <4>1. CASE Clean(h, c)
        <5>1. c # <<>> /\ Len(c) \in 1..Len(c)
          BY <4>1, <2>3, <1>7 DEF Clean
        <5> QED
          BY <4>1, <5>1 DEF Clean
      <4>2. CASE ~Clean(h, c)
        BY <4>2, <2>3 DEF On
      <4> QED
        BY <4>1, <4>2
    <3>2. h.tail # n /\ h.tail \in Nodes
      BY <2>3, <1>1, <1>2
    <3> DEFINE d == Grown(c, j, n)
    <3>3. n \in Nodes \ On(c)
      BY <1>1, <1>4
    <3>4. Along(g.next, d)
      BY <3>1, <3>3, <2>3, <1>4, <1>8, Relinked
    <3>5. NoCycle(g.next)
      <4>1. n \in Nodes
        BY <1>1
      <4>2. NoCycle([new0.next EXCEPT ![h.tail] = n])
        BY <4>1, <3>2, <1>4, StillNoCycle
      <4> QED
        BY <4>2, <2>3, <1>8
    <3>6. j \in 0..Len(c) /\ 1 \in 1..j /\ c # <<>> /\ j \in Nat
      BY <1>7
    <3>7. /\ d \in Seq(Nodes) /\ Len(d) = j + 1
          /\ \A k \in 1..j : d[k] = c[k]
          /\ d[j + 1] = n
          /\ j = Len(c) => d = Append(c, n)
      BY <3>6, <1>1, <1>2, GrownProperties
    <3> HIDE DEF d
    <3>8. First(d) = First(c)
      <4>1. d # <<>>
        BY <3>6, <3>7, EmptySeq
      <4> QED
        BY <4>1, <3>6, <3>7 DEF First
    <3>9. On(d) \subseteq On(c) \union {n}
      <4> SUFFICES ASSUME NEW k \in 1..Len(d) PROVE d[k] \in On(c) \union {n}
        BY DEF On
      <4>1. CASE k = j + 1
        BY <4>1, <3>7
      <4>2. CASE k # j + 1
        <5>1. k \in 1..j /\ k \in 1..Len(c)
          BY <4>2, <3>6, <3>7, <1>7
        <5> QED
          BY <5>1, <3>7 DEF On
      <4> QED
        BY <4>1, <4>2
    <3> QED
      BY <3>1, <3>4, <3>5, <3>7, <3>8, <3>9, <2>3, <1>2, <1>8
  <2> QED
    BY <2>1, <2>2, <2>3
<1>10. Sound(g, d)
  <2>1. On(d) \subseteq g.alive /\ g.tail \in g.alive
    BY <1>2, <1>8, <1>9
  <2> QED
    BY <2>1, <1>5, <1>8, <1>9 DEF Sound, IsPath
<1>11. ASSUME Clean(h, c)
       PROVE  /\ Clean(g, Append(c, n)) /\ Keeps(h, c, g, Append(c, n))
              /\ Queue(g) = Append(Queue(h), t)
  <2> DEFINE e == Append(c, n)
  <2>1. /\ e \in Seq(Nodes) /\ Len(e) = Len(c) + 1 /\ e # <<>> /\ e[Len(c) + 1] = n
        /\ \A k \in 1..Len(c) : e[k] = c[k]
    BY <1>1, <1>2, AppendProperties
  <2> HIDE DEF e
  <2>2. Sound(g, e)
    BY <1>9, <1>10, <1>11 DEF e
  <2>3. Clean(g, e)
    BY <2>1, <2>2, <1>8, <1>11 DEF Clean
  <2>4. Keeps(h, c, g, e)
    <3> SUFFICES ASSUME NEW m \in h.alive \ On(c)
                 PROVE  /\ m \in g.alive \ On(e)
                        /\ g.next[m] = h.next[m] /\ g.thread[m] = h.thread[m]
      BY DEF Keeps
    <3>1. m # n /\ m \in Nodes /\ m \in g.alive
      BY <1>1, <1>2, <1>8
    <3>2. \A k \in 1..Len(e) : e[k] # m
      <4> SUFFICES ASSUME NEW k \in 1..Len(e) PROVE e[k] # m
        OBVIOUS
      <4>1. CASE k = Len(c) + 1
        BY <4>1, <2>1, <3>1
      <4>2. CASE k # Len(c) + 1
        <5>1. k \in 1..Len(c)
          BY <4>2, <2>1, <1>7
        <5> QED
          BY <5>1, <2>1 DEF On
      <4> QED
        BY <4>1, <4>2
    <3>3. m \notin On(e)
      BY <3>2 DEF On
    <3>4. g.thread[m] = h.thread[m]
      BY <3>1, <1>2, <1>3, <1>8
    <3>5. g.next[m] = h.next[m]
      <4>1. CASE h.size = 0
        BY <4>1, <3>1, <1>4, <1>8
      <4>2. CASE h.size # 0
        <5>1. Len(c) \in 1..Len(c) /\ h.tail = c[Len(c)]
          BY <4>2, <1>7, <1>11 DEF Clean
        <5>2. h.tail # m
          BY <5>1 DEF On
        <5> QED
          BY <4>2, <5>2, <3>1, <1>4, <1>8 DEF Pointers
      <4> QED
        BY <4>1, <4>2
    <3> QED
      BY <3>1, <3>3, <3>4, <3>5
  <2>5. Queue(g) = Append(Queue(h), t)
    <3> DEFINE s == Labels(h.thread, c)
               r == Labels(g.thread, e)
    <3>1. Queue(g) = r /\ r \in Seq(Threads) /\ Len(r) = Len(e)
      BY <2>2, SoundFacts
    <3>2. Queue(h) = s /\ s \in Seq(Threads) /\ Len(s) = Len(c)
      BY <1>2, SoundFacts
    <3>3. \A k \in 1..Len(c) : r[k] = s[k]
      <4> SUFFICES ASSUME NEW k \in 1..Len(c) PROVE r[k] = s[k]
        OBVIOUS
      <4>1. k \in 1..Len(e) /\ e[k] = c[k] /\ c[k] \in Nodes /\ c[k] # n
        BY <2>1, <1>4, <1>7 DEF On
      <4>2. r[k] = g.thread[c[k]] /\ s[k] = h.thread[c[k]]
        BY <4>1 DEF Labels
      <4>3. g.thread[c[k]] = h.thread[c[k]]
        BY <4>1, <1>2, <1>3, <1>8
      <4> QED
        BY <4>2, <4>3
    <3>4. r[Len(c) + 1] = t
      <4>1. Len(c) + 1 \in 1..Len(e)
        BY <2>1, <1>7
      <4>2. r[Len(c) + 1] = g.thread[n]
        BY <4>1, <2>1 DEF Labels
      <4> QED
        BY <4>2, <1>1, <1>2, <1>3, <1>8
    <3> HIDE DEF s, r
    <3> DEFINE a == Append(s, t)
    <3>5. /\ a \in Seq(Threads) /\ Len(a) = Len(c) + 1 /\ a[Len(c) + 1] = t
          /\ \A k \in 1..Len(c) : a[k] = s[k]
      BY <3>2, AppendProperties
    <3> HIDE DEF a
    <3>6. r = a
      <4>1. \A k \in 1..(Len(c) + 1) : k = Len(c) + 1 \/ k \in 1..Len(c)
        BY <1>7
      <4>2. \A k \in 1..Len(r) : r[k] = a[k]
        BY <4>1, <3>1, <3>3, <3>4, <3>5, <2>1
      <4> QED
        BY <4>2, <3>1, <3>5, <2>1, SeqEqual
    <3> QED
      BY <3>1, <3>2, <3>6 DEF a
  <2> QED
    BY <2>3, <2>4, <2>5 DEF e
<1> QED
  BY <1>1, <1>8, <1>10, <1>11 DEF n, g

(* The first position of x in a sequence, as SelectInSeq finds it. *)
FirstAt(s, x) == SelectInSeq(s, LAMBDA u : u = x)

LEMMA FirstPosition ==
  ASSUME NEW T, NEW s \in Seq(T), NEW x
  PROVE  LET k == FirstAt(s, x) IN
         \/ k = 0 /\ (\A j \in 1..Len(s) : s[j] # x) /\ Abstract!Without(s, x) = s
         \/ /\ k \in 1..Len(s) /\ s[k] = x /\ \A j \in 1..(k - 1) : s[j] # x
            /\ Abstract!Without(s, x) = RemoveAt(s, k)
<1> DEFINE I == {j \in 1..Len(s) : s[j] = x}
           k == FirstAt(s, x)
<1>1. k = IF I # {} THEN Min(I) ELSE 0
  BY DEF FirstAt, SelectInSeq
<1>2. Abstract!Without(s, x) = IF I # {} THEN RemoveAt(s, k) ELSE s
  <2>1. Abstract!Contains(s, x) <=> I # {}
    BY DEF Abstract!Contains
  <2>2. Abstract!SelectInSeq(s, LAMBDA u : u = x) = k
    BY <1>1 DEF Abstract!SelectInSeq, Abstract!Min, Min
  <2>3. Abstract!RemoveAt(s, k) = RemoveAt(s, k)
    BY DEF Abstract!RemoveAt, RemoveAt
  <2>4. Abstract!Without(s, x)
          = IF Abstract!Contains(s, x)
            THEN Abstract!RemoveAt(s, Abstract!SelectInSeq(s, LAMBDA u : u = x))
            ELSE s
    BY DEF Abstract!Without
  <2> HIDE DEF I, k
  <2> QED
    BY <2>1, <2>2, <2>3, <2>4
<1>3. Len(s) \in Nat
  OBVIOUS
<1>4. CASE I = {}
  BY <1>1, <1>2, <1>4
<1>5. CASE I # {}
  <2>1. I \in SUBSET Nat
    OBVIOUS
  <2>2. \E m \in I : \A j \in I : m <= j
    BY <1>5, <2>1, LeastNatural
  <2>3. k = Min(I) /\ Min(I) \in I /\ \A j \in I : Min(I) <= j
    BY <1>1, <1>5, <2>2 DEF Min
  <2> HIDE DEF k
  <2>4. k \in 1..Len(s) /\ s[k] = x /\ \A j \in I : k <= j
    BY <2>3
  <2>5. \A j \in 1..(k - 1) : s[j] # x
    BY <1>3, <2>4
  <2> QED
    BY <1>2, <1>5, <2>4, <2>5 DEF k
<1> QED
  BY <1>4, <1>5

(* The path without its k-th node, and its labels. *)
LEMMA PathWithout ==
  ASSUME NEW next \in Pointers, NoCycle(next), NEW c, Along(next, c),
         NEW k \in 1..Len(c)
  PROVE  LET d == RemoveAt(c, k) IN
         /\ d \in Seq(Nodes) /\ Len(d) = Len(c) - 1
         /\ On(d) = On(c) \ {c[k]}
         /\ k # Len(c) => d # <<>> /\ d[Len(d)] = c[Len(c)]
         /\ k = Len(c) /\ k # 1 => d # <<>> /\ d[Len(d)] = c[k - 1]
         /\ d # <<>> <=> Len(c) # 1
<1> DEFINE d == RemoveAt(c, k)
           n == Len(c)
<1>1. /\ c \in Seq(Nodes) /\ n \in Nat /\ n # 0 /\ k \in 1..n
      /\ \A i, j \in 1..n : c[i] = c[j] => i = j
  BY PathFacts, PathIsSimple
<1>2. /\ d \in Seq(Nodes) /\ Len(d) = n - 1
      /\ \A j \in 1..(n - 1) : d[j] = IF j < k THEN c[j] ELSE c[j + 1]
  BY <1>1, RemoveAtProperties
<1> HIDE DEF d, n
<1>3. d # <<>> <=> n # 1
  BY <1>1, <1>2, EmptySeq
<1>4. ASSUME k # n PROVE d # <<>> /\ d[Len(d)] = c[n]
  <2>1. n - 1 \in 1..(n - 1) /\ ~(n - 1 < k) /\ (n - 1) + 1 = n /\ n # 1
    BY <1>1, <1>4
  <2> QED
    BY <2>1, <1>2, <1>3
<1>5. ASSUME k = n, k # 1 PROVE d # <<>> /\ d[Len(d)] = c[k - 1]
  <2>1. n - 1 \in 1..(n - 1) /\ n - 1 < k /\ n # 1 /\ k - 1 = n - 1
    BY <1>1, <1>5
  <2> QED
    BY <2>1, <1>2, <1>3
<1>6. On(d) = On(c) \ {c[k]}
  <2>1. ASSUME NEW j \in 1..Len(d) PROVE \E i \in 1..n : d[j] = c[i] /\ i # k
    <3>1. j \in 1..(n - 1) /\ j \in 1..n /\ j + 1 \in 1..n
      BY <1>1, <1>2
    <3>2. CASE j < k
      BY <3>1, <3>2, <1>1, <1>2
    <3>3. CASE ~(j < k)
      <4>1. j + 1 # k /\ d[j] = c[j + 1]
        BY <3>1, <3>3, <1>1, <1>2
      <4> QED
        BY <4>1, <3>1
    <3> QED
      BY <3>2, <3>3
  <2>2. ASSUME NEW i \in 1..n, i # k PROVE \E j \in 1..Len(d) : d[j] = c[i]
    <3>1. CASE i < k
      <4>1. i \in 1..(n - 1)
        BY <3>1, <1>1
      <4> QED
        BY <4>1, <3>1, <1>2
    <3>2. CASE ~(i < k)
      <4>1. i - 1 \in 1..(n - 1) /\ ~(i - 1 < k) /\ (i - 1) + 1 = i
        BY <3>2, <2>2, <1>1
      <4> QED
        BY <4>1, <1>2
    <3> QED
      BY <3>1, <3>2
  <2>3. On(c) = {c[i] : i \in 1..n} /\ On(d) = {d[j] : j \in 1..Len(d)}
    BY DEF On, n
  <2>4. \A x \in On(d) : x \in On(c) /\ x # c[k]
    BY <2>1, <2>3, <1>1
  <2>5. \A x \in On(c) : x # c[k] => x \in On(d)
    BY <2>2, <2>3
  <2> QED
    BY <2>4, <2>5
<1> QED
  BY <1>1, <1>2, <1>3, <1>4, <1>5, <1>6 DEF d, n

LabelsBut(other, label, c, k) ==
  \A j \in 1..Len(c) : j # k => other[c[j]] = label[c[j]]

LEMMA LabelsWithout ==
  ASSUME NEW T, NEW c \in Seq(Nodes), NEW k \in 1..Len(c),
         NEW label, NEW other, Labels(label, c) \in Seq(T),
         LabelsBut(other, label, c, k)
  PROVE  Labels(other, RemoveAt(c, k)) = RemoveAt(Labels(label, c), k)
<1> DEFINE n == Len(c)
           d == RemoveAt(c, k)
           s == Labels(label, c)
           r == Labels(other, d)
           a == RemoveAt(s, k)
<1>1. n \in Nat /\ n # 0 /\ k \in 1..n
  BY LenProperties
<1>2. /\ d \in Seq(Nodes) /\ Len(d) = n - 1
      /\ \A j \in 1..(n - 1) : d[j] = IF j < k THEN c[j] ELSE c[j + 1]
  BY RemoveAtProperties
<1>3. s \in Seq(T) /\ Len(s) = n /\ \A j \in 1..n : s[j] = label[c[j]]
  BY <1>1 DEF Labels
<1> HIDE DEF s, n
<1>4. /\ a \in Seq(T) /\ Len(a) = n - 1
      /\ \A j \in 1..(n - 1) : a[j] = IF j < k THEN s[j] ELSE s[j + 1]
  BY <1>1, <1>3, RemoveAtProperties
<1> HIDE DEF a, d
<1>5. r = [j \in 1..(n - 1) |-> other[d[j]]]
  BY <1>2 DEF Labels
<1>50. \A j \in 1..n : j # k => other[c[j]] = label[c[j]]
  BY DEF LabelsBut, n
<1>6. ASSUME NEW j \in 1..(n - 1) PROVE other[d[j]] = a[j]
  <2>1. j \in 1..n /\ j + 1 \in 1..n
    BY <1>1
  <2>2. CASE j < k
    <3>1. d[j] = c[j] /\ a[j] = s[j] /\ j # k
      BY <2>2, <1>1, <1>2, <1>4
    <3>2. s[j] = label[c[j]] /\ other[c[j]] = label[c[j]]
      BY <3>1, <2>1, <1>3, <1>50
    <3> QED
      BY <3>1, <3>2
  <2>3. CASE ~(j < k)
    <3>1. j + 1 # k
      BY <2>3, <1>1
    <3>2. d[j] = c[j + 1] /\ a[j] = s[j + 1]
      BY <2>3, <1>2, <1>4
    <3>3. s[j + 1] = label[c[j + 1]] /\ other[c[j + 1]] = label[c[j + 1]]
      BY <3>1, <2>1, <1>3, <1>50
    <3> QED
      BY <3>2, <3>3
  <2> QED
    BY <2>2, <2>3
<1>7. a = [j \in 1..(n - 1) |-> a[j]]
  BY <1>4, LenProperties
<1> HIDE DEF r
<1>8. r = a
  BY <1>5, <1>6, <1>7
<1> QED
  BY <1>8 DEF r, a, s, d

(* The k-th node is unlinked. *)
LEMMA Unlinks ==
  ASSUME NEW h, NEW c, Sound(h, c), NEW k \in 1..Len(c), NEW p,
         p = IF k = 1 THEN NULL ELSE c[k - 1]
  PROVE  LET g == Unlink(h, c[k], p)
             d == RemoveAt(c, k)
         IN  /\ Sound(g, d) /\ Keeps(h, c, g, d)
             /\ g.tail = h.tail /\ g.size = h.size /\ g.alive = h.alive
             /\ g.thread = h.thread
             /\ MovesTail(h, c[k]) <=> (k = Len(c) /\ k # 1)
             /\ k = 1 => g = SetHead(h, h.next[c[k]]) /\ h.head = c[1] /\ h.head # NULL
             /\ k # 1 => g = Link(h, p, h.next[c[k]])
             /\ k # 1 => g.next[p] = h.next[c[k]] /\ p \in g.alive
             /\ h.next[c[k]] = NULL <=> k = Len(c)
             /\ Queue(g) = RemoveAt(Queue(h), k)
<1> DEFINE x == c[k]
           g == Unlink(h, x, p)
           d == RemoveAt(c, k)
<1>1. /\ h \in Heaps /\ h.next \in Pointers /\ NoCycle(h.next) /\ h.ok = TRUE
      /\ h.alive \in SUBSET Nodes
      /\ Along(h.next, c) /\ h.head = First(c) /\ c \in Seq(Nodes)
      /\ On(c) \subseteq h.alive
      /\ \A m \in h.alive : h.thread[m] \in Threads
      /\ (h.size # 0 \/ c # <<>>) => h.tail \in h.alive
  BY SoundFacts DEF Sound
<1>2. /\ Len(c) \in Nat /\ c # <<>> /\ First(c) = c[1] /\ 1 \in 1..Len(c)
      /\ \A j \in 1..Len(c) : c[j] \in Nodes /\ c[j] \in On(c)
      /\ \A j \in 1..Len(c) : j # Len(c) => j + 1 \in 1..Len(c)
                                            /\ h.next[c[j]] = c[j + 1]
      /\ h.next[c[Len(c)]] = NULL
      /\ \A i, j \in 1..Len(c) : c[i] = c[j] => i = j
  BY <1>1, PathFacts, PathIsSimple
<1>3. /\ x \in h.alive /\ x \in Nodes /\ x \in On(c) /\ x # NULL
      /\ h.next[x] \in Nodes \union {NULL}
  BY <1>1, <1>2, NodesFinite DEF Pointers
<1>4. h.next[x] = NULL <=> k = Len(c)
  BY <1>2, NodesFinite
<1>5. x = h.head <=> k = 1
  BY <1>1, <1>2
<1>6. Alive(h, x) = h
  BY <1>3 DEF Alive
<1>7. MovesTail(h, x) <=> (k = Len(c) /\ k # 1)
  BY <1>4, <1>5 DEF MovesTail
<1>8. /\ k = 1 => g = SetHead(h, h.next[x])
      /\ k # 1 => g = Link(h, p, h.next[x])
  BY <1>5, <1>6 DEF Unlink
<1>9. /\ d \in Seq(Nodes) /\ Len(d) = Len(c) - 1 /\ On(d) = On(c) \ {x}
  BY <1>1, PathWithout
<1> HIDE DEF g, d
<1>10. /\ g \in Heaps /\ g.ok = TRUE /\ g.tail = h.tail /\ g.size = h.size
       /\ g.alive = h.alive /\ g.thread = h.thread
       /\ NoCycle(g.next) /\ Along(g.next, d) /\ g.head = First(d)
       /\ \A m \in Nodes \ On(c) : g.next[m] = h.next[m]
       /\ k # 1 => g.next[p] = h.next[x] /\ p \in g.alive
  <2>1. CASE k = 1
    <3> DEFINE after == h.next[x]
    <3>0. after \in Nodes \union {NULL} /\ g = SetHead(h, after)
      BY <2>1, <1>3, <1>8
    <3> HIDE DEF after
    <3>1. /\ g \in Heaps /\ g.ok = h.ok /\ g.tail = h.tail /\ g.size = h.size
          /\ g.alive = h.alive /\ g.thread = h.thread /\ g.next = h.next
          /\ g.head = after
      <4>1. h \in Heaps /\ 0 \in Int
        BY <1>1
      <4> QED
        BY <3>0, <4>1, SetFields
    <3>2. Along(h.next, Tail(c)) /\ First(Tail(c)) = h.next[c[1]]
          /\ Tail(c) = RemoveAt(c, 1)
      BY <1>1, <1>2, Beheaded
    <3> QED
      BY <2>1, <3>1, <3>2, <1>1 DEF d, after
  <2>2. CASE k # 1
    <3>1. /\ k \in 2..Len(c) /\ k - 1 \in 1..Len(c) /\ p = c[k - 1]
          /\ k - 1 # Len(c) /\ (k - 1) + 1 = k
      BY <2>2, <1>2
    <3>2. p \in h.alive /\ p \in Nodes /\ p \in On(c) /\ h.next[p] = x
      BY <3>1, <1>1, <1>2
    <3> DEFINE after == h.next[x]
    <3>0. after \in Nodes \union {NULL} /\ g = Link(h, p, after)
      BY <2>2, <1>3, <1>8
    <3> HIDE DEF after
    <3>10. /\ g \in Heaps /\ g.ok = h.ok /\ g.tail = h.tail /\ g.size = h.size
           /\ g.alive = h.alive /\ g.thread = h.thread /\ g.head = h.head
           /\ g.next = [h.next EXCEPT ![p] = after]
      <4>1. h \in Heaps /\ p \in h.alive
        BY <3>2, <1>1
      <4> QED
        BY <3>0, <4>1, LinkFields
    <3>3. /\ g \in Heaps /\ g.ok = h.ok /\ g.tail = h.tail /\ g.size = h.size
          /\ g.alive = h.alive /\ g.thread = h.thread /\ g.head = h.head
          /\ g.next = [h.next EXCEPT ![p] = h.next[x]]
      BY <3>10 DEF after
    <3>4. NoCycle([h.next EXCEPT ![p] = h.next[h.next[p]]])
      BY <3>2, <1>1, <1>3, StillNoCycle
    <3>5. Along([h.next EXCEPT ![c[k - 1]] = h.next[c[k]]], d) /\ First(d) = First(c)
      BY <3>1, <1>1, Bypassed DEF d
    <3>6. \A m \in Nodes \ On(c) : g.next[m] = h.next[m]
      BY <3>2, <3>3, <1>1 DEF Pointers
    <3>7. g.next[p] = h.next[x]
      BY <3>2, <3>3, <1>1 DEF Pointers
    <3> QED
      BY <2>2, <3>1, <3>2, <3>3, <3>4, <3>5, <3>6, <3>7, <1>1
  <2> QED
    BY <2>1, <2>2
<1>11. Sound(g, d)
  BY <1>1, <1>2, <1>9, <1>10 DEF Sound, IsPath
<1>12. Keeps(h, c, g, d)
  BY <1>1, <1>9, <1>10 DEF Keeps
<1>13. Queue(g) = RemoveAt(Queue(h), k)
  <2>1. Queue(h) = Labels(h.thread, c) /\ Labels(h.thread, c) \in Seq(Threads)
    BY SoundFacts
  <2>2. Queue(g) = Labels(g.thread, d)
    BY <1>11, SoundFacts
  <2>3. Labels(h.thread, RemoveAt(c, k)) = RemoveAt(Labels(h.thread, c), k)
    <3> DEFINE label == h.thread
               other == h.thread
    <3>1. c \in Seq(Nodes) /\ LabelsBut(other, label, c, k)
      BY <1>1 DEF LabelsBut
    <3> HIDE DEF label, other
    <3>2. Labels(label, c) \in Seq(Threads)
      BY <2>1 DEF label
    <3>3. Labels(other, RemoveAt(c, k)) = RemoveAt(Labels(label, c), k)
      BY <3>1, <3>2, LabelsWithout
    <3> QED
      BY <3>3 DEF label, other
  <2> QED
    BY <2>1, <2>2, <2>3, <1>10 DEF d
<1>14. k = 1 => h.head = c[1] /\ h.head # NULL
  BY <1>1, <1>2, <1>3
<1> QED
  BY <1>4, <1>7, <1>8, <1>10, <1>11, <1>12, <1>13, <1>14 DEF g, d

(* ... and the tail moved if it was the last one. *)
Cut(h, c, k) ==
  LET p == IF k = 1 THEN NULL ELSE c[k - 1]
      u == Unlink(h, c[k], p)
  IN  IF k = Len(c) /\ k # 1 THEN SetTail(u, p) ELSE u

LEMMA Cuts ==
  ASSUME NEW h, NEW c, Sound(h, c), NEW k \in 1..Len(c)
  PROVE  LET g == Cut(h, c, k)
             d == RemoveAt(c, k)
         IN  /\ Sound(g, d) /\ Keeps(h, c, g, d)
             /\ g.size = h.size /\ g.alive = h.alive /\ g.thread = h.thread
             /\ g.tail \in g.alive
             /\ Clean(h, c) /\ d # <<>> => g.tail = d[Len(d)]
             /\ Queue(g) = RemoveAt(Queue(h), k)
<1> DEFINE p == IF k = 1 THEN NULL ELSE c[k - 1]
           u == Unlink(h, c[k], p)
           g == Cut(h, c, k)
           d == RemoveAt(c, k)
<1>1. /\ Sound(u, d) /\ Keeps(h, c, u, d)
      /\ u.tail = h.tail /\ u.size = h.size /\ u.alive = h.alive
      /\ u.thread = h.thread /\ Queue(u) = RemoveAt(Queue(h), k)
  BY Unlinks
<1>2. /\ Len(c) \in Nat /\ c # <<>>
      /\ \A j \in 1..Len(c) : c[j] \in Nodes /\ c[j] \in h.alive
  BY SoundFacts, PathFacts
<1>3. h.tail \in h.alive
  BY <1>2 DEF Sound
<1>4. /\ d # <<>> <=> Len(c) # 1
      /\ k # Len(c) => d # <<>> /\ d[Len(d)] = c[Len(c)]
      /\ k = Len(c) /\ k # 1 => d # <<>> /\ d[Len(d)] = c[k - 1]
  BY SoundFacts, PathWithout
<1>5. g = IF k = Len(c) /\ k # 1 THEN SetTail(u, p) ELSE u
  BY DEF Cut
<1>6. k # 1 => p \in h.alive /\ p \in Nodes /\ p = c[k - 1]
  BY <1>2
<1> HIDE DEF g, u, p, d
<1>7. CASE k = Len(c) /\ k # 1
  <2>1. u \in Heaps /\ p \in Nodes \union {NULL}
    BY <1>1, <1>6, <1>7, SoundFacts
  <2>2. /\ g \in Heaps /\ g.head = u.head /\ g.tail = p /\ g.size = u.size
        /\ g.ok = u.ok /\ g.alive = u.alive /\ g.thread = u.thread
        /\ g.next = u.next
    <3>1. 0 \in Int /\ g = SetTail(u, p)
      BY <1>5, <1>7
    <3> QED
      BY <2>1, <3>1, SetFields
  <2>3. Sound(g, d)
    BY <1>1, <1>6, <1>7, <2>2 DEF Sound, IsPath
  <2>4. Queue(g) = Queue(u)
    <3>1. Queue(g) = Labels(g.thread, d) /\ Queue(u) = Labels(u.thread, d)
      BY <2>3, <1>1, SoundFacts
    <3> QED
      BY <3>1, <2>2
  <2>5. Keeps(h, c, g, d)
    BY <1>1, <2>2 DEF Keeps
  <2> QED
    BY <2>2, <2>3, <2>4, <2>5, <1>1, <1>4, <1>6, <1>7 DEF d, g
<1>8. CASE ~(k = Len(c) /\ k # 1)
  <2>1. g = u
    BY <1>5, <1>8
  <2>2. Clean(h, c) /\ d # <<>> => g.tail = d[Len(d)]
    BY <2>1, <1>1, <1>2, <1>4, <1>8 DEF Clean
  <2> QED
    BY <2>1, <2>2, <1>1, <1>3 DEF d, g
<1> QED
  BY <1>7, <1>8

(* RemoveFromList removes the first node of the thread, if there is one. *)
LEMMA Removes ==
  ASSUME NEW h, NEW c, Sound(h, c), NEW t
  PROVE  LET g == RemoveFromList(h, t) IN
         /\ g.alive = h.alive
         /\ \E d : /\ Sound(g, d)
                   /\ Clean(h, c) => Clean(g, d) /\ Keeps(h, c, g, d)
                   /\ Queue(g) = Abstract!Without(Queue(h), t)
<1> DEFINE g == RemoveFromList(h, t)
           k == Position(h, t)
           s == Queue(h)
<1>1. s \in Seq(Threads) /\ Len(s) = Len(c) /\ Chain(h) = c /\ c \in Seq(Nodes)
  BY SoundFacts
<1>2. \/ k = 0 /\ Abstract!Without(s, t) = s
      \/ k \in 1..Len(c) /\ Abstract!Without(s, t) = RemoveAt(s, k)
  <2>1. k = FirstAt(s, t)
    BY DEF Position, FirstAt
  <2> HIDE DEF s, k
  <2> QED
    BY <1>1, <2>1, FirstPosition
<1> HIDE DEF k
<1>3. CASE k = 0
  <2>1. g = h
    BY <1>3 DEF RemoveFromList, k
  <2>2. Keeps(h, c, h, c)
    BY DEF Keeps
  <2> QED
    BY <2>1, <2>2, <1>2, <1>3
<1>4. CASE k # 0
  <2>1. k \in 1..Len(c) /\ Abstract!Without(s, t) = RemoveAt(s, k) /\ Len(c) \in Nat
    BY <1>2, <1>4, <1>1, LenProperties
  <2> DEFINE p == IF k = 1 THEN NULL ELSE c[k - 1]
             cut == Cut(h, c, k)
             d == RemoveAt(c, k)
  <2>2. NodeOf(h, k) = c[k] /\ NodeOf(h, k - 1) = p
    <3>1. DOMAIN c = 1..Len(c)
      BY <1>1
    <3>2. k - 1 \in DOMAIN c <=> k # 1
      BY <2>1, <3>1
    <3> QED
      BY <2>1, <3>1, <3>2, <1>1 DEF NodeOf
  <2>3. MovesTail(h, c[k]) <=> (k = Len(c) /\ k # 1)
    BY <2>1, Unlinks
  <2>4. g = Count(cut, -1)
    <3> HIDE DEF p
    <3>1. g = Count(IF MovesTail(h, c[k]) THEN SetTail(Unlink(h, c[k], p), p)
                    ELSE Unlink(h, c[k], p), -1)
      BY <2>2, <1>4 DEF RemoveFromList, k
    <3> QED
      BY <3>1, <2>3 DEF Cut, p
  <2>5. /\ Sound(cut, d) /\ Keeps(h, c, cut, d)
        /\ cut.size = h.size /\ cut.alive = h.alive /\ cut.tail \in cut.alive
        /\ Clean(h, c) /\ d # <<>> => cut.tail = d[Len(d)]
        /\ Queue(cut) = RemoveAt(s, k)
    BY <2>1, Cuts
  <2>6. Len(d) = Len(c) - 1
    BY <2>1, <1>1, RemoveAtProperties
  <2> HIDE DEF cut, d, g, p
  <2>7. /\ g \in Heaps /\ g.head = cut.head /\ g.tail = cut.tail
        /\ g.size = cut.size + (-1)
        /\ g.ok = cut.ok /\ g.alive = cut.alive /\ g.thread = cut.thread
        /\ g.next = cut.next
    <3>1. cut \in Heaps /\ -1 \in Int /\ NULL \in Nodes \union {NULL}
      BY <2>5, SoundFacts
    <3> QED
      BY <2>4, <3>1, SetFields
  <2>8. Sound(g, d)
    BY <2>5, <2>7 DEF Sound, IsPath
  <2>9. Queue(g) = Queue(cut)
    <3>1. Queue(g) = Labels(g.thread, d) /\ Queue(cut) = Labels(cut.thread, d)
      BY <2>8, <2>5, SoundFacts
    <3> QED
      BY <3>1, <2>7
  <2>10. Keeps(h, c, g, d)
    BY <2>5, <2>7 DEF Keeps
  <2>11. ASSUME Clean(h, c) PROVE Clean(g, d)
    BY <2>1, <2>5, <2>6, <2>7, <2>8, <2>11 DEF Clean
  <2> QED
    BY <2>1, <2>5, <2>7, <2>8, <2>9, <2>10, <2>11 DEF g
<1> QED
  BY <1>3, <1>4

(* thread_dequeue and the lottery free the node as well. *)
LEMMA Takes ==
  ASSUME NEW h, NEW c, Clean(h, c), NEW k \in 1..Len(c)
  PROVE  LET g == Count(Release(Cut(h, c, k), c[k]), -1)
             d == RemoveAt(c, k)
         IN  /\ Clean(g, d) /\ Keeps(h, c, g, d)
             /\ c[k] \in h.alive /\ g.alive = h.alive \ {c[k]}
             /\ Queue(g) = RemoveAt(Queue(h), k)
<1> DEFINE x == c[k]
           cut == Cut(h, c, k)
           w == Release(cut, x)
           g == Count(w, -1)
           d == RemoveAt(c, k)
<1>1. Sound(h, c) /\ h.size = Len(c)
  BY DEF Clean
<1>2. /\ Sound(cut, d) /\ Keeps(h, c, cut, d)
      /\ cut.size = h.size /\ cut.alive = h.alive /\ cut.thread = h.thread
      /\ d # <<>> => cut.tail = d[Len(d)]
  BY <1>1, Cuts
<1>3. /\ h.next \in Pointers /\ NoCycle(h.next) /\ Along(h.next, c)
      /\ h.alive \in SUBSET Nodes /\ x \in h.alive /\ x \in Nodes /\ x \in On(c)
      /\ c \in Seq(Nodes) /\ Queue(h) = Labels(h.thread, c)
      /\ Labels(h.thread, c) \in Seq(Threads)
      /\ h.thread \in [Nodes -> Threads \union {0}]
  BY <1>1, SoundFacts DEF On
<1>4. /\ d \in Seq(Nodes) /\ Len(d) = Len(c) - 1 /\ On(d) = On(c) \ {x}
  BY <1>3, PathWithout
<1>5. Len(c) \in Nat /\ \A i, j \in 1..Len(c) : c[i] = c[j] => i = j
  BY <1>3, PathFacts, PathIsSimple
<1>6. /\ cut \in Heaps /\ cut.next \in Pointers /\ NoCycle(cut.next)
      /\ Along(cut.next, d) /\ cut.head = First(d) /\ cut.ok = TRUE
      /\ \A m \in cut.alive : cut.thread[m] \in Threads
  BY <1>2, SoundFacts DEF Sound
<1> HIDE DEF cut, d, x
<1>7. /\ w \in Heaps /\ w.head = cut.head /\ w.tail = cut.tail
      /\ w.size = cut.size /\ w.ok = cut.ok /\ w.alive = cut.alive \ {x}
      /\ w.next = [cut.next EXCEPT ![x] = NULL]
      /\ w.thread = [cut.thread EXCEPT ![x] = 0]
  <2>1. cut \in Heaps /\ x \in Nodes
    BY <1>3, <1>6
  <2> HIDE DEF w
  <2> QED
    BY <2>1, ReleaseFields DEF w
<1> HIDE DEF w
<1>8. /\ g \in Heaps /\ g.head = w.head /\ g.tail = w.tail
      /\ g.size = w.size + (-1)
      /\ g.ok = w.ok /\ g.alive = w.alive /\ g.thread = w.thread
      /\ g.next = w.next
  <2>1. w \in Heaps /\ -1 \in Int /\ NULL \in Nodes \union {NULL}
    BY <1>7
  <2> HIDE DEF g
  <2> QED
    BY <2>1, SetFields DEF g
<1> HIDE DEF g
<1>9. Along(g.next, d) /\ NoCycle(g.next)
  <2>1. x \in Nodes \ On(d)
    BY <1>3, <1>4
  <2>2. Along([cut.next EXCEPT ![x] = NULL], d)
    BY <2>1, <1>6, OffPath
  <2>3. NoCycle([cut.next EXCEPT ![x] = NULL])
    BY <1>3, <1>6, StillNoCycle
  <2> QED
    BY <2>2, <2>3, <1>7, <1>8
<1>10. \A m \in Nodes : m # x => g.next[m] = cut.next[m]
                                 /\ g.thread[m] = h.thread[m]
  BY <1>2, <1>3, <1>6, <1>7, <1>8 DEF Pointers
<1>11. d # <<>> => g.tail = d[Len(d)] /\ g.tail \in On(d)
  <2> SUFFICES ASSUME d # <<>> PROVE g.tail = d[Len(d)] /\ g.tail \in On(d)
    OBVIOUS
  <2>1. Len(d) \in 1..Len(d)
    BY <1>6, PathFacts
  <2> QED
    BY <2>1, <1>2, <1>7, <1>8 DEF On
<1>12. g.size = Len(d)
  BY <1>1, <1>2, <1>4, <1>5, <1>7, <1>8
<1>13. g.size # 0 => d # <<>>
  BY <1>12, EmptySeq
<1>14. Clean(g, d)
  <2>1. On(d) \subseteq g.alive /\ g.alive = h.alive \ {x}
    BY <1>1, <1>2, <1>4, <1>7, <1>8 DEF Sound
  <2>2. \A m \in g.alive : g.thread[m] \in Threads
    BY <2>1, <1>2, <1>3, <1>6, <1>10
  <2> QED
    BY <2>1, <2>2, <1>6, <1>7, <1>8, <1>9, <1>11, <1>12, <1>13
       DEF Clean, Sound, IsPath
<1>15. Keeps(h, c, g, d)
  <2> SUFFICES ASSUME NEW m \in h.alive \ On(c)
               PROVE  /\ m \in g.alive \ On(d)
                      /\ g.next[m] = h.next[m] /\ g.thread[m] = h.thread[m]
    BY DEF Keeps
  <2>1. m # x /\ m \in Nodes
    BY <1>3
  <2> QED
    BY <2>1, <1>2, <1>3, <1>4, <1>7, <1>8, <1>10 DEF Keeps
<1>16. Queue(g) = RemoveAt(Queue(h), k)
  <2> DEFINE label == h.thread
             other == g.thread
  <2>1. LabelsBut(other, label, c, k)
    <3> SUFFICES ASSUME NEW j \in 1..Len(c), j # k PROVE g.thread[c[j]] = h.thread[c[j]]
      BY DEF LabelsBut
    <3>1. c[j] # x /\ c[j] \in Nodes
      BY <1>3, <1>5, ElementOfSeq DEF x
    <3> QED
      BY <3>1, <1>10
  <2>2. Labels(label, c) \in Seq(Threads) /\ c \in Seq(Nodes)
    BY <1>3
  <2> HIDE DEF label, other
  <2>3. Labels(other, RemoveAt(c, k)) = RemoveAt(Labels(label, c), k)
    BY <2>1, <2>2, LabelsWithout
  <2>4. Queue(g) = Labels(g.thread, d)
    BY <1>14, SoundFacts DEF Clean
  <2> QED
    BY <2>3, <2>4, <1>3 DEF d, label, other
<1> QED
  BY <1>2, <1>3, <1>7, <1>8, <1>14, <1>15, <1>16 DEF g, d, w, cut, x

LEMMA Dequeues ==
  ASSUME NEW h, NEW c, Clean(h, c), c # <<>>
  PROVE  /\ 1 \in 1..Len(c) /\ h.head # NULL
         /\ thread_dequeue(h) = Count(Release(Cut(h, c, 1), c[1]), -1)
<1>1. Sound(h, c)
  BY DEF Clean
<1>2. 1 \in 1..Len(c)
  BY <1>1, SoundFacts, PathFacts
<1> DEFINE p == IF 1 = 1 THEN NULL ELSE c[1 - 1]
           u == Unlink(h, c[1], p)
<1>3. u = SetHead(h, h.next[c[1]]) /\ h.head = c[1] /\ h.head # NULL
  BY <1>1, <1>2, Unlinks
<1>4. Alive(h, h.head) = h
  BY <1>1, <1>2, <1>3, SoundFacts DEF Alive
<1>5. Cut(h, c, 1) = u
  BY DEF Cut
<1> QED
  BY <1>2, <1>3, <1>4, <1>5 DEF thread_dequeue

LEMMA Draws ==
  ASSUME NEW h, NEW c, Clean(h, c), NEW k \in 1..Len(c)
  PROVE  Drawn(h, k) = Count(Release(Cut(h, c, k), c[k]), -1)
<1>1. Sound(h, c)
  BY DEF Clean
<1>2. Chain(h) = c /\ c # <<>>
  BY <1>1, SoundFacts, PathFacts
<1>3. CASE k = 1
  BY <1>2, <1>3, Dequeues DEF Drawn
<1>4. CASE k # 1
  <2> DEFINE p == IF k = 1 THEN NULL ELSE c[k - 1]
             u == Unlink(h, c[k], p)
  <2>1. /\ u = Link(h, p, h.next[c[k]]) /\ u.next[p] = h.next[c[k]]
        /\ h.next[c[k]] = NULL <=> k = Len(c)
        /\ p = c[k - 1]
    BY <1>1, <1>4, Unlinks
  <2>2. Cut(h, c, k) = IF u.next[p] = NULL THEN SetTail(u, p) ELSE u
    BY <2>1, <1>4 DEF Cut
  <2>3. Drawn(h, k) =
          LET v == Link(h, c[k - 1], h.next[c[k]])
          IN  Count(Release(IF v.next[c[k - 1]] = NULL THEN SetTail(v, c[k - 1])
                            ELSE v, c[k]), -1)
    BY <1>2, <1>4 DEF Drawn
  <2> HIDE DEF u, p
  <2> QED
    BY <2>1, <2>2, <2>3
<1> QED
  BY <1>3, <1>4

-----------------------------------------------------------------------------
(***************************************************************************)
(* The walk of a dispatch over thread_list.                                *)
(***************************************************************************)
(* What it makes of the list in memory when it comes to thread t, *)
WalkStep(woken, finished, t, h) ==
  IF t \in woken THEN thread_enqueue(h, t)
  ELSE IF t \in finished THEN RemoveFromList(h, t)
  ELSE h

(* ... and of the sequence. *)
TurnStep(woken, finished, t, s) ==
  IF t \in woken THEN Append(s, t)
  ELSE IF t \in finished THEN Abstract!Without(s, t)
  ELSE s

LEMMA WithoutType ==
  ASSUME NEW s \in Seq(Threads), NEW t
  PROVE  Abstract!Without(s, t) \in Seq(Threads)
<1>1. PICK k : k = FirstAt(s, t)
  OBVIOUS
<1>2. \/ Abstract!Without(s, t) = s
      \/ k \in 1..Len(s) /\ Abstract!Without(s, t) = RemoveAt(s, k)
  BY <1>1, FirstPosition
<1> QED
  BY <1>2, RemoveAtProperties

(* The abstract walk goes through sequences, from the queue as it is. *)
LEMMA TurnWalks ==
  ASSUME torn = FALSE, Queue(q) \in Seq(Threads),
         NEW woken \in SUBSET Threads, NEW finished \in SUBSET Threads
  PROVE  \E f \in [0..MaxThreads -> Seq(Threads)] :
           /\ f[0] = Queue(q)
           /\ \A t \in 1..MaxThreads : f[t] = TurnStep(woken, finished, t, f[t - 1])
           /\ Abstract!AfterWalk(woken, finished) = f[MaxThreads]
<1> DEFINE n == MaxThreads
           T == Seq(Threads)
           queue == IF torn THEN <<>> ELSE Queue(q)
           Turn(t, s) == TurnStep(woken, finished, t, s)
           Def(after) == after = [t \in 0..n |->
             IF t = 0 THEN queue
             ELSE IF t \in woken THEN Append(after[t - 1], t)
             ELSE IF t \in finished THEN Abstract!Without(after[t - 1], t)
             ELSE after[t - 1]]
           Step == [t \in 1..n |-> [s \in T |-> Turn(t, s)]]
<1>1. n \in Nat /\ Threads = 1..n /\ queue = Queue(q)
  BY BoundsAssumption DEF Threads
<1>2. ASSUME NEW t \in 1..n, NEW s \in T PROVE Turn(t, s) \in T
  <2>1. Append(s, t) \in T /\ Abstract!Without(s, t) \in T
    BY <1>1, WithoutType
  <2> QED
    BY <2>1 DEF TurnStep
<1>3. Step \in [1..n -> [T -> T]]
  BY <1>2
<1>4. PICK f \in [0..n -> T] : f[0] = Queue(q) /\ \A t \in 1..n : f[t] = Step[t][f[t - 1]]
  <2>1. n \in Nat /\ Queue(q) \in T /\ Step \in [1..n -> [T -> T]]
    BY <1>1, <1>3
  <2> HIDE DEF Step, n, T
  <2>2. \E f : MadeInSteps(f, n, T, Queue(q), Step)
    BY ONLY <2>1, RecursionExists
  <2> QED
    BY <2>2 DEF MadeInSteps
<1>5. \A t \in 1..n : Step[t][f[t - 1]] = Turn(t, f[t - 1])
  <2> TAKE t \in 1..n
  <2>1. t - 1 \in 0..n
    BY <1>1
  <2>2. f[t - 1] \in T
    BY <2>1
  <2> QED
    BY <2>2
<1>6. f = [t \in 0..n |-> IF t = 0 THEN queue ELSE Turn(t, f[t - 1])]
  <2> DEFINE g == [t \in 0..n |-> IF t = 0 THEN queue ELSE Turn(t, f[t - 1])]
  <2> HIDE DEF queue, Turn, Step, T
  <2>1. ASSUME NEW t \in 0..n PROVE f[t] = g[t]
    <3>1. t = 0 \/ t \in 1..n
      BY <1>1
    <3> QED
      BY <1>1, <1>4, <1>5, <3>1
  <2>2. f = [t \in 0..n |-> f[t]] /\ g = [t \in 0..n |-> g[t]]
    OBVIOUS
  <2> HIDE DEF g
  <2>3. f = g
    BY <2>1, <2>2
  <2> QED
    BY <2>3 DEF g
<1>7. Def(f)
  BY <1>6 DEF TurnStep
<1>8. Abstract!AfterWalk(woken, finished) = (CHOOSE after : Def(after))[n]
  BY DEF Abstract!AfterWalk
<1> DEFINE g == CHOOSE after : Def(after)
<1>9. Def(g)
  <2> HIDE DEF Def
  <2> QED
    BY <1>7
<1>10. g = [t \in 0..n |-> IF t = 0 THEN queue ELSE Turn(t, g[t - 1])]
  <2> HIDE DEF g
  <2> QED
    BY <1>9 DEF TurnStep
<1> HIDE DEF g, Def, Step, queue
<1>11. g[0] = Queue(q) /\ \A t \in 1..n : g[t] = Turn(t, g[t - 1])
  <2>1. 0 \in 0..n
    BY <1>1
  <2>2. \A t \in 1..n : t \in 0..n /\ t # 0
    BY <1>1
  <2> HIDE DEF n, Turn
  <2> QED
    BY <1>1, <1>10, <2>1, <2>2
<1> DEFINE S == {k \in Nat : k <= n => g[k] \in T}
<1>12. 0 \in S
  BY <1>11
<1>13. ASSUME NEW k \in Nat, k \in S PROVE k + 1 \in S
  <2> SUFFICES ASSUME k + 1 <= n PROVE g[k + 1] \in T
    OBVIOUS
  <2>1. g[k] \in T /\ k + 1 \in 1..n /\ (k + 1) - 1 = k
    BY <1>1, <1>13
  <2> HIDE DEF n, T, Turn
  <2>2. g[k + 1] = Turn(k + 1, g[k])
    BY <1>11, <2>1
  <2> QED
    BY <1>2, <2>1, <2>2
<1>14. \A k \in Nat : k \in S
  <2> HIDE DEF S
  <2> QED
    BY <1>12, <1>13, Induction
<1>15. g \in [0..n -> T]
  <2>1. \A k \in 0..n : g[k] \in T
    BY <1>1, <1>14
  <2> HIDE DEF n, T, Turn
  <2> QED
    BY <1>10, <2>1
<1> QED
  BY <1>8, <1>11, <1>15 DEF g

(* To show where the walk over the list in memory ends it is enough to show,
   for each thread, where it may be after it. *)
LEMMA WalkInduction ==
  ASSUME NEW woken, NEW finished,
         NEW P \in [0..MaxThreads -> SUBSET Heaps], q \in P[0],
         \A t \in 1..MaxThreads : \A h \in P[t - 1] :
           WalkStep(woken, finished, t, h) \in P[t]
  PROVE  AfterWalk(woken, finished) \in P[MaxThreads]
<1> DEFINE n == MaxThreads
           Walk(t, h) == WalkStep(woken, finished, t, h)
           Def(after) == after = [t \in 0..n |->
             IF t = 0 THEN q
             ELSE IF t \in woken THEN thread_enqueue(after[t - 1], t)
             ELSE IF t \in finished THEN RemoveFromList(after[t - 1], t)
             ELSE after[t - 1]]
           Step == [t \in 1..n |-> [h \in Heaps |->
                      IF Walk(t, h) \in Heaps THEN Walk(t, h) ELSE h]]
<1>1. n \in Nat /\ q \in Heaps
  BY BoundsAssumption
<1> HIDE DEF Walk
<1>2. Step \in [1..n -> [Heaps -> Heaps]]
  OBVIOUS
<1>3. PICK f \in [0..n -> Heaps] : f[0] = q /\ \A t \in 1..n : f[t] = Step[t][f[t - 1]]
  <2> HIDE DEF Step, n
  <2>1. \E f : MadeInSteps(f, n, Heaps, q, Step)
    BY ONLY <1>1, <1>2, RecursionExists
  <2> QED
    BY <2>1 DEF MadeInSteps
<1>4. \A t \in 1..n : \A h \in P[t - 1] :
         h \in Heaps /\ Walk(t, h) \in P[t] /\ Walk(t, h) \in Heaps
  <2> TAKE t \in 1..n
  <2>1. t \in 0..n /\ t - 1 \in 0..n
    BY <1>1
  <2> QED
    BY <2>1 DEF Walk
<1> DEFINE S == {k \in Nat : k <= n => f[k] \in P[k]}
<1>5. 0 \in S
  BY <1>3
<1>6. ASSUME NEW k \in Nat, k \in S PROVE k + 1 \in S
  <2> SUFFICES ASSUME k + 1 <= n PROVE f[k + 1] \in P[k + 1]
    OBVIOUS
  <2>1. f[k] \in P[k] /\ k + 1 \in 1..n /\ (k + 1) - 1 = k
    BY <1>1, <1>6
  <2>2. f[k] \in Heaps /\ Walk(k + 1, f[k]) \in P[k + 1] /\ Walk(k + 1, f[k]) \in Heaps
    BY <1>4, <2>1
  <2>3. f[k + 1] = Step[k + 1][f[k]]
    BY <1>3, <2>1
  <2>4. f[k + 1] = Walk(k + 1, f[k])
    BY <2>1, <2>2, <2>3
  <2> QED
    BY <2>2, <2>4
<1>7. \A k \in Nat : k \in S
  <2> HIDE DEF S
  <2> QED
    BY <1>5, <1>6, Induction
<1>8. \A t \in 1..n : f[t] = Walk(t, f[t - 1])
  <2> TAKE t \in 1..n
  <2>1. t - 1 \in Nat /\ t - 1 <= n
    BY <1>1
  <2>2. f[t - 1] \in P[t - 1]
    BY <1>7, <2>1
  <2>3. f[t - 1] \in Heaps /\ Walk(t, f[t - 1]) \in Heaps
    BY <1>4, <2>2
  <2> QED
    BY <1>3, <2>3
<1>9. f = [t \in 0..n |-> IF t = 0 THEN q ELSE Walk(t, f[t - 1])]
  <2> DEFINE g == [t \in 0..n |-> IF t = 0 THEN q ELSE Walk(t, f[t - 1])]
  <2> HIDE DEF Step
  <2>1. ASSUME NEW t \in 0..n PROVE f[t] = g[t]
    <3>1. t = 0 \/ t \in 1..n
      BY <1>1
    <3> QED
      BY <1>3, <1>8, <3>1
  <2>2. f = [t \in 0..n |-> f[t]] /\ g = [t \in 0..n |-> g[t]]
    OBVIOUS
  <2> HIDE DEF g
  <2>3. f = g
    BY <2>1, <2>2
  <2> QED
    BY <2>3 DEF g
<1>10. Def(f)
  BY <1>9 DEF Walk, WalkStep
<1>11. AfterWalk(woken, finished) = (CHOOSE after : Def(after))[n]
  BY DEF AfterWalk
<1> DEFINE g == CHOOSE after : Def(after)
<1>12. Def(g)
  <2> HIDE DEF Def
  <2> QED
    BY <1>10
<1>13. g = [t \in 0..n |-> IF t = 0 THEN q ELSE Walk(t, g[t - 1])]
  <2> HIDE DEF g
  <2> QED
    BY <1>12 DEF Walk, WalkStep
<1> HIDE DEF g, Def, Step, S
<1>14. g[0] = q /\ \A t \in 1..n : g[t] = Walk(t, g[t - 1])
  <2>1. 0 \in 0..n
    BY <1>1
  <2>2. \A t \in 1..n : t \in 0..n /\ t # 0
    BY <1>1
  <2> HIDE DEF n
  <2> QED
    BY <1>13, <2>1, <2>2
<1> DEFINE R == {k \in Nat : k <= n => g[k] \in P[k]}
<1>15. 0 \in R
  BY <1>14
<1>16. ASSUME NEW k \in Nat, k \in R PROVE k + 1 \in R
  <2> SUFFICES ASSUME k + 1 <= n PROVE g[k + 1] \in P[k + 1]
    OBVIOUS
  <2>1. g[k] \in P[k] /\ k + 1 \in 1..n /\ (k + 1) - 1 = k
    BY <1>1, <1>16
  <2>2. g[k + 1] = Walk(k + 1, g[k])
    BY <1>14, <2>1
  <2> QED
    BY <1>4, <2>1, <2>2
<1>17. \A k \in Nat : k \in R
  <2> HIDE DEF R
  <2> QED
    BY <1>15, <1>16, Induction
<1> QED
  BY <1>1, <1>11, <1>17 DEF g

OneOrNone(t, there) == IF there THEN <<t>> ELSE <<>>

LEMMA OneMore ==
  ASSUME NEW s \in Seq(Threads), NEW t
  PROVE  /\ s \o OneOrNone(t, FALSE) = s
         /\ t \in Threads => s \o OneOrNone(t, TRUE) = Append(s, t)
<1>1. s \o <<>> = s
  OBVIOUS
<1>2. ASSUME t \in Threads PROVE s \o <<t>> = Append(s, t)
  <2> DEFINE a == s \o <<t>>
             b == Append(s, t)
             n == Len(s)
  <2>0. <<t>> \in Seq(Threads) /\ Len(<<t>>) = 1 /\ <<t>>[1] = t
    BY <1>2
  <2>1. /\ a \in Seq(Threads) /\ Len(a) = n + 1
        /\ \A j \in 1..(n + 1) : a[j] = IF j <= n THEN s[j] ELSE <<t>>[j - n]
    BY <2>0, ConcatProperties
  <2>2. /\ b \in Seq(Threads) /\ Len(b) = n + 1 /\ b[n + 1] = t
        /\ \A j \in 1..n : b[j] = s[j]
    BY <1>2, AppendProperties
  <2>3. n \in Nat
    BY LenProperties
  <2> HIDE DEF a, b, n
  <2>4. ASSUME NEW j \in 1..Len(a) PROVE a[j] = b[j]
    <3>1. CASE j = n + 1
      <4>1. ~(j <= n) /\ j - n = 1 /\ j \in 1..(n + 1)
        BY <3>1, <2>3
      <4> QED
        BY <4>1, <3>1, <2>0, <2>1, <2>2
    <3>2. CASE j # n + 1
      <4>1. j <= n /\ j \in 1..(n + 1) /\ j \in 1..n
        BY <3>2, <2>1, <2>3
      <4> QED
        BY <4>1, <2>1, <2>2
    <3> QED
      BY <3>1, <3>2
  <2>5. a = b
    BY <2>1, <2>2, <2>4, SeqEqual
  <2> QED
    BY <2>5 DEF a, b
<1> QED
  BY <1>1, <1>2 DEF OneOrNone

LEMMA RoomLeft ==
  ASSUME NEW h, NEW g, NEW n \in Nodes \ h.alive, g.alive = h.alive \union {n}
  PROVE  Cardinality(Nodes \ g.alive) = Cardinality(Nodes \ h.alive) - 1
<1> DEFINE S == Nodes \ h.alive
           R == Nodes \ g.alive
<1>1. R = S \ {n} /\ n \in S
  OBVIOUS
<1>2. IsFiniteSet(S)
  BY NodesFinite
<1> HIDE DEF S, R
<1>3. Cardinality(S \ {n}) = Cardinality(S) - 1
  BY <1>1, <1>2, FS_RemoveElement
<1>4. Cardinality(R) = Cardinality(S) - 1
  BY <1>1, <1>3
<1> QED
  BY <1>4 DEF S, R

LEMMA SomeRoom ==
  ASSUME NEW S \in SUBSET Nodes, Cardinality(S) >= 1
  PROVE  S # {}
BY FS_EmptySet

LEMMA LessLeft ==
  ASSUME NEW woken \in SUBSET Threads, NEW t \in Threads
  PROVE  /\ Cardinality(woken \ (1..t)) \in Nat
         /\ Cardinality(woken \ (1..(t - 1))) \in Nat
         /\ t \in woken => Cardinality(woken \ (1..t))
                             = Cardinality(woken \ (1..(t - 1))) - 1
         /\ t \notin woken => Cardinality(woken \ (1..t))
                                = Cardinality(woken \ (1..(t - 1)))
<1>1. IsFiniteSet(Threads) /\ t \in Nat \ {0} /\ Threads \subseteq Nat \ {0}
  BY BoundsAssumption, FS_Interval DEF Threads
<1>2. \A S \in SUBSET Threads : IsFiniteSet(S) /\ Cardinality(S) \in Nat
  BY <1>1, FS_Subset, FS_CardinalityType
<1> DEFINE A == woken \ (1..(t - 1))
           B == woken \ (1..t)
<1>3. B = A \ {t}
  <2>1. \A x \in Nat \ {0} : x \in 1..t <=> (x \in 1..(t - 1) \/ x = t)
    BY <1>1
  <2> QED
    BY <1>1, <2>1
<1>4. t \in woken => t \in A
  BY <1>1
<1>5. t \notin woken => A \ {t} = A
  OBVIOUS
<1>6. IsFiniteSet(A) /\ Cardinality(A) \in Nat /\ Cardinality(B) \in Nat
  BY <1>2
<1> HIDE DEF A, B
<1>7. t \in A => Cardinality(A \ {t}) = Cardinality(A) - 1
  BY <1>6, FS_RemoveElement
<1> QED
  BY <1>3, <1>4, <1>5, <1>6, <1>7 DEF A, B

(* The walk adds to and drops from the sequence what it adds to and drops from
   the list, which keeps room for the rest. *)
LEMMA Walks ==
  ASSUME torn = FALSE, NEW c, Sound(q, c),
         NEW woken \in SUBSET Threads, NEW finished \in SUBSET Threads,
         NEW more \in Nat, Room(Cardinality(woken) + more)
  PROVE  LET h == AfterWalk(woken, finished) IN
         /\ Cardinality(Nodes \ h.alive) >= more
         /\ \E d : /\ Sound(h, d)
                   /\ Clean(q, c) =>
                        /\ Clean(h, d) /\ Keeps(q, c, h, d)
                        /\ Queue(h) = Abstract!AfterWalk(woken, finished)
<1>1. Queue(q) \in Seq(Threads) /\ q \in Heaps
  BY SoundFacts
<1>2. PICK f \in [0..MaxThreads -> Seq(Threads)] :
           /\ f[0] = Queue(q)
           /\ \A t \in 1..MaxThreads : f[t] = TurnStep(woken, finished, t, f[t - 1])
           /\ Abstract!AfterWalk(woken, finished) = f[MaxThreads]
  BY <1>1, TurnWalks
<1> DEFINE Free(h) == Cardinality(Nodes \ h.alive)
           Left(t) == Cardinality(woken \ (1..t))
           Agrees(t, h, d) == /\ Sound(h, d)
                              /\ Clean(q, c) => /\ Clean(h, d) /\ Keeps(q, c, h, d)
                                                /\ Queue(h) = f[t]
           P == [t \in 0..MaxThreads |->
                   {h \in Heaps : Free(h) >= Left(t) + more /\ \E d : Agrees(t, h, d)}]
<1>3. MaxThreads \in Nat /\ Threads = 1..MaxThreads /\ 0 \in 0..MaxThreads
  BY BoundsAssumption DEF Threads
<1>4. \A h : Free(h) \in Nat
  <2> TAKE h
  <2>1. Nodes \ h.alive \in SUBSET Nodes
    OBVIOUS
  <2> QED
    BY <2>1, NodesFinite
<1>5. q \in P[0]
  <2>1. woken \ (1..0) = woken
    OBVIOUS
  <2>2. Free(q) >= Left(0) + more
    BY <2>1 DEF Room
  <2>3. Keeps(q, c, q, c)
    BY DEF Keeps
  <2>4. Agrees(0, q, c)
    BY <1>2, <2>3
  <2> HIDE DEF Free, Left, Agrees
  <2> QED
    BY <1>1, <1>3, <2>2, <2>4
<1>6. ASSUME NEW t \in 1..MaxThreads, NEW h \in P[t - 1]
      PROVE  WalkStep(woken, finished, t, h) \in P[t]
  <2> DEFINE g == WalkStep(woken, finished, t, h)
  <2>1. t \in Threads /\ t - 1 \in 0..MaxThreads /\ t \in 0..MaxThreads /\ t \in Nat
    BY <1>3
  <2>2. PICK d : Free(h) >= Left(t - 1) + more /\ Agrees(t - 1, h, d)
    BY <2>1
  <2>3. /\ Left(t) \in Nat /\ Left(t - 1) \in Nat
        /\ t \in woken => Left(t) = Left(t - 1) - 1
        /\ t \notin woken => Left(t) = Left(t - 1)
    BY <2>1, LessLeft
  <2>4. f[t] = TurnStep(woken, finished, t, f[t - 1])
    BY <1>2
  <2> HIDE DEF Left, P
  <2>5. Free(g) >= Left(t) + more /\ \E e : Agrees(t, g, e)
    <3>1. CASE t \in woken
      <4>1. g = thread_enqueue(h, t) /\ f[t] = Append(f[t - 1], t)
        BY <2>4, <3>1 DEF WalkStep, TurnStep
      <4>2. Nodes \ h.alive # {}
        <5>1. Free(h) >= 1
          BY <2>2, <2>3, <3>1, <1>4
        <5> QED
          BY <5>1, SomeRoom
      <4>3. PICK n : n = malloc(h)
        OBVIOUS
      <4>4. /\ n \in Nodes \ h.alive /\ g.alive = h.alive \union {n}
            /\ \E e : Sound(g, e)
            /\ Clean(h, d) =>
                 /\ Clean(g, Append(d, n)) /\ Keeps(h, d, g, Append(d, n))
                 /\ Queue(g) = Append(Queue(h), t)
        BY <2>1, <2>2, <4>1, <4>2, <4>3, Enqueues
      <4>5. Free(g) = Free(h) - 1
        BY <4>4, RoomLeft
      <4> HIDE DEF g
      <4>6. Free(g) >= Left(t) + more
        BY <2>2, <2>3, <3>1, <1>4, <4>5
      <4>7. CASE Clean(q, c)
        <5>1. Keeps(q, c, g, Append(d, n))
          BY <2>2, <4>4, <4>7, KeepsTransitive
        <5>2. Agrees(t, g, Append(d, n))
          BY <2>2, <4>1, <4>4, <4>7, <5>1 DEF Clean
        <5> QED
          BY <4>6, <5>2
      <4>8. CASE ~Clean(q, c)
        BY <4>4, <4>6, <4>8
      <4> QED
        BY <4>7, <4>8
    <3>2. CASE t \notin woken /\ t \in finished
      <4>1. g = RemoveFromList(h, t) /\ f[t] = Abstract!Without(f[t - 1], t)
        BY <2>4, <3>2 DEF WalkStep, TurnStep
      <4>2. /\ g.alive = h.alive
            /\ \E e : /\ Sound(g, e)
                      /\ Clean(h, d) => Clean(g, e) /\ Keeps(h, d, g, e)
                      /\ Queue(g) = Abstract!Without(Queue(h), t)
        BY <2>2, <4>1, Removes
      <4> HIDE DEF g
      <4>3. PICK e : /\ Sound(g, e)
                     /\ Clean(h, d) => Clean(g, e) /\ Keeps(h, d, g, e)
                     /\ Queue(g) = Abstract!Without(Queue(h), t)
        BY <4>2
      <4>4. Clean(q, c) => Keeps(q, c, g, e)
        BY <2>2, <4>3, KeepsTransitive
      <4>5. Agrees(t, g, e)
        BY <2>2, <4>1, <4>3, <4>4
      <4> QED
        BY <2>2, <2>3, <3>2, <4>2, <4>5
    <3>3. CASE t \notin woken /\ t \notin finished
      <4>1. g = h /\ f[t] = f[t - 1]
        BY <2>4, <3>3 DEF WalkStep, TurnStep
      <4> QED
        BY <2>2, <2>3, <3>3, <4>1
    <3> QED
      BY <3>1, <3>2, <3>3
  <2>6. g \in Heaps
    BY <2>5, SoundFacts
  <2> HIDE DEF g, Free, Agrees
  <2> QED
    BY <2>1, <2>5, <2>6 DEF P, g
<1>7. P \in [0..MaxThreads -> SUBSET Heaps]
  OBVIOUS
<1>8. AfterWalk(woken, finished) \in P[MaxThreads]
  <2> HIDE DEF P
  <2> QED
    BY <1>5, <1>6, <1>7, WalkInduction
<1>9. PICK h : h = AfterWalk(woken, finished)
  OBVIOUS
<1>10. Free(h) >= Left(MaxThreads) + more /\ \E d : Agrees(MaxThreads, h, d)
  BY <1>3, <1>8, <1>9
<1>11. Left(MaxThreads) = 0
  <2>1. woken \ (1..MaxThreads) = {}
    BY <1>3
  <2> QED
    BY <2>1, FS_EmptySet
<1>12. Free(h) >= more
  BY <1>4, <1>10, <1>11
<1> QED
  BY <1>2, <1>9, <1>10, <1>12

(* The preempted thread goes back. *)
LEMMA Requeues ==
  ASSUME torn = FALSE, NEW c, Sound(q, c), current \in Threads,
         NEW woken \in SUBSET Threads, NEW finished \in SUBSET Threads,
         NEW preempted \in BOOLEAN,
         Room(Cardinality(woken) + (IF preempted THEN 1 ELSE 0))
  PROVE  LET h == Requeued(AfterWalk(woken, finished), preempted) IN
         \E d : /\ Sound(h, d)
                /\ Clean(q, c) =>
                     /\ Clean(h, d) /\ Keeps(q, c, h, d)
                     /\ Queue(h) = Abstract!AfterWalk(woken, finished)
                                     \o OneOrNone(current, policy = RR /\ preempted)
<1> DEFINE back == policy = RR /\ preempted
           h == Requeued(AfterWalk(woken, finished), preempted)
<1>1. PICK walked : walked = AfterWalk(woken, finished)
  OBVIOUS
<1>2. PICK more : more = IF preempted THEN 1 ELSE 0
  OBVIOUS
<1>3. PICK s : s = Abstract!AfterWalk(woken, finished)
  OBVIOUS
<1>4. /\ Cardinality(Nodes \ walked.alive) >= more
      /\ \E d : /\ Sound(walked, d)
                /\ Clean(q, c) => /\ Clean(walked, d) /\ Keeps(q, c, walked, d)
                                  /\ Queue(walked) = s
  <2>1. more \in Nat /\ Room(Cardinality(woken) + more)
    BY <1>2
  <2> QED
    BY <1>1, <1>3, <2>1, Walks
<1>5. PICK d : /\ Sound(walked, d)
               /\ Clean(q, c) => /\ Clean(walked, d) /\ Keeps(q, c, walked, d)
                                 /\ Queue(walked) = s
  BY <1>4
<1>6. Queue(walked) \in Seq(Threads)
  BY <1>5, SoundFacts
<1>7. CASE ~back
  <2>1. h = walked
    BY <1>1, <1>7 DEF Requeued
  <2>2. OneOrNone(current, back) = <<>> /\ Queue(walked) \o <<>> = Queue(walked)
    BY <1>6, <1>7 DEF OneOrNone
  <2> HIDE DEF h, back
  <2>3. Clean(q, c) => Queue(h) = s \o OneOrNone(current, back)
    BY <1>5, <2>1, <2>2
  <2>4. Sound(h, d) /\ (Clean(q, c) => Clean(h, d) /\ Keeps(q, c, h, d))
    BY <1>5, <2>1
  <2> QED
    BY <1>3, <2>3, <2>4 DEF h, back
<1>8. CASE back
  <2>1. h = thread_enqueue(walked, current)
    BY <1>1, <1>8 DEF Requeued
  <2>2. Nodes \ walked.alive # {}
    <3>1. Cardinality(Nodes \ walked.alive) >= 1
      BY <1>2, <1>4, <1>8
    <3> QED
      BY <3>1, SomeRoom
  <2>3. PICK e : e = Append(d, malloc(walked))
    OBVIOUS
  <2>4. /\ \E b : Sound(h, b)
        /\ Clean(walked, d) => /\ Clean(h, e) /\ Keeps(walked, d, h, e)
                               /\ Queue(h) = Append(Queue(walked), current)
    BY <2>1, <2>2, <2>3, <1>5, Enqueues
  <2>5. Queue(walked) \o OneOrNone(current, back) = Append(Queue(walked), current)
    <3>1. back = TRUE
      BY <1>8
    <3> QED
      BY <3>1, <1>6, OneMore
  <2> HIDE DEF h, back
  <2>6. CASE Clean(q, c)
    <3>1. Keeps(q, c, h, e)
      BY <1>5, <2>4, <2>6, KeepsTransitive
    <3>2. Queue(h) = s \o OneOrNone(current, back)
      BY <1>5, <2>4, <2>5, <2>6
    <3>3. Clean(h, e) /\ Sound(h, e)
      BY <1>5, <2>4, <2>6 DEF Clean
    <3> QED
      BY <1>3, <3>1, <3>2, <3>3 DEF h, back
  <2>7. CASE ~Clean(q, c)
    BY <2>4, <2>7 DEF h
  <2> QED
    BY <2>6, <2>7
<1> QED
  BY <1>7, <1>8

LEMMA Chooses ==
  ASSUME policy \in {RR, LOT, FCFS}, NEW h, NEW c, Sound(h, c), h.head # NULL,
         NEW choice \in Scheduled(h)
  PROVE  /\ Queue(h) # <<>> /\ choice[2] \in Threads
         /\ Clean(h, c) => /\ \E d : Clean(choice[1], d) /\ Keeps(h, c, choice[1], d)
                           /\ Queue(choice[1]) \in Abstract!Turned(Queue(h))
<1>1. /\ Queue(h) \in Seq(Threads) /\ Len(Queue(h)) = Len(c)
      /\ c \in Seq(Nodes) /\ Along(h.next, c) /\ h.head = First(c)
      /\ h.next \in Pointers
  BY SoundFacts
<1>2. c # <<>> /\ 1 \in 1..Len(c) /\ Len(c) # 0
  BY <1>1, PathFacts DEF First
<1>3. Queue(h) # <<>> /\ DOMAIN Queue(h) = 1..Len(c)
      /\ \A k \in 1..Len(c) : Queue(h)[k] \in Threads
  BY <1>1, <1>2, EmptySeq, ElementOfSeq
<1>4. Abstract!Turned(Queue(h)) =
        CASE policy = RR   -> {Tail(Queue(h))}
          [] policy = LOT  -> {Append(RemoveAt(Queue(h), k), Queue(h)[k]) :
                                 k \in DOMAIN Queue(h)}
          [] policy = FCFS -> {Queue(h)}
  BY DEF Abstract!Turned, Abstract!RemoveAt, RemoveAt
<1>5. CASE policy = RR
  <2>0. policy # LOT /\ policy # FCFS
    BY <1>5 DEF LOT, RR, FCFS
  <2>10. Scheduled(h) = {<<thread_dequeue(h), Queue(h)[1]>>}
    BY <1>5, <2>0, Zenon DEF Scheduled
  <2>11. Abstract!Turned(Queue(h)) = {Tail(Queue(h))}
    BY <1>4, <1>5, <2>0, Zenon
  <2>1. choice = <<thread_dequeue(h), Queue(h)[1]>>
    BY <2>10
  <2>2. ASSUME Clean(h, c)
        PROVE  /\ \E d : Clean(choice[1], d) /\ Keeps(h, c, choice[1], d)
               /\ Queue(choice[1]) = Tail(Queue(h))
    <3>1. choice[1] = Count(Release(Cut(h, c, 1), c[1]), -1)
      BY <2>1, <2>2, <1>2, Dequeues
    <3>2. /\ Clean(choice[1], RemoveAt(c, 1)) /\ Keeps(h, c, choice[1], RemoveAt(c, 1))
          /\ Queue(choice[1]) = RemoveAt(Queue(h), 1)
      BY <2>2, <3>1, <1>2, Takes
    <3>3. Tail(Queue(h)) = RemoveAt(Queue(h), 1)
      <4> DEFINE s == Queue(h)
                 a == RemoveAt(s, 1)
                 n == Len(c)
      <4>1. s \in Seq(Threads) /\ s # <<>> /\ Len(s) = n /\ n \in Nat /\ 1 \in 1..Len(s)
        BY <1>1, <1>2, <1>3, LenProperties
      <4> HIDE DEF s, n
      <4>2. /\ Tail(s) \in Seq(Threads) /\ Len(Tail(s)) = n - 1
            /\ \A j \in 1..(n - 1) : Tail(s)[j] = s[j + 1]
        BY <4>1, HeadTailProperties
      <4>3. /\ a \in Seq(Threads) /\ Len(a) = n - 1
            /\ \A j \in 1..(n - 1) : a[j] = IF j < 1 THEN s[j] ELSE s[j + 1]
        BY <4>1, RemoveAtProperties
      <4> HIDE DEF a
      <4>4. \A j \in 1..Len(a) : Tail(s)[j] = a[j]
        BY <4>1, <4>2, <4>3
      <4>5. Tail(s) = a
        BY <4>2, <4>3, <4>4, SeqEqual
      <4> QED
        BY <4>5 DEF s, a
    <3> QED
      BY <3>2, <3>3
  <2> QED
    BY <1>2, <1>3, <2>1, <2>2, <2>11
<1>6. CASE policy = LOT
  <2>0. policy # RR /\ policy # FCFS
    BY <1>6 DEF LOT, RR, FCFS
  <2>10. Scheduled(h) = {<<thread_enqueue(Drawn(h, k), Queue(h)[k]), Queue(h)[k]>> :
                           k \in DOMAIN Queue(h)}
    BY <1>6, <2>0, Zenon DEF Scheduled
  <2>11. Abstract!Turned(Queue(h)) = {Append(RemoveAt(Queue(h), k), Queue(h)[k]) :
                                        k \in DOMAIN Queue(h)}
    BY <1>4, <1>6, <2>0, Zenon
  <2>1. PICK k \in 1..Len(c) :
          choice = <<thread_enqueue(Drawn(h, k), Queue(h)[k]), Queue(h)[k]>>
    BY <1>3, <2>10
  <2>2. ASSUME Clean(h, c)
        PROVE  /\ \E d : Clean(choice[1], d) /\ Keeps(h, c, choice[1], d)
               /\ Queue(choice[1]) = Append(RemoveAt(Queue(h), k), Queue(h)[k])
    <3> DEFINE g == Drawn(h, k)
               d == RemoveAt(c, k)
               t == Queue(h)[k]
    <3>1. /\ Clean(g, d) /\ Keeps(h, c, g, d)
          /\ c[k] \in h.alive /\ g.alive = h.alive \ {c[k]}
          /\ Queue(g) = RemoveAt(Queue(h), k)
      BY <2>2, Draws, Takes
    <3>2. Nodes \ g.alive # {} /\ t \in Threads /\ Sound(g, d)
      BY <3>1, <1>1, <1>3, ElementOfSeq DEF Clean
    <3>3. choice[1] = thread_enqueue(g, t)
      BY <2>1
    <3> HIDE DEF g, d, t
    <3> DEFINE e == Append(d, malloc(g))
    <3>4. /\ Clean(thread_enqueue(g, t), e) /\ Keeps(g, d, thread_enqueue(g, t), e)
          /\ Queue(thread_enqueue(g, t)) = Append(Queue(g), t)
      BY <3>1, <3>2, Enqueues
    <3>5. Keeps(h, c, thread_enqueue(g, t), e)
      BY <3>1, <3>4, KeepsTransitive
    <3> HIDE DEF e
    <3> QED
      BY <3>1, <3>3, <3>4, <3>5 DEF t
  <2>3. choice[2] = Queue(h)[k]
    BY <2>1
  <2>4. Append(RemoveAt(Queue(h), k), Queue(h)[k]) \in Abstract!Turned(Queue(h))
    BY <1>3, <2>11
  <2> QED
    BY <1>3, <2>2, <2>3, <2>4
<1>7. CASE policy = FCFS
  <2>0. policy # RR /\ policy # LOT
    BY <1>7 DEF LOT, RR, FCFS
  <2>1. choice = <<h, Queue(h)[1]>>
    BY <1>7, <2>0 DEF Scheduled
  <2>2. Keeps(h, c, h, c)
    BY DEF Keeps
  <2>3. Queue(h) \in Abstract!Turned(Queue(h))
    BY <1>4, <1>7, <2>0
  <2> QED
    BY <1>2, <1>3, <2>1, <2>2, <2>3
<1> QED
  BY <1>5, <1>6, <1>7

-----------------------------------------------------------------------------
(***************************************************************************)
(* The inductive invariant.                                                *)
(***************************************************************************)
(* The calls that have made a node and have not put it into the list. *)
Making == {"test", "setTail", "setHead", "link"}

(* The calls that are between their first look at the list and the count. *)
Active == {t \in 0..MaxThreads : pc[t] \in Window}

Places == {"idle", "find", "yield", "test"} \union Window

(* Where no search has begun: prev_node is NULL. *)
Fresh == {"idle", "find", "yield"}

Types ==
  /\ policy \in {RR, LOT, FCFS}
  /\ current \in 0..MaxThreads
  /\ pc \in [0..MaxThreads -> Places]
  /\ subject \in [0..MaxThreads -> 0..MaxThreads]
  /\ node \in [0..MaxThreads -> Nodes \union {NULL}]
  /\ prev \in [0..MaxThreads -> Nodes \union {NULL}]
  /\ current = 0 => \A t \in Threads : pc[t] = "idle"
  /\ \A t \in 0..MaxThreads : pc[t] \in Fresh => prev[t] = NULL

(* A node that is made is allocated, off the path, the last of its own list,
   and one call's only. *)
Apart(c) ==
  \A t \in 0..MaxThreads : pc[t] \in Making =>
    /\ node[t] \in q.alive \ On(c) /\ q.next[node[t]] = NULL
    /\ \A u \in 0..MaxThreads : (u # t /\ pc[u] \in Making) => node[u] # node[t]

(* The search of t stands on the k-th node, and has not passed its thread. *)
StandsOn(t, c, k) ==
  /\ node[t] = c[k] /\ prev[t] = IF k = 1 THEN NULL ELSE c[k - 1]
  /\ \A j \in 1..(k - 1) : q.thread[c[j]] # subject[t]

(* How far the list is when the call of t is in its window. *)
Midway(t, c) ==
  /\ pc[t] = "setTail" => Clean(q, c) /\ c = <<>>
  /\ pc[t] = "setHead" => (c = <<>> /\ q.size = 0 /\ q.tail = node[t])
  /\ pc[t] = "link" => Clean(q, c) /\ c # <<>>
  /\ pc[t] \in {"moveTail", "count"} =>
       (c # <<>> /\ c[Len(c)] = node[t] /\ q.size = Len(c) - 1)
  /\ pc[t] = "count" => q.tail = node[t]
  /\ pc[t] = "walk" => Clean(q, c) /\ \E k \in 1..Len(c) : StandsOn(t, c, k)
  /\ pc[t] = "unlink" =>
       /\ Clean(q, c)
       /\ \E k \in 1..Len(c) : StandsOn(t, c, k) /\ q.thread[c[k]] = subject[t]
  /\ pc[t] \in {"cutTail", "uncount"} => q.size = Len(c) + 1
  /\ pc[t] = "cutTail" => (c # <<>> /\ prev[t] = c[Len(c)])
  /\ (pc[t] = "uncount" /\ c # <<>>) => q.tail = c[Len(c)]

(* At most one call is in its window. *)
Holds(c) ==
  /\ Sound(q, c) /\ Apart(c)
  /\ Active = {} => Clean(q, c)
  /\ \A t \in Active : Midway(t, c) /\ \A u \in Active : u = t

Steady == Types /\ Holds(Chain(q))

IInv == torn \in BOOLEAN /\ (~torn => Steady)

(* What a step that tears nothing does to the sequence. *)
Evolves ==
  \/ Queue(q') = Queue(q)
  \/ \E t \in Threads : \/ Queue(q') = Append(Queue(q), t)
                        \/ Queue(q') = Abstract!Without(Queue(q), t)
  \/ \E woken, finished \in SUBSET Threads,
        preempted \in {<<>>} \union {<<t>> : t \in Threads} :
       LET s == Abstract!AfterWalk(woken, finished) \o preempted
       IN  Queue(q') \in IF s = <<>> THEN {<<>>} ELSE Abstract!Turned(s)

LEMMA SteadyPath ==
  ASSUME Steady
  PROVE  Types /\ \E c : Holds(c)
BY DEF Steady

LEMMA PathSteady ==
  ASSUME NEW d, Types', Holds(d)'
  PROVE  Steady'
<1>1. Sound(q', d)
  BY DEF Holds
<1>2. Chain(q') = d
  BY <1>1, SoundFacts
<1>3. Chain(q)' = d
  BY <1>2 DEF Chain
<1> QED
  BY <1>3 DEF Steady

(* The place of the running thread changes. *)
LEMMA Goes ==
  ASSUME Types, NEW place \in Places, pc' = [pc EXCEPT ![current] = place]
  PROVE  /\ current \in 0..MaxThreads
         /\ pc' \in [0..MaxThreads -> Places] /\ pc'[current] = place
         /\ \A t \in 0..MaxThreads : t # current => pc'[t] = pc[t]
         /\ \A t \in 0..MaxThreads : t # current => (t \in Active' <=> t \in Active)
         /\ current \in Active' <=> place \in Window
         /\ current \in Active <=> pc[current] \in Window
         /\ current = 0 => \A t \in Threads : pc'[t] = "idle"
<1>1. /\ current \in 0..MaxThreads /\ pc \in [0..MaxThreads -> Places]
      /\ current = 0 => \A t \in Threads : pc[t] = "idle"
  BY DEF Types
<1>2. /\ pc' \in [0..MaxThreads -> Places] /\ pc'[current] = place
      /\ \A t \in 0..MaxThreads : t # current => pc'[t] = pc[t]
  BY <1>1
<1>3. \A t \in Threads : t \in 0..MaxThreads /\ t # 0
  BY BoundsAssumption DEF Threads
<1> QED
  BY <1>1, <1>2, <1>3 DEF Active

LEMMA TypesKept ==
  ASSUME Types, NEW place \in Places, pc' = [pc EXCEPT ![current] = place],
         policy' = policy, current' = current,
         subject' \in [0..MaxThreads -> 0..MaxThreads],
         node' \in [0..MaxThreads -> Nodes \union {NULL}],
         prev' \in [0..MaxThreads -> Nodes \union {NULL}],
         \A t \in 0..MaxThreads : t # current => prev'[t] = prev[t],
         place \in Fresh => prev'[current] = NULL
  PROVE  Types'
<1>1. /\ pc' \in [0..MaxThreads -> Places]
      /\ current = 0 => \A t \in Threads : pc'[t] = "idle"
      /\ pc'[current] = place /\ \A t \in 0..MaxThreads : t # current => pc'[t] = pc[t]
  BY Goes
<1>2. \A t \in 0..MaxThreads : pc'[t] \in Fresh => prev'[t] = NULL
  BY <1>1 DEF Types
<1> QED
  BY <1>1, <1>2 DEF Types

(* What the call that ends leaves behind. *)
LEMMA LocalsReset ==
  ASSUME Types, CallOver
  PROVE  /\ subject' \in [0..MaxThreads -> 0..MaxThreads]
         /\ node' \in [0..MaxThreads -> Nodes \union {NULL}]
         /\ prev' \in [0..MaxThreads -> Nodes \union {NULL}]
         /\ prev'[current] = NULL
         /\ \A t \in 0..MaxThreads : t # current =>
              subject'[t] = subject[t] /\ node'[t] = node[t] /\ prev'[t] = prev[t]
<1>1. /\ current \in 0..MaxThreads /\ 0 \in 0..MaxThreads
      /\ subject \in [0..MaxThreads -> 0..MaxThreads]
      /\ node \in [0..MaxThreads -> Nodes \union {NULL}]
      /\ prev \in [0..MaxThreads -> Nodes \union {NULL}]
  BY BoundsAssumption DEF Types
<1> QED
  BY <1>1 DEF CallOver

(* A call that is not in its window goes on, and leaves the path as it is. *)
LEMMA GoesOutside ==
  ASSUME Types, NEW c, Holds(c), NEW place \in Places \ Window,
         pc' = [pc EXCEPT ![current] = place], pc[current] \notin Window,
         Sound(q', c), Apart(c)', Clean(q, c) => Clean(q', c),
         q'.size = q.size, q'.tail = q.tail,
         \A k \in 1..Len(c) : q'.thread[c[k]] = q.thread[c[k]],
         \A t \in 0..MaxThreads : t # current =>
           subject'[t] = subject[t] /\ node'[t] = node[t] /\ prev'[t] = prev[t]
  PROVE  Holds(c)'
<1>0. place \in Places
  OBVIOUS
<1>1. /\ current \in 0..MaxThreads /\ current \notin Active /\ current \notin Active'
      /\ \A t \in 0..MaxThreads : t # current => pc'[t] = pc[t]
      /\ \A t \in 0..MaxThreads : t # current => (t \in Active' <=> t \in Active)
  BY <1>0, Goes
<1>2. Active' = Active
  BY <1>1 DEF Active
<1>3. Active = {} => Clean(q', c)
  BY DEF Holds
<1>4. ASSUME NEW t \in Active
      PROVE  Midway(t, c)'
  <2>1. Midway(t, c) /\ t \in 0..MaxThreads
    BY <1>4 DEF Holds, Active
  <2>2. t # current
    BY <1>1, <1>4
  <2>3. pc'[t] = pc[t] /\ node'[t] = node[t] /\ prev'[t] = prev[t]
        /\ subject'[t] = subject[t]
    BY <1>1, <2>1, <2>2
  <2>4. Len(c) \in Nat
    BY SoundFacts, PathFacts
  <2>5. \A k \in 1..Len(c) : \A j \in 1..(k - 1) : j \in 1..Len(c)
    BY <2>4
  <2>6. \A k \in 1..Len(c) : StandsOn(t, c, k) => StandsOn(t, c, k)'
    BY <2>3, <2>5 DEF StandsOn
  <2>7. pc'[t] = "walk" => Clean(q', c) /\ \E k \in 1..Len(c) : StandsOn(t, c, k)'
    BY <2>1, <2>3, <2>6 DEF Midway
  <2>8. pc'[t] = "unlink" =>
          /\ Clean(q', c)
          /\ \E k \in 1..Len(c) : StandsOn(t, c, k)' /\ q'.thread[c[k]] = subject'[t]
    <3> SUFFICES ASSUME pc[t] = "unlink"
                 PROVE  /\ Clean(q', c)
                        /\ \E k \in 1..Len(c) : StandsOn(t, c, k)'
                                                /\ q'.thread[c[k]] = subject'[t]
      BY <2>3
    <3>1. PICK k \in 1..Len(c) : StandsOn(t, c, k) /\ q.thread[c[k]] = subject[t]
      BY <2>1 DEF Midway
    <3>2. StandsOn(t, c, k)' /\ q'.thread[c[k]] = subject'[t]
      BY <2>3, <2>6, <3>1
    <3>3. Clean(q', c)
      BY <2>1 DEF Midway
    <3> QED
      BY <3>2, <3>3
  <2> QED
    BY <2>1, <2>3, <2>7, <2>8 DEF Midway
<1>5. \A t \in Active' : Midway(t, c)' /\ \A u \in Active' : u = t
  BY <1>2, <1>4 DEF Holds
<1> QED
  BY <1>2, <1>3, <1>5 DEF Holds

(* The nodes that others have made are still apart from a path that has
   changed elsewhere. *)
LEMMA ApartKept ==
  ASSUME NEW c, Apart(c), NEW d, Keeps(q, c, q', d),
         \A t \in 0..MaxThreads : pc'[t] \in Making => pc[t] \in Making /\ node'[t] = node[t]
  PROVE  Apart(d)'
<1> SUFFICES ASSUME NEW t \in 0..MaxThreads, pc'[t] \in Making
             PROVE  /\ node'[t] \in q'.alive \ On(d) /\ q'.next[node'[t]] = NULL
                    /\ \A u \in 0..MaxThreads : (u # t /\ pc'[u] \in Making)
                         => node'[u] # node'[t]
  BY DEF Apart
<1>1. /\ pc[t] \in Making /\ node'[t] = node[t]
      /\ node[t] \in q.alive \ On(c) /\ q.next[node[t]] = NULL
      /\ \A u \in 0..MaxThreads : (u # t /\ pc[u] \in Making) => node[u] # node[t]
  BY DEF Apart
<1>2. node[t] \in q'.alive \ On(d) /\ q'.next[node[t]] = q.next[node[t]]
  BY <1>1 DEF Keeps
<1>3. \A u \in 0..MaxThreads : pc'[u] \in Making => pc[u] \in Making /\ node'[u] = node[u]
  OBVIOUS
<1> QED
  BY <1>1, <1>2, <1>3

(* The list stays as it is, and so does what is known of it. *)
LEMMA SameList ==
  ASSUME Types, NEW c, Holds(c), NEW place \in Places \ Window,
         pc' = [pc EXCEPT ![current] = place], pc[current] \notin Window,
         place \notin Making, q' = q,
         \A t \in 0..MaxThreads : t # current =>
           subject'[t] = subject[t] /\ node'[t] = node[t] /\ prev'[t] = prev[t]
  PROVE  Holds(c)'
<1>1. Sound(q, c) /\ Apart(c)
  BY DEF Holds
<1>2. /\ current \in 0..MaxThreads /\ pc'[current] = place
      /\ \A t \in 0..MaxThreads : t # current => pc'[t] = pc[t]
  <2>1. place \in Places
    OBVIOUS
  <2> QED
    BY <2>1, Goes
<1>3. Apart(c)'
  <2>1. \A t \in 0..MaxThreads : pc'[t] \in Making => pc[t] \in Making /\ node'[t] = node[t]
    BY <1>2
  <2>2. Keeps(q, c, q', c)
    BY DEF Keeps
  <2> QED
    BY <1>1, <2>1, <2>2, ApartKept
<1>4. /\ Sound(q', c) /\ (Clean(q, c) => Clean(q', c))
      /\ q'.size = q.size /\ q'.tail = q.tail
      /\ \A k \in 1..Len(c) : q'.thread[c[k]] = q.thread[c[k]]
  BY <1>1
<1> QED
  BY <1>3, <1>4, GoesOutside

(* A call enters its window without a write, and no other is in its own. *)
LEMMA EntersWindow ==
  ASSUME Types, NEW c, Holds(c), NEW place \in Window, NEW mover, mover = current,
         pc' = [pc EXCEPT ![current] = place], pc[current] \notin Window,
         q' = q, Starts, ~torn',
         \A t \in 0..MaxThreads : pc'[t] \in Making => pc[t] \in Making /\ node'[t] = node[t],
         Clean(q, c) => Midway(mover, c)'
  PROVE  Holds(c)'
<1>0. place \in Places
  BY DEF Places
<1>1. Sound(q, c) /\ Apart(c) /\ (Active = {} => Clean(q, c))
  BY DEF Holds
<1>2. /\ current \in 0..MaxThreads /\ current \in Active' /\ current \notin Active
      /\ \A t \in 0..MaxThreads : t # current => (t \in Active' <=> t \in Active)
  BY <1>0, Goes
<1>3. Active = {}
  <2>1. ~Busy((0..MaxThreads) \ {current})
    BY DEF Starts
  <2> QED
    BY <1>2, <2>1 DEF Busy, Active
<1>4. \A t \in Active' : t = current
  BY <1>2, <1>3 DEF Active
<1>5. Apart(c)'
  <2>1. Keeps(q, c, q', c)
    BY DEF Keeps
  <2> QED
    BY <1>1, <2>1, ApartKept
<1>6. Midway(mover, c)'
  BY <1>1, <1>3
<1>7. \A t \in Active' : Midway(t, c)' /\ \A u \in Active' : u = t
  BY <1>4, <1>6
<1> QED
  BY <1>1, <1>2, <1>5, <1>7 DEF Holds

(* A call in its window is the only one. *)
LEMMA HoldsMidway ==
  ASSUME Types, NEW c, Holds(c), pc[current] \in Window
  PROVE  Active = {current} /\ current \in 0..MaxThreads /\ Midway(current, c)
<1>1. current \in 0..MaxThreads /\ current \in Active
  BY DEF Types, Active
<1> QED
  BY <1>1 DEF Holds

(* A call stays in its window, and the path becomes d. *)
LEMMA StaysInWindow ==
  ASSUME Types, NEW c, Holds(c), NEW d, NEW place \in Window,
         NEW mover, mover = current,
         pc[current] \in Window, pc' = [pc EXCEPT ![current] = place],
         policy' = policy, current' = current, subject' = subject,
         node' \in [0..MaxThreads -> Nodes \union {NULL}],
         prev' \in [0..MaxThreads -> Nodes \union {NULL}],
         \A t \in 0..MaxThreads : t # current => prev'[t] = prev[t],
         Sound(q', d), Apart(d)', Midway(mover, d)'
  PROVE  Steady'
<1>0. place \in Places /\ place \notin Fresh
  BY DEF Places, Window, Fresh
<1>1. Active = {current}
  BY HoldsMidway
<1>2. /\ current \in Active'
      /\ \A t \in 0..MaxThreads : t # current => (t \in Active' <=> t \in Active)
  BY <1>0, Goes DEF Active
<1>3. \A t \in Active' : t = mover
  BY <1>1, <1>2 DEF Active
<1>4. \A t \in Active' : Midway(t, d)' /\ \A u \in Active' : u = t
  BY <1>3
<1>5. Holds(d)'
  BY <1>2, <1>4 DEF Holds
<1>6. Types'
  <2>1. subject' \in [0..MaxThreads -> 0..MaxThreads]
    BY DEF Types
  <2> QED
    BY <1>0, <2>1, TypesKept
<1> QED
  BY <1>5, <1>6, PathSteady

LEMMA WriteStep ==
  ASSUME Types, NEW c, Holds(c), NEW d, NEW place \in Window,
         NEW mover, mover = current,
         pc[current] \in Window, pc' = [pc EXCEPT ![current] = place],
         policy' = policy, current' = current, UNCHANGED Locals,
         Sound(q', d), Apart(d)', Midway(mover, d)'
  PROVE  Steady'
<1>1. /\ subject' = subject
      /\ node' \in [0..MaxThreads -> Nodes \union {NULL}]
      /\ prev' \in [0..MaxThreads -> Nodes \union {NULL}]
      /\ \A t \in 0..MaxThreads : t # current => prev'[t] = prev[t]
  BY DEF Types, Locals
<1> QED
  BY <1>1, StaysInWindow

(* A call leaves its window, and the fields of the list agree. *)
LEMMA LeavesWindow ==
  ASSUME Types, NEW c, Holds(c),
         NEW place \in Places \ Window, place \notin Making,
         pc[current] \in Window, pc' = [pc EXCEPT ![current] = place],
         policy' = policy, current' = current, CallOver,
         Clean(q', c), Keeps(q, c, q', c)
  PROVE  Steady'
<1>0. place \in Places
  OBVIOUS
<1>1. Active = {current}
  BY HoldsMidway
<1>2. /\ current \notin Active' /\ pc'[current] = place
      /\ \A t \in 0..MaxThreads : t # current => pc'[t] = pc[t]
      /\ \A t \in 0..MaxThreads : t # current => (t \in Active' <=> t \in Active)
  BY <1>0, Goes
<1>3. Active' = {}
  BY <1>1, <1>2 DEF Active
<1>4. /\ subject' \in [0..MaxThreads -> 0..MaxThreads]
      /\ node' \in [0..MaxThreads -> Nodes \union {NULL}]
      /\ prev' \in [0..MaxThreads -> Nodes \union {NULL}]
      /\ prev'[current] = NULL
      /\ \A t \in 0..MaxThreads : t # current => node'[t] = node[t] /\ prev'[t] = prev[t]
  BY LocalsReset
<1>5. Apart(c)'
  <2>1. \A t \in 0..MaxThreads : pc'[t] \in Making => pc[t] \in Making /\ node'[t] = node[t]
    BY <1>2, <1>4
  <2>2. Apart(c)
    BY DEF Holds
  <2> QED
    BY <2>1, <2>2, ApartKept
<1>6. Holds(c)'
  <2>1. Sound(q', c)
    BY DEF Clean
  <2> QED
    BY <1>3, <1>5, <2>1 DEF Holds
<1>7. Types'
  BY <1>0, <1>4, TypesKept
<1> QED
  BY <1>6, <1>7, PathSteady

LEMMA StepEnter ==
  ASSUME Steady, NEW t \in Threads, Enter(t)
  PROVE  Steady' /\ Evolves
<1> DEFINE n == malloc(q)
           g == NewNode(q, t, n)
<1>0. PICK c : Types /\ Holds(c)
  BY SteadyPath
<1>1. /\ pc[current] = "idle" /\ pc' = [pc EXCEPT ![current] = "test"]
      /\ policy' = policy /\ current' = current
      /\ subject' = [subject EXCEPT ![current] = t]
      /\ prev' = prev /\ q' = g /\ Room(1)
      /\ node' = [node EXCEPT ![current] = n]
  BY DEF Enter, Goto, Writes
<1>2. Sound(q, c) /\ Apart(c)
  BY <1>0 DEF Holds
<1>3. /\ q \in Heaps /\ q.next \in Pointers /\ NoCycle(q.next) /\ q.ok = TRUE
      /\ q.alive \in SUBSET Nodes /\ Along(q.next, c) /\ q.head = First(c)
      /\ On(c) \subseteq q.alive /\ c \in Seq(Nodes)
      /\ \A m \in q.alive : q.thread[m] \in Threads
      /\ (q.size # 0 \/ c # <<>>) => q.tail \in q.alive
      /\ \A k \in 1..Len(c) : c[k] \in q.alive
      /\ q.thread \in [Nodes -> Threads \union {0}]
      /\ Queue(q) = Labels(q.thread, c)
  BY <1>2, SoundFacts DEF Sound
<1>4. n \in Nodes \ q.alive
  <2>1. Cardinality(Nodes \ q.alive) >= 1
    BY <1>1 DEF Room
  <2>2. Nodes \ q.alive # {}
    BY <2>1, SomeRoom
  <2> QED
    BY <2>2, mallocFree
<1> HIDE DEF n
<1>5. /\ g \in Heaps /\ g.head = q.head /\ g.tail = q.tail /\ g.size = q.size
      /\ g.ok = q.ok /\ g.alive = q.alive \union {n}
      /\ g.next = [q.next EXCEPT ![n] = NULL]
      /\ g.thread = [q.thread EXCEPT ![n] = t]
  <2>1. q \in Heaps /\ t \in Threads \union {0} /\ n \in Nodes
    BY <1>3, <1>4
  <2> HIDE DEF g
  <2> QED
    BY <2>1, NewNodeFields DEF g
<1> HIDE DEF g
<1>6. Along(g.next, c) /\ NoCycle(g.next)
  <2>1. n \in Nodes \ On(c) /\ n \in Nodes
    BY <1>3, <1>4
  <2>2. Along([q.next EXCEPT ![n] = NULL], c) /\ NoCycle([q.next EXCEPT ![n] = NULL])
    BY <2>1, <1>3, OffPath, StillNoCycle
  <2> QED
    BY <2>2, <1>5
<1>7. /\ g.next[n] = NULL
      /\ \A m \in q.alive : g.next[m] = q.next[m] /\ g.thread[m] = q.thread[m]
      /\ \A m \in g.alive : g.thread[m] \in Threads
  BY <1>3, <1>4, <1>5 DEF Pointers
<1>8. Sound(g, c)
  BY <1>3, <1>5, <1>6, <1>7 DEF Sound, IsPath
<1>9. Clean(q, c) => Clean(g, c)
  BY <1>5, <1>8 DEF Clean
<1>10. "test" \in Places \ Window /\ "test" \in Places /\ "test" \in Making
       /\ "idle" \notin Window
  BY DEF Places, Window, Making
<1>11. /\ current \in 0..MaxThreads /\ pc'[current] = "test"
       /\ \A u \in 0..MaxThreads : u # current => pc'[u] = pc[u]
  BY <1>0, <1>1, <1>10, Goes
<1>12. /\ node'[current] = n /\ subject' \in [0..MaxThreads -> 0..MaxThreads]
       /\ \A u \in 0..MaxThreads : u # current => subject'[u] = subject[u]
       /\ \A u \in 0..MaxThreads : u # current => node'[u] = node[u]
       /\ node' \in [0..MaxThreads -> Nodes \union {NULL}]
  <2>1. t \in 0..MaxThreads
    BY BoundsAssumption DEF Threads
  <2> QED
    BY <1>0, <1>1, <1>4, <1>11, <2>1 DEF Types
<1>13. Apart(c)'
  <2> SUFFICES ASSUME NEW u \in 0..MaxThreads, pc'[u] \in Making
               PROVE  /\ node'[u] \in g.alive \ On(c) /\ g.next[node'[u]] = NULL
                      /\ \A v \in 0..MaxThreads : (v # u /\ pc'[v] \in Making)
                           => node'[v] # node'[u]
    BY <1>1 DEF Apart
  <2>1. ASSUME NEW v \in 0..MaxThreads, v # current, pc'[v] \in Making
        PROVE  /\ node'[v] = node[v] /\ node[v] \in q.alive \ On(c) /\ node[v] # n
               /\ q.next[node[v]] = NULL
               /\ \A w \in 0..MaxThreads : (w # v /\ pc[w] \in Making)
                           => node[w] # node[v]
    BY <2>1, <1>2, <1>4, <1>11, <1>12 DEF Apart
  <2>2. CASE u = current
    BY <2>1, <2>2, <1>3, <1>4, <1>5, <1>7, <1>12
  <2>3. CASE u # current
    <3>1. /\ node'[u] = node[u] /\ node[u] \in q.alive \ On(c) /\ node[u] # n
          /\ q.next[node[u]] = NULL
          /\ \A w \in 0..MaxThreads : (w # u /\ pc[w] \in Making)
                           => node[w] # node[u]
      BY <2>1, <2>3
    <3>2. ASSUME NEW v \in 0..MaxThreads, v # u, pc'[v] \in Making
          PROVE  node'[v] # node'[u]
      <4>1. CASE v = current
        BY <4>1, <3>1, <1>12
      <4>2. CASE v # current
        BY <4>2, <3>1, <3>2, <1>11, <1>12
      <4> QED
        BY <4>1, <4>2
    <3> QED
      BY <3>1, <3>2, <1>5, <1>7
  <2> QED
    BY <2>2, <2>3
<1>14. Holds(c)'
  <2>1. pc[current] \notin Window
    BY <1>1, <1>10
  <2>2. \A k \in 1..Len(c) : q'.thread[c[k]] = q.thread[c[k]]
    BY <1>1, <1>3, <1>7
  <2>3. Sound(q', c) /\ q'.size = q.size /\ q'.tail = q.tail
        /\ (Clean(q, c) => Clean(q', c))
    BY <1>1, <1>5, <1>8, <1>9
  <2>4. \A u \in 0..MaxThreads : u # current =>
          subject'[u] = subject[u] /\ node'[u] = node[u] /\ prev'[u] = prev[u]
    BY <1>1, <1>12
  <2> QED
    BY <2>1, <2>2, <2>3, <2>4, <1>0, <1>1, <1>10, <1>13, GoesOutside
<1>15. Types'
  <2>1. /\ prev' \in [0..MaxThreads -> Nodes \union {NULL}]
        /\ \A u \in 0..MaxThreads : u # current => prev'[u] = prev[u]
        /\ "test" \notin Fresh
    BY <1>0, <1>1 DEF Types, Fresh
  <2> QED
    BY <2>1, <1>0, <1>1, <1>10, <1>12, TypesKept
<1>16. Queue(q') = Queue(q)
  <2>1. Queue(g) = Labels(g.thread, c)
    BY <1>8, SoundFacts
  <2>2. Labels(g.thread, c) = Labels(q.thread, c)
    BY <1>3, <1>7 DEF Labels
  <2> QED
    BY <2>1, <2>2, <1>1, <1>3
<1> QED
  BY <1>14, <1>15, <1>16, PathSteady DEF Evolves

LEMMA StepLeave ==
  ASSUME Steady, NEW t \in Threads, Leave(t)
  PROVE  Steady' /\ Evolves
<1>0. PICK c : Types /\ Holds(c)
  BY SteadyPath
<1>1. /\ pc[current] = "idle" /\ pc' = [pc EXCEPT ![current] = "find"]
      /\ policy' = policy /\ current' = current
      /\ subject' = [subject EXCEPT ![current] = t]
      /\ prev' = prev /\ q' = q /\ node' = node
  BY DEF Leave, Goto
<1>2. "find" \in Places \ Window /\ "find" \in Places /\ "find" \notin Making
      /\ "idle" \notin Window /\ "idle" \in Fresh
  BY DEF Places, Window, Making, Fresh
<1>3. /\ subject' \in [0..MaxThreads -> 0..MaxThreads]
      /\ node' \in [0..MaxThreads -> Nodes \union {NULL}]
      /\ prev' \in [0..MaxThreads -> Nodes \union {NULL}] /\ prev'[current] = NULL
      /\ \A u \in 0..MaxThreads : u # current =>
           subject'[u] = subject[u] /\ node'[u] = node[u] /\ prev'[u] = prev[u]
  <2>1. t \in 0..MaxThreads
    BY BoundsAssumption DEF Threads
  <2> QED
    BY <1>0, <1>1, <1>2, <2>1 DEF Types
<1>4. Holds(c)'
  <2>1. pc[current] \notin Window
    BY <1>1, <1>2
  <2> QED
    BY <2>1, <1>0, <1>1, <1>2, <1>3, SameList
<1>5. Types'
  BY <1>0, <1>1, <1>2, <1>3, TypesKept
<1> QED
  BY <1>1, <1>4, <1>5, PathSteady DEF Evolves

LEMMA StepEnqueueTest ==
  ASSUME Steady, EnqueueTest, ~torn'
  PROVE  Steady' /\ Evolves
<1>0. PICK c : Types /\ Holds(c)
  BY SteadyPath
<1>50. PICK mover : mover = current
  OBVIOUS
<1> DEFINE place == IF q.size = 0 THEN "setTail" ELSE "link"
<1>1. /\ pc[current] = "test" /\ pc' = [pc EXCEPT ![current] = place]
      /\ policy' = policy /\ current' = current /\ subject' = subject
      /\ prev' = prev /\ q' = q /\ node' = node /\ Starts
  BY DEF EnqueueTest, Goto, Locals
<1>2. place \in Window /\ place \in Places /\ "test" \in Making
      /\ "test" \notin Window /\ pc[current] \notin Window /\ place \notin Fresh
  BY <1>1 DEF Places, Window, Making, Fresh
<1>3. /\ current \in 0..MaxThreads /\ pc'[current] = place
      /\ \A t \in 0..MaxThreads : t # current => pc'[t] = pc[t]
  BY <1>0, <1>1, <1>2, Goes
<1>4. ASSUME Clean(q, c) PROVE Midway(mover, c)'
  <2>1. c = <<>> <=> q.size = 0
    BY <1>4, SoundFacts, PathFacts DEF Clean
  <2>2. /\ pc'[mover] = place /\ Clean(q', c)
        /\ place = "setTail" => c = <<>>
        /\ place = "link" => c # <<>>
        /\ place = "setTail" \/ place = "link"
    BY <1>1, <1>3, <1>4, <1>50, <2>1
  <2> HIDE DEF place
  <2> QED
    BY <2>2 DEF Midway
<1>5. /\ subject' \in [0..MaxThreads -> 0..MaxThreads]
      /\ node' \in [0..MaxThreads -> Nodes \union {NULL}]
      /\ prev' \in [0..MaxThreads -> Nodes \union {NULL}]
      /\ \A t \in 0..MaxThreads : t # current => prev'[t] = prev[t]
      /\ \A t \in 0..MaxThreads : pc'[t] \in Making => pc[t] \in Making /\ node'[t] = node[t]
  BY <1>0, <1>1, <1>2, <1>3 DEF Types
<1> HIDE DEF place
<1>6. Holds(c)'
  BY <1>0, <1>1, <1>2, <1>4, <1>5, <1>50, EntersWindow
<1>7. Types'
  BY <1>0, <1>1, <1>2, <1>5, TypesKept
<1> QED
  BY <1>1, <1>6, <1>7, PathSteady DEF Evolves

LEMMA StepEnqueueTail ==
  ASSUME Steady, EnqueueTail
  PROVE  Steady' /\ Evolves
<1>0. PICK c : Types /\ Holds(c)
  BY SteadyPath
<1>5. PICK mover : mover = current
  OBVIOUS
<1> DEFINE x == node[current]
           h == SetTail(q, x)
<1>1. /\ pc[current] = "setTail" /\ pc' = [pc EXCEPT ![current] = "setHead"]
      /\ policy' = policy /\ current' = current /\ UNCHANGED Locals
      /\ subject' = subject /\ prev' = prev /\ node' = node /\ q' = h
  BY DEF EnqueueTail, Goto, Locals, new, Writes
<1>2. /\ "setHead" \in Window /\ "setHead" \in Places /\ pc[current] \in Window
      /\ pc[current] \in Making /\ "setHead" \in Making
  BY <1>1 DEF Places, Window, Making
<1>3. /\ current \in 0..MaxThreads /\ pc'[current] = "setHead"
      /\ \A t \in 0..MaxThreads : t # current => pc'[t] = pc[t]
  BY <1>0, <1>1, <1>2, Goes
<1>4. Sound(q', c) /\ Apart(c)' /\ Midway(mover, c)' /\ Queue(q') = Queue(q)
  <2>1. Clean(q, c) /\ c = <<>>
    BY <1>0, <1>1, <1>2, HoldsMidway DEF Midway
  <2>2. Sound(q, c) /\ Apart(c) /\ q \in Heaps /\ q.size = 0 /\ Queue(q) = Labels(q.thread, c)
    BY <2>1, <1>0, SoundFacts, EmptySeq DEF Clean, Holds
  <2>3. x \in Nodes \union {NULL}
    BY <1>0, <1>3 DEF Types
  <2>4. /\ h \in Heaps /\ h.head = q.head /\ h.tail = x /\ h.size = q.size
        /\ h.ok = q.ok /\ h.alive = q.alive /\ h.thread = q.thread
        /\ h.next = q.next
    <3>1. 0 \in Int
      OBVIOUS
    <3> HIDE DEF h, x
    <3> QED
      BY <2>2, <2>3, <3>1, SetFields DEF h
  <2> HIDE DEF h
  <2>5. Sound(q', c)
    BY <1>1, <2>1, <2>2, <2>4 DEF Sound, IsPath
  <2>6. Apart(c)'
    <3>1. Keeps(q, c, q', c)
      BY <1>1, <2>4 DEF Keeps
    <3>2. \A t \in 0..MaxThreads : pc'[t] \in Making => pc[t] \in Making /\ node'[t] = node[t]
      BY <1>1, <1>2, <1>3
    <3> QED
      BY <1>1, <2>2, <3>1, <3>2, ApartKept
  <2>7. Midway(mover, c)'
    <3>1. pc'[mover] = "setHead" /\ q'.size = 0 /\ q'.tail = node'[mover]
      BY <1>1, <1>3, <1>5, <2>2, <2>4
    <3> QED
      BY <2>1, <3>1 DEF Midway
  <2>8. Queue(q') = Queue(q)
    BY <1>1, <2>2, <2>4, <2>5, SoundFacts
  <2> QED
    BY <2>5, <2>6, <2>7, <2>8
<1> HIDE DEF h
<1>6. Steady'
  BY <1>0, <1>1, <1>2, <1>4, <1>5, WriteStep
<1> QED
  BY <1>4, <1>6 DEF Evolves

(* One label more. *)
LEMMA LabelsAppended ==
  ASSUME NEW T, NEW c \in Seq(Nodes), NEW n \in Nodes, NEW label,
         Labels(label, c) \in Seq(T), label[n] \in T
  PROVE  Labels(label, Append(c, n)) = Append(Labels(label, c), label[n])
<1> DEFINE e == Append(c, n)
           s == Labels(label, c)
           a == Append(s, label[n])
<1>1. Len(c) \in Nat
  BY LenProperties
<1>2. /\ e \in Seq(Nodes) /\ Len(e) = Len(c) + 1 /\ e[Len(c) + 1] = n
      /\ \A k \in 1..Len(c) : e[k] = c[k]
  BY AppendProperties
<1>3. Len(s) = Len(c) /\ \A k \in 1..Len(c) : s[k] = label[c[k]]
  BY <1>1 DEF Labels
<1> HIDE DEF s, e
<1>4. /\ a \in Seq(T) /\ Len(a) = Len(c) + 1 /\ a[Len(c) + 1] = label[n]
      /\ \A k \in 1..Len(c) : a[k] = s[k]
  <2>1. s \in Seq(T)
    BY DEF s
  <2> QED
    BY <2>1, <1>3, AppendProperties
<1> HIDE DEF a
<1>5. ASSUME NEW k \in 1..(Len(c) + 1) PROVE label[e[k]] = a[k]
  <2>1. k = Len(c) + 1 \/ k \in 1..Len(c)
    BY <1>1
  <2> QED
    BY <2>1, <1>2, <1>3, <1>4
<1>6. a = [k \in 1..(Len(c) + 1) |-> a[k]]
  BY <1>4
<1>7. Labels(label, e) = [k \in 1..(Len(c) + 1) |-> label[e[k]]]
  BY <1>2 DEF Labels
<1>8. Labels(label, e) = a
  BY <1>5, <1>6, <1>7
<1> QED
  BY <1>8 DEF e, a, s

LEMMA StepEnqueueHead ==
  ASSUME Steady, EnqueueHead
  PROVE  Steady' /\ Evolves
<1>0. PICK c : Types /\ Holds(c)
  BY SteadyPath
<1>5. PICK mover : mover = current
  OBVIOUS
<1>7. PICK x : x = node[current]
  OBVIOUS
<1>8. PICK d : d = <<x>>
  OBVIOUS
<1> DEFINE h == SetHead(q, x)
<1>1. /\ pc[current] = "setHead" /\ pc' = [pc EXCEPT ![current] = "count"]
      /\ policy' = policy /\ current' = current /\ UNCHANGED Locals
      /\ subject' = subject /\ prev' = prev /\ node' = node /\ q' = h
  BY <1>7 DEF EnqueueHead, Goto, Locals, new, Writes
<1>2. /\ "count" \in Window /\ "count" \in Places /\ pc[current] \in Window
      /\ pc[current] \in Making /\ "count" \notin Making
  BY <1>1 DEF Places, Window, Making
<1>3. /\ current \in 0..MaxThreads /\ pc'[current] = "count"
      /\ \A t \in 0..MaxThreads : t # current => pc'[t] = pc[t]
  BY <1>0, <1>1, <1>2, Goes
<1>4. /\ Sound(q', d) /\ Apart(d)' /\ Midway(mover, d)'
      /\ \E t \in Threads : Queue(q') = Append(Queue(q), t)
  <2>1. c = <<>> /\ q.size = 0 /\ q.tail = x
    BY <1>0, <1>1, <1>2, <1>7, HoldsMidway DEF Midway
  <2>2. /\ Sound(q, c) /\ Apart(c) /\ q \in Heaps /\ Queue(q) = Labels(q.thread, c)
        /\ Labels(q.thread, c) \in Seq(Threads) /\ q.alive \in SUBSET Nodes
        /\ q.ok = TRUE /\ NoCycle(q.next) /\ c \in Seq(Nodes)
        /\ \A m \in q.alive : q.thread[m] \in Threads
    BY <1>0, SoundFacts DEF Sound, Holds
  <2>3. /\ x \in q.alive \ On(c) /\ q.next[x] = NULL
        /\ \A u \in 0..MaxThreads : (u # current /\ pc[u] \in Making) => node[u] # x
    BY <1>2, <1>3, <1>7, <2>2 DEF Apart
  <2>4. x \in Nodes /\ x \in Nodes \union {NULL}
    BY <2>2, <2>3
  <2>5. /\ h \in Heaps /\ h.head = x /\ h.tail = q.tail /\ h.size = q.size
        /\ h.ok = q.ok /\ h.alive = q.alive /\ h.thread = q.thread
        /\ h.next = q.next
    <3>1. 0 \in Int
      OBVIOUS
    <3> HIDE DEF h
    <3> QED
      BY <2>2, <2>4, <3>1, SetFields DEF h
  <2> HIDE DEF h
  <2>6. d \in Seq(Nodes) /\ Len(d) = 1 /\ d[1] = x /\ d # <<>>
    BY <1>8, <2>4
  <2>7. d = Append(c, x)
    <3>1. Append(<<>>, x) = <<x>>
      OBVIOUS
    <3> QED
      BY <1>8, <2>1, <3>1
  <2>8. Along(q.next, d) /\ First(d) = x /\ On(d) = {x}
    <3>1. \A k \in 1..1 : k = 1
      OBVIOUS
    <3> QED
      BY <2>3, <2>6, <3>1 DEF Along, First, On
  <2>9. Sound(q', d)
    BY <1>1, <2>1, <2>2, <2>3, <2>5, <2>8 DEF Sound, IsPath
  <2>10. Apart(d)'
    <3> SUFFICES ASSUME NEW t \in 0..MaxThreads, pc'[t] \in Making
                 PROVE  /\ node[t] \in q'.alive \ On(d) /\ q'.next[node[t]] = NULL
                        /\ \A u \in 0..MaxThreads : (u # t /\ pc'[u] \in Making)
                             => node[u] # node[t]
      BY <1>1 DEF Apart
    <3>1. \A u \in 0..MaxThreads : pc'[u] \in Making => u # current /\ pc[u] \in Making
      BY <1>2, <1>3
    <3>2. /\ node[t] \in q.alive \ On(c) /\ q.next[node[t]] = NULL /\ node[t] # x
          /\ \A u \in 0..MaxThreads : (u # t /\ pc[u] \in Making)
                             => node[u] # node[t]
      BY <2>2, <2>3, <3>1 DEF Apart
    <3> QED
      BY <1>1, <2>5, <2>8, <3>1, <3>2
  <2>11. Midway(mover, d)'
    <3>1. /\ pc'[mover] = "count" /\ q'.size = Len(d) - 1
          /\ q'.tail = node'[mover] /\ d[Len(d)] = node'[mover]
      BY <1>1, <1>3, <1>5, <1>7, <2>1, <2>5, <2>6
    <3> QED
      BY <2>6, <3>1 DEF Midway
  <2>12. Queue(q') = Append(Queue(q), q.thread[x]) /\ q.thread[x] \in Threads
    <3> DEFINE label == q.thread
    <3>1. Labels(label, c) \in Seq(Threads) /\ label[x] \in Threads
      BY <2>2, <2>3
    <3>2. Queue(q') = Labels(label, d)
      BY <1>1, <2>5, <2>9, SoundFacts
    <3>3. Queue(q) = Labels(label, c)
      BY <2>2
    <3> HIDE DEF label
    <3>4. Labels(label, Append(c, x)) = Append(Labels(label, c), label[x])
      BY <2>2, <2>4, <3>1, LabelsAppended
    <3>5. Queue(q') = Append(Queue(q), label[x])
      BY <2>7, <3>2, <3>3, <3>4
    <3> QED
      BY <3>1, <3>5 DEF label
  <2> QED
    BY <2>9, <2>10, <2>11, <2>12
<1> HIDE DEF h
<1>6. Steady'
  BY <1>0, <1>1, <1>2, <1>4, <1>5, WriteStep
<1> QED
  BY <1>4, <1>6 DEF Evolves

LEMMA StepEnqueueLink ==
  ASSUME Steady, EnqueueLink
  PROVE  Steady' /\ Evolves
<1>0. PICK c : Types /\ Holds(c)
  BY SteadyPath
<1>5. PICK mover : mover = current
  OBVIOUS
<1>7. PICK x : x = node[current]
  OBVIOUS
<1>8. PICK d : d = Append(c, x)
  OBVIOUS
<1> DEFINE last == q.tail
           h == Link(q, last, x)
<1>1. /\ pc[current] = "link" /\ pc' = [pc EXCEPT ![current] = "moveTail"]
      /\ policy' = policy /\ current' = current /\ UNCHANGED Locals
      /\ subject' = subject /\ prev' = prev /\ node' = node /\ q' = h
  BY <1>7 DEF EnqueueLink, Goto, Locals, new, Writes
<1>2. /\ "moveTail" \in Window /\ "moveTail" \in Places /\ pc[current] \in Window
      /\ pc[current] \in Making /\ "moveTail" \notin Making
  BY <1>1 DEF Places, Window, Making
<1>3. /\ current \in 0..MaxThreads /\ pc'[current] = "moveTail"
      /\ \A t \in 0..MaxThreads : t # current => pc'[t] = pc[t]
  BY <1>0, <1>1, <1>2, Goes
<1>4. /\ Sound(q', d) /\ Apart(d)' /\ Midway(mover, d)'
      /\ \E t \in Threads : Queue(q') = Append(Queue(q), t)
  <2>1. Clean(q, c) /\ c # <<>>
    BY <1>0, <1>1, <1>2, HoldsMidway DEF Midway
  <2>2. /\ Sound(q, c) /\ Apart(c) /\ q \in Heaps /\ Queue(q) = Labels(q.thread, c)
        /\ Labels(q.thread, c) \in Seq(Threads) /\ q.alive \in SUBSET Nodes
        /\ q.ok = TRUE /\ NoCycle(q.next) /\ q.next \in Pointers /\ c \in Seq(Nodes)
        /\ \A m \in q.alive : q.thread[m] \in Threads
        /\ Along(q.next, c) /\ q.head = First(c) /\ On(c) \subseteq q.alive
    BY <1>0, SoundFacts DEF Sound, Holds
  <2>3. /\ x \in q.alive \ On(c) /\ q.next[x] = NULL
        /\ \A u \in 0..MaxThreads : (u # current /\ pc[u] \in Making) => node[u] # x
    BY <1>2, <1>3, <1>7, <2>2 DEF Apart
  <2>4. /\ x \in Nodes /\ x \in Nodes \union {NULL}
        /\ Len(c) \in Nat /\ Len(c) \in 1..Len(c) /\ 1 \in 1..Len(c)
        /\ q.size = Len(c) /\ last = c[Len(c)] /\ last \in On(c) /\ last \in q.alive
        /\ last # x /\ last \in Nodes /\ First(c) = c[1]
    BY <2>1, <2>2, <2>3, PathFacts DEF Clean
  <2> HIDE DEF last
  <2>5. /\ h \in Heaps /\ h.head = q.head /\ h.tail = q.tail /\ h.size = q.size
        /\ h.ok = q.ok /\ h.alive = q.alive /\ h.thread = q.thread
        /\ h.next = [q.next EXCEPT ![last] = x]
    <3> HIDE DEF h
    <3> QED
      BY <2>2, <2>4, LinkFields DEF h
  <2> HIDE DEF h
  <2>6. /\ d \in Seq(Nodes) /\ Len(d) = Len(c) + 1 /\ d[Len(c) + 1] = x /\ d # <<>>
        /\ \A k \in 1..Len(c) : d[k] = c[k]
    BY <1>8, <2>2, <2>4, AppendProperties
  <2>7. Grown(c, Len(c), x) = d
    <3>1. SubSeq(c, 1, Len(c)) = c
      BY <2>2
    <3> QED
      BY <1>8, <3>1 DEF Grown
  <2>8. Along(h.next, d) /\ NoCycle(h.next)
    <3>1. x \in Nodes \ On(c)
      BY <2>3, <2>4
    <3>2. Along([q.next EXCEPT ![c[Len(c)]] = x], Grown(c, Len(c), x))
      BY <2>2, <2>3, <2>4, <3>1, Relinked
    <3>3. NoCycle([q.next EXCEPT ![last] = x])
      BY <2>2, <2>3, <2>4, StillNoCycle
    <3> QED
      BY <2>4, <2>5, <2>7, <3>2, <3>3
  <2>9. First(d) = First(c) /\ On(d) \subseteq On(c) \union {x}
    <3>1. First(d) = First(c)
      BY <2>1, <2>4, <2>6 DEF First
    <3>2. \A k \in 1..Len(d) : k = Len(c) + 1 \/ k \in 1..Len(c)
      BY <2>4, <2>6
    <3>3. \A k \in 1..Len(d) : d[k] \in On(c) \union {x}
      BY <2>6, <3>2 DEF On
    <3> QED
      BY <3>1, <3>3 DEF On
  <2>10. Sound(q', d)
    BY <1>1, <2>2, <2>3, <2>4, <2>5, <2>8, <2>9 DEF Sound, IsPath, last
  <2>11. Apart(d)'
    <3> SUFFICES ASSUME NEW t \in 0..MaxThreads, pc'[t] \in Making
                 PROVE  /\ node[t] \in q'.alive \ On(d) /\ q'.next[node[t]] = NULL
                        /\ \A u \in 0..MaxThreads : (u # t /\ pc'[u] \in Making)
                             => node[u] # node[t]
      BY <1>1 DEF Apart
    <3>1. \A u \in 0..MaxThreads : pc'[u] \in Making => u # current /\ pc[u] \in Making
      BY <1>2, <1>3
    <3>2. /\ node[t] \in q.alive \ On(c) /\ q.next[node[t]] = NULL /\ node[t] # x
          /\ \A u \in 0..MaxThreads : (u # t /\ pc[u] \in Making)
                             => node[u] # node[t]
      BY <2>2, <2>3, <3>1 DEF Apart
    <3>3. node[t] \in Nodes /\ node[t] # last
      BY <2>2, <2>4, <3>2
    <3>4. h.next[node[t]] = q.next[node[t]]
      BY <2>2, <2>5, <3>3 DEF Pointers
    <3> QED
      BY <1>1, <2>5, <2>9, <3>1, <3>2, <3>4
  <2>12. Midway(mover, d)'
    <3>1. /\ pc'[mover] = "moveTail" /\ q'.size = Len(d) - 1
          /\ d[Len(d)] = node'[mover]
      BY <1>1, <1>3, <1>5, <1>7, <2>4, <2>5, <2>6
    <3> QED
      BY <2>6, <3>1 DEF Midway
  <2>13. Queue(q') = Append(Queue(q), q.thread[x]) /\ q.thread[x] \in Threads
    <3> DEFINE label == q.thread
    <3>1. Labels(label, c) \in Seq(Threads) /\ label[x] \in Threads
      BY <2>2, <2>3
    <3>2. Queue(q') = Labels(label, d)
      BY <1>1, <2>5, <2>10, SoundFacts
    <3>3. Queue(q) = Labels(label, c)
      BY <2>2
    <3> HIDE DEF label
    <3>4. Labels(label, Append(c, x)) = Append(Labels(label, c), label[x])
      BY <2>2, <2>4, <3>1, LabelsAppended
    <3>5. Queue(q') = Append(Queue(q), label[x])
      BY <1>8, <3>2, <3>3, <3>4
    <3> QED
      BY <3>1, <3>5 DEF label
  <2> QED
    BY <2>10, <2>11, <2>12, <2>13
<1> HIDE DEF h
<1>6. Steady'
  BY <1>0, <1>1, <1>2, <1>4, <1>5, WriteStep
<1> QED
  BY <1>4, <1>6 DEF Evolves

(* Only the tail is written. *)
LEMMA TailWritten ==
  ASSUME NEW c, Sound(q, c), Apart(c), NEW x \in q.alive, q' = SetTail(q, x),
         \A t \in 0..MaxThreads : pc'[t] \in Making => pc[t] \in Making /\ node'[t] = node[t]
  PROVE  /\ Sound(q', c) /\ Apart(c)' /\ Queue(q') = Queue(q)
         /\ q'.size = q.size /\ q'.tail = x
<1>1. q \in Heaps /\ q.alive \in SUBSET Nodes /\ Queue(q) = Labels(q.thread, c)
  BY SoundFacts
<1>2. /\ q' \in Heaps /\ q'.head = q.head /\ q'.tail = x /\ q'.size = q.size
      /\ q'.ok = q.ok /\ q'.alive = q.alive /\ q'.thread = q.thread
      /\ q'.next = q.next
  <2>1. 0 \in Int /\ x \in Nodes \union {NULL}
    BY <1>1
  <2> QED
    BY <1>1, <2>1, SetFields
<1>3. Sound(q', c)
  BY <1>2 DEF Sound, IsPath
<1>4. Keeps(q, c, q', c)
  BY <1>2 DEF Keeps
<1>5. Apart(c)'
  BY <1>4, ApartKept
<1>6. Queue(q') = Queue(q)
  BY <1>1, <1>2, <1>3, SoundFacts
<1> QED
  BY <1>2, <1>3, <1>5, <1>6

LEMMA StepEnqueueMoveTail ==
  ASSUME Steady, EnqueueMoveTail
  PROVE  Steady' /\ Evolves
<1>0. PICK c : Types /\ Holds(c)
  BY SteadyPath
<1>5. PICK mover : mover = current
  OBVIOUS
<1> DEFINE x == node[current]
           h == SetTail(q, x)
<1>1. /\ pc[current] = "moveTail" /\ pc' = [pc EXCEPT ![current] = "count"]
      /\ policy' = policy /\ current' = current /\ UNCHANGED Locals
      /\ subject' = subject /\ prev' = prev /\ node' = node /\ q' = h
  BY DEF EnqueueMoveTail, Goto, Locals, new, Writes
<1>2. /\ "count" \in Window /\ "count" \in Places /\ pc[current] \in Window
      /\ "count" \notin Making
  BY <1>1 DEF Places, Window, Making
<1>3. /\ current \in 0..MaxThreads /\ pc'[current] = "count"
      /\ \A t \in 0..MaxThreads : t # current => pc'[t] = pc[t]
      /\ \A t \in 0..MaxThreads : pc'[t] \in Making => pc[t] \in Making /\ node'[t] = node[t]
  BY <1>0, <1>1, <1>2, Goes
<1>4. Sound(q', c) /\ Apart(c)' /\ Midway(mover, c)' /\ Queue(q') = Queue(q)
  <2>1. c # <<>> /\ c[Len(c)] = x /\ q.size = Len(c) - 1
    BY <1>0, <1>1, <1>2, HoldsMidway DEF Midway
  <2>2. Sound(q, c) /\ Apart(c) /\ x \in q.alive
    BY <1>0, <2>1, SoundFacts, PathFacts DEF Holds
  <2>3. /\ Sound(q', c) /\ Apart(c)' /\ Queue(q') = Queue(q)
        /\ q'.size = q.size /\ q'.tail = x
    BY <1>1, <1>3, <2>2, TailWritten
  <2>4. Midway(mover, c)'
    <3>1. /\ pc'[mover] = "count" /\ q'.size = Len(c) - 1
          /\ q'.tail = node'[mover] /\ c[Len(c)] = node'[mover]
      BY <1>1, <1>3, <1>5, <2>1, <2>3
    <3> QED
      BY <2>1, <3>1 DEF Midway
  <2> QED
    BY <2>3, <2>4
<1> HIDE DEF h
<1>6. Steady'
  BY <1>0, <1>1, <1>2, <1>4, <1>5, WriteStep
<1> QED
  BY <1>4, <1>6 DEF Evolves

LEMMA StepRemoveCutTail ==
  ASSUME Steady, RemoveCutTail
  PROVE  Steady' /\ Evolves
<1>0. PICK c : Types /\ Holds(c)
  BY SteadyPath
<1>5. PICK mover : mover = current
  OBVIOUS
<1> DEFINE x == prev[current]
           h == SetTail(q, x)
<1>1. /\ pc[current] = "cutTail" /\ pc' = [pc EXCEPT ![current] = "uncount"]
      /\ policy' = policy /\ current' = current /\ UNCHANGED Locals
      /\ subject' = subject /\ prev' = prev /\ node' = node /\ q' = h
  BY DEF RemoveCutTail, Goto, Locals, Writes
<1>2. /\ "uncount" \in Window /\ "uncount" \in Places /\ pc[current] \in Window
      /\ "uncount" \notin Making
  BY <1>1 DEF Places, Window, Making
<1>3. /\ current \in 0..MaxThreads /\ pc'[current] = "uncount"
      /\ \A t \in 0..MaxThreads : t # current => pc'[t] = pc[t]
      /\ \A t \in 0..MaxThreads : pc'[t] \in Making => pc[t] \in Making /\ node'[t] = node[t]
  BY <1>0, <1>1, <1>2, Goes
<1>4. Sound(q', c) /\ Apart(c)' /\ Midway(mover, c)' /\ Queue(q') = Queue(q)
  <2>1. c # <<>> /\ x = c[Len(c)] /\ q.size = Len(c) + 1
    BY <1>0, <1>1, <1>2, HoldsMidway DEF Midway
  <2>2. Sound(q, c) /\ Apart(c) /\ x \in q.alive
    BY <1>0, <2>1, SoundFacts, PathFacts DEF Holds
  <2>3. /\ Sound(q', c) /\ Apart(c)' /\ Queue(q') = Queue(q)
        /\ q'.size = q.size /\ q'.tail = x
    BY <1>1, <1>3, <2>2, TailWritten
  <2>4. Midway(mover, c)'
    <3>1. pc'[mover] = "uncount" /\ q'.size = Len(c) + 1 /\ q'.tail = c[Len(c)]
      BY <1>1, <1>3, <1>5, <2>1, <2>3
    <3> QED
      BY <2>1, <3>1 DEF Midway
  <2> QED
    BY <2>3, <2>4
<1> HIDE DEF h
<1>6. Steady'
  BY <1>0, <1>1, <1>2, <1>4, <1>5, WriteStep
<1> QED
  BY <1>4, <1>6 DEF Evolves

(* A call counts, which is its last write. *)
LEMMA CountStep ==
  ASSUME Types, NEW c, Holds(c), NEW delta \in Int,
         NEW place \in Places \ Window, place \notin Making,
         pc[current] \in Window, pc' = [pc EXCEPT ![current] = place],
         policy' = policy, current' = current,
         CallOver, q' = Count(q, delta),
         q.size + delta = Len(c), c # <<>> => q.tail = c[Len(c)]
  PROVE  Steady' /\ Evolves
<1> DEFINE h == Count(q, delta)
<1>1. Sound(q, c)
  BY DEF Holds
<1>2. /\ q \in Heaps /\ q.size \in Int /\ q.alive \in SUBSET Nodes
      /\ q.next \in Pointers /\ Along(q.next, c) /\ On(c) \subseteq q.alive
      /\ Queue(q) = Labels(q.thread, c)
  BY <1>1, SoundFacts
<1>3. /\ h \in Heaps /\ h.head = q.head /\ h.tail = q.tail
      /\ h.size = q.size + delta
      /\ h.ok = q.ok /\ h.alive = q.alive /\ h.thread = q.thread
      /\ h.next = q.next
  <2>1. NULL \in Nodes \union {NULL}
    OBVIOUS
  <2> HIDE DEF h
  <2> QED
    BY <1>2, <2>1, SetFields DEF h
<1>4. q' = h
  OBVIOUS
<1> HIDE DEF h
<1>5. q'.size = Len(c) /\ (c # <<>> => q'.tail = c[Len(c)])
  BY <1>3, <1>4
<1>6. Clean(q', c)
  <2>1. c # <<>> => c[Len(c)] \in On(c)
    BY <1>2, PathFacts
  <2>2. c = <<>> => Len(c) = 0
    BY <1>2, PathFacts
  <2>3. Sound(q', c)
    BY <1>1, <1>2, <1>3, <1>4, <1>5, <2>1, <2>2 DEF Sound, IsPath
  <2> QED
    BY <1>5, <2>3 DEF Clean
<1>7. Keeps(q, c, q', c)
  BY <1>3, <1>4 DEF Keeps
<1>8. Steady'
  BY <1>6, <1>7, LeavesWindow
<1>9. Queue(q') = Queue(q)
  <2>1. Sound(q', c)
    BY <1>6 DEF Clean
  <2> QED
    BY <1>2, <1>3, <1>4, <2>1, SoundFacts
<1> QED
  BY <1>8, <1>9 DEF Evolves

LEMMA StepEnqueueCount ==
  ASSUME Steady, EnqueueCount
  PROVE  Steady' /\ Evolves
<1>0. PICK c : Types /\ Holds(c)
  BY SteadyPath
<1>1. /\ pc[current] = "count" /\ pc' = [pc EXCEPT ![current] = "idle"]
      /\ policy' = policy /\ current' = current /\ CallOver
      /\ q' = Count(q, 1)
  BY DEF EnqueueCount, Goto, Writes
<1>2. /\ "idle" \in Places \ Window /\ "idle" \notin Making
      /\ pc[current] \in Window /\ 1 \in Int
  BY <1>1 DEF Places, Window, Making
<1>3. q.size + 1 = Len(c) /\ (c # <<>> => q.tail = c[Len(c)])
  <2>1. /\ c # <<>> /\ c[Len(c)] = node[current] /\ q.size = Len(c) - 1
        /\ q.tail = node[current]
    BY <1>0, <1>1, <1>2, HoldsMidway DEF Midway
  <2>2. Len(c) \in Nat
    BY <1>0, SoundFacts, LenProperties DEF Holds
  <2> QED
    BY <2>1, <2>2
<1> QED
  BY <1>0, <1>1, <1>2, <1>3, CountStep

LEMMA StepRemoveCount ==
  ASSUME Steady, RemoveCount
  PROVE  Steady' /\ Evolves
<1>0. PICK c : Types /\ Holds(c)
  BY SteadyPath
<1>1. /\ pc[current] = "uncount" /\ pc' = [pc EXCEPT ![current] = Back]
      /\ policy' = policy /\ current' = current /\ CallOver
      /\ q' = Count(q, -1)
  BY DEF RemoveCount, Goto, Writes
<1>2. /\ Back \in Places \ Window /\ Back \notin Making
      /\ pc[current] \in Window /\ -1 \in Int
  BY <1>1 DEF Places, Window, Making, Back
<1>3. q.size + (-1) = Len(c) /\ (c # <<>> => q.tail = c[Len(c)])
  <2>1. q.size = Len(c) + 1 /\ (c # <<>> => q.tail = c[Len(c)])
    BY <1>0, <1>1, <1>2, HoldsMidway DEF Midway
  <2>2. Len(c) \in Nat
    BY <1>0, SoundFacts, LenProperties DEF Holds
  <2> QED
    BY <2>1, <2>2
<1> QED
  BY <1>0, <1>1, <1>2, <1>3, CountStep

(* The search of an empty list is over at once. *)
LEMMA StepRemoveEmpty ==
  ASSUME Steady, RemoveEmpty
  PROVE  Steady' /\ Evolves
<1>0. PICK c : Types /\ Holds(c)
  BY SteadyPath
<1>1. /\ pc[current] = "find" /\ pc' = [pc EXCEPT ![current] = Back]
      /\ policy' = policy /\ current' = current /\ CallOver /\ q' = q
  BY DEF RemoveEmpty, Goto
<1>2. /\ Back \in Places \ Window /\ Back \in Places /\ Back \notin Making
      /\ pc[current] \notin Window
  BY <1>1 DEF Places, Window, Making, Back
<1>3. /\ subject' \in [0..MaxThreads -> 0..MaxThreads]
      /\ node' \in [0..MaxThreads -> Nodes \union {NULL}]
      /\ prev' \in [0..MaxThreads -> Nodes \union {NULL}]
      /\ prev'[current] = NULL
      /\ \A t \in 0..MaxThreads : t # current =>
           subject'[t] = subject[t] /\ node'[t] = node[t] /\ prev'[t] = prev[t]
  BY <1>0, <1>1, LocalsReset
<1>4. Holds(c)'
  BY <1>0, <1>1, <1>2, <1>3, SameList
<1>5. Types'
  BY <1>0, <1>1, <1>2, <1>3, TypesKept
<1> QED
  BY <1>1, <1>4, <1>5, PathSteady DEF Evolves

(* It starts on the first node, with no node before it. *)
LEMMA StepRemoveHead ==
  ASSUME Steady, RemoveHead, ~torn'
  PROVE  Steady' /\ Evolves
<1>0. PICK c : Types /\ Holds(c)
  BY SteadyPath
<1>10. PICK mover : mover = current
  OBVIOUS
<1>1. /\ pc[current] = "find" /\ pc' = [pc EXCEPT ![current] = "walk"]
      /\ policy' = policy /\ current' = current /\ q' = q /\ q.head # NULL
      /\ node' = [node EXCEPT ![current] = q.head]
      /\ subject' = subject /\ prev' = prev /\ Starts
  BY DEF RemoveHead, Goto
<1>2. /\ "walk" \in Window /\ "walk" \in Places /\ "walk" \notin Making
      /\ "walk" \notin Fresh /\ "find" \in Fresh /\ pc[current] \notin Window
  BY <1>1 DEF Places, Window, Making, Fresh
<1>3. /\ current \in 0..MaxThreads /\ pc'[current] = "walk"
      /\ \A t \in 0..MaxThreads : t # current => pc'[t] = pc[t]
  BY <1>0, <1>1, <1>2, Goes
<1>4. /\ q.head \in Nodes \union {NULL} /\ q.head = First(c) /\ c \in Seq(Nodes)
      /\ q.next \in Pointers /\ Along(q.next, c)
  BY <1>0, SoundFacts DEF Holds
<1>5. /\ node'[current] = q.head /\ prev'[current] = NULL
      /\ subject' \in [0..MaxThreads -> 0..MaxThreads]
      /\ node' \in [0..MaxThreads -> Nodes \union {NULL}]
      /\ prev' \in [0..MaxThreads -> Nodes \union {NULL}]
      /\ \A t \in 0..MaxThreads : t # current => node'[t] = node[t] /\ prev'[t] = prev[t]
  BY <1>0, <1>1, <1>2, <1>3, <1>4 DEF Types
<1>6. \A t \in 0..MaxThreads : pc'[t] \in Making => pc[t] \in Making /\ node'[t] = node[t]
  BY <1>2, <1>3, <1>5
<1>7. ASSUME Clean(q, c) PROVE Midway(mover, c)'
  <2>1. c # <<>> /\ q.head = c[1] /\ 1 \in 1..Len(c)
    BY <1>1, <1>4, PathFacts DEF First
  <2>2. node'[mover] = c[1] /\ prev'[mover] = NULL /\ pc'[mover] = "walk"
    BY <1>3, <1>5, <1>10, <2>1
  <2>3. 1..(1 - 1) = {}
    OBVIOUS
  <2>4. StandsOn(mover, c, 1)'
    BY <2>2, <2>3 DEF StandsOn
  <2> QED
    BY <1>1, <1>7, <2>1, <2>2, <2>4 DEF Midway
<1>8. Holds(c)'
  BY <1>0, <1>1, <1>2, <1>6, <1>7, <1>10, EntersWindow
<1>9. Types'
  BY <1>0, <1>1, <1>2, <1>5, TypesKept
<1> QED
  BY <1>1, <1>8, <1>9, PathSteady DEF Evolves

(* Where the search stands. *)
LEMMA Searching ==
  ASSUME Types, NEW c, Holds(c), pc[current] = "walk"
  PROVE  /\ Sound(q, c) /\ Clean(q, c) /\ Apart(c) /\ Alive(q, new) = q
         /\ "walk" \in Window /\ current \in 0..MaxThreads /\ Len(c) \in Nat
         /\ \E k \in 1..Len(c) :
              /\ StandsOn(current, c, k) /\ new = c[k] /\ c[k] \in Nodes
              /\ q.next[new] = IF k = Len(c) THEN NULL ELSE c[k + 1]
<1>1. "walk" \in Window
  BY DEF Window
<1>2. /\ current \in 0..MaxThreads /\ Clean(q, c)
      /\ \E k \in 1..Len(c) : StandsOn(current, c, k)
  BY <1>1, HoldsMidway DEF Midway
<1>3. Sound(q, c) /\ Apart(c)
  BY DEF Holds
<1>4. /\ Along(q.next, c) /\ c \in Seq(Nodes) /\ Len(c) \in Nat
      /\ \A k \in 1..Len(c) : c[k] \in q.alive /\ c[k] \in Nodes
  BY <1>3, SoundFacts, LenProperties, ElementOfSeq
<1>5. PICK k \in 1..Len(c) : StandsOn(current, c, k)
  BY <1>2
<1>6. new = c[k] /\ q.next[c[k]] = IF k = Len(c) THEN NULL ELSE c[k + 1]
  BY <1>4, <1>5 DEF StandsOn, new, Along
<1>7. Alive(q, new) = q
  BY <1>4, <1>6 DEF Alive
<1> QED
  BY <1>1, <1>2, <1>3, <1>4, <1>5, <1>6, <1>7

(* A step of the search that leaves the list as it is. *)
LEMMA ApartStill ==
  ASSUME NEW c, Apart(c), q' = q,
         \A t \in 0..MaxThreads : pc'[t] \in Making => pc[t] \in Making /\ node'[t] = node[t]
  PROVE  Apart(c)'
<1>1. Keeps(q, c, q', c)
  BY DEF Keeps
<1> QED
  BY <1>1, ApartKept

LEMMA StepRemoveNext ==
  ASSUME Steady, RemoveNext
  PROVE  Steady' /\ Evolves
<1>0. PICK c : Types /\ Holds(c)
  BY SteadyPath
<1>10. PICK mover : mover = current
  OBVIOUS
<1>1. /\ pc[current] = "walk" /\ pc' = [pc EXCEPT ![current] = "walk"]
      /\ policy' = policy /\ current' = current /\ subject' = subject
      /\ q.thread[new] # subject[current] /\ q.next[new] # NULL
      /\ prev' = [prev EXCEPT ![current] = new]
      /\ node' = [node EXCEPT ![current] = q.next[new]]
      /\ q' = Alive(q, new)
  BY DEF RemoveNext, Goto, Writes
<1>2. /\ Sound(q, c) /\ Clean(q, c) /\ Apart(c) /\ Alive(q, new) = q
      /\ "walk" \in Window /\ current \in 0..MaxThreads /\ Len(c) \in Nat
      /\ \E k \in 1..Len(c) :
              /\ StandsOn(current, c, k) /\ new = c[k] /\ c[k] \in Nodes
              /\ q.next[new] = IF k = Len(c) THEN NULL ELSE c[k + 1]
  BY <1>0, <1>1, Searching
<1>3. PICK k \in 1..Len(c) :
              /\ StandsOn(current, c, k) /\ new = c[k] /\ c[k] \in Nodes
              /\ q.next[new] = IF k = Len(c) THEN NULL ELSE c[k + 1]
  BY <1>2
<1>4. /\ k + 1 \in 1..Len(c) /\ q.next[new] = c[k + 1] /\ c[k + 1] \in Nodes /\ q' = q
      /\ k + 1 # 1 /\ (k + 1) - 1 = k /\ k \in Nat
  <2>1. c \in Seq(Nodes)
    BY <1>2, SoundFacts
  <2>2. k # Len(c)
    BY <1>1, <1>3
  <2>3. k + 1 \in 1..Len(c)
    BY <1>2, <2>2
  <2> QED
    BY <1>1, <1>2, <1>3, <2>1, <2>2, <2>3, ElementOfSeq
<1>5. "walk" \in Places /\ "walk" \notin Making
  BY DEF Places, Window, Making
<1>6. /\ pc'[current] = "walk"
      /\ \A t \in 0..MaxThreads : t # current => pc'[t] = pc[t]
  BY <1>0, <1>1, <1>5, Goes
<1>7. /\ node' \in [0..MaxThreads -> Nodes \union {NULL}]
      /\ prev' \in [0..MaxThreads -> Nodes \union {NULL}]
      /\ node'[current] = c[k + 1] /\ prev'[current] = c[k]
      /\ \A t \in 0..MaxThreads : t # current => node'[t] = node[t] /\ prev'[t] = prev[t]
  BY <1>0, <1>1, <1>2, <1>3, <1>4 DEF Types
<1>8. Apart(c)'
  BY <1>2, <1>4, <1>5, <1>6, <1>7, ApartStill
<1>9. Midway(mover, c)'
  <2>1. \A j \in 1..k : q.thread[c[j]] # subject[current]
    <3>1. \A j \in 1..k : j \in 1..(k - 1) \/ j = k
      BY <1>4
    <3> QED
      BY <1>1, <1>3, <3>1 DEF StandsOn
  <2>2. StandsOn(mover, c, k + 1)'
    BY <1>1, <1>4, <1>7, <1>10, <2>1 DEF StandsOn
  <2>3. pc'[mover] = "walk" /\ Clean(q', c)
    BY <1>2, <1>4, <1>6, <1>10
  <2> QED
    BY <1>4, <2>2, <2>3 DEF Midway
<1>11. Steady'
  BY <1>0, <1>1, <1>2, <1>4, <1>7, <1>8, <1>9, <1>10, StaysInWindow
<1> QED
  BY <1>4, <1>11 DEF Evolves

LEMMA StepRemoveMissing ==
  ASSUME Steady, RemoveMissing
  PROVE  Steady' /\ Evolves
<1>0. PICK c : Types /\ Holds(c)
  BY SteadyPath
<1>1. /\ pc[current] = "walk" /\ pc' = [pc EXCEPT ![current] = Back]
      /\ policy' = policy /\ current' = current /\ CallOver
      /\ q' = Alive(q, new)
  BY DEF RemoveMissing, Goto, Writes
<1>2. Clean(q, c) /\ q' = q /\ pc[current] \in Window
  BY <1>0, <1>1, Searching
<1>3. Back \in Places \ Window /\ Back \notin Making
  BY DEF Places, Window, Making, Back
<1>4. Keeps(q, c, q', c)
  BY <1>2 DEF Keeps
<1>5. Steady'
  BY <1>0, <1>1, <1>2, <1>3, <1>4, LeavesWindow
<1> QED
  BY <1>2, <1>5 DEF Evolves

LEMMA StepRemoveFound ==
  ASSUME Steady, RemoveFound
  PROVE  Steady' /\ Evolves
<1>0. PICK c : Types /\ Holds(c)
  BY SteadyPath
<1>10. PICK mover : mover = current
  OBVIOUS
<1>1. /\ pc[current] = "walk" /\ pc' = [pc EXCEPT ![current] = "unlink"]
      /\ policy' = policy /\ current' = current /\ UNCHANGED Locals
      /\ subject' = subject /\ node' = node /\ prev' = prev
      /\ q.thread[new] = subject[current] /\ q' = Alive(q, new)
  BY DEF RemoveFound, Goto, Writes, Locals
<1>2. /\ Sound(q, c) /\ Clean(q, c) /\ Apart(c) /\ q' = q /\ pc[current] \in Window
      /\ current \in 0..MaxThreads
      /\ \E k \in 1..Len(c) : StandsOn(current, c, k) /\ new = c[k]
  BY <1>0, <1>1, Searching
<1>3. PICK k \in 1..Len(c) : StandsOn(current, c, k) /\ new = c[k]
  BY <1>2
<1>4. "unlink" \in Window /\ "unlink" \in Places /\ "unlink" \notin Making
  BY DEF Places, Window, Making
<1>5. /\ pc'[current] = "unlink"
      /\ \A t \in 0..MaxThreads : pc'[t] \in Making => pc[t] \in Making /\ node'[t] = node[t]
  BY <1>0, <1>1, <1>4, Goes
<1>6. Apart(c)'
  BY <1>2, <1>5, ApartStill
<1>7. Midway(mover, c)'
  <2>1. StandsOn(mover, c, k)' /\ q'.thread[c[k]] = subject'[mover]
    BY <1>1, <1>2, <1>3, <1>10 DEF StandsOn
  <2>2. pc'[mover] = "unlink" /\ Clean(q', c)
    BY <1>2, <1>5, <1>10
  <2> QED
    BY <2>1, <2>2 DEF Midway
<1>8. Steady'
  BY <1>0, <1>1, <1>2, <1>4, <1>6, <1>7, <1>10, WriteStep
<1> QED
  BY <1>2, <1>8 DEF Evolves

LEMMA StepRemoveUnlink ==
  ASSUME Steady, RemoveUnlink
  PROVE  Steady' /\ Evolves
<1>0. PICK c : Types /\ Holds(c)
  BY SteadyPath
<1>5. PICK mover : mover = current
  OBVIOUS
<1>6. PICK x : x = node[current]
  OBVIOUS
<1>7. PICK p : p = prev[current]
  OBVIOUS
<1>8. PICK place : place = IF MovesTail(q, x) THEN "cutTail" ELSE "uncount"
  OBVIOUS
<1> DEFINE h == Unlink(q, x, p)
<1>1. /\ pc[current] = "unlink" /\ pc' = [pc EXCEPT ![current] = place]
      /\ policy' = policy /\ current' = current /\ UNCHANGED Locals
      /\ subject' = subject /\ prev' = prev /\ node' = node /\ q' = h
  BY <1>6, <1>7, <1>8 DEF RemoveUnlink, Goto, Locals, Writes, new
<1>2. /\ place \in Window /\ place \in Places /\ pc[current] \in Window
      /\ place \notin Making
  BY <1>1, <1>8 DEF Places, Window, Making
<1>3. /\ current \in 0..MaxThreads /\ pc'[current] = place
      /\ \A t \in 0..MaxThreads : t # current => pc'[t] = pc[t]
      /\ \A t \in 0..MaxThreads : pc'[t] \in Making => pc[t] \in Making /\ node'[t] = node[t]
  BY <1>0, <1>1, <1>2, Goes
<1>4. \E d : /\ Sound(q', d) /\ Apart(d)' /\ Midway(mover, d)'
             /\ \E t \in Threads : Queue(q') = Abstract!Without(Queue(q), t)
  <2>1. Clean(q, c) /\ \E k \in 1..Len(c) : /\ StandsOn(current, c, k)
                                            /\ q.thread[c[k]] = subject[current]
    BY <1>0, <1>1, <1>2, HoldsMidway DEF Midway
  <2>2. PICK k \in 1..Len(c) :
            /\ x = c[k] /\ p = IF k = 1 THEN NULL ELSE c[k - 1]
            /\ \A j \in 1..(k - 1) : q.thread[c[j]] # q.thread[c[k]]
    BY <1>6, <1>7, <2>1 DEF StandsOn
  <2>3. PICK d : d = RemoveAt(c, k)
    OBVIOUS
  <2>4. /\ Sound(q, c) /\ Apart(c) /\ q.next \in Pointers /\ NoCycle(q.next)
        /\ Along(q.next, c) /\ Len(c) \in Nat /\ q.size = Len(c)
        /\ c # <<>> => q.tail = c[Len(c)]
        /\ Queue(q) = Labels(q.thread, c) /\ Queue(q) \in Seq(Threads)
        /\ Len(Queue(q)) = Len(c) /\ q.thread[x] \in Threads
    BY <1>0, <2>1, <2>2, SoundFacts, PathFacts DEF Holds, Clean
  <2>5. /\ Sound(h, d) /\ Keeps(q, c, h, d) /\ h.tail = q.tail /\ h.size = q.size
        /\ MovesTail(q, x) <=> (k = Len(c) /\ k # 1)
        /\ Queue(h) = RemoveAt(Queue(q), k)
    BY <2>2, <2>3, <2>4, Unlinks
  <2>6. /\ Len(d) = Len(c) - 1
        /\ k # Len(c) => d # <<>> /\ d[Len(d)] = c[Len(c)]
        /\ k = Len(c) /\ k # 1 => d # <<>> /\ d[Len(d)] = c[k - 1]
        /\ d # <<>> <=> Len(c) # 1
    BY <2>3, <2>4, PathWithout
  <2> HIDE DEF h
  <2>7. Sound(q', d) /\ Apart(d)'
    BY <1>1, <1>3, <2>4, <2>5, ApartKept
  <2>8. Midway(mover, d)'
    <3>1. q'.size = Len(d) + 1 /\ q'.tail = q.tail /\ pc'[mover] = place
      BY <1>1, <1>3, <1>5, <2>4, <2>5, <2>6
    <3>2. CASE MovesTail(q, x)
      <4>1. k = Len(c) /\ k # 1 /\ place = "cutTail" /\ p = c[k - 1]
        BY <1>8, <2>2, <2>5, <3>2
      <4>2. /\ pc'[mover] = "cutTail" /\ q'.size = Len(d) + 1
            /\ d # <<>> /\ prev'[mover] = d[Len(d)]
        BY <1>1, <1>5, <1>7, <2>6, <3>1, <4>1
      <4> QED
        BY <4>2 DEF Midway
    <3>3. CASE ~MovesTail(q, x)
      <4>1. place = "uncount" /\ (k # Len(c) \/ k = 1)
        BY <1>8, <2>5, <3>3
      <4>2. ASSUME d # <<>> PROVE q'.tail = d[Len(d)]
        <5>1. k # Len(c) /\ c # <<>>
          BY <2>2, <2>4, <2>6, <4>1, <4>2, PathFacts
        <5> QED
          BY <2>4, <2>6, <3>1, <5>1
      <4>3. pc'[mover] = "uncount" /\ q'.size = Len(d) + 1
        BY <3>1, <4>1
      <4> QED
        BY <4>2, <4>3 DEF Midway
    <3> QED
      BY <3>2, <3>3
  <2>9. Queue(q') = Abstract!Without(Queue(q), q.thread[x])
    <3> DEFINE s == Queue(q)
               t == q.thread[x]
    <3>1. \A j \in 1..Len(c) : s[j] = q.thread[c[j]]
      BY <2>4 DEF Labels
    <3>2. \A j \in 1..(k - 1) : j \in 1..Len(c)
      BY <2>2, <2>4
    <3>3. s[k] = t /\ \A j \in 1..(k - 1) : s[j] # t
      BY <2>2, <3>1, <3>2
    <3>4. s \in Seq(Threads) /\ Len(s) = Len(c) /\ Queue(q') = RemoveAt(s, k)
      BY <1>1, <2>4, <2>5
    <3> HIDE DEF s, t
    <3>5. PICK i : i = FirstAt(s, t)
      OBVIOUS
    <3>6. \/ i = 0 /\ (\A j \in 1..Len(s) : s[j] # t)
          \/ /\ i \in 1..Len(s) /\ s[i] = t /\ \A j \in 1..(i - 1) : s[j] # t
             /\ Abstract!Without(s, t) = RemoveAt(s, i)
      BY <3>4, <3>5, FirstPosition
    <3>7. i = k
      BY <2>2, <2>4, <3>3, <3>4, <3>6
    <3>8. k \in 1..Len(s) /\ s[k] = t
      BY <2>2, <3>3, <3>4
    <3>9. Abstract!Without(s, t) = RemoveAt(s, k)
      BY <3>6, <3>7, <3>8
    <3> QED
      BY <3>4, <3>9 DEF s, t
  <2> QED
    BY <2>4, <2>7, <2>8, <2>9
<1> HIDE DEF h
<1>9. PICK d : /\ Sound(q', d) /\ Apart(d)' /\ Midway(mover, d)'
               /\ \E t \in Threads : Queue(q') = Abstract!Without(Queue(q), t)
  BY <1>4
<1>10. Steady'
  BY <1>0, <1>1, <1>2, <1>5, <1>9, WriteStep
<1> QED
  BY <1>9, <1>10 DEF Evolves

-----------------------------------------------------------------------------
(***************************************************************************)
(* The steps of the timer and of main.                                     *)
(***************************************************************************)
LEMMA Changed ==
  ASSUME NEW h, Change(h), ~torn'
  PROVE  q' = h /\ (h # q => Active = {})
<1>1. q' = h
  BY DEF Change
<1>2. h # q => ~Busy(0..MaxThreads)
  BY DEF Change
<1> QED
  BY <1>1, <1>2 DEF Active, Busy

LEMMA EmptyPath ==
  ASSUME NEW h, NEW c, Sound(h, c), h.head = NULL
  PROVE  Queue(h) = <<>>
<1>1. /\ c \in Seq(Nodes) /\ h.head = First(c) /\ h.next \in Pointers
      /\ Along(h.next, c) /\ Queue(h) = Labels(h.thread, c)
      /\ Queue(h) \in Seq(Threads) /\ Len(Queue(h)) = Len(c)
  BY SoundFacts
<1>2. NULL \notin Nodes
  BY BoundsAssumption DEF Nodes, NULL
<1>3. ASSUME c # <<>> PROVE FALSE
  <2>1. First(c) = c[1] /\ c[1] \in Nodes
    BY <1>1, <1>3, PathFacts
  <2> QED
    BY <1>1, <1>2, <2>1
<1>4. Len(c) = 0
  BY <1>1, <1>3, PathFacts
<1> QED
  BY <1>1, <1>4, EmptySeq

(* A dispatch turns the sequence, unless a call is in its window: then it
   tears the list or leaves it alone. *)
LEMMA Dispatched ==
  ASSUME torn = FALSE, Types, NEW c, Holds(c), current \in Threads,
         NEW woken \in SUBSET Threads, NEW finished \in SUBSET Threads,
         NEW preempted \in BOOLEAN,
         Room(Cardinality(woken) + (IF preempted THEN 1 ELSE 0)),
         Dispatch(Requeued(AfterWalk(woken, finished), preempted)), ~torn'
  PROVE  /\ current' \in Threads
         /\ Active = {} => Evolves /\ \E d : Clean(q', d) /\ Keeps(q, c, q', d)
         /\ Active # {} => q' = q
<1> DEFINE p == OneOrNone(current, policy = RR /\ preempted)
           s == Abstract!AfterWalk(woken, finished) \o p
<1>1. PICK h : h = Requeued(AfterWalk(woken, finished), preempted)
  OBVIOUS
<1>2. IF h.head = NULL
      THEN Change(h) /\ current' = current
      ELSE \E choice \in Scheduled(h) : Change(choice[1]) /\ current' = choice[2]
  BY <1>1 DEF Dispatch
<1>3. Sound(q, c) /\ policy \in {RR, LOT, FCFS} /\ (Active = {} => Clean(q, c))
  BY DEF Holds, Types
<1>4. PICK e : /\ Sound(h, e)
               /\ Clean(q, c) => Clean(h, e) /\ Keeps(q, c, h, e) /\ Queue(h) = s
  BY <1>1, <1>3, Requeues
<1>5. p \in {<<>>} \union {<<t>> : t \in Threads}
  BY DEF OneOrNone
<1> HIDE DEF p
<1>6. ASSUME Queue(q') \in IF s = <<>> THEN {<<>>} ELSE Abstract!Turned(s)
      PROVE  Evolves
  BY <1>5, <1>6 DEF Evolves
<1> HIDE DEF s
<1>7. CASE h.head = NULL
  <2>1. q' = h /\ (h # q => Active = {}) /\ current' = current
    BY <1>2, <1>7, Changed
  <2>2. Queue(h) = <<>>
    BY <1>4, <1>7, EmptyPath
  <2>3. ASSUME Active = {}
        PROVE  Evolves /\ Clean(q', e) /\ Keeps(q, c, q', e)
    <3>1. Clean(h, e) /\ Keeps(q, c, h, e) /\ Queue(h) = s
      BY <1>3, <1>4, <2>3
    <3> QED
      BY <1>6, <2>1, <2>2, <3>1
  <2> QED
    BY <2>1, <2>3
<1>8. CASE h.head # NULL
  <2>1. PICK choice \in Scheduled(h) : Change(choice[1]) /\ current' = choice[2]
    BY <1>2, <1>8
  <2>2. q' = choice[1] /\ (choice[1] # q => Active = {})
    BY <2>1, Changed
  <2>3. /\ Queue(h) # <<>> /\ choice[2] \in Threads
        /\ Clean(h, e) => /\ \E d : Clean(choice[1], d) /\ Keeps(h, e, choice[1], d)
                          /\ Queue(choice[1]) \in Abstract!Turned(Queue(h))
    BY <1>3, <1>4, <1>8, Chooses
  <2>4. ASSUME Active = {}
        PROVE  Evolves /\ \E d : Clean(q', d) /\ Keeps(q, c, q', d)
    <3>1. Clean(h, e) /\ Keeps(q, c, h, e) /\ Queue(h) = s
      BY <1>3, <1>4, <2>4
    <3>2. PICK d : Clean(choice[1], d) /\ Keeps(h, e, choice[1], d)
      BY <2>3, <3>1
    <3>3. Clean(q', d) /\ Keeps(q, c, q', d)
      BY <2>2, <3>1, <3>2, KeepsTransitive
    <3>4. Queue(q') \in Abstract!Turned(s) /\ s # <<>>
      BY <2>2, <2>3, <3>1
    <3> QED
      BY <1>6, <3>3, <3>4
  <2> QED
    BY <2>1, <2>2, <2>3, <2>4
<1> QED
  BY <1>7, <1>8

(* No call is in its window, before or after. *)
LEMMA QuietStep ==
  ASSUME NEW c, Apart(c), NEW d, Clean(q', d), Keeps(q, c, q', d), node' = node,
         Active' = {}, \A t \in 0..MaxThreads : pc'[t] \in Making => pc[t] \in Making
  PROVE  Holds(d)'
<1>1. Apart(d)'
  BY ApartKept
<1>2. Sound(q', d)
  BY DEF Clean
<1> QED
  BY <1>1, <1>2 DEF Holds

LEMMA StepTimer ==
  ASSUME torn = FALSE, Steady, Timer, ~torn'
  PROVE  Steady' /\ Evolves
<1>0. PICK c : Types /\ Holds(c)
  BY SteadyPath
<1>1. PICK woken \in SUBSET Threads, finished \in SUBSET Threads, preempted \in BOOLEAN :
        /\ Room(Cardinality(woken) + (IF preempted THEN 1 ELSE 0))
        /\ Dispatch(Requeued(AfterWalk(woken, finished), preempted))
  BY DEF Timer
<1>2. /\ current # 0 /\ policy' = policy /\ subject' = subject
      /\ node' = node /\ prev' = prev
      /\ pc' = [pc EXCEPT ![current] = IF pc[current] = "yield" THEN "idle"
                                       ELSE pc[current]]
  BY DEF Timer
<1>3. /\ current \in 0..MaxThreads /\ current \in Threads
      /\ pc \in [0..MaxThreads -> Places]
      /\ policy \in {RR, LOT, FCFS}
  BY <1>0, <1>2, BoundsAssumption DEF Types, Threads
<1>4. /\ current' \in Threads
      /\ Active = {} => Evolves /\ \E d : Clean(q', d) /\ Keeps(q, c, q', d)
      /\ Active # {} => q' = q
  BY <1>0, <1>1, <1>3, Dispatched
<1>5. /\ "idle" \in Places /\ "idle" \notin Window /\ "yield" \notin Window
      /\ "idle" \notin Making /\ "yield" \notin Making /\ "yield" \in Fresh
  BY DEF Places, Window, Making, Fresh
<1>6. /\ pc' \in [0..MaxThreads -> Places]
      /\ \A t \in 0..MaxThreads : pc'[t] = pc[t] \/ (pc[t] = "yield" /\ pc'[t] = "idle")
  BY <1>2, <1>3, <1>5
<1>7. Active' = Active
      /\ \A t \in 0..MaxThreads : pc'[t] \in Making => pc[t] \in Making
  BY <1>5, <1>6 DEF Active
<1>8. Types'
  <2>1. current' # 0 /\ current' \in 0..MaxThreads
    BY <1>4, BoundsAssumption DEF Threads
  <2>2. \A t \in 0..MaxThreads : pc'[t] \in Fresh => prev'[t] = NULL
    BY <1>0, <1>2, <1>5, <1>6 DEF Types
  <2> QED
    BY <1>0, <1>2, <1>6, <2>1, <2>2 DEF Types
<1>9. CASE Active = {}
  <2>1. PICK d : Clean(q', d) /\ Keeps(q, c, q', d)
    BY <1>4, <1>9
  <2>2. Apart(c)
    BY <1>0 DEF Holds
  <2>3. Active' = {}
    BY <1>7, <1>9
  <2>4. Holds(d)'
    BY <1>2, <1>7, <2>1, <2>2, <2>3, QuietStep
  <2> QED
    BY <1>4, <1>8, <1>9, <2>4, PathSteady
<1>10. CASE Active # {}
  <2>1. q' = q
    BY <1>4, <1>10
  <2>2. ASSUME NEW t \in Active PROVE Midway(t, c)'
    <3>1. pc[t] \in Window /\ t \in 0..MaxThreads /\ Midway(t, c)
      BY <1>0 DEF Active, Holds
    <3>2. pc'[t] = pc[t]
      BY <1>5, <1>6, <3>1
    <3> QED
      BY <1>2, <2>1, <3>1, <3>2 DEF Midway, StandsOn
  <2>3. Sound(q', c) /\ Active' # {}
    BY <1>0, <1>7, <1>10, <2>1 DEF Holds
  <2>4. Apart(c)'
    BY <1>0, <1>2, <1>7, <2>1 DEF Holds, Apart
  <2>5. \A t \in Active' : Midway(t, c)' /\ \A u \in Active' : u = t
    BY <1>0, <1>7, <2>2 DEF Holds
  <2>6. Holds(c)'
    BY <2>3, <2>4, <2>5 DEF Holds
  <2> QED
    BY <1>8, <2>1, <2>6, PathSteady DEF Evolves
<1> QED
  BY <1>9, <1>10

(* A walk that finds nothing to do leaves the queue as it is. *)
LEMMA IdleWalk ==
  ASSUME torn = FALSE, Queue(q) \in Seq(Threads)
  PROVE  Abstract!AfterWalk({}, {}) = Queue(q)
<1>1. PICK f \in [0..MaxThreads -> Seq(Threads)] :
           /\ f[0] = Queue(q)
           /\ \A t \in 1..MaxThreads : f[t] = TurnStep({}, {}, t, f[t - 1])
           /\ Abstract!AfterWalk({}, {}) = f[MaxThreads]
  BY TurnWalks
<1>2. \A t \in 1..MaxThreads : f[t] = f[t - 1]
  BY <1>1 DEF TurnStep
<1>3. MaxThreads \in Nat
  BY BoundsAssumption
<1> DEFINE S == {k \in Nat : k <= MaxThreads => f[k] = Queue(q)}
<1>4. 0 \in S
  BY <1>1
<1>5. ASSUME NEW k \in Nat, k \in S PROVE k + 1 \in S
  <2> SUFFICES ASSUME k + 1 <= MaxThreads PROVE f[k + 1] = Queue(q)
    OBVIOUS
  <2>1. f[k] = Queue(q) /\ k + 1 \in 1..MaxThreads /\ (k + 1) - 1 = k
    BY <1>3, <1>5
  <2>2. f[k + 1] = f[(k + 1) - 1]
    BY <1>2, <2>1
  <2> QED
    BY <2>1, <2>2
<1>6. \A k \in Nat : k \in S
  <2> HIDE DEF S
  <2> QED
    BY <1>4, <1>5, Induction
<1> QED
  BY <1>1, <1>3, <1>6

LEMMA StepGo ==
  ASSUME torn = FALSE, Steady, Go
  PROVE  Steady' /\ Evolves
<1>0. PICK c : Types /\ Holds(c)
  BY SteadyPath
<1>1. /\ current = 0 /\ pc[0] = "idle" /\ q.head # NULL /\ policy' = policy
      /\ subject' = subject /\ pc' = pc /\ node' = node /\ prev' = prev
  BY DEF Go
<1>2. PICK choice \in Scheduled(q) : q' = choice[1] /\ current' = choice[2]
  BY DEF Go
<1>3. Active = {}
  <2>1. \A t \in 0..MaxThreads : t = 0 \/ t \in Threads
    BY BoundsAssumption DEF Threads
  <2>2. \A t \in 0..MaxThreads : pc[t] = "idle"
    BY <1>0, <1>1, <2>1 DEF Types
  <2>3. "idle" \notin Window
    BY DEF Window
  <2> QED
    BY <2>2, <2>3 DEF Active
<1>4. /\ Clean(q, c) /\ Sound(q, c) /\ Apart(c) /\ policy \in {RR, LOT, FCFS}
  BY <1>0, <1>3 DEF Holds, Types
<1>5. /\ Queue(q) # <<>> /\ choice[2] \in Threads
      /\ \E d : Clean(choice[1], d) /\ Keeps(q, c, choice[1], d)
      /\ Queue(choice[1]) \in Abstract!Turned(Queue(q))
  BY <1>1, <1>4, Chooses
<1>6. PICK d : Clean(q', d) /\ Keeps(q, c, q', d)
  BY <1>2, <1>5
<1>7. Holds(d)'
  <2>1. /\ Active' = {}
        /\ \A t \in 0..MaxThreads : pc'[t] \in Making => pc[t] \in Making
    BY <1>1, <1>3 DEF Active
  <2> QED
    BY <1>1, <1>4, <1>6, <2>1, QuietStep
<1>8. Types'
  <2>1. current' # 0 /\ current' \in 0..MaxThreads
    BY <1>2, <1>5, BoundsAssumption DEF Threads
  <2> QED
    BY <1>0, <1>1, <2>1 DEF Types
<1>9. Evolves
  <2> DEFINE s == Abstract!AfterWalk({}, {}) \o <<>>
  <2>1. Queue(q) \in Seq(Threads)
    BY <1>4, SoundFacts
  <2>2. Queue(q) \o <<>> = Queue(q)
    BY <2>1
  <2>3. s = Queue(q)
    BY <2>1, <2>2, IdleWalk
  <2>4. {} \in SUBSET Threads /\ <<>> \in {<<>>} \union {<<t>> : t \in Threads}
    OBVIOUS
  <2>5. Queue(q') \in IF s = <<>> THEN {<<>>} ELSE Abstract!Turned(s)
    BY <1>2, <1>5, <2>3
  <2> QED
    BY <2>4, <2>5 DEF Evolves
<1> QED
  BY <1>7, <1>8, <1>9, PathSteady

-----------------------------------------------------------------------------
(***************************************************************************)
(* The theorems.                                                           *)
(***************************************************************************)
LEMMA InitSteady ==
  ASSUME Init
  PROVE  IInv /\ Queue(q) = <<>>
<1>1. /\ q.head = NULL /\ q.tail \in Nodes \union {NULL} /\ q.size = 0
      /\ q.next = [n \in Nodes |-> NULL] /\ q.thread = [n \in Nodes |-> 0]
      /\ q.alive = {} /\ q.ok = TRUE /\ q \in Heaps
  <2>1. [n \in Nodes |-> NULL] \in Pointers
    BY DEF Pointers
  <2>2. [n \in Nodes |-> 0] \in [Nodes -> Threads \union {0}]
    OBVIOUS
  <2>3. PICK garbage \in {NULL} \union {n \in Nodes : n = 1} :
          q = [head |-> NULL, tail |-> garbage, size |-> 0,
               next |-> [n \in Nodes |-> NULL], thread |-> [n \in Nodes |-> 0],
               alive |-> {}, ok |-> TRUE]
    BY DEF Init
  <2> DEFINE nx == [n \in Nodes |-> NULL]
             th == [n \in Nodes |-> 0]
  <2> HIDE DEF nx, th
  <2>4. /\ q = [head |-> NULL, tail |-> garbage, size |-> 0, next |-> nx,
                thread |-> th, alive |-> {}, ok |-> TRUE]
        /\ nx \in Pointers /\ th \in [Nodes -> Threads \union {0}]
    BY <2>1, <2>2, <2>3 DEF nx, th
  <2> QED
    BY <2>4 DEF Heaps, nx, th
<1>2. NoCycle(q.next)
  <2>1. NULL \notin Nodes
    BY BoundsAssumption DEF Nodes, NULL
  <2> QED
    BY <1>1, <2>1 DEF NoCycle
<1>3. Sound(q, <<>>) /\ Len(<<>>) = 0
  <2>1. <<>> \in Seq(Nodes) /\ Len(<<>>) = 0 /\ \A k \in 1..0 : FALSE
    OBVIOUS
  <2>2. Along(q.next, <<>>) /\ On(<<>>) = {}
    BY <2>1 DEF Along, On
  <2> QED
    BY <1>1, <1>2, <2>1, <2>2 DEF Sound, IsPath, First
<1>4. Clean(q, <<>>)
  BY <1>1, <1>3 DEF Clean
<1>5. /\ pc = [t \in 0..MaxThreads |-> "idle"] /\ current = 0 /\ torn = FALSE
      /\ node = [t \in 0..MaxThreads |-> NULL]
      /\ subject = [t \in 0..MaxThreads |-> 0]
      /\ prev = [t \in 0..MaxThreads |-> NULL] /\ policy \in {RR, LOT, FCFS}
  BY SchedulesAssumption DEF Init
<1>6. "idle" \in Places /\ "idle" \notin Window /\ "idle" \notin Making
  BY DEF Places, Window, Making
<1>7. Types
  <2>1. 0 \in 0..MaxThreads /\ \A t \in Threads : t \in 0..MaxThreads
    BY BoundsAssumption DEF Threads
  <2> QED
    BY <1>5, <1>6, <2>1 DEF Types
<1>8. Holds(<<>>)
  <2>1. Active = {}
    BY <1>5, <1>6 DEF Active
  <2>2. Apart(<<>>)
    BY <1>5, <1>6 DEF Apart
  <2> QED
    BY <1>3, <1>4, <2>1, <2>2 DEF Holds
<1>9. Chain(q) = <<>> /\ Queue(q) = <<>>
  BY <1>1, <1>3, EmptyPath, SoundFacts
<1> QED
  BY <1>5, <1>7, <1>8, <1>9 DEF IInv, Steady

(* No step starts from a torn list, or changes the policy. *)
LEMMA StepKind ==
  ASSUME Next, torn \in BOOLEAN
  PROVE  torn = FALSE /\ torn' \in BOOLEAN /\ policy' = policy
<1>1. ASSUME NEW h, Change(h)
      PROVE  torn' \in BOOLEAN
  BY <1>1 DEF Change
<1>2. ASSUME Starts PROVE torn' \in BOOLEAN
  BY <1>2 DEF Starts, Busy
<1>3. CASE Timer
  <2>1. PICK h : Dispatch(h)
    BY <1>3 DEF Timer
  <2>2. \E g : Change(g)
    BY <2>1 DEF Dispatch
  <2> QED
    BY <1>1, <1>3, <2>2 DEF Timer, Runs
<1>4. CASE Go
  BY <1>4 DEF Go, Runs
<1>5. CASE \E t \in Threads : Enter(t) \/ Leave(t)
  BY <1>5 DEF Enter, Leave, Goto, Runs, Writes
<1>6. CASE EnqueueTest \/ RemoveHead
  BY <1>2, <1>6 DEF EnqueueTest, RemoveHead, Goto, Runs
<1>7. CASE EnqueueTail \/ EnqueueHead \/ EnqueueLink \/ EnqueueMoveTail \/ EnqueueCount
  BY <1>7 DEF EnqueueTail, EnqueueHead, EnqueueLink, EnqueueMoveTail, EnqueueCount,
              Goto, Runs, Writes
<1>8. CASE RemoveEmpty \/ RemoveNext \/ RemoveMissing \/ RemoveFound
  BY <1>8 DEF RemoveEmpty, RemoveNext, RemoveMissing, RemoveFound, Goto, Runs, Writes
<1>9. CASE RemoveUnlink \/ RemoveCutTail \/ RemoveCount
  BY <1>9 DEF RemoveUnlink, RemoveCutTail, RemoveCount, Goto, Runs, Writes
<1> QED
  BY <1>3, <1>4, <1>5, <1>6, <1>7, <1>8, <1>9 DEF Next

LEMMA NextSteady ==
  ASSUME IInv, Next
  PROVE  /\ IInv' /\ torn = FALSE /\ policy' = policy
         /\ torn' = TRUE \/ (torn' = FALSE /\ Evolves)
<1>1. torn \in BOOLEAN /\ (~torn => Steady)
  BY DEF IInv
<1>2. torn = FALSE /\ torn' \in BOOLEAN /\ policy' = policy
  BY <1>1, StepKind
<1>3. Steady
  BY <1>1, <1>2
<1>4. CASE torn'
  BY <1>2, <1>4 DEF IInv
<1>5. CASE ~torn'
  <2>1. Steady' /\ Evolves
    <3>1. CASE Timer
      BY <1>2, <1>3, <1>5, <3>1, StepTimer
    <3>2. CASE Go
      BY <1>2, <1>3, <3>2, StepGo
    <3>3. CASE \E t \in Threads : Enter(t) \/ Leave(t)
      BY <1>3, <3>3, StepEnter, StepLeave
    <3>4. CASE EnqueueTest
      BY <1>3, <1>5, <3>4, StepEnqueueTest
    <3>5. CASE EnqueueTail
      BY <1>3, <3>5, StepEnqueueTail
    <3>6. CASE EnqueueHead
      BY <1>3, <3>6, StepEnqueueHead
    <3>7. CASE EnqueueLink
      BY <1>3, <3>7, StepEnqueueLink
    <3>8. CASE EnqueueMoveTail
      BY <1>3, <3>8, StepEnqueueMoveTail
    <3>9. CASE EnqueueCount
      BY <1>3, <3>9, StepEnqueueCount
    <3>10. CASE RemoveEmpty
      BY <1>3, <3>10, StepRemoveEmpty
    <3>11. CASE RemoveHead
      BY <1>3, <1>5, <3>11, StepRemoveHead
    <3>12. CASE RemoveNext
      BY <1>3, <3>12, StepRemoveNext
    <3>13. CASE RemoveMissing
      BY <1>3, <3>13, StepRemoveMissing
    <3>14. CASE RemoveFound
      BY <1>3, <3>14, StepRemoveFound
    <3>15. CASE RemoveUnlink
      BY <1>3, <3>15, StepRemoveUnlink
    <3>16. CASE RemoveCutTail
      BY <1>3, <3>16, StepRemoveCutTail
    <3>17. CASE RemoveCount
      BY <1>3, <3>17, StepRemoveCount
    <3> QED
      BY <3>1, <3>2, <3>3, <3>4, <3>5, <3>6, <3>7, <3>8, <3>9, <3>10,
         <3>11, <3>12, <3>13, <3>14, <3>15, <3>16, <3>17 DEF Next
  <2> QED
    BY <1>2, <1>5, <2>1 DEF IInv
<1> QED
  BY <1>4, <1>5, <1>2

LEMMA StutterSteady ==
  ASSUME IInv, UNCHANGED vars
  PROVE  IInv'
<1>1. torn' = torn /\ torn \in BOOLEAN
  BY DEF IInv, vars
<1>2. ASSUME ~torn PROVE Steady'
  <2>1. PICK c : Types /\ Holds(c)
    BY <1>2, SteadyPath DEF IInv
  <2>2. Types' /\ Active' = Active
    BY <2>1 DEF vars, Types, Active
  <2>3. Apart(c)' /\ Sound(q', c) /\ (Active = {} => Clean(q', c))
    BY <2>1 DEF Holds, Apart, vars
  <2>4. \A t \in Active' : Midway(t, c)' /\ \A u \in Active' : u = t
    BY <2>1, <2>2 DEF Holds, Midway, StandsOn, vars
  <2>5. Holds(c)'
    BY <2>2, <2>3, <2>4 DEF Holds
  <2> QED
    BY <2>2, <2>5, PathSteady
<1> QED
  BY <1>1, <1>2 DEF IInv

LEMMA AlwaysSteady ==
  Spec => []IInv
<1>1. Init => IInv
  BY InitSteady
<1>2. IInv /\ [Next]_vars => IInv'
  BY NextSteady, StutterSteady
<1> QED
  BY <1>1, <1>2, PTL DEF Spec

(* No freed node is in the list, none is read or written, and the size and the
   tail are those of the list whenever no call is in its window: whatever the
   number of threads and of nodes, and wherever the timer fires, until two uses
   of the list overlap. *)
THEOREM FieldsAlwaysAgree ==
  Spec => []FieldsAgree
<1>1. ASSUME IInv PROVE FieldsAgree
  <2> SUFFICES ASSUME ~torn
               PROVE  /\ q.ok /\ \A k \in DOMAIN Chain(q) : Chain(q)[k] \in q.alive
                      /\ (\A t \in 0..MaxThreads : pc[t] \notin Window) =>
                           /\ q.size = Len(Chain(q))
                           /\ q.size > 0 => q.tail = Chain(q)[q.size]
    BY DEF FieldsAgree
  <2>1. PICK c : c = Chain(q)
    OBVIOUS
  <2>2. Sound(q, c) /\ (Active = {} => Clean(q, c))
    BY <1>1, <2>1 DEF IInv, Steady, Holds
  <2>3. /\ q.ok = TRUE /\ c \in Seq(Nodes) /\ Len(c) \in Nat /\ DOMAIN c = 1..Len(c)
        /\ \A k \in 1..Len(c) : c[k] \in q.alive
        /\ c = <<>> => Len(c) = 0
    BY <2>2, SoundFacts, PathFacts, LenProperties DEF Sound
  <2>4. (\A t \in 0..MaxThreads : pc[t] \notin Window) => Active = {}
    BY DEF Active
  <2>5. Active = {} => q.size = Len(c) /\ (q.size > 0 => q.tail = c[q.size])
    BY <2>2, <2>3 DEF Clean
  <2> QED
    BY <2>1, <2>3, <2>4, <2>5
<1>2. IInv => FieldsAgree
  BY <1>1
<1> QED
  BY <1>2, AlwaysSteady, PTL

(* What a step does to the sequence is a step of the abstract queue. *)
LEMMA EvolvesAbstractly ==
  ASSUME Evolves, torn = FALSE, torn' = FALSE, policy' = policy
  PROVE  [Abstract!Next]_<<policy, IF torn THEN <<>> ELSE Queue(q), torn>>
<1> DEFINE queue == IF torn THEN <<>> ELSE Queue(q)
<1>1. queue = Queue(q) /\ queue' = Queue(q')
  BY DEF Queue
<1> HIDE DEF queue
<1>0. Abstract!Threads = Threads
  BY DEF Abstract!Threads, Threads
<1>2. CASE Queue(q') = Queue(q)
  BY <1>1, <1>2 DEF queue
<1>3. ASSUME NEW t \in Threads, Queue(q') = Append(Queue(q), t)
      PROVE  Abstract!Next
  <2>1. Abstract!Add(t)
    BY <1>1, <1>3 DEF Abstract!Add, queue
  <2> QED
    BY <1>0, <2>1 DEF Abstract!Next
<1>4. ASSUME NEW t \in Threads, Queue(q') = Abstract!Without(Queue(q), t)
      PROVE  Abstract!Next
  <2>1. Abstract!Drop(t)
    BY <1>1, <1>4 DEF Abstract!Drop, queue
  <2> QED
    BY <1>0, <2>1 DEF Abstract!Next
<1>5. ASSUME \E woken, finished \in SUBSET Threads,
                preempted \in {<<>>} \union {<<t>> : t \in Threads} :
               LET s == Abstract!AfterWalk(woken, finished) \o preempted
               IN  Queue(q') \in IF s = <<>> THEN {<<>>} ELSE Abstract!Turned(s)
      PROVE  Abstract!Next
  <2>1. Abstract!Dispatch
    BY <1>0, <1>1, <1>5 DEF Abstract!Dispatch, queue
  <2> QED
    BY <2>1 DEF Abstract!Next
<1> QED
  BY <1>2, <1>3, <1>4, <1>5 DEF Evolves, queue

(* The pointers implement a sequence: every write of a call and every dispatch
   is a step of the abstract queue or changes nothing of it, for as long as no
   two uses of the list overlap. *)
THEOREM ImplementsSequence ==
  Spec => IsSequence
<1>1. Init => Abstract!Init
  <2> SUFFICES ASSUME Init PROVE Abstract!Init
    OBVIOUS
  <2>1. torn = FALSE /\ Queue(q) = <<>>
    BY InitSteady DEF Init
  <2> QED
    BY <2>1 DEF Abstract!Init
<1>2. IInv /\ [Next]_vars
        => [Abstract!Next]_<<policy, IF torn THEN <<>> ELSE Queue(q), torn>>
  <2> SUFFICES ASSUME IInv, [Next]_vars
               PROVE  [Abstract!Next]_<<policy, IF torn THEN <<>> ELSE Queue(q), torn>>
    OBVIOUS
  <2>1. CASE UNCHANGED vars
    BY <2>1 DEF vars, Queue
  <2>2. CASE Next
    <3>1. /\ torn = FALSE /\ policy' = policy
          /\ torn' = TRUE \/ (torn' = FALSE /\ Evolves)
      BY <2>2, NextSteady DEF IInv
    <3>2. CASE torn' = TRUE
      <4>1. Abstract!Break
        BY <3>2 DEF Abstract!Break
      <4> QED
        BY <3>1, <4>1 DEF Abstract!Next
    <3>3. CASE torn' = FALSE /\ Evolves
      BY <3>1, <3>3, EvolvesAbstractly
    <3> QED
      BY <3>1, <3>2, <3>3
  <2> QED
    BY <2>1, <2>2
<1> QED
  BY <1>1, <1>2, AlwaysSteady, PTL DEF Spec, IsSequence, Abstract!Spec
=============================================================================
