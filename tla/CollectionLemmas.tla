-------------------------- MODULE CollectionLemmas --------------------------
(***************************************************************************)
(* Facts about numbers, sequences and sums that the proofs of all three    *)
(* programs need.  The induction principle and the principle of recursive  *)
(* definition are stated with a set and a function in the place of an      *)
(* operator, so that first-order provers can use them.                     *)
(***************************************************************************)
EXTENDS WordList, SequencesExt, FiniteSetTheorems, SequenceTheorems, TLAPS

(* A non-empty set of naturals has a least element. *)
LEMMA LeastNatural ==
  ASSUME NEW S \in SUBSET Nat, S # {}
  PROVE  \E m \in S : \A n \in S : m <= n
<1>1. PICK m \in S : \A n \in S : ~(<<n, m>> \in OpToRel(<, Nat))
  BY WFMin, NatLessThanWellFounded
<1>2. \A n \in S : ~(n < m)
  BY <1>1 DEF OpToRel
<1> QED
  BY <1>2

(* Induction on the naturals, for the numbers that are in a set. *)
LEMMA Induction ==
  ASSUME NEW S, 0 \in S, \A n \in Nat : n \in S => n + 1 \in S
  PROVE  \A n \in Nat : n \in S
<1> SUFFICES ASSUME Nat \ S # {} PROVE FALSE
  OBVIOUS
<1>1. PICK m \in Nat \ S : \A n \in Nat \ S : m <= n
  BY LeastNatural
<1>2. m - 1 \in Nat /\ m - 1 \in S
  BY <1>1
<1> QED
  BY <1>1, <1>2

-----------------------------------------------------------------------------
(***************************************************************************)
(* Recursive definitions.                                                  *)
(***************************************************************************)
(* f is a function on 0..n whose value at k is made from the one at k - 1. *)
MadeInSteps(f, n, T, base, Step) ==
  /\ f \in [0..n -> T]
  /\ f[0] = base
  /\ \A k \in 1..n : f[k] = Step[k][f[k - 1]]

LEMMA RecursionExists ==
  ASSUME NEW n \in Nat, NEW T, NEW base \in T, NEW Step \in [1..n -> [T -> T]]
  PROVE  \E f : MadeInSteps(f, n, T, base, Step)
<1> DEFINE Upto(m) ==
      \E f \in [0..m -> T] :
        /\ f[0] = base
        /\ \A k \in 1..m : f[k] = Step[k][f[k - 1]]
<1> DEFINE S == {m \in Nat : m <= n => Upto(m)}
<1>1. 0 \in S
  <2>1. /\ [k \in 0..0 |-> base] \in [0..0 -> T]
        /\ [k \in 0..0 |-> base][0] = base
        /\ 1..0 = {}
    OBVIOUS
  <2>2. Upto(0)
    BY <2>1
  <2> HIDE DEF Upto
  <2> QED
    BY <2>2
<1>2. ASSUME NEW m \in Nat, m \in S PROVE m + 1 \in S
  <2> SUFFICES ASSUME m + 1 <= n PROVE Upto(m + 1)
    OBVIOUS
  <2>1. PICK f \in [0..m -> T] : /\ f[0] = base
                                 /\ \A k \in 1..m : f[k] = Step[k][f[k - 1]]
    BY <1>2
  <2> DEFINE g == [k \in 0..(m + 1) |-> IF k = m + 1 THEN Step[m + 1][f[m]]
                                        ELSE f[k]]
  <2>2. Step[m + 1][f[m]] \in T
    <3>1. Step[m + 1] \in [T -> T] /\ f[m] \in T
      OBVIOUS
    <3> QED
      BY <3>1
  <2>3. g \in [0..(m + 1) -> T]
    BY <2>2
  <2>4. g[0] = base
    BY <2>1
  <2>5. ASSUME NEW k \in 1..(m + 1) PROVE g[k] = Step[k][g[k - 1]]
    BY <2>1
  <2> HIDE DEF g
  <2> QED
    BY <2>3, <2>4, <2>5
<1>3. Upto(n)
  <2> HIDE DEF Upto
  <2>1. \A m \in Nat : m \in S
    <3> HIDE DEF S
    <3> QED
      BY <1>1, <1>2, Induction
  <2> QED
    BY <2>1
<1> QED
  BY <1>3 DEF MadeInSteps

(* A loop: what holds of the start, and after each turn when it held before it,
   holds throughout.  P[k] has the states there may be after k turns, and F[s]
   is the state after s. *)
LEMMA LoopInduction ==
  ASSUME NEW n \in Nat, NEW P, NEW f, f[0] \in P[0],
         \A k \in 1..n : f[k - 1] \in P[k - 1] => f[k] \in P[k]
  PROVE  \A k \in 0..n : f[k] \in P[k]
<1> DEFINE S == {k \in Nat : k <= n => f[k] \in P[k]}
<1>1. 0 \in S
  OBVIOUS
<1>2. ASSUME NEW k \in Nat, k \in S PROVE k + 1 \in S
  <2> SUFFICES ASSUME k + 1 <= n PROVE f[k + 1] \in P[k + 1]
    OBVIOUS
  <2>1. k + 1 \in 1..n /\ (k + 1) - 1 = k /\ f[k] \in P[k]
    BY <1>2
  <2> QED
    BY <2>1
<1>3. \A k \in Nat : k \in S
  <2> HIDE DEF S
  <2> QED
    BY <1>1, <1>2, Induction
<1> QED
  BY <1>3

(* f[k] is the state after k turns of a loop that starts in state base. *)
IsLoop(f, n, base, F) ==
  f = [k \in 0..n |-> IF k = 0 THEN base ELSE F[f[k - 1]]]

LEMMA LoopExists ==
  ASSUME NEW n \in Nat, NEW T, NEW P \in [0..n -> SUBSET T], NEW base \in P[0],
         NEW F, \A k \in 1..n : \A s \in P[k - 1] : F[s] \in P[k]
  PROVE  \E f : (\A k \in 0..n : f[k] \in P[k]) /\ IsLoop(f, n, base, F)
<1> DEFINE Step == [k \in 1..n |-> [s \in T |-> IF s \in P[k - 1] THEN F[s] ELSE base]]
<1>1. base \in T /\ \A k \in 0..n : P[k] \subseteq T
  <2>1. 0 \in 0..n
    OBVIOUS
  <2> QED
    BY <2>1
<1>2. Step \in [1..n -> [T -> T]]
  <2> SUFFICES ASSUME NEW k \in 1..n, NEW s \in T
               PROVE  (IF s \in P[k - 1] THEN F[s] ELSE base) \in T
    OBVIOUS
  <2>1. P[k] \subseteq T
    BY <1>1
  <2> QED
    BY <1>1, <2>1
<1>3. PICK f : MadeInSteps(f, n, T, base, Step)
  <2> HIDE DEF Step
  <2> QED
    BY <1>1, <1>2, RecursionExists
<1>4. /\ f \in [0..n -> T] /\ f[0] = base
      /\ \A k \in 1..n : f[k] = Step[k][f[k - 1]]
  BY <1>3 DEF MadeInSteps
<1>5. \A k \in 1..n : f[k - 1] \in P[k - 1] => f[k] = F[f[k - 1]]
  <2> TAKE k \in 1..n
  <2>1. k - 1 \in 0..n /\ f[k - 1] \in T
    BY <1>4
  <2>2. Step[k][f[k - 1]] = IF f[k - 1] \in P[k - 1] THEN F[f[k - 1]] ELSE base
    BY <2>1
  <2> HIDE DEF Step
  <2> QED
    BY <1>4, <2>2
<1> HIDE DEF Step
<1>6. \A k \in 0..n : f[k] \in P[k]
  <2>1. \A k \in 1..n : f[k - 1] \in P[k - 1] => f[k] \in P[k]
    BY <1>5
  <2>2. f[0] \in P[0]
    BY <1>4
  <2> QED
    BY <2>1, <2>2, LoopInduction
<1>7. f = [k \in 0..n |-> IF k = 0 THEN base ELSE F[f[k - 1]]]
  <2> DEFINE g == [k \in 0..n |-> IF k = 0 THEN base ELSE F[f[k - 1]]]
  <2>1. ASSUME NEW k \in 0..n PROVE f[k] = g[k]
    <3>1. CASE k = 0
      BY <1>4, <3>1
    <3>2. CASE k # 0
      <4>1. k \in 1..n /\ k - 1 \in 0..n
        BY <3>2
      <4>2. g[k] = F[f[k - 1]]
        BY <3>2
      <4> HIDE DEF g
      <4> QED
        BY <1>5, <1>6, <4>1, <4>2
    <3> QED
      BY <3>1, <3>2
  <2>2. f = [k \in 0..n |-> f[k]] /\ g = [k \in 0..n |-> g[k]]
    BY <1>4
  <2>3. f = g
    <3> HIDE DEF g
    <3> QED
      BY <2>1, <2>2
  <2> QED
    BY <2>3
<1>8. IsLoop(f, n, base, F)
  BY <1>7 DEF IsLoop
<1> QED
  BY <1>6, <1>8

-----------------------------------------------------------------------------
(***************************************************************************)
(* A sequence of sequences, put together.                                  *)
(***************************************************************************)
(* FlattenSeq appends one sequence after the other. *)
LEMMA FlattenSteps ==
  ASSUME NEW T, NEW seqs \in Seq(Seq(T)), Len(seqs) # 0
  PROVE  \E fl : /\ fl[1] = seqs[1]
                 /\ \A k \in 1..(Len(seqs) - 1) :
                      fl[k + 1] = fl[k] \o seqs[k + 1]
                 /\ FlattenSeq(seqs) = fl[Len(seqs)]
<1> DEFINE n == Len(seqs)
           Q == Seq(T)
           Def(flatten) == flatten = [i \in 1..n |->
                             IF i = 1 THEN seqs[i] ELSE flatten[i - 1] \o seqs[i]]
           Turn == [k \in 1..(n - 1) |-> [q \in Q |-> q \o seqs[k + 1]]]
<1>0. n \in Nat /\ n # 0 /\ \A i \in 1..n : seqs[i] \in Q
  BY LenProperties, ElementOfSeq
<1>1. n - 1 \in Nat /\ seqs[1] \in Q
  BY <1>0
<1>2. ASSUME NEW k \in 1..(n - 1), NEW q \in Q PROVE q \o seqs[k + 1] \in Q
  <2>1. k + 1 \in 1..n
    BY <1>0
  <2>2. seqs[k + 1] \in Seq(T) /\ q \in Seq(T)
    BY <1>0, <2>1
  <2> QED
    BY <2>2, ConcatProperties
<1>3. Turn \in [1..(n - 1) -> [Q -> Q]]
  <2> HIDE DEF Q
  <2> QED
    BY <1>2
<1>4. PICK f \in [0..(n - 1) -> Q] :
        f[0] = seqs[1] /\ \A k \in 1..(n - 1) : f[k] = Turn[k][f[k - 1]]
  <2> DEFINE m == n - 1
             base == seqs[1]
  <2>1. m \in Nat /\ base \in Q /\ Turn \in [1..m -> [Q -> Q]]
    BY <1>1, <1>3
  <2> HIDE DEF Turn, n, Q, m, base
  <2>2. \E f : MadeInSteps(f, m, Q, base, Turn)
    BY ONLY <2>1, RecursionExists
  <2> QED
    BY <2>2 DEF MadeInSteps, m, base
<1> DEFINE g == [i \in 1..n |-> f[i - 1]]
<1>5. ASSUME NEW k \in 1..(n - 1) PROVE f[k] = f[k - 1] \o seqs[k + 1]
  <2>1. k - 1 \in 0..(n - 1)
    BY <1>1
  <2>2. f[k - 1] \in Q
    <3> HIDE DEF Q
    <3> QED
      BY <2>1
  <2> HIDE DEF Q
  <2> QED
    BY <1>4, <2>2
<1>6. Def(g)
  <2> DEFINE h == [i \in 1..n |-> IF i = 1 THEN seqs[i] ELSE g[i - 1] \o seqs[i]]
  <2>1. ASSUME NEW i \in 1..n PROVE g[i] = h[i]
    <3>1. CASE i = 1
      BY <1>4, <3>1
    <3>2. CASE i # 1
      <4>1. i - 1 \in 1..(n - 1) /\ i - 1 \in 1..n /\ (i - 1) + 1 = i
        BY <1>0, <3>2
      <4>2. g[i - 1] = f[(i - 1) - 1] /\ g[i] = f[i - 1]
        BY <4>1
      <4>3. f[i - 1] = f[(i - 1) - 1] \o seqs[i]
        BY <1>5, <4>1
      <4> QED
        BY <3>2, <4>2, <4>3
    <3> QED
      BY <3>1, <3>2
  <2>2. g = [i \in 1..n |-> g[i]] /\ h = [i \in 1..n |-> h[i]]
    OBVIOUS
  <2> HIDE DEF g, h
  <2>3. g = h
    BY <2>1, <2>2
  <2> QED
    BY <2>3 DEF h
<1> DEFINE fl == CHOOSE flatten : Def(flatten)
<1>7. FlattenSeq(seqs) = fl[n]
  BY <1>0 DEF FlattenSeq
<1>8. Def(fl)
  <2> HIDE DEF Def
  <2> QED
    BY <1>6
<1>9. ASSUME NEW i \in 1..n
      PROVE  fl[i] = IF i = 1 THEN seqs[i] ELSE fl[i - 1] \o seqs[i]
  <2> HIDE DEF fl
  <2>1. fl = [j \in 1..n |-> IF j = 1 THEN seqs[j] ELSE fl[j - 1] \o seqs[j]]
    BY <1>8
  <2> QED
    BY ONLY <2>1, i \in 1..n
<1> HIDE DEF fl, g, Def, Q
<1>10. fl[1] = seqs[1]
  BY <1>0, <1>9
<1>11. ASSUME NEW k \in 1..(n - 1)
      PROVE  fl[k + 1] = fl[k] \o seqs[k + 1]
  <2>1. k + 1 \in 1..n /\ k + 1 # 1 /\ (k + 1) - 1 = k
    BY <1>0
  <2> QED
    BY <1>9, <2>1
<1> QED
  BY <1>7, <1>10, <1>11

(* It makes a sequence of the same elements. *)
LEMMA FlattenType ==
  ASSUME NEW T, NEW seqs \in Seq(Seq(T))
  PROVE  FlattenSeq(seqs) \in Seq(T)
<1> DEFINE n == Len(seqs)
           Q == Seq(T)
<1>1. n \in Nat /\ \A i \in 1..n : seqs[i] \in Q
  BY LenProperties, ElementOfSeq
<1>2. CASE n = 0
  <2>1. FlattenSeq(seqs) = seqs /\ seqs = << >>
    BY <1>2, EmptySeq DEF FlattenSeq
  <2> QED
    BY <2>1
<1>3. CASE n # 0
  <2>1. PICK fl : /\ fl[1] = seqs[1]
                  /\ \A k \in 1..(n - 1) : fl[k + 1] = fl[k] \o seqs[k + 1]
                  /\ FlattenSeq(seqs) = fl[n]
    BY <1>3, FlattenSteps
  <2> DEFINE S == {k \in Nat : k + 1 <= n => fl[k + 1] \in Q}
  <2>2. 0 \in S
    <3>1. seqs[1] \in Q /\ 0 + 1 = 1
      BY <1>1, <1>3
    <3>2. fl[0 + 1] \in Q
      BY <2>1, <3>1
    <3> QED
      BY <3>2
  <2>3. ASSUME NEW k \in Nat, k \in S PROVE k + 1 \in S
    <3> SUFFICES ASSUME (k + 1) + 1 <= n PROVE fl[(k + 1) + 1] \in Q
      OBVIOUS
    <3>1. (k + 1) + 1 \in 1..n /\ k + 1 \in 1..(n - 1) /\ k + 1 <= n
      BY <1>1
    <3>2. fl[k + 1] \in Seq(T) /\ seqs[(k + 1) + 1] \in Seq(T)
      BY <1>1, <2>3, <3>1
    <3>3. fl[(k + 1) + 1] = fl[k + 1] \o seqs[(k + 1) + 1]
      BY <2>1, <3>1
    <3> QED
      BY <3>2, <3>3, ConcatProperties
  <2>4. n - 1 \in Nat /\ (n - 1) + 1 = n
    BY <1>1, <1>3
  <2>5. n - 1 \in S
    <3> HIDE DEF S
    <3> QED
      BY <2>2, <2>3, <2>4, Induction
  <2> QED
    BY <2>1, <2>4, <2>5
<1> QED
  BY <1>2, <1>3

-----------------------------------------------------------------------------
(***************************************************************************)
(* Sums.  SumFunctionOnSet adds in the order in which CHOOSE picks the     *)
(* indices; the sum does not depend on it.                                 *)
(***************************************************************************)
Pick(s) == CHOOSE x \in s : TRUE

(* What makes g the function of the partial sums of f over subsets of D. *)
Sums(g, f, D) ==
  g = [s \in SUBSET D |-> IF s = {} THEN 0 ELSE f[Pick(s)] + g[s \ {Pick(s)}]]

(* Subsets of a finite set, and what is left of one without an element. *)
LEMMA FiniteSubset ==
  ASSUME NEW D, IsFiniteSet(D), NEW s \in SUBSET D
  PROVE  /\ IsFiniteSet(s) /\ Cardinality(s) \in Nat
         /\ Cardinality(s) <= Cardinality(D)
         /\ Cardinality(s) = 0 <=> s = {}
         /\ \A x \in s : /\ Cardinality(s \ {x}) = Cardinality(s) - 1
                         /\ Cardinality(s) > 0
                         /\ s \ {x} \in SUBSET D
         /\ s # {} => Pick(s) \in s
<1>1. IsFiniteSet(s) /\ Cardinality(s) <= Cardinality(D)
  BY FS_Subset
<1>2. Cardinality(s) \in Nat
  BY <1>1, FS_CardinalityType
<1>3. Cardinality(s) = 0 <=> s = {}
  BY <1>1, FS_EmptySet
<1>4. \A x \in s : Cardinality(s \ {x}) = Cardinality(s) - 1
  BY <1>1, FS_RemoveElement
<1>5. s # {} => Pick(s) \in s
  BY DEF Pick
<1> QED
  BY <1>1, <1>2, <1>3, <1>4, <1>5

LEMMA SumsExists ==
  ASSUME NEW D, IsFiniteSet(D), NEW f, \A x \in D : f[x] \in Int
  PROVE  \E g \in [SUBSET D -> Int] : Sums(g, f, D)
<1> DEFINE Small(m) == {s \in SUBSET D : Cardinality(s) <= m}
           Upto(m) ==
             \E g \in [Small(m) -> Int] :
               \A s \in Small(m) :
                 g[s] = IF s = {} THEN 0 ELSE f[Pick(s)] + g[s \ {Pick(s)}]
           S == {m \in Nat : Upto(m)}
<1>0. ASSUME NEW s \in SUBSET D
      PROVE  /\ IsFiniteSet(s) /\ Cardinality(s) \in Nat
             /\ Cardinality(s) <= Cardinality(D)
             /\ Cardinality(s) <= 0 => s = {}
             /\ s # {} => /\ Pick(s) \in s /\ Pick(s) \in D
                          /\ s \ {Pick(s)} \in SUBSET D
                          /\ Cardinality(s \ {Pick(s)}) = Cardinality(s) - 1
  BY FiniteSubset
<1>1. 0 \in S
  <2>1. \A s \in Small(0) : s = {}
    BY <1>0
  <2> DEFINE g == [s \in Small(0) |-> 0]
  <2>2. /\ g \in [Small(0) -> Int]
        /\ \A s \in Small(0) :
             g[s] = IF s = {} THEN 0 ELSE f[Pick(s)] + g[s \ {Pick(s)}]
    BY <2>1
  <2>3. Upto(0)
    BY <2>2
  <2> HIDE DEF Upto
  <2> QED
    BY <2>3
<1>2. ASSUME NEW m \in Nat, m \in S PROVE m + 1 \in S
  <2>1. PICK g \in [Small(m) -> Int] :
          \A s \in Small(m) :
            g[s] = IF s = {} THEN 0 ELSE f[Pick(s)] + g[s \ {Pick(s)}]
    BY <1>2
  <2> DEFINE h == [s \in Small(m + 1) |->
                     IF s = {} THEN 0 ELSE f[Pick(s)] + g[s \ {Pick(s)}]]
  <2>2. ASSUME NEW s \in Small(m + 1), s # {}
        PROVE  s \ {Pick(s)} \in Small(m) /\ Pick(s) \in D
    BY <1>0, <2>2
  <2>3. ASSUME NEW s \in Small(m) PROVE s \in Small(m + 1) /\ h[s] = g[s]
    <3>1. s \in SUBSET D /\ Cardinality(s) \in Nat /\ Cardinality(s) <= m
      BY <1>0
    <3>2. s \in Small(m + 1)
      BY <3>1
    <3> QED
      BY <2>1, <3>2
  <2>4. h \in [Small(m + 1) -> Int]
    BY <2>1, <2>2
  <2>5. \A s \in Small(m + 1) :
          h[s] = IF s = {} THEN 0 ELSE f[Pick(s)] + h[s \ {Pick(s)}]
    BY <2>2, <2>3
  <2> HIDE DEF h, Small
  <2>6. Upto(m + 1)
    BY <2>4, <2>5
  <2> HIDE DEF Upto
  <2> QED
    BY <2>6
<1>3. Cardinality(D) \in Nat /\ \A m \in Nat : m \in S
  <2> HIDE DEF S
  <2> QED
    BY <1>1, <1>2, Induction, FS_CardinalityType
<1>4. Small(Cardinality(D)) = SUBSET D
  BY <1>0
<1>5. PICK g \in [Small(Cardinality(D)) -> Int] :
        \A s \in Small(Cardinality(D)) :
          g[s] = IF s = {} THEN 0 ELSE f[Pick(s)] + g[s \ {Pick(s)}]
  BY <1>3
<1> QED
  BY <1>4, <1>5 DEF Sums

LEMMA SumsType ==
  ASSUME NEW D, IsFiniteSet(D), NEW f, \A x \in D : f[x] \in Int, NEW g, Sums(g, f, D)
  PROVE  g \in [SUBSET D -> Int] /\ g[{}] = 0
<1> DEFINE S == {m \in Nat : \A s \in SUBSET D : Cardinality(s) = m => g[s] \in Int}
<1>0. ASSUME NEW s \in SUBSET D
      PROVE  /\ IsFiniteSet(s) /\ Cardinality(s) \in Nat
             /\ Cardinality(s) = 0 => s = {}
             /\ s = {} => g[s] = 0
             /\ s # {} => /\ Pick(s) \in s
                          /\ Cardinality(s \ {Pick(s)}) = Cardinality(s) - 1
                          /\ g[s] = f[Pick(s)] + g[s \ {Pick(s)}]
  <2>1. g[s] = IF s = {} THEN 0 ELSE f[Pick(s)] + g[s \ {Pick(s)}]
    BY DEF Sums
  <2> QED
    BY <2>1, FiniteSubset
<1>1. 0 \in S
  <2> SUFFICES ASSUME NEW s \in SUBSET D, Cardinality(s) = 0
               PROVE  g[s] \in Int
    OBVIOUS
  <2>1. s = {}
    BY FiniteSubset
  <2> QED
    BY <2>1 DEF Sums
<1>2. ASSUME NEW m \in Nat, m \in S PROVE m + 1 \in S
  <2> SUFFICES ASSUME NEW s \in SUBSET D, Cardinality(s) = m + 1
               PROVE  g[s] \in Int
    OBVIOUS
  <2>1. s # {}
    BY FS_EmptySet
  <2>2. s \ {Pick(s)} \in SUBSET D /\ f[Pick(s)] \in Int
    BY <1>0, <2>1
  <2>3. g[s \ {Pick(s)}] \in Int
    BY <1>0, <1>2, <2>1, <2>2
  <2>4. g[s] = f[Pick(s)] + g[s \ {Pick(s)}]
    BY <1>0, <2>1
  <2> QED
    BY <2>2, <2>3, <2>4
<1>3. \A m \in Nat : m \in S
  <2> HIDE DEF S
  <2> QED
    BY <1>1, <1>2, Induction
<1>4. \A s \in SUBSET D : g[s] \in Int
  BY <1>0, <1>3
<1> QED
  BY <1>0, <1>4 DEF Sums

(* In whatever order: a partial sum is any of its terms and the sum of the
   others. *)
LEMMA SumsAnyOrder ==
  ASSUME NEW D, IsFiniteSet(D), NEW f, \A x \in D : f[x] \in Int, NEW g, Sums(g, f, D)
  PROVE  \A s \in SUBSET D : \A x \in s : g[s] = f[x] + g[s \ {x}]
<1> DEFINE S == {m \in Nat : \A s \in SUBSET D : Cardinality(s) = m =>
                               \A x \in s : g[s] = f[x] + g[s \ {x}]}
<1>0. ASSUME NEW s \in SUBSET D
      PROVE  /\ IsFiniteSet(s) /\ Cardinality(s) \in Nat
             /\ g[s] \in Int
             /\ \A x \in s : /\ Cardinality(s \ {x}) = Cardinality(s) - 1
                             /\ Cardinality(s) > 0
             /\ s # {} => /\ Pick(s) \in s
                          /\ g[s] = f[Pick(s)] + g[s \ {Pick(s)}]
  <2>1. g[s] = IF s = {} THEN 0 ELSE f[Pick(s)] + g[s \ {Pick(s)}]
    BY DEF Sums
  <2>2. g \in [SUBSET D -> Int]
    BY SumsType
  <2>3. g[s] \in Int
    BY <2>2
  <2> QED
    BY <2>1, <2>3, FiniteSubset
<1>1. 0 \in S
  <2> SUFFICES ASSUME NEW s \in SUBSET D, Cardinality(s) = 0, NEW x \in s
               PROVE  FALSE
    OBVIOUS
  <2> QED
    BY FiniteSubset
<1>2. ASSUME NEW m \in Nat, m \in S PROVE m + 1 \in S
  <2> SUFFICES ASSUME NEW s \in SUBSET D, Cardinality(s) = m + 1, NEW x \in s
               PROVE  g[s] = f[x] + g[s \ {x}]
    OBVIOUS
  <2> DEFINE y    == Pick(s)
             rest == (s \ {x}) \ {y}
  <2>1. y \in s /\ g[s] = f[y] + g[s \ {y}]
    BY <1>0
  <2>2. CASE x = y
    BY <2>1, <2>2
  <2>3. CASE x # y
    <3>1. /\ s \ {x} \in SUBSET D /\ y \in s \ {x}
          /\ s \ {y} \in SUBSET D /\ x \in s \ {y}
          /\ (s \ {y}) \ {x} = rest /\ rest \in SUBSET D
      BY <2>1, <2>3
    <3>2. Cardinality(s \ {x}) = m /\ Cardinality(s \ {y}) = m
      BY <1>0, <2>1
    <3>0. \A t \in SUBSET D : Cardinality(t) = m =>
            \A z \in t : g[t] = f[z] + g[t \ {z}]
      BY <1>2
    <3>3. g[s \ {x}] = f[y] + g[rest]
      BY <3>0, <3>1, <3>2
    <3>4. g[s \ {y}] = f[x] + g[(s \ {y}) \ {x}]
      BY <3>0, <3>1, <3>2
    <3>5. f[x] \in Int /\ f[y] \in Int /\ g[rest] \in Int
      BY <1>0, <2>1, <3>1
    <3>6. g[s \ {y}] = f[x] + g[rest]
      BY <3>1, <3>4
    <3> HIDE DEF y, rest
    <3> QED
      BY <2>1, <3>3, <3>5, <3>6
  <2> QED
    BY <2>2, <2>3
<1>3. \A m \in Nat : m \in S
  <2> HIDE DEF S
  <2> QED
    BY <1>1, <1>2, Induction
<1> QED
  BY <1>0, <1>3

(* The partial sums of a subset's sums are those of the whole set's. *)
LEMMA SumsUnique ==
  ASSUME NEW D, IsFiniteSet(D), NEW f, NEW g, Sums(g, f, D),
         NEW E \in SUBSET D, NEW h, Sums(h, f, E)
  PROVE  \A s \in SUBSET E : g[s] = h[s]
<1> DEFINE S == {m \in Nat : \A s \in SUBSET E : Cardinality(s) = m =>
                               g[s] = h[s]}
<1>0. ASSUME NEW s \in SUBSET E
      PROVE  /\ g[s] = IF s = {} THEN 0 ELSE f[Pick(s)] + g[s \ {Pick(s)}]
             /\ h[s] = IF s = {} THEN 0 ELSE f[Pick(s)] + h[s \ {Pick(s)}]
  BY DEF Sums
<1>1. 0 \in S
  <2> SUFFICES ASSUME NEW s \in SUBSET E, Cardinality(s) = 0
               PROVE  g[s] = h[s]
    OBVIOUS
  <2>1. s = {}
    BY FiniteSubset
  <2> QED
    BY <1>0, <2>1
<1>2. ASSUME NEW m \in Nat, m \in S PROVE m + 1 \in S
  <2> SUFFICES ASSUME NEW s \in SUBSET E, Cardinality(s) = m + 1
               PROVE  g[s] = h[s]
    OBVIOUS
  <2> DEFINE t == s \ {Pick(s)}
  <2>1. s # {} /\ t \in SUBSET E /\ Cardinality(t) = m
    BY FiniteSubset
  <2>2. g[t] = h[t]
    BY <1>2, <2>1
  <2> QED
    BY <1>0, <2>1, <2>2
<1>3. \A m \in Nat : m \in S
  <2> HIDE DEF S
  <2> QED
    BY <1>1, <1>2, Induction
<1> SUFFICES ASSUME NEW s \in SUBSET E PROVE g[s] = h[s]
  OBVIOUS
<1>4. Cardinality(s) \in Nat
  BY FiniteSubset
<1> QED
  BY <1>3, <1>4

LEMMA SumIsSums ==
  ASSUME NEW D, IsFiniteSet(D), NEW f, \A x \in D : f[x] \in Int
  PROVE  \E g : Sums(g, f, D) /\ SumFunctionOnSet(f, D) = g[D]
<1> DEFINE Def(g) == g = [s \in SUBSET D |->
                            IF s = {} THEN 0 ELSE f[CHOOSE x \in s : TRUE]
                                                  + g[s \ {CHOOSE x \in s : TRUE}]]
<1>0. PICK sums : Sums(sums, f, D)
  BY SumsExists
<1>1. Def(sums)
  BY <1>0 DEF Sums, Pick
<1>2. SumFunctionOnSet(f, D) = (CHOOSE g : Def(g))[D]
  BY DEF SumFunctionOnSet, FoldFunctionOnSet, MapThenFoldSet
<1>3. Def(CHOOSE g : Def(g))
  <2> HIDE DEF Def
  <2> QED
    BY <1>1
<1>4. Sums(CHOOSE g : Def(g), f, D)
  BY <1>3 DEF Sums, Pick
<1> HIDE DEF Def
<1> QED
  BY <1>2, <1>4

(* The sum over a set: 0 for the empty one, and any term plus the others. *)
LEMMA SumOnSet ==
  ASSUME NEW D, IsFiniteSet(D), NEW f, \A x \in D : f[x] \in Int
  PROVE  /\ SumFunctionOnSet(f, D) \in Int
         /\ D = {} => SumFunctionOnSet(f, D) = 0
         /\ \A x \in D :
              SumFunctionOnSet(f, D) = f[x] + SumFunctionOnSet(f, D \ {x})
<1>1. PICK g : Sums(g, f, D) /\ SumFunctionOnSet(f, D) = g[D]
  BY SumIsSums
<1>2. g \in [SUBSET D -> Int] /\ g[{}] = 0
  BY <1>1, SumsType
<1>3. ASSUME NEW x \in D
      PROVE  SumFunctionOnSet(f, D) = f[x] + SumFunctionOnSet(f, D \ {x})
  <2>1. g[D] = f[x] + g[D \ {x}]
    BY <1>1, SumsAnyOrder
  <2>2. IsFiniteSet(D \ {x})
    BY FS_RemoveElement
  <2>3. PICK h : Sums(h, f, D \ {x}) /\ SumFunctionOnSet(f, D \ {x}) = h[D \ {x}]
    BY <2>2, SumIsSums
  <2>4. g[D \ {x}] = h[D \ {x}]
    BY <1>1, <2>3, SumsUnique
  <2> QED
    BY <1>1, <2>1, <2>3, <2>4
<1> QED
  BY <1>1, <1>2, <1>3

(* Two sums are equal when a one-to-one map between the sets they run over
   keeps the terms. *)
LEMMA SumReindexed ==
  ASSUME NEW D, IsFiniteSet(D), NEW f, \A x \in D : f[x] \in Int,
         NEW E, NEW b \in Bijection(D, E), NEW h, \A x \in D : h[b[x]] = f[x]
  PROVE  SumFunctionOnSet(h, E) = SumFunctionOnSet(f, D)
<1> DEFINE Image(s) == {b[x] : x \in s}
           S == {m \in Nat : \A s \in SUBSET D : Cardinality(s) = m =>
                   SumFunctionOnSet(h, Image(s)) = SumFunctionOnSet(f, s)}
<1>0. /\ b \in [D -> E] /\ \A x, y \in D : b[x] = b[y] => x = y
      /\ \A e \in E : \E x \in D : b[x] = e
  BY DEF Bijection, Injection, Surjection, IsInjective
<1>1. ASSUME NEW s \in SUBSET D
      PROVE  /\ IsFiniteSet(s) /\ IsFiniteSet(Image(s))
             /\ \A e \in Image(s) : h[e] \in Int
             /\ \A x \in s : f[x] \in Int
  <2>1. IsFiniteSet(s)
    BY FiniteSubset
  <2> DEFINE c == [x \in s |-> b[x]]
  <2>2. c \in Surjection(s, Image(s))
    BY DEF Surjection
  <2>3. IsFiniteSet(Image(s))
    BY <2>1, <2>2, FS_Surjection
  <2> QED
    BY <2>1, <2>3
<1>2. 0 \in S
  <2> SUFFICES ASSUME NEW s \in SUBSET D, Cardinality(s) = 0
               PROVE  SumFunctionOnSet(h, Image(s)) = SumFunctionOnSet(f, s)
    OBVIOUS
  <2>1. s = {} /\ Image(s) = {}
    BY FiniteSubset
  <2> HIDE DEF Image
  <2> QED
    BY <1>1, <2>1, SumOnSet
<1>3. ASSUME NEW m \in Nat, m \in S PROVE m + 1 \in S
  <2> SUFFICES ASSUME NEW s \in SUBSET D, Cardinality(s) = m + 1
               PROVE  SumFunctionOnSet(h, Image(s)) = SumFunctionOnSet(f, s)
    OBVIOUS
  <2>1. s # {}
    BY FiniteSubset
  <2>2. PICK x \in s : TRUE
    BY <2>1
  <2>3. s \ {x} \in SUBSET D /\ Cardinality(s \ {x}) = m
    BY FiniteSubset
  <2>4. SumFunctionOnSet(h, Image(s \ {x})) = SumFunctionOnSet(f, s \ {x})
    BY <1>3, <2>3
  <2>5. Image(s \ {x}) = Image(s) \ {b[x]} /\ b[x] \in Image(s)
    BY <1>0
  <2>6. SumFunctionOnSet(f, s) = f[x] + SumFunctionOnSet(f, s \ {x})
    BY <1>1, SumOnSet
  <2>7. SumFunctionOnSet(h, Image(s))
          = h[b[x]] + SumFunctionOnSet(h, Image(s) \ {b[x]})
    <3> DEFINE T == Image(s)
               e == b[x]
    <3>1. IsFiniteSet(T) /\ (\A y \in T : h[y] \in Int) /\ e \in T
      BY <1>1, <2>5
    <3> HIDE DEF T, e
    <3>2. SumFunctionOnSet(h, T) = h[e] + SumFunctionOnSet(h, T \ {e})
      BY <3>1, SumOnSet
    <3> QED
      BY <3>2 DEF T, e
  <2> HIDE DEF Image
  <2> QED
    BY <2>4, <2>5, <2>6, <2>7
<1>4. \A m \in Nat : m \in S
  <2> HIDE DEF S
  <2> QED
    BY <1>2, <1>3, Induction
<1>5. Cardinality(D) \in Nat /\ Image(D) = E
  BY <1>0, FS_CardinalityType
<1>6. SumFunctionOnSet(h, Image(D)) = SumFunctionOnSet(f, D)
  <2> HIDE DEF Image
  <2> QED
    BY <1>4, <1>5
<1> HIDE DEF Image
<1> QED
  BY <1>5, <1>6

(* Sums of functions that agree, and of functions that differ at one place. *)
LEMMA SumEqual ==
  ASSUME NEW D, IsFiniteSet(D), NEW f, \A x \in D : f[x] \in Int,
         NEW h, \A x \in D : h[x] = f[x]
  PROVE  SumFunctionOnSet(h, D) = SumFunctionOnSet(f, D)
<1> DEFINE b == [x \in D |-> x]
<1>1. b \in Bijection(D, D) /\ \A x \in D : h[b[x]] = f[x]
  BY DEF Bijection, Injection, Surjection, IsInjective
<1> HIDE DEF b
<1> QED
  BY <1>1, SumReindexed

LEMMA SumChanged ==
  ASSUME NEW D, IsFiniteSet(D), NEW f, \A x \in D : f[x] \in Int,
         NEW h, \A x \in D : h[x] \in Int, NEW y \in D,
         \A x \in D : x # y => h[x] = f[x]
  PROVE  SumFunctionOnSet(h, D) = SumFunctionOnSet(f, D) - f[y] + h[y]
<1>1. IsFiniteSet(D \ {y})
  BY FS_RemoveElement
<1>2. /\ SumFunctionOnSet(f, D) = f[y] + SumFunctionOnSet(f, D \ {y})
      /\ SumFunctionOnSet(h, D) = h[y] + SumFunctionOnSet(h, D \ {y})
  BY SumOnSet
<1>3. /\ SumFunctionOnSet(f, D \ {y}) \in Int
      /\ SumFunctionOnSet(h, D \ {y}) \in Int
  BY <1>1, SumOnSet
<1>4. SumFunctionOnSet(f, D \ {y}) = SumFunctionOnSet(h, D \ {y})
  <2>1. \A x \in D \ {y} : f[x] \in Int /\ h[x] = f[x]
    OBVIOUS
  <2> QED
    BY <1>1, <2>1, SumEqual
<1> QED
  BY <1>2, <1>3, <1>4

(* A sum of zeros is zero. *)
LEMMA SumOfZeros ==
  ASSUME NEW D, IsFiniteSet(D), NEW f, \A x \in D : f[x] = 0
  PROVE  SumFunctionOnSet(f, D) = 0
<1> DEFINE S == {m \in Nat : \A s \in SUBSET D : Cardinality(s) = m =>
                               SumFunctionOnSet(f, s) = 0}
<1>0. ASSUME NEW s \in SUBSET D
      PROVE  IsFiniteSet(s) /\ \A x \in s : f[x] \in Int
  BY FiniteSubset
<1>1. 0 \in S
  <2> SUFFICES ASSUME NEW s \in SUBSET D, Cardinality(s) = 0
               PROVE  SumFunctionOnSet(f, s) = 0
    OBVIOUS
  <2>1. s = {}
    BY FiniteSubset
  <2> QED
    BY <1>0, <2>1, SumOnSet
<1>2. ASSUME NEW m \in Nat, m \in S PROVE m + 1 \in S
  <2> SUFFICES ASSUME NEW s \in SUBSET D, Cardinality(s) = m + 1
               PROVE  SumFunctionOnSet(f, s) = 0
    OBVIOUS
  <2>1. s # {}
    BY FiniteSubset
  <2>2. PICK x \in s : TRUE
    BY <2>1
  <2>3. s \ {x} \in SUBSET D /\ Cardinality(s \ {x}) = m
    BY FiniteSubset
  <2>4. SumFunctionOnSet(f, s \ {x}) = 0
    BY <1>2, <2>3
  <2>5. SumFunctionOnSet(f, s) = f[x] + SumFunctionOnSet(f, s \ {x})
    BY <1>0, SumOnSet
  <2> QED
    BY <2>4, <2>5
<1>3. \A m \in Nat : m \in S
  <2> HIDE DEF S
  <2> QED
    BY <1>1, <1>2, Induction
<1>4. Cardinality(D) \in Nat
  BY FS_CardinalityType
<1> QED
  BY <1>3, <1>4

(* Induction on the subsets of a finite set, for the subsets that are in P. *)
LEMMA SubsetInduction ==
  ASSUME NEW D, IsFiniteSet(D), NEW P, {} \in P,
         \A s \in SUBSET D : \A x \in s : s \ {x} \in P => s \in P
  PROVE  \A s \in SUBSET D : s \in P
<1> DEFINE S == {m \in Nat : \A s \in SUBSET D : Cardinality(s) = m => s \in P}
<1>1. 0 \in S
  BY FiniteSubset
<1>2. ASSUME NEW m \in Nat, m \in S PROVE m + 1 \in S
  <2> SUFFICES ASSUME NEW s \in SUBSET D, Cardinality(s) = m + 1 PROVE s \in P
    OBVIOUS
  <2>1. s # {}
    BY FiniteSubset
  <2>2. PICK x \in s : TRUE
    BY <2>1
  <2>3. s \ {x} \in SUBSET D /\ Cardinality(s \ {x}) = m
    BY FiniteSubset
  <2> QED
    BY <1>2, <2>3
<1>3. \A m \in Nat : m \in S
  <2> HIDE DEF S
  <2> QED
    BY <1>1, <1>2, Induction
<1>4. \A s \in SUBSET D : Cardinality(s) \in Nat
  BY FiniteSubset
<1> QED
  BY <1>3, <1>4

(* The sum of a sum. *)
LEMMA SumAdded ==
  ASSUME NEW D, IsFiniteSet(D), NEW f, NEW g, NEW h,
         \A x \in D : f[x] \in Int /\ g[x] \in Int /\ h[x] = f[x] + g[x]
  PROVE  SumFunctionOnSet(h, D) = SumFunctionOnSet(f, D) + SumFunctionOnSet(g, D)
<1> DEFINE P == {s \in SUBSET D : SumFunctionOnSet(h, s)
                                    = SumFunctionOnSet(f, s) + SumFunctionOnSet(g, s)}
<1>1. ASSUME NEW s \in SUBSET D
      PROVE  /\ IsFiniteSet(s) /\ \A x \in s : f[x] \in Int
             /\ \A x \in s : g[x] \in Int
             /\ \A x \in s : h[x] \in Int
  BY FiniteSubset
<1>2. {} \in P
  <2>1. /\ SumFunctionOnSet(h, {}) = 0 /\ SumFunctionOnSet(f, {}) = 0
        /\ SumFunctionOnSet(g, {}) = 0
    BY SumOnSet, FS_EmptySet
  <2> QED
    BY <2>1
<1>3. ASSUME NEW s \in SUBSET D, NEW x \in s, s \ {x} \in P
      PROVE  s \in P
  <2>1. /\ SumFunctionOnSet(h, s) = h[x] + SumFunctionOnSet(h, s \ {x})
        /\ SumFunctionOnSet(f, s) = f[x] + SumFunctionOnSet(f, s \ {x})
        /\ SumFunctionOnSet(g, s) = g[x] + SumFunctionOnSet(g, s \ {x})
    BY <1>1, SumOnSet
  <2>2. SumFunctionOnSet(f, s \ {x}) \in Int /\ SumFunctionOnSet(g, s \ {x}) \in Int
    <3>1. s \ {x} \in SUBSET D
      OBVIOUS
    <3> QED
      BY <1>1, <3>1, SumOnSet
  <2>3. SumFunctionOnSet(h, s \ {x})
          = SumFunctionOnSet(f, s \ {x}) + SumFunctionOnSet(g, s \ {x})
    BY <1>3
  <2>4. f[x] \in Int /\ g[x] \in Int /\ h[x] = f[x] + g[x]
    OBVIOUS
  <2>5. SumFunctionOnSet(h, s) = SumFunctionOnSet(f, s) + SumFunctionOnSet(g, s)
    BY <2>1, <2>2, <2>3, <2>4
  <2> QED
    BY <2>5
<1> HIDE DEF P
<1>4. \A s \in SUBSET D : s \in P
  BY <1>2, <1>3, SubsetInduction
<1> QED
  BY <1>4 DEF P

(* A sum is at least another with smaller terms, and at least each term when
   none is negative. *)
LEMMA SumMonotone ==
  ASSUME NEW D, IsFiniteSet(D), NEW f, NEW h,
         \A x \in D : f[x] \in Int /\ h[x] \in Int /\ f[x] <= h[x]
  PROVE  SumFunctionOnSet(f, D) <= SumFunctionOnSet(h, D)
<1> DEFINE P == {s \in SUBSET D : SumFunctionOnSet(f, s) <= SumFunctionOnSet(h, s)}
<1>1. ASSUME NEW s \in SUBSET D
      PROVE  /\ IsFiniteSet(s) /\ \A x \in s : f[x] \in Int
             /\ \A x \in s : h[x] \in Int
  BY FiniteSubset
<1>2. {} \in P
  <2>1. SumFunctionOnSet(h, {}) = 0 /\ SumFunctionOnSet(f, {}) = 0
    BY SumOnSet, FS_EmptySet
  <2> QED
    BY <2>1
<1>3. ASSUME NEW s \in SUBSET D, NEW x \in s, s \ {x} \in P
      PROVE  s \in P
  <2>1. /\ SumFunctionOnSet(h, s) = h[x] + SumFunctionOnSet(h, s \ {x})
        /\ SumFunctionOnSet(f, s) = f[x] + SumFunctionOnSet(f, s \ {x})
    BY <1>1, SumOnSet
  <2>2. SumFunctionOnSet(f, s \ {x}) \in Int /\ SumFunctionOnSet(h, s \ {x}) \in Int
    <3>1. s \ {x} \in SUBSET D
      OBVIOUS
    <3> QED
      BY <1>1, <3>1, SumOnSet
  <2>3. SumFunctionOnSet(f, s \ {x}) <= SumFunctionOnSet(h, s \ {x})
    BY <1>3
  <2>4. f[x] \in Int /\ h[x] \in Int /\ f[x] <= h[x]
    OBVIOUS
  <2>5. SumFunctionOnSet(f, s) <= SumFunctionOnSet(h, s)
    BY <2>1, <2>2, <2>3, <2>4
  <2> QED
    BY <2>5
<1> HIDE DEF P
<1>4. \A s \in SUBSET D : s \in P
  BY <1>2, <1>3, SubsetInduction
<1> QED
  BY <1>4 DEF P

LEMMA SumNotNegative ==
  ASSUME NEW D, IsFiniteSet(D), NEW f, \A x \in D : f[x] \in Nat
  PROVE  /\ SumFunctionOnSet(f, D) \in Nat
         /\ \A x \in D : f[x] <= SumFunctionOnSet(f, D)
<1> DEFINE zero == [x \in D |-> 0]
<1>1. ASSUME NEW s \in SUBSET D PROVE SumFunctionOnSet(f, s) \in Nat
  <2>1. IsFiniteSet(s) /\ \A x \in s : zero[x] = 0 /\ f[x] \in Nat
    BY FiniteSubset
  <2> HIDE DEF zero
  <2>2. SumFunctionOnSet(zero, s) = 0
    BY <2>1, SumOfZeros
  <2>3. SumFunctionOnSet(zero, s) <= SumFunctionOnSet(f, s)
    <3>1. \A x \in s : zero[x] \in Int /\ f[x] \in Int /\ zero[x] <= f[x]
      BY <2>1
    <3> QED
      BY <2>1, <3>1, SumMonotone
  <2>4. SumFunctionOnSet(f, s) \in Int
    <3>1. \A x \in s : f[x] \in Int
      OBVIOUS
    <3> QED
      BY <2>1, <3>1, SumOnSet
  <2> QED
    BY <2>2, <2>3, <2>4
<1>2. ASSUME NEW x \in D PROVE f[x] <= SumFunctionOnSet(f, D)
  <2>1. \A y \in D : f[y] \in Int
    OBVIOUS
  <2>2. SumFunctionOnSet(f, D) = f[x] + SumFunctionOnSet(f, D \ {x})
    BY <2>1, SumOnSet
  <2>3. SumFunctionOnSet(f, D \ {x}) \in Nat
    BY <1>1
  <2> QED
    BY <2>1, <2>2, <2>3
<1> QED
  BY <1>1, <1>2

-----------------------------------------------------------------------------
(***************************************************************************)
(* Sequences.                                                              *)
(***************************************************************************)
LEMMA RemoveAtProperties ==
  ASSUME NEW T, NEW s \in Seq(T), NEW k \in 1..Len(s)
  PROVE  /\ RemoveAt(s, k) \in Seq(T)
         /\ Len(RemoveAt(s, k)) = Len(s) - 1
         /\ \A j \in 1..(Len(s) - 1) :
              RemoveAt(s, k)[j] = IF j < k THEN s[j] ELSE s[j + 1]
<1> DEFINE front == SubSeq(s, 1, k - 1)
           back  == SubSeq(s, k + 1, Len(s))
<1>1. /\ front \in Seq(T) /\ Len(front) = k - 1
      /\ \A j \in 1..(k - 1) : front[j] = s[j]
  OBVIOUS
<1>2. /\ back \in Seq(T) /\ Len(back) = Len(s) - k
      /\ \A j \in 1..(Len(s) - k) : back[j] = s[k + j]
  OBVIOUS
<1>3. RemoveAt(s, k) = front \o back
  BY DEF RemoveAt
<1> HIDE DEF front, back
<1>4. /\ front \o back \in Seq(T)
      /\ Len(front \o back) = Len(s) - 1
  <2>1. Len(front \o back) = Len(front) + Len(back) /\ front \o back \in Seq(T)
    BY <1>1, <1>2, ConcatProperties
  <2> QED
    BY <1>1, <1>2, <2>1
<1>5. ASSUME NEW j \in 1..(Len(s) - 1)
      PROVE  (front \o back)[j] = IF j < k THEN s[j] ELSE s[j + 1]
  <2>1. (front \o back)[j] = IF j <= Len(front) THEN front[j]
                             ELSE back[j - Len(front)]
    <3>1. j \in 1..(Len(front) + Len(back))
      BY <1>1, <1>2
    <3> QED
      BY <1>1, <1>2, <3>1, ConcatProperties
  <2>2. CASE j < k
    BY <1>1, <2>1, <2>2
  <2>3. CASE ~(j < k)
    <3>1. back[j - (k - 1)] = s[k + (j - (k - 1))]
      BY <1>2, <2>3
    <3>2. k + (j - (k - 1)) = j + 1
      OBVIOUS
    <3> QED
      BY <1>1, <2>1, <2>3, <3>1, <3>2
  <2> QED
    BY <2>2, <2>3
<1> QED
  BY <1>3, <1>4, <1>5

(* The positions of a sequence without its k-th element, as positions of the
   whole sequence. *)
Skip(n, k) == [j \in 1..(n - 1) |-> IF j < k THEN j ELSE j + 1]

LEMMA SkipIsBijection ==
  ASSUME NEW n \in Nat, NEW k \in 1..n
  PROVE  Skip(n, k) \in Bijection(1..(n - 1), (1..n) \ {k})
<1> DEFINE b == Skip(n, k)
<1>1. b \in [1..(n - 1) -> (1..n) \ {k}]
  BY DEF Skip
<1>2. \A i, j \in 1..(n - 1) : b[i] = b[j] => i = j
  BY DEF Skip
<1>3. ASSUME NEW e \in (1..n) \ {k} PROVE \E j \in 1..(n - 1) : b[j] = e
  <2>1. CASE e < k
    <3>1. e \in 1..(n - 1) /\ b[e] = e
      BY <2>1 DEF Skip
    <3> QED
      BY <3>1
  <2>2. CASE e > k
    <3>1. e - 1 \in 1..(n - 1) /\ b[e - 1] = e
      BY <2>2 DEF Skip
    <3> QED
      BY <3>1
  <2> QED
    BY <2>1, <2>2
<1> HIDE DEF b
<1>4. DOMAIN b = 1..(n - 1)
  BY <1>1
<1> QED
  BY <1>1, <1>2, <1>3, <1>4 DEF Bijection, Injection, Surjection, IsInjective, b

(* Removing an element from a sequence takes its term off the sum. *)
LEMMA SumRemoveAt ==
  ASSUME NEW T, NEW s \in Seq(T), NEW k \in 1..Len(s),
         NEW f, \A j \in 1..Len(s) : f[j] \in Int,
         NEW h, \A j \in 1..(Len(s) - 1) :
                  h[j] = IF j < k THEN f[j] ELSE f[j + 1]
  PROVE  SumFunctionOnSet(f, 1..Len(s))
           = f[k] + SumFunctionOnSet(h, 1..(Len(s) - 1))
<1> DEFINE n == Len(s)
           b == Skip(n, k)
<1>1. n \in Nat /\ k \in 1..n /\ IsFiniteSet(1..n) /\ IsFiniteSet(1..(n - 1))
  BY FS_Interval
<1>2. b \in Bijection(1..(n - 1), (1..n) \ {k})
  BY <1>1, SkipIsBijection
<1>3. /\ \A j \in 1..(n - 1) : h[j] \in Int
      /\ \A j \in 1..(n - 1) : f[b[j]] = h[j]
  BY DEF Skip
<1>4. SumFunctionOnSet(f, (1..n) \ {k}) = SumFunctionOnSet(h, 1..(n - 1))
  <2> DEFINE D == 1..(n - 1)
             E == (1..n) \ {k}
  <2>1. /\ IsFiniteSet(D) /\ b \in Bijection(D, E)
        /\ \A x \in D : h[x] \in Int
        /\ \A x \in D : f[b[x]] = h[x]
    BY <1>1, <1>2, <1>3
  <2> HIDE DEF D, E, b
  <2>2. SumFunctionOnSet(f, E) = SumFunctionOnSet(h, D)
    BY <2>1, SumReindexed
  <2> QED
    BY <2>2 DEF D, E
<1> HIDE DEF n, b
<1>5. SumFunctionOnSet(f, 1..n) = f[k] + SumFunctionOnSet(f, (1..n) \ {k})
  BY <1>1, SumOnSet DEF n
<1> QED
  BY <1>4, <1>5 DEF n

-----------------------------------------------------------------------------
(***************************************************************************)
(* The word lists: what push, popHead and findMatch of                     *)
(* prog3/cmpsc473mr.c return, and what they leave of a list's counts.      *)
(***************************************************************************)
(* push makes the list one longer, with the node in front. *)
LEMMA PushHeadProperties ==
  ASSUME NEW S, NEW node \in S, NEW list \in Seq(S)
  PROVE  /\ PushHead(node, list) \in Seq(S)
         /\ Len(PushHead(node, list)) = Len(list) + 1
         /\ PushHead(node, list)[1] = node
         /\ \A k \in 1..Len(list) : PushHead(node, list)[k + 1] = list[k]
BY DEF PushHead

LEMMA PushHeadDomain ==
  ASSUME NEW S, NEW node \in S, NEW list \in Seq(S)
  PROVE  /\ DOMAIN list = 1..Len(list) /\ Len(list) \in Nat
         /\ DOMAIN PushHead(node, list) = 1..(Len(list) + 1)
<1>1. DOMAIN list = 1..Len(list) /\ Len(list) \in Nat
  OBVIOUS
<1>2. DOMAIN PushHead(node, list) = 1..Len(PushHead(node, list))
  BY PushHeadProperties
<1> QED
  BY <1>1, <1>2, PushHeadProperties

(* popHead of a non-empty list makes it one shorter. *)
LEMMA PopHeadProperties ==
  ASSUME NEW S, NEW list \in Seq(S)
  PROVE  /\ PopHead(list) \in Seq(S)
         /\ list = <<>> => Len(list) = 0 /\ PopHead(list) = <<>>
         /\ list # <<>> => /\ Len(list) > 0
                           /\ Len(PopHead(list)) = Len(list) - 1
                           /\ Head(list) \in S
BY DEF PopHead

(* findMatch returns NULL only if none of the nodes it may compare has the
   word, and otherwise the first of those that have it. *)
LEMMA FindMatchProperties ==
  ASSUME NEW S, NEW list \in Seq(S), NEW word, NEW size \in Int
  PROVE  LET k == FindMatch(list, word, size) IN
         \/ k = 0 /\ \A j \in DOMAIN list : j <= size => list[j].word # word
         \/ /\ k \in DOMAIN list /\ k <= size /\ list[k].word = word
            /\ \A j \in DOMAIN list : j < k => list[j].word # word
<1> DEFINE hits == Hits(list, word, size)
<1>1. CASE hits = {}
  BY <1>1 DEF FindMatch, Hits
<1>2. CASE hits # {}
  <2>1. hits \in SUBSET Nat
    BY DEF Hits
  <2>2. \E k \in hits : \A h \in hits : k <= h
    BY <1>2, <2>1, LeastNatural
  <2>3. /\ FindMatch(list, word, size) \in hits
        /\ \A h \in hits : FindMatch(list, word, size) <= h
    BY <1>2, <2>2 DEF FindMatch
  <2> QED
    BY <2>3 DEF Hits
<1> QED
  BY <1>1, <1>2

(* The position findMatch returns in a whole list is the first of the word. *)
LEMMA FindMatchNone ==
  ASSUME NEW S, NEW list \in Seq(S), NEW word,
         \A j \in DOMAIN list : list[j].word # word
  PROVE  FindMatch(list, word, Len(list)) = 0
<1> DEFINE m == FindMatch(list, word, Len(list))
<1>1. Len(list) \in Nat
  OBVIOUS
<1>2. m = 0 \/ (m \in DOMAIN list /\ list[m].word = word)
  BY <1>1, FindMatchProperties
<1> HIDE DEF m
<1>3. m = 0
  BY <1>2
<1> QED
  BY <1>3 DEF m

LEMMA FindMatchFirst ==
  ASSUME NEW S, NEW list \in Seq(S), NEW word, NEW k \in DOMAIN list,
         list[k].word = word, \A j \in DOMAIN list : j < k => list[j].word # word
  PROVE  FindMatch(list, word, Len(list)) = k
<1> DEFINE m == FindMatch(list, word, Len(list))
<1>1. Len(list) \in Nat /\ DOMAIN list = 1..Len(list)
  OBVIOUS
<1>2. \/ m = 0 /\ \A j \in DOMAIN list : list[j].word # word
      \/ /\ m \in DOMAIN list /\ list[m].word = word
         /\ \A j \in DOMAIN list : j < m => list[j].word # word
  BY <1>1, FindMatchProperties
<1> HIDE DEF m
<1>3. m \in DOMAIN list /\ ~(m < k) /\ ~(k < m)
  BY <1>2
<1>4. m = k
  BY <1>1, <1>3
<1> QED
  BY <1>4 DEF m

(* One more or one less in front of a list of words. *)
LEMMA OccurrencesPush ==
  ASSUME NEW S, NEW list \in Seq(S), NEW x \in S, NEW w
  PROVE  /\ Occurrences(list, w) \in Nat
         /\ Occurrences(PushHead(x, list), w)
              = Occurrences(list, w) + (IF x = w THEN 1 ELSE 0)
<1> DEFINE n    == Len(list)
           long == PushHead(x, list)
           D    == {k \in 1..n : list[k] = w}
           E    == {k \in 2..(n + 1) : long[k] = w}
           F    == {k \in 1..(n + 1) : long[k] = w}
           b    == [k \in D |-> k + 1]
<1>1. /\ n \in Nat /\ Len(long) = n + 1 /\ long[1] = x
      /\ \A k \in 1..n : long[k + 1] = list[k]
      /\ DOMAIN list = 1..n /\ DOMAIN long = 1..(n + 1)
  <2>1. DOMAIN list = 1..n /\ DOMAIN long = 1..(n + 1) /\ n \in Nat
    BY PushHeadDomain
  <2>2. /\ Len(long) = n + 1 /\ long[1] = x
        /\ \A k \in 1..n : long[k + 1] = list[k]
    BY PushHeadProperties
  <2> QED
    BY <2>1, <2>2
<1>2. IsFiniteSet(D) /\ Cardinality(D) \in Nat
  <2>1. IsFiniteSet(1..n)
    BY <1>1, FS_Interval
  <2>2. IsFiniteSet(D)
    BY <2>1, FS_Subset
  <2> QED
    BY <2>2, FS_CardinalityType
<1>3. IsFiniteSet(E) /\ Cardinality(E) = Cardinality(D)
  <2>1. b \in [D -> E]
    BY <1>1
  <2>2. \A i, j \in D : b[i] = b[j] => i = j
    BY <1>1
  <2>3. ASSUME NEW e \in E PROVE \E k \in D : b[k] = e
    <3>1. e - 1 \in 1..n /\ long[(e - 1) + 1] = list[e - 1] /\ (e - 1) + 1 = e
      BY <1>1
    <3>2. e - 1 \in D /\ b[e - 1] = e
      BY <3>1
    <3> QED
      BY <3>2
  <2> HIDE DEF D, E, b
  <2>4. ExistsBijection(D, E)
    BY <2>1, <2>2, <2>3
       DEF ExistsBijection, Bijection, Injection, Surjection, IsInjective
  <2> QED
    BY <1>2, <2>4, FS_Bijection
<1>4. Occurrences(list, w) = Cardinality(D)
  BY <1>1 DEF Occurrences
<1>5. Occurrences(long, w) = Cardinality(F)
  BY <1>1 DEF Occurrences
<1>6. CASE x = w
  <2>1. F = E \cup {1} /\ 1 \notin E
    BY <1>1, <1>6
  <2> HIDE DEF D, E, F, long
  <2>2. Cardinality(E \cup {1}) = Cardinality(E) + 1
    BY <1>3, <2>1, FS_AddElement
  <2>3. Occurrences(long, w) = Occurrences(list, w) + 1
    BY <1>3, <1>4, <1>5, <2>1, <2>2
  <2> QED
    BY <1>2, <1>4, <1>6, <2>3 DEF long
<1>7. CASE x # w
  <2>1. F = E
    BY <1>1, <1>7
  <2> HIDE DEF D, E, F, long
  <2>2. Occurrences(long, w) = Occurrences(list, w) + 0
    BY <1>2, <1>3, <1>4, <1>5, <2>1
  <2> QED
    BY <1>2, <1>4, <1>7, <2>2 DEF long
<1> QED
  BY <1>6, <1>7

LEMMA OccurrencesPop ==
  ASSUME NEW S, NEW list \in Seq(S), list # <<>>, NEW w
  PROVE  Occurrences(PopHead(list), w)
           = Occurrences(list, w) - (IF Head(list) = w THEN 1 ELSE 0)
<1> DEFINE h == Head(list)
           t == Tail(list)
<1>1. t \in Seq(S) /\ h \in S /\ PopHead(list) = t
  BY DEF PopHead
<1>2. list = PushHead(h, t)
  BY DEF PushHead
<1> HIDE DEF h, t
<1>3. /\ Occurrences(t, w) \in Nat
      /\ Occurrences(PushHead(h, t), w) = Occurrences(t, w) + (IF h = w THEN 1 ELSE 0)
  BY <1>1, OccurrencesPush
<1>4. Occurrences(t, w) = Occurrences(list, w) - (IF h = w THEN 1 ELSE 0)
  BY <1>2, <1>3
<1> QED
  BY <1>1, <1>4 DEF h

(* Counting a word that has no node yet, and one that has: the two outcomes
   of findMatch in map_adder and in reducer. *)
LEMMA CountPushed ==
  ASSUME NEW W, NEW list \in Seq([word : W, count : Nat]),
         NEW node \in [word : W, count : Nat], Distinct(list),
         \A j \in DOMAIN list : list[j].word # node.word
  PROVE  /\ Distinct(PushHead(node, list))
         /\ CountOf(list, node.word) = 0
         /\ \A w : CountOf(PushHead(node, list), w)
                     = IF w = node.word THEN node.count ELSE CountOf(list, w)
<1> DEFINE n    == Len(list)
           long == PushHead(node, list)
           N    == [word : W, count : Nat]
<1>a. list \in Seq(N) /\ node \in N
  OBVIOUS
<1> HIDE DEF N
<1>b. /\ long \in Seq(N) /\ n \in Nat /\ Len(long) = n + 1 /\ long[1] = node
      /\ \A k \in 1..n : long[k + 1] = list[k]
      /\ DOMAIN list = 1..n /\ DOMAIN long = 1..(n + 1)
  BY <1>a, PushHeadProperties, PushHeadDomain
<1> HIDE DEF n, long
<1>1. /\ n \in Nat /\ Len(long) = n + 1 /\ long[1] = node
      /\ \A k \in 1..n : long[k + 1] = list[k]
      /\ DOMAIN list = 1..n /\ DOMAIN long = 1..(n + 1)
      /\ \A j \in 1..n : list[j].word # node.word
  BY <1>b
<1>0. \A k \in 2..(n + 1) : k - 1 \in 1..n /\ long[k] = list[k - 1]
  <2> SUFFICES ASSUME NEW k \in 2..(n + 1)
               PROVE  k - 1 \in 1..n /\ long[k] = list[k - 1]
    OBVIOUS
  <2>1. k - 1 \in 1..n /\ (k - 1) + 1 = k
    BY <1>1
  <2> QED
    BY <1>1, <2>1
<1>2. Distinct(long)
  <2> SUFFICES ASSUME NEW j \in 1..(n + 1), NEW k \in 1..(n + 1),
                      long[j].word = long[k].word
               PROVE  j = k
    BY <1>1 DEF Distinct
  <2>0. \A i \in 1..(n + 1) : i # 1 => /\ i - 1 \in 1..n
                                       /\ long[i] = list[i - 1]
    BY <1>0, <1>1
  <2>1. CASE j = 1 /\ k # 1
    BY <2>0, <1>1, <2>1
  <2>2. CASE j # 1 /\ k = 1
    BY <2>0, <1>1, <2>2
  <2>3. CASE j # 1 /\ k # 1
    <3>1. /\ j - 1 \in DOMAIN list /\ k - 1 \in DOMAIN list
          /\ list[j - 1].word = list[k - 1].word
      BY <2>0, <1>1, <2>3
    <3>2. j - 1 = k - 1
      BY <3>1 DEF Distinct
    <3> QED
      BY <3>2, <1>1
  <2> QED
    BY <2>1, <2>2, <2>3
<1>3. CountOf(list, node.word) = 0
  BY <1>a, FindMatchNone DEF CountOf
<1>4. ASSUME NEW w
      PROVE  CountOf(long, w) = IF w = node.word THEN node.count ELSE CountOf(list, w)
  <2>1. CASE w = node.word
    <3>1. FindMatch(long, w, Len(long)) = 1
      BY <1>1, <1>b, <2>1, FindMatchFirst
    <3> QED
      BY <1>1, <2>1, <3>1 DEF CountOf
  <2>2. CASE w # node.word
    <3> DEFINE m == FindMatch(list, w, n)
    <3>1. \/ m = 0 /\ \A j \in 1..n : list[j].word # w
          \/ /\ m \in 1..n /\ list[m].word = w
             /\ \A j \in 1..n : j < m => list[j].word # w
      <4>1. n \in Int
        BY <1>1
      <4> QED
        BY <1>1, <1>a, <4>1, FindMatchProperties
    <3>2. CountOf(list, w) = IF m = 0 THEN 0 ELSE list[m].count
      BY DEF CountOf, n
    <3> HIDE DEF m
    <3>3. CASE m = 0
      <4>0. \A j \in 1..n : list[j].word # w
        BY <3>1, <3>3
      <4>1. ASSUME NEW j \in 1..(n + 1) PROVE long[j].word # w
        <5>1. CASE j = 1
          BY <1>1, <2>2, <5>1
        <5>2. CASE j # 1
          <6>1. j \in 2..(n + 1)
            BY <1>1, <5>2
          <6>2. j - 1 \in 1..n /\ long[j] = list[j - 1]
            BY <1>0, <6>1
          <6> QED
            BY <4>0, <6>2
        <5> QED
          BY <5>1, <5>2
      <4>2. FindMatch(long, w, Len(long)) = 0
        BY <1>1, <1>b, <4>1, FindMatchNone
      <4> QED
        BY <2>2, <3>2, <3>3, <4>2 DEF CountOf
    <3>4. CASE m # 0
      <4>1. m + 1 \in DOMAIN long /\ long[m + 1] = list[m] /\ list[m].word = w
        BY <1>1, <3>1, <3>4
      <4>2. ASSUME NEW j \in DOMAIN long, j < m + 1 PROVE long[j].word # w
        <5>1. CASE j = 1
          BY <1>1, <2>2, <5>1
        <5>2. CASE j # 1
          <6>1. j \in 2..(n + 1)
            BY <1>1, <5>2
          <6>2. j - 1 \in 1..n /\ long[j] = list[j - 1]
            BY <1>0, <6>1
          <6>3. j - 1 < m
            BY <1>1, <3>1, <3>4, <4>2, <6>1
          <6> QED
            BY <3>1, <3>4, <6>2, <6>3
        <5> QED
          BY <5>1, <5>2
      <4>3. FindMatch(long, w, Len(long)) = m + 1
        <5> DEFINE p == m + 1
        <5>1. /\ p \in DOMAIN long /\ long[p].word = w
              /\ \A j \in DOMAIN long : j < p => long[j].word # w
          BY <4>1, <4>2
        <5> HIDE DEF p
        <5>2. long \in Seq(N)
          BY <1>b
        <5>3. FindMatch(long, w, Len(long)) = p
          BY ONLY <5>1, <5>2, FindMatchFirst
        <5> QED
          BY <5>3 DEF p
      <4>4. m + 1 # 0
        BY <1>1, <3>1
      <4> QED
        BY <2>2, <3>2, <3>4, <4>1, <4>3, <4>4 DEF CountOf
    <3> QED
      BY <3>3, <3>4
  <2> QED
    BY <2>1, <2>2
<1> QED
  BY <1>2, <1>3, <1>4 DEF long

(* Adding to the count of one node leaves the words and the other counts. *)
LEMMA CountRaised ==
  ASSUME NEW N, NEW list \in Seq(N), NEW k \in DOMAIN list, Distinct(list),
         NEW x \in N, x.word = list[k].word,
         NEW new \in {[list EXCEPT ![k] = x]}
  PROVE  /\ new \in Seq(N) /\ Len(new) = Len(list)
         /\ Distinct(new)
         /\ CountOf(list, x.word) = list[k].count
         /\ \A w : CountOf(new, w)
                     = IF w = x.word THEN x.count ELSE CountOf(list, w)
<1> DEFINE n == Len(list)
           c == x.count
<1>a. list \in Seq(N) /\ k \in DOMAIN list /\ x \in N
  OBVIOUS
<1>2. x.word = list[k].word /\ x.count = c /\ x \in N
  BY <1>a
<1>c. DOMAIN list = 1..Len(list) /\ Len(list) \in Nat
  BY <1>a, LenProperties
<1>1. /\ n \in Nat /\ DOMAIN list = 1..n /\ DOMAIN new = 1..n
      /\ \A j \in 1..n : list[j] \in N
      /\ \A j \in 1..n : new[j] = IF j = k THEN x ELSE list[j]
  <2>1. n \in Nat /\ DOMAIN list = 1..n /\ \A j \in 1..n : list[j] \in N
    BY <1>a, <1>c DEF n
  <2>2. DOMAIN [list EXCEPT ![k] = x] = DOMAIN list
    OBVIOUS
  <2>3. \A j \in DOMAIN list : [list EXCEPT ![k] = x][j] = IF j = k THEN x ELSE list[j]
    BY <1>a
  <2> HIDE DEF n
  <2>4. DOMAIN new = 1..n
    BY <1>a, <2>1, <2>2
  <2>5. \A j \in 1..n : new[j] = IF j = k THEN x ELSE list[j]
    BY <1>a, <2>1, <2>3
  <2> QED
    BY <2>1, <2>4, <2>5
<1>3. new \in Seq(N) /\ Len(new) = n
  <2>1. /\ [list EXCEPT ![k] = x] \in Seq(N)
        /\ Len([list EXCEPT ![k] = x]) = Len(list)
    BY <1>a, <1>c, ExceptSeq
  <2>2. new = [list EXCEPT ![k] = x]
    OBVIOUS
  <2> QED
    BY <2>1, <2>2 DEF n
<1> HIDE DEF n
<1>4. /\ \A j \in 1..n : new[j].word = list[j].word
      /\ new[k].count = c
  BY <1>a, <1>1, <1>2
<1>5. Distinct(new)
  BY <1>1, <1>4 DEF Distinct
<1>6. FindMatch(list, list[k].word, n) = k
  <2>1. \A j \in DOMAIN list : j < k => list[j].word # list[k].word
    BY <1>1 DEF Distinct
  <2> QED
    BY <1>a, <2>1, FindMatchFirst DEF n
<1>7. ASSUME NEW w
      PROVE  CountOf(new, w) = IF w = list[k].word THEN c ELSE CountOf(list, w)
  <2> DEFINE m == FindMatch(list, w, n)
  <2>1. \/ m = 0 /\ \A j \in 1..n : list[j].word # w
        \/ /\ m \in 1..n /\ list[m].word = w
           /\ \A j \in 1..n : j < m => list[j].word # w
    BY <1>1, <1>a, FindMatchProperties
  <2>2. CountOf(list, w) = IF m = 0 THEN 0 ELSE list[m].count
    BY DEF CountOf, n
  <2>3. FindMatch(new, w, Len(new)) = m
    <3> HIDE DEF m
    <3>1. CASE m = 0
      <4>1. \A j \in DOMAIN new : new[j].word # w
        BY <1>1, <1>4, <2>1, <3>1
      <4> QED
        BY <1>3, <3>1, <4>1, FindMatchNone
    <3>2. CASE m # 0
      <4>1. /\ m \in DOMAIN new /\ new[m].word = w
            /\ \A j \in DOMAIN new : j < m => new[j].word # w
        BY <1>1, <1>4, <2>1, <3>2
      <4> QED
        BY ONLY <1>3, <4>1, FindMatchFirst
    <3> QED
      BY <3>1, <3>2
  <2>4. w = list[k].word => m = k
    BY <1>6
  <2>5. m # 0 => (w = list[k].word <=> m = k)
    <3>1. m = k => list[k].word = list[m].word
      OBVIOUS
    <3> HIDE DEF m
    <3> QED
      BY <2>1, <2>4, <3>1
  <2>6. k # 0
    BY <1>1
  <2> HIDE DEF m
  <2>7. CASE m = 0
    BY <2>2, <2>3, <2>4, <2>6, <2>7 DEF CountOf
  <2>8. CASE m # 0
    <3>1. CountOf(new, w) = new[m].count /\ CountOf(list, w) = list[m].count
      BY <2>2, <2>3, <2>8 DEF CountOf
    <3> QED
      BY <1>1, <1>4, <2>1, <2>5, <2>8, <3>1
  <2> QED
    BY <2>7, <2>8
<1>8. CountOf(list, list[k].word) = list[k].count
  BY <1>1, <1>6 DEF CountOf, n
<1> QED
  BY <1>3, <1>4, <1>5, <1>7, <1>8, <1>1 DEF n
-----------------------------------------------------------------------------
(* A product grows with a factor. *)
LEMMA ProductMonotone ==
  ASSUME NEW n \in Nat, NEW a \in Int, NEW b \in Int, a <= b
  PROVE  n * a <= n * b
OBVIOUS


(* FlattenSeq goes on with the sequence that follows. *)
LEMMA FlattenAppend ==
  ASSUME NEW T, NEW seqs \in Seq(Seq(T)), NEW s \in Seq(T)
  PROVE  FlattenSeq(Append(seqs, s)) = FlattenSeq(seqs) \o s
<1> DEFINE n == Len(seqs)
           more == Append(seqs, s)
           Q == Seq(T)
<1>1. n \in Nat /\ \A k \in 1..n : seqs[k] \in Seq(T)
  BY LenProperties, ElementOfSeq
<1>2. /\ more \in Seq(Q) /\ Len(more) = n + 1
      /\ \A k \in 1..n : more[k] = seqs[k]
      /\ more[n + 1] = s
  <2> HIDE DEF Q
  <2>1. seqs \in Seq(Q) /\ s \in Q
    BY DEF Q
  <2> QED
    BY <2>1, AppendProperties
<1> HIDE DEF more
<1>3. PICK gl : /\ gl[1] = more[1]
                /\ \A k \in 1..n : gl[k + 1] = gl[k] \o more[k + 1]
                /\ FlattenSeq(more) = gl[n + 1]
  <2>1. Len(more) # 0 /\ Len(more) - 1 = n
    BY <1>1, <1>2
  <2> QED
    BY <1>2, <2>1, FlattenSteps
<1>4. CASE n = 0
  <2>1. FlattenSeq(seqs) = seqs /\ seqs = << >>
    BY <1>4, EmptySeq DEF FlattenSeq
  <2>2. FlattenSeq(more) = s
    BY <1>2, <1>3, <1>4
  <2>3. << >> \o s = s
    BY ConcatEmptySeq
  <2> QED
    BY <2>1, <2>2, <2>3 DEF more
<1>5. CASE n # 0
  <2>1. PICK fl : /\ fl[1] = seqs[1]
                  /\ \A k \in 1..(n - 1) : fl[k + 1] = fl[k] \o seqs[k + 1]
                  /\ FlattenSeq(seqs) = fl[n]
    BY <1>5, FlattenSteps
  <2> HIDE DEF n
  <2> DEFINE S == {k \in Nat : k + 1 <= n => fl[k + 1] = gl[k + 1]}
  <2>2. 0 \in S
    <3>1. 1 \in 1..n
      BY <1>1, <1>5
    <3> QED
      BY <1>2, <1>3, <2>1, <3>1
  <2>3. ASSUME NEW k \in Nat, k \in S PROVE k + 1 \in S
    <3> SUFFICES ASSUME (k + 1) + 1 <= n PROVE fl[(k + 1) + 1] = gl[(k + 1) + 1]
      OBVIOUS
    <3>1. k + 1 \in 1..(n - 1) /\ k + 1 \in 1..n /\ (k + 1) + 1 \in 1..n /\ fl[k + 1] = gl[k + 1]
      BY <1>1, <2>3
    <3>2. fl[(k + 1) + 1] = fl[k + 1] \o seqs[(k + 1) + 1]
      BY <2>1, <3>1
    <3>3. gl[(k + 1) + 1] = gl[k + 1] \o more[(k + 1) + 1]
      BY <1>3, <3>1
    <3> QED
      BY <1>2, <3>1, <3>2, <3>3
  <2>4. n - 1 \in Nat /\ (n - 1) + 1 = n /\ n \in 1..n
    BY <1>1, <1>5
  <2>5. n - 1 \in S
    <3> HIDE DEF S
    <3> QED
      BY <2>2, <2>3, <2>4, Induction
  <2>6. fl[n] = gl[n]
    BY <2>4, <2>5
  <2>7. gl[n + 1] = gl[n] \o s
    BY <1>2, <1>3, <2>4
  <2> QED
    BY <1>3, <2>1, <2>6, <2>7 DEF more
<1> QED
  BY <1>4, <1>5

-----------------------------------------------------------------------------
(***************************************************************************)
(* How many elements of a set of naturals there are up to a number.        *)
(***************************************************************************)
Rank(B, k) == Cardinality({h \in B : h <= k})

LEMMA RankProperties ==
  ASSUME NEW B \in SUBSET Nat, IsFiniteSet(B)
  PROVE  /\ Cardinality(B) \in Nat
         /\ \A x : Rank(B, x) \in 0..Cardinality(B)
         /\ \A k \in B : Rank(B, k) \in 1..Cardinality(B)
         /\ \A j, k \in B : j < k => Rank(B, j) < Rank(B, k)
         /\ \A j, k \in B : Rank(B, j) = Rank(B, k) => j = k
         /\ \A n \in 1..Cardinality(B) : \E k \in B : Rank(B, k) = n
<1> DEFINE U(x) == {h \in B : h <= x}
           c == Cardinality(B)
<1>1. c \in Nat
  BY FS_CardinalityType
<1>2. ASSUME NEW x
      PROVE  IsFiniteSet(U(x)) /\ Rank(B, x) \in 0..c
  <2>1. U(x) \in SUBSET B
    OBVIOUS
  <2>2. IsFiniteSet(U(x)) /\ Cardinality(U(x)) <= c
    BY <2>1, FS_Subset
  <2>3. Cardinality(U(x)) \in Nat
    BY <2>2, FS_CardinalityType
  <2> HIDE DEF c
  <2> QED
    BY <1>1, <2>2, <2>3 DEF Rank
<1>3. ASSUME NEW k \in B PROVE Rank(B, k) \in 1..c
  <2>1. k \in U(k)
    OBVIOUS
  <2>2. U(k) # {}
    BY <2>1
  <2>3. Cardinality(U(k)) # 0
    BY <1>2, <2>2, FS_EmptySet
  <2> HIDE DEF U, c
  <2>4. Rank(B, k) # 0
    BY <2>3 DEF Rank, U
  <2> QED
    BY <1>1, <1>2, <2>4
<1>4. ASSUME NEW j \in B, NEW k \in B, j < k PROVE Rank(B, j) < Rank(B, k)
  <2>1. U(j) \in SUBSET U(k) /\ k \in U(k) /\ k \notin U(j)
    <3>1. j \in Nat /\ k \in Nat
      OBVIOUS
    <3>2. ASSUME NEW h \in U(j) PROVE h \in U(k)
      <4>1. h \in Nat /\ h \in B /\ h <= j
        OBVIOUS
      <4> QED
        BY <1>4, <3>1, <4>1
    <3>3. k <= k /\ ~(k <= j)
      BY <1>4, <3>1
    <3> QED
      BY <3>2, <3>3
  <2>2. U(j) # U(k)
    BY <2>1
  <2>3. IsFiniteSet(U(k)) /\ IsFiniteSet(U(j))
    BY <1>2
  <2>4. Cardinality(U(j)) <= Cardinality(U(k)) /\ Cardinality(U(j)) # Cardinality(U(k))
    <3> HIDE DEF U
    <3> QED
      BY <2>1, <2>2, <2>3, FS_Subset
  <2>5. Cardinality(U(j)) \in Nat /\ Cardinality(U(k)) \in Nat
    BY <2>3, FS_CardinalityType
  <2>6. Cardinality(U(j)) < Cardinality(U(k))
    <3> HIDE DEF U
    <3> QED
      BY <2>4, <2>5
  <2> QED
    BY <2>6 DEF Rank
<1>5. ASSUME NEW j \in B, NEW k \in B, Rank(B, j) = Rank(B, k) PROVE j = k
  <2>1. Rank(B, j) \in 0..c /\ Rank(B, k) \in 0..c /\ j \in Nat /\ k \in Nat
    BY <1>2
  <2> HIDE DEF c
  <2>2. ~(j < k) /\ ~(k < j)
    <3>1. Rank(B, j) \in Nat /\ Rank(B, k) \in Nat
      BY <1>1, <2>1
    <3> QED
      BY <1>4, <1>5, <3>1
  <2> QED
    BY <2>1, <2>2
<1>6. ASSUME NEW n \in 1..c PROVE \E k \in B : Rank(B, k) = n
  <2> DEFINE f == [k \in B |-> Rank(B, k)]
             I == 1..c
  <2>1. f \in [B -> I] /\ \A k \in B : f[k] = Rank(B, k)
    BY <1>3
  <2> HIDE DEF f
  <2>2. f \in Injection(B, I)
    BY <1>5, <2>1 DEF Injection, IsInjective
  <2>3. IsFiniteSet(I) /\ Cardinality(I) = c
    <3>1. 1 \in Int /\ c \in Int
      BY <1>1
    <3>2. IsFiniteSet(1..c) /\ Cardinality(1..c) = IF 1 > c THEN 0 ELSE c - 1 + 1
      BY <3>1, FS_Interval
    <3> HIDE DEF c
    <3> QED
      BY <1>1, <3>2
  <2>4. f \in Surjection(B, I)
    BY <2>2, <2>3, FS_Injection
  <2>5. \E k \in B : f[k] = n
    BY <2>4 DEF Surjection
  <2> QED
    BY <2>1, <2>5
<1> QED
  BY <1>1, <1>2, <1>3, <1>4, <1>5, <1>6

(* Between two numbers with no element between them the rank stays. *)
LEMMA RankStays ==
  ASSUME NEW B \in SUBSET Nat, NEW x \in Nat, NEW y \in Nat, x <= y,
         \A h \in B : ~(x < h /\ h <= y)
  PROVE  Rank(B, y) = Rank(B, x)
<1>1. ASSUME NEW h \in B PROVE h <= y <=> h <= x
  <2>1. h \in Nat
    OBVIOUS
  <2> QED
    BY <2>1
<1>2. {h \in B : h <= y} = {h \in B : h <= x}
  BY <1>1
<1> QED
  BY <1>2 DEF Rank

LEMMA RankGrows ==
  ASSUME NEW B \in SUBSET Nat, IsFiniteSet(B), NEW x \in Nat, NEW k \in B, x < k,
         \A h \in B : ~(x < h /\ h < k)
  PROVE  Rank(B, k) = Rank(B, x) + 1
<1> DEFINE U == {h \in B : h <= x}
<1>1. {h \in B : h <= k} = U \union {k} /\ k \notin U
  <2>1. ASSUME NEW h \in B PROVE h <= k <=> (h <= x \/ h = k)
    <3>1. h \in Nat /\ k \in Nat
      OBVIOUS
    <3> QED
      BY <3>1
  <2>2. ~(k <= x)
    <3>1. k \in Nat
      OBVIOUS
    <3> QED
      BY <3>1
  <2> QED
    BY <2>1, <2>2
<1>2. IsFiniteSet(U)
  <2>1. U \in SUBSET B
    OBVIOUS
  <2> QED
    BY <2>1, FS_Subset
<1>3. Cardinality(U \union {k}) = Cardinality(U) + 1
  BY <1>1, <1>2, FS_AddElement
<1> QED
  BY <1>1, <1>3 DEF Rank

(* Two sets in the same order have the same ranks. *)
LEMMA RankMapped ==
  ASSUME NEW B \in SUBSET Nat, IsFiniteSet(B), NEW C \in SUBSET Nat,
         NEW p \in [B -> C], \A c \in C : \E k \in B : p[k] = c,
         \A j, k \in B : j < k => p[j] < p[k]
  PROVE  /\ IsFiniteSet(C) /\ Cardinality(C) = Cardinality(B)
         /\ \A k \in B : Rank(C, p[k]) = Rank(B, k)
<1>1. ASSUME NEW D \in SUBSET B, NEW E \in SUBSET C, NEW q \in [D -> E],
             \A k \in D : q[k] = p[k], \A c \in E : \E k \in D : q[k] = c
      PROVE  IsFiniteSet(E) /\ Cardinality(E) = Cardinality(D)
  <2>1. \A j, k \in D : q[j] = q[k] => j = k
    <3> SUFFICES ASSUME NEW j \in D, NEW k \in D, q[j] = q[k] PROVE j = k
      OBVIOUS
    <3>1. j \in B /\ k \in B /\ p[j] = p[k] /\ p[j] \in Nat /\ j \in Nat /\ k \in Nat
      BY <1>1
    <3> QED
      BY <3>1
  <2>2. q \in Bijection(D, E)
    BY <1>1, <2>1 DEF Bijection, Injection, Surjection, IsInjective
  <2>3. IsFiniteSet(D)
    BY FS_Subset
  <2>4. ExistsBijection(D, E)
    BY <2>2 DEF ExistsBijection
  <2> QED
    BY <2>3, <2>4, FS_Bijection
<1>2. IsFiniteSet(C) /\ Cardinality(C) = Cardinality(B)
  BY <1>1
<1>3. ASSUME NEW k \in B PROVE Rank(C, p[k]) = Rank(B, k)
  <2> DEFINE D == {h \in B : h <= k}
             E == {c \in C : c <= p[k]}
             q == [h \in D |-> p[h]]
  <2>1. \A h \in B : h <= k <=> p[h] <= p[k]
    <3> SUFFICES ASSUME NEW h \in B PROVE h <= k <=> p[h] <= p[k]
      OBVIOUS
    <3>1. h \in Nat /\ k \in Nat /\ p[h] \in Nat /\ p[k] \in Nat
      OBVIOUS
    <3>2. h < k \/ h = k \/ k < h
      BY <3>1
    <3> QED
      BY <3>1, <3>2
  <2>2. D \in SUBSET B /\ E \in SUBSET C
    OBVIOUS
  <2>3. q \in [D -> E] /\ \A h \in D : q[h] = p[h]
    BY <2>1
  <2>4. \A c \in E : \E h \in D : q[h] = c
    <3> TAKE c \in E
    <3>1. PICK h \in B : p[h] = c
      OBVIOUS
    <3> QED
      BY <2>1, <2>3, <3>1
  <2> HIDE DEF D, E, q
  <2>5. Cardinality(E) = Cardinality(D)
    BY <1>1, <2>2, <2>3, <2>4
  <2> QED
    BY <2>5 DEF Rank, D, E
<1> QED
  BY <1>2, <1>3

LEMMA ConcatAppend ==
  ASSUME NEW T, NEW s \in Seq(T), NEW t \in Seq(T), NEW e \in T
  PROVE  s \o Append(t, e) = Append(s \o t, e)
OBVIOUS

(* Its last sequence grows, and FlattenSeq with it. *)
LEMMA FlattenGrows ==
  ASSUME NEW T, NEW seqs \in Seq(Seq(T)), Len(seqs) # 0, NEW w \in T
  PROVE  FlattenSeq([seqs EXCEPT ![Len(seqs)] = Append(@, w)])
           = Append(FlattenSeq(seqs), w)
<1> DEFINE n == Len(seqs)
           Q == Seq(T)
           last == seqs[n]
           front == SubSeq(seqs, 1, n - 1)
           more == Append(last, w)
           grown == [seqs EXCEPT ![n] = Append(@, w)]
<1>1. n \in Nat /\ n # 0 /\ n \in 1..n /\ \A k \in 1..n : seqs[k] \in Seq(T)
  BY LenProperties, ElementOfSeq
<1>2. last \in Seq(T) /\ more \in Seq(T)
  BY <1>1, AppendProperties
<1>3. /\ front \in Seq(Q) /\ Len(front) = n - 1
      /\ \A i \in 1..(n - 1) : front[i] = seqs[i]
  <2> HIDE DEF n
  <2>1. 1 \in Int /\ n - 1 \in Int /\ \A i \in 1..(n - 1) : i \in 1..n
    BY <1>1
  <2>2. \A i \in 1..(n - 1) : seqs[i] \in Q
    BY <1>1, <2>1
  <2> HIDE DEF Q
  <2>3. /\ front \in Seq(Q)
        /\ Len(front) = IF 1 <= n - 1 THEN n - 1 - 1 + 1 ELSE 0
        /\ \A i \in 1..(n - 1 - 1 + 1) : front[i] = seqs[1 + i - 1]
    BY <2>1, <2>2, SubSeqProperties
  <2> HIDE DEF front
  <2>4. Len(front) = n - 1
    BY <1>1, <2>3
  <2>5. ASSUME NEW i \in 1..(n - 1) PROVE front[i] = seqs[i]
    <3>1. i \in 1..(n - 1 - 1 + 1) /\ 1 + i - 1 = i
      BY <1>1
    <3> QED
      BY <2>3, <3>1
  <2> QED
    BY <2>3, <2>4, <2>5
<1>4. /\ grown \in Seq(Q) /\ Len(grown) = n
      /\ \A i \in 1..n : grown[i] = IF i = n THEN more ELSE seqs[i]
  <2>1. grown = [seqs EXCEPT ![n] = more]
    OBVIOUS
  <2>2. more \in Q /\ seqs \in Seq(Q)
    BY <1>2
  <2> HIDE DEF Q, more, grown
  <2> QED
    BY <1>1, <2>1, <2>2, ExceptSeq
<1> HIDE DEF n, last, more, front, grown
<1>5. seqs = Append(front, last)
  <2>1. last \in Q /\ seqs \in Seq(Q)
    BY <1>2
  <2> HIDE DEF Q
  <2>2. /\ Append(front, last) \in Seq(Q) /\ Len(Append(front, last)) = n
        /\ \A i \in 1..(n - 1) : Append(front, last)[i] = seqs[i]
        /\ Append(front, last)[n] = last
    <3>1. /\ Append(front, last) \in Seq(Q)
          /\ Len(Append(front, last)) = Len(front) + 1
          /\ \A i \in 1..Len(front) : Append(front, last)[i] = front[i]
          /\ Append(front, last)[Len(front) + 1] = last
      BY <1>3, <2>1, AppendProperties
    <3>2. Len(front) + 1 = n
      BY <1>1, <1>3
    <3> QED
      BY <1>3, <3>1, <3>2
  <2>3. \A i \in 1..n : seqs[i] = Append(front, last)[i]
    <3> SUFFICES ASSUME NEW i \in 1..n PROVE seqs[i] = Append(front, last)[i]
      OBVIOUS
    <3>1. i = n \/ i \in 1..(n - 1)
      BY <1>1
    <3> QED
      BY <2>2, <3>1 DEF last
  <2> QED
    BY <2>1, <2>2, <2>3, SeqEqual DEF n
<1>6. grown = Append(front, more)
  <2>1. more \in Q
    BY <1>2
  <2> HIDE DEF Q
  <2>2. /\ Append(front, more) \in Seq(Q) /\ Len(Append(front, more)) = n
        /\ \A i \in 1..(n - 1) : Append(front, more)[i] = seqs[i]
        /\ Append(front, more)[n] = more
    <3>1. /\ Append(front, more) \in Seq(Q)
          /\ Len(Append(front, more)) = Len(front) + 1
          /\ \A i \in 1..Len(front) : Append(front, more)[i] = front[i]
          /\ Append(front, more)[Len(front) + 1] = more
      BY <1>3, <2>1, AppendProperties
    <3>2. Len(front) + 1 = n
      BY <1>1, <1>3
    <3> QED
      BY <1>3, <3>1, <3>2
  <2>3. \A i \in 1..n : grown[i] = Append(front, more)[i]
    <3> SUFFICES ASSUME NEW i \in 1..n PROVE grown[i] = Append(front, more)[i]
      OBVIOUS
    <3>1. i = n \/ (i # n /\ i \in 1..(n - 1))
      BY <1>1
    <3> QED
      BY <1>4, <2>2, <3>1
  <2> QED
    BY <1>4, <2>2, <2>3, SeqEqual
<1>7. front \in Seq(Seq(T)) /\ FlattenSeq(front) \in Seq(T)
  BY <1>3, FlattenType
<1>8. FlattenSeq(grown) = FlattenSeq(front) \o more
  BY <1>2, <1>6, <1>7, FlattenAppend
<1>9. FlattenSeq(seqs) = FlattenSeq(front) \o last
  BY <1>2, <1>5, <1>7, FlattenAppend
<1> DEFINE f == FlattenSeq(front)
<1> HIDE DEF f
<1>10. f \o Append(last, w) = Append(f \o last, w)
  BY <1>2, <1>7, ConcatAppend DEF f
<1> QED
  BY <1>8, <1>9, <1>10 DEF f, more, grown, n

(* Where each sequence stands in the flattened one. *)
LEMMA FlattenPlaces ==
  ASSUME NEW T, NEW seqs \in Seq(Seq(T))
  PROVE  \E off \in [0..Len(seqs) -> Nat] :
           /\ off[0] = 0
           /\ \A k \in 1..Len(seqs) : off[k] = off[k - 1] + Len(seqs[k])
           /\ Len(FlattenSeq(seqs)) = off[Len(seqs)]
           /\ \A k \in 1..Len(seqs) : \A i \in 1..Len(seqs[k]) :
                FlattenSeq(seqs)[off[k - 1] + i] = seqs[k][i]
           /\ \A h \in 1..off[Len(seqs)] : \E k \in 1..Len(seqs) :
                off[k - 1] < h /\ h <= off[k]
<1> DEFINE n == Len(seqs)
           flat == FlattenSeq(seqs)
<1>1. n \in Nat /\ \A k \in 1..n : seqs[k] \in Seq(T)
  BY LenProperties, ElementOfSeq
<1>2. \E off \in [0..n -> Nat] :
        /\ off[0] = 0
        /\ \A k \in 1..n : off[k] = off[k - 1] + Len(seqs[k])
        /\ Len(flat) = off[n]
        /\ \A k \in 1..n : \A i \in 1..Len(seqs[k]) :
             flat[off[k - 1] + i] = seqs[k][i]
  <2>1. CASE n = 0
    <3>1. seqs = <<>>
      BY <2>1, EmptySeq
    <3>2. flat = <<>> /\ Len(flat) = 0
      BY <3>1, <2>1 DEF FlattenSeq
    <3> DEFINE off == [k \in 0..n |-> 0]
    <3>3. off \in [0..n -> Nat] /\ off[0] = 0 /\ off[n] = 0
      BY <2>1
    <3>4. 1..n = {}
      BY <2>1
    <3> HIDE DEF off, n, flat
    <3> QED
      BY <3>2, <3>3, <3>4
  <2>2. CASE n # 0
    <3>1. PICK fl : /\ fl[1] = seqs[1]
                    /\ \A k \in 1..(n - 1) : fl[k + 1] = fl[k] \o seqs[k + 1]
                    /\ flat = fl[n]
      BY <2>2, FlattenSteps
    <3> HIDE DEF n, flat
    <3> DEFINE off == [k \in 0..n |-> IF k = 0 THEN 0 ELSE Len(fl[k])]
    <3>2. off[0] = 0 /\ \A k \in 1..n : off[k] = Len(fl[k])
      BY <1>1
    <3> HIDE DEF off
    <3> DEFINE Good(m) ==
          /\ fl[m] \in Seq(T) /\ off[m] \in Nat
          /\ off[m] = off[m - 1] + Len(seqs[m])
          /\ \A k \in 1..m : \A i \in 1..Len(seqs[k]) :
               off[k - 1] + i \in 1..off[m] /\ fl[m][off[k - 1] + i] = seqs[k][i]
    <3> DEFINE S == {m \in Nat : m + 1 <= n => Good(m + 1)}
    <3>3. 0 \in S
      <4>1. 1 \in 1..n /\ seqs[1] \in Seq(T) /\ Len(seqs[1]) \in Nat
        <5>1. 1 \in 1..n
          BY <1>1, <2>2
        <5> QED
          BY <1>1, <5>1, LenProperties
      <4>2. fl[1] \in Seq(T) /\ off[1] = Len(seqs[1]) /\ off[1 - 1] = 0
        BY <3>1, <3>2, <4>1
      <4>3. ASSUME NEW k \in 1..1, NEW i \in 1..Len(seqs[k])
            PROVE  off[k - 1] + i \in 1..off[1] /\ fl[1][off[k - 1] + i] = seqs[k][i]
        <5>1. k = 1
          OBVIOUS
        <5>2. i \in Nat /\ 0 + i = i
          BY <4>1, <5>1
        <5> QED
          BY <3>1, <4>1, <4>2, <5>1, <5>2
      <4>4. Good(1)
        <5>1. off[1] = off[1 - 1] + Len(seqs[1])
          BY <4>1, <4>2
        <5> QED
          BY <4>1, <4>2, <4>3, <5>1
      <4> QED
        BY <4>4
    <3>4. ASSUME NEW m \in Nat, m \in S PROVE m + 1 \in S
      <4> SUFFICES ASSUME (m + 1) + 1 <= n PROVE Good((m + 1) + 1)
        OBVIOUS
      <4> DEFINE a == m + 1
                 b == (m + 1) + 1
      <4>1. a \in 1..(n - 1) /\ a \in 1..n /\ b \in 1..n /\ b - 1 = a /\ a + 1 = b
        BY <1>1
      <4>2. Good(a)
        BY <3>4, <4>1
      <4> HIDE DEF a, b, S
      <4>3. fl[b] = fl[a] \o seqs[b] /\ seqs[b] \in Seq(T) /\ Len(seqs[b]) \in Nat
        BY <1>1, <3>1, <4>1, LenProperties
      <4>4. fl[a] \in Seq(T) /\ Len(fl[a]) = off[a] /\ off[a] \in Nat
        BY <3>2, <4>1, <4>2
      <4>5. /\ fl[b] \in Seq(T) /\ Len(fl[b]) = off[a] + Len(seqs[b])
            /\ \A i \in 1..(off[a] + Len(seqs[b])) :
                 fl[b][i] = IF i <= off[a] THEN fl[a][i] ELSE seqs[b][i - off[a]]
        <5> DEFINE u == fl[a]
                   v == seqs[b]
        <5>1. u \in Seq(T) /\ v \in Seq(T) /\ Len(u) = off[a]
          BY <4>3, <4>4
        <5>2. fl[b] = u \o v
          BY <4>3
        <5> HIDE DEF u, v
        <5>3. /\ u \o v \in Seq(T) /\ Len(u \o v) = Len(u) + Len(v)
              /\ \A i \in 1..(Len(u) + Len(v)) :
                   (u \o v)[i] = IF i <= Len(u) THEN u[i] ELSE v[i - Len(u)]
          BY <5>1, ConcatProperties
        <5>4. /\ fl[b] \in Seq(T) /\ Len(fl[b]) = off[a] + Len(v)
              /\ \A i \in 1..(off[a] + Len(v)) :
                   fl[b][i] = IF i <= off[a] THEN u[i] ELSE v[i - off[a]]
          BY <5>1, <5>2, <5>3
        <5> QED
          BY <5>4 DEF u, v
      <4>6. off[b] = off[b - 1] + Len(seqs[b]) /\ off[b] \in Nat
        <5>1. off[b] = off[a] + Len(seqs[b])
          BY <3>2, <4>1, <4>5
        <5>2. b - 1 = a
          BY <4>1
        <5> DEFINE l == Len(seqs[b])
        <5>3. l \in Nat
          BY <4>3
        <5> HIDE DEF l
        <5>4. off[a] + l \in Nat
          BY <4>4, <5>3
        <5> QED
          BY <5>1, <5>2, <5>4 DEF l
      <4>7. ASSUME NEW k \in 1..b, NEW i \in 1..Len(seqs[k])
            PROVE  off[k - 1] + i \in 1..off[b] /\ fl[b][off[k - 1] + i] = seqs[k][i]
        <5>1. k = b \/ k \in 1..a
          BY <1>1, <4>1
        <5>2. CASE k = b
          <6>1. /\ off[k - 1] = off[a] /\ i \in Nat /\ i # 0 /\ i <= Len(seqs[b])
            BY <4>1, <4>3, <5>2
          <6>2. /\ off[a] + i \in 1..(off[a] + Len(seqs[b])) /\ ~(off[a] + i <= off[a])
                /\ (off[a] + i) - off[a] = i
            <7> DEFINE l == Len(seqs[b])
                       z == off[a]
            <7>1. l \in Nat /\ z \in Nat /\ i <= l
              BY <4>3, <4>4, <6>1
            <7> HIDE DEF l, z
            <7>2. z + i \in 1..(z + l) /\ ~(z + i <= z) /\ (z + i) - z = i
              BY <6>1, <7>1
            <7> QED
              BY <7>2 DEF l, z
          <6> QED
            BY <4>1, <4>5, <4>6, <5>2, <6>1, <6>2
        <5>3. CASE k \in 1..a
          <6> DEFINE p == off[k - 1] + i
          <6>1. p \in 1..off[a] /\ fl[a][p] = seqs[k][i]
            BY <4>2, <5>3
          <6> HIDE DEF p
          <6>2. p \in 1..(off[a] + Len(seqs[b])) /\ p <= off[a]
            BY <4>3, <4>4, <6>1
          <6>3. off[b] = off[a] + Len(seqs[b])
            BY <4>1, <4>6
          <6> QED
            BY <4>5, <6>1, <6>2, <6>3 DEF p
        <5> QED
          BY <5>1, <5>2, <5>3
      <4> QED
        BY <4>5, <4>6, <4>7 DEF b
    <3>5. \A m \in 1..n : Good(m)
      <4>1. \A m \in Nat : m \in S
        <5> HIDE DEF S
        <5> QED
          BY <3>3, <3>4, Induction
      <4> SUFFICES ASSUME NEW m \in 1..n PROVE Good(m)
        OBVIOUS
      <4>2. m - 1 \in Nat /\ (m - 1) + 1 = m /\ m <= n
        BY <1>1
      <4>3. m - 1 \in S
        BY <4>1, <4>2
      <4> QED
        BY <4>2, <4>3
    <3>6. n \in 1..n
      BY <1>1, <2>2
    <3>7. off \in [0..n -> Nat]
      <4>1. \A k \in 0..n : off[k] \in Nat
        <5> SUFFICES ASSUME NEW k \in 0..n PROVE off[k] \in Nat
          OBVIOUS
        <5>1. k = 0 \/ k \in 1..n
          BY <1>1
        <5> QED
          BY <3>2, <3>5, <5>1
      <4>2. off = [k \in 0..n |-> off[k]]
        BY DEF off
      <4> QED
        BY <4>1, <4>2
    <3>8. \A k \in 1..n : off[k] = off[k - 1] + Len(seqs[k])
      BY <3>5
    <3>9. Len(flat) = off[n]
      BY <3>1, <3>2, <3>6
    <3>10. \A k \in 1..n : \A i \in 1..Len(seqs[k]) :
             flat[off[k - 1] + i] = seqs[k][i]
      BY <3>1, <3>5, <3>6
    <3> QED
      BY <3>2, <3>7, <3>8, <3>9, <3>10
  <2> QED
    BY <2>1, <2>2
<1> HIDE DEF n, flat
<1>3. PICK off \in [0..n -> Nat] :
        /\ off[0] = 0
        /\ \A k \in 1..n : off[k] = off[k - 1] + Len(seqs[k])
        /\ Len(flat) = off[n]
        /\ \A k \in 1..n : \A i \in 1..Len(seqs[k]) :
             flat[off[k - 1] + i] = seqs[k][i]
  BY <1>2
<1>4. ASSUME NEW h \in 1..off[n]
      PROVE  \E k \in 1..n : off[k - 1] < h /\ h <= off[k]
  <2> DEFINE U == {k \in 0..n : h <= off[k]}
  <2>1. n \in U /\ U \in SUBSET Nat
    <3>1. n \in 0..n /\ off[n] \in Nat
      BY <1>1
    <3> QED
      BY <1>1, <3>1
  <2>2. PICK k \in U : \A j \in U : k <= j
    <3> HIDE DEF U
    <3> QED
      BY <2>1, LeastNatural
  <2>3. k \in 0..n /\ h <= off[k]
    OBVIOUS
  <2>4. k # 0
    <3>1. h \in Nat /\ h # 0
      <4>1. off[n] \in Nat
        BY <1>1
      <4> QED
        BY <4>1
    <3> QED
      BY <1>3, <2>3, <3>1
  <2>5. k \in 1..n /\ k - 1 \in 0..n /\ ~(k <= k - 1)
    BY <1>1, <2>3, <2>4
  <2>6. ~(h <= off[k - 1])
    BY <2>2, <2>5
  <2>7. off[k - 1] \in Nat /\ h \in Int
    BY <2>5
  <2> QED
    BY <2>3, <2>5, <2>6, <2>7
<1> QED
  BY <1>3, <1>4 DEF n, flat

(* What grows with each step grows. *)
LEMMA StepsGrow ==
  ASSUME NEW n \in Nat, NEW f, \A k \in 1..n : f[k] \in Int,
         \A k \in 1..(n - 1) : f[k] < f[k + 1]
  PROVE  \A j, k \in 1..n : j < k => f[j] < f[k]
<1> SUFFICES ASSUME NEW j \in 1..n PROVE \A k \in 1..n : j < k => f[j] < f[k]
  OBVIOUS
<1> DEFINE S == {d \in Nat : j + (d + 1) <= n => f[j] < f[j + (d + 1)]}
<1>1. 0 \in S
  <2> SUFFICES ASSUME j + (0 + 1) <= n PROVE f[j] < f[j + (0 + 1)]
    OBVIOUS
  <2>1. j \in 1..(n - 1) /\ j + (0 + 1) = j + 1
    OBVIOUS
  <2> QED
    BY <2>1
<1>2. ASSUME NEW d \in Nat, d \in S PROVE d + 1 \in S
  <2> SUFFICES ASSUME j + ((d + 1) + 1) <= n PROVE f[j] < f[j + ((d + 1) + 1)]
    OBVIOUS
  <2> DEFINE k == j + (d + 1)
  <2>1. k \in 1..(n - 1) /\ k + 1 = j + ((d + 1) + 1) /\ k \in 1..n /\ k + 1 \in 1..n /\ k <= n
    OBVIOUS
  <2>2. f[j] < f[k]
    BY <1>2, <2>1
  <2>3. f[k] < f[k + 1] /\ f[j] \in Int /\ f[k] \in Int /\ f[k + 1] \in Int
    BY <2>1
  <2> HIDE DEF k
  <2> QED
    BY <2>1, <2>2, <2>3
<1>3. \A d \in Nat : d \in S
  <2> HIDE DEF S
  <2> QED
    BY <1>1, <1>2, Induction
<1> SUFFICES ASSUME NEW k \in 1..n, j < k PROVE f[j] < f[k]
  OBVIOUS
<1>4. (k - j) - 1 \in Nat /\ j + (((k - j) - 1) + 1) = k /\ k <= n
  OBVIOUS
<1>5. (k - j) - 1 \in S
  BY <1>3, <1>4
<1> QED
  BY <1>4, <1>5
=============================================================================
