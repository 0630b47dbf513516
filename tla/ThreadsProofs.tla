---------------------------- MODULE ThreadsProofs ---------------------------
(***************************************************************************)
(* Theorems about the threads package, for every number of threads, every  *)
(* policy and every sequence of calls.                                     *)
(***************************************************************************)
EXTENDS Threads, CollectionLemmas

-----------------------------------------------------------------------------
(***************************************************************************)
(* The list operations.                                                    *)
(***************************************************************************)
LEMMA ContainsElement ==
  ASSUME NEW q \in Seq(Threads), NEW t
  PROVE  Contains(q, t) <=> \E k \in DOMAIN q : q[k] = t
BY LenProperties DEF Contains

(* enqueueing adds a thread at the end. *)
LEMMA EnqueueProperties ==
  ASSUME NEW q \in Seq(Threads), NEW t \in Threads
  PROVE  /\ thread_enqueue(t, q) \in Seq(Threads)
         /\ DOMAIN q = 1..Len(q) /\ Len(q) \in Nat
         /\ DOMAIN thread_enqueue(t, q) = 1..(Len(q) + 1)
         /\ \A k \in 1..Len(q) : thread_enqueue(t, q)[k] = q[k]
         /\ thread_enqueue(t, q)[Len(q) + 1] = t
         /\ \A x : Contains(thread_enqueue(t, q), x) <=> Contains(q, x) \/ x = t
<1> DEFINE new == Append(q, t)
<1>1. /\ new \in Seq(Threads) /\ Len(new) = Len(q) + 1 /\ Len(q) \in Nat
      /\ \A k \in 1..Len(q) : new[k] = q[k] /\ new[Len(q) + 1] = t
  OBVIOUS
<1>2. new[Len(q) + 1] = t
  OBVIOUS
<1>3. DOMAIN q = 1..Len(q) /\ DOMAIN new = 1..(Len(q) + 1)
  BY <1>1, LenProperties
<1> HIDE DEF new
<1>4. \A x : Contains(new, x) <=> Contains(q, x) \/ x = t
  <2>1. \A k \in 1..(Len(q) + 1) : k \in 1..Len(q) \/ k = Len(q) + 1
    BY <1>1
  <2>2. Len(q) + 1 \in 1..(Len(q) + 1) /\ 1..Len(q) \subseteq 1..(Len(q) + 1)
    BY <1>1
  <2> QED
    BY <1>1, <1>2, <2>1, <2>2 DEF Contains
<1> QED
  BY <1>1, <1>2, <1>3, <1>4 DEF thread_enqueue, new

(* A list in which no thread has two nodes. *)
Once(q) == \A h, k \in DOMAIN q : q[h] = q[k] => h = k

LEMMA EnqueueOnce ==
  ASSUME NEW q \in Seq(Threads), NEW t \in Threads, Once(q), ~Contains(q, t)
  PROVE  Once(thread_enqueue(t, q))
<1> DEFINE new == thread_enqueue(t, q)
<1>1. /\ DOMAIN q = 1..Len(q) /\ Len(q) \in Nat
      /\ DOMAIN new = 1..(Len(q) + 1)
      /\ \A k \in 1..Len(q) : new[k] = q[k]
      /\ new[Len(q) + 1] = t
  BY EnqueueProperties
<1> HIDE DEF new
<1>2. \A k \in 1..Len(q) : q[k] # t
  BY DEF Contains
<1>3. \A k \in DOMAIN new : k \in 1..Len(q) \/ k = Len(q) + 1
  BY <1>1
<1>4. Once(new)
  BY <1>1, <1>2, <1>3 DEF Once
<1> QED
  BY <1>4 DEF new

(* Removing the k-th node. *)
LEMMA RemoveProperties ==
  ASSUME NEW q \in Seq(Threads), NEW k \in DOMAIN q
  PROVE  /\ RemoveAt(q, k) \in Seq(Threads)
         /\ \A x : x # q[k] => (Contains(RemoveAt(q, k), x) <=> Contains(q, x))
         /\ \A x : Contains(RemoveAt(q, k), x) => Contains(q, x)
         /\ Once(q) => Once(RemoveAt(q, k)) /\ ~Contains(RemoveAt(q, k), q[k])
<1> DEFINE rest == RemoveAt(q, k)
           At(m) == IF m < k THEN m ELSE m + 1
<1>1. DOMAIN q = 1..Len(q) /\ Len(q) \in Nat /\ k \in 1..Len(q)
  BY LenProperties
<1>2. /\ rest \in Seq(Threads) /\ Len(rest) = Len(q) - 1
      /\ \A m \in 1..(Len(q) - 1) : rest[m] = IF m < k THEN q[m] ELSE q[m + 1]
  BY <1>1, RemoveAtProperties
<1> HIDE DEF rest
<1>3. DOMAIN rest = 1..(Len(q) - 1)
  BY <1>2, LenProperties
<1>4. ASSUME NEW m \in DOMAIN rest
      PROVE  At(m) \in 1..Len(q) /\ At(m) # k /\ rest[m] = q[At(m)]
  BY <1>1, <1>2, <1>3
<1>5. ASSUME NEW m \in DOMAIN rest, NEW n \in DOMAIN rest, At(m) = At(n)
      PROVE  m = n
  BY <1>1, <1>3, <1>5
<1>6. ASSUME NEW m \in 1..Len(q), m # k
      PROVE  \E n \in DOMAIN rest : m = At(n)
  <2>1. CASE m < k
    <3>1. m \in DOMAIN rest /\ m = At(m)
      BY <1>1, <1>3, <2>1
    <3> QED
      BY <3>1
  <2>2. CASE m > k
    <3>1. m - 1 \in DOMAIN rest /\ m = At(m - 1)
      BY <1>1, <1>3, <2>2
    <3> QED
      BY <3>1
  <2> QED
    BY <1>1, <1>6, <2>1, <2>2
<1> HIDE DEF At
<1>7. \A x : Contains(rest, x) <=> \E m \in DOMAIN rest : rest[m] = x
  BY <1>2, ContainsElement
<1>8. \A x : Contains(rest, x) => Contains(q, x)
  BY <1>4, <1>7 DEF Contains
<1>9. ASSUME NEW x, x # q[k], Contains(q, x) PROVE Contains(rest, x)
  <2>1. PICK m \in 1..Len(q) : q[m] = x
    BY <1>9 DEF Contains
  <2>2. PICK n \in DOMAIN rest : m = At(n)
    BY <1>6, <1>9, <2>1
  <2> QED
    BY <1>4, <1>7, <2>1, <2>2
<1>10. ASSUME Once(q) PROVE Once(rest) /\ ~Contains(rest, q[k])
  BY <1>1, <1>4, <1>5, <1>7, <1>10 DEF Once
<1> QED
  BY <1>2, <1>8, <1>9, <1>10 DEF rest

(* RemoveFromList takes out the first node with the id, if there is one. *)
LEMMA RemoveFromListCases ==
  ASSUME NEW q \in Seq(Threads), NEW n
  PROVE  \/ /\ RemoveFromList(n, q) = q
            /\ \A k \in DOMAIN q : id[q[k]] # n
         \/ \E k \in DOMAIN q : id[q[k]] = n /\ RemoveFromList(n, q) = RemoveAt(q, k)
<1> DEFINE hits == {k \in DOMAIN q : id[q[k]] = n}
<1>1. CASE hits = {}
  BY <1>1 DEF RemoveFromList
<1>2. CASE hits # {}
  <2>1. hits \in SUBSET Nat
    BY LenProperties
  <2>2. \E m \in hits : \A h \in hits : m <= h
    BY <1>2, <2>1, LeastNatural
  <2>3. Min(hits) \in hits
    BY <2>2 DEF Min
  <2> QED
    BY <1>2, <2>3 DEF RemoveFromList
<1> QED
  BY <1>1, <1>2

LEMMA RemoveFromListProperties ==
  ASSUME NEW q \in Seq(Threads), NEW n
  PROVE  /\ RemoveFromList(n, q) \in Seq(Threads)
         /\ \A x : id[x] # n =>
              (Contains(RemoveFromList(n, q), x) <=> Contains(q, x))
         /\ \A x : Contains(RemoveFromList(n, q), x) => Contains(q, x)
         /\ Once(q) => Once(RemoveFromList(n, q))
<1> DEFINE rest == RemoveFromList(n, q)
<1>1. rest = q \/ \E k \in DOMAIN q : id[q[k]] = n /\ rest = RemoveAt(q, k)
  BY RemoveFromListCases
<1> HIDE DEF rest
<1>2. CASE rest = q
  BY <1>2 DEF rest
<1>3. CASE \E k \in DOMAIN q : id[q[k]] = n /\ rest = RemoveAt(q, k)
  <2>1. PICK k \in DOMAIN q : id[q[k]] = n /\ rest = RemoveAt(q, k)
    BY <1>3
  <2> QED
    BY <2>1, RemoveProperties DEF rest
<1> QED
  BY <1>1, <1>2, <1>3

-----------------------------------------------------------------------------
(***************************************************************************)
(* The walk of Dispatch over thread_list.                                  *)
(***************************************************************************)
(* What the k-th step of the walk makes of the ready list. *)
WalkStep(k, q) ==
  IF Due(thread_list[k]) THEN thread_enqueue(thread_list[k], q)
  ELSE IF state[thread_list[k]] = "FINISHED"
       THEN RemoveFromList(id[thread_list[k]], q)
       ELSE q

(* To show where the walk ends it is enough to show, for each step, where it
   may be after it. *)
LEMMA WalkInduction ==
  ASSUME thread_list \in Seq(Threads), ready_list \in Seq(Threads),
         NEW P \in [0..Len(thread_list) -> SUBSET Seq(Threads)],
         ready_list \in P[0],
         \A k \in 1..Len(thread_list) : \A q \in P[k - 1] : WalkStep(k, q) \in P[k]
  PROVE  AfterWalk \in P[Len(thread_list)]
<1> DEFINE n == Len(thread_list)
           Def(after) == after = [k \in 0..n |->
              IF k = 0 THEN ready_list
              ELSE LET t == thread_list[k]  q == after[k - 1]
                   IN  IF Due(t) THEN thread_enqueue(t, q)
                       ELSE IF state[t] = "FINISHED" THEN RemoveFromList(id[t], q)
                       ELSE q]
           Step == [k \in 1..n |-> [q \in Seq(Threads) |-> WalkStep(k, q)]]
<1>1. n \in Nat /\ \A k \in 1..n : thread_list[k] \in Threads
  BY LenProperties, ElementOfSeq
<1>2. ASSUME NEW k \in 1..n, NEW q \in Seq(Threads)
      PROVE  WalkStep(k, q) \in Seq(Threads)
  BY <1>1, EnqueueProperties, RemoveFromListProperties DEF WalkStep
<1>3. Step \in [1..n -> [Seq(Threads) -> Seq(Threads)]]
  BY <1>2
<1>4. PICK f \in [0..n -> Seq(Threads)] :
        f[0] = ready_list /\ \A k \in 1..n : f[k] = Step[k][f[k - 1]]
  <2> DEFINE T == Seq(Threads)
  <2>1. n \in Nat /\ ready_list \in T /\ Step \in [1..n -> [T -> T]]
    BY <1>1, <1>3
  <2> HIDE DEF Step, n, T
  <2>2. \E f : MadeInSteps(f, n, T, ready_list, Step)
    BY ONLY <2>1, RecursionExists
  <2> QED
    BY <2>2 DEF T, MadeInSteps
<1>5. \A k \in 1..n : Step[k][f[k - 1]] = WalkStep(k, f[k - 1])
  <2> TAKE k \in 1..n
  <2>1. k - 1 \in 0..n
    BY <1>1
  <2>2. f[k - 1] \in Seq(Threads)
    BY <2>1
  <2> QED
    BY <2>2
<1>6. Def(f)
  <2>1. f = [k \in 0..n |-> IF k = 0 THEN ready_list ELSE WalkStep(k, f[k - 1])]
    <3> DEFINE g == [k \in 0..n |-> IF k = 0 THEN ready_list
                                    ELSE WalkStep(k, f[k - 1])]
    <3>1. ASSUME NEW k \in 0..n PROVE f[k] = g[k]
      <4>1. k = 0 \/ k \in 1..n
        BY <1>1
      <4> QED
        BY <1>4, <1>5, <4>1
    <3>2. DOMAIN f = 0..n /\ DOMAIN g = 0..n
      OBVIOUS
    <3>3. f = [k \in 0..n |-> f[k]] /\ g = [k \in 0..n |-> g[k]]
      BY <3>2
    <3> HIDE DEF g
    <3>4. f = g
      BY <3>1, <3>3
    <3> QED
      BY <3>4 DEF g
  <2> QED
    BY <2>1 DEF WalkStep
<1>7. AfterWalk = (CHOOSE after : Def(after))[n]
  BY DEF AfterWalk
<1> DEFINE g == CHOOSE after : Def(after)
<1>8. Def(g)
  <2> HIDE DEF Def
  <2> QED
    BY <1>6
<1>9. /\ g[0] = ready_list
      /\ \A k \in 1..n : g[k] = WalkStep(k, g[k - 1])
  <2> HIDE DEF g
  <2>1. g = [k \in 0..n |-> IF k = 0 THEN ready_list ELSE WalkStep(k, g[k - 1])]
    BY <1>8 DEF WalkStep
  <2>2. ASSUME NEW k \in 1..n PROVE g[k] = WalkStep(k, g[k - 1])
    <3>1. k \in 0..n /\ k # 0
      BY <1>1
    <3> HIDE DEF n, Def
    <3> QED
      BY <2>1, <3>1
  <2>3. 0 \in 0..n
    BY <1>1
  <2> HIDE DEF n, Def
  <2> QED
    BY <2>1, <2>2, <2>3
<1> DEFINE S == {k \in Nat : k <= n => g[k] \in P[k]}
<1> HIDE DEF g, Def, Step
<1>10. 0 \in S
  BY <1>9
<1>11. ASSUME NEW k \in Nat, k \in S PROVE k + 1 \in S
  <2> SUFFICES ASSUME k + 1 <= n PROVE g[k + 1] \in P[k + 1]
    OBVIOUS
  <2>1. g[k] \in P[k] /\ k + 1 \in 1..n /\ (k + 1) - 1 = k
    BY <1>1, <1>11
  <2>2. g[k + 1] = WalkStep(k + 1, g[k])
    BY <1>9, <2>1
  <2>3. \A q \in P[(k + 1) - 1] : WalkStep(k + 1, q) \in P[k + 1]
    BY <2>1
  <2> QED
    BY <2>1, <2>2, <2>3
<1>12. \A k \in Nat : k \in S
  <2> HIDE DEF S
  <2> QED
    BY <1>10, <1>11, Induction
<1> QED
  BY <1>1, <1>7, <1>12 DEF g

-----------------------------------------------------------------------------
(***************************************************************************)
(* The types, and who is RUNNING, whenever the timer fires.                *)
(***************************************************************************)
(* What scheduler() picks, and what it leaves of the list. *)
LEMMA PickProperties ==
  ASSUME TypeOK, NEW q \in Seq(Threads), NEW k \in Candidates(q)
  PROVE  /\ k \in DOMAIN q /\ q[k] \in Threads
         /\ AfterPick(q, k) \in Seq(Threads)
<1>1. k \in DOMAIN q
  BY DEF Candidates
<1>2. DOMAIN q = 1..Len(q) /\ Len(q) \in Nat /\ q[k] \in Threads
  BY <1>1, LenProperties, ElementOfSeq
<1>3. CASE scheduling_type = RR
  <2>1. q # <<>>
    BY <1>1, <1>2
  <2> QED
    BY <1>1, <1>2, <1>3, <2>1 DEF AfterPick, RR, LOT, FCFS, thread_dequeue
<1>4. CASE scheduling_type = LOT
  <2>1. RemoveAt(q, k) \in Seq(Threads)
    BY <1>1, RemoveProperties
  <2>2. thread_enqueue(q[k], RemoveAt(q, k)) \in Seq(Threads)
    BY <1>2, <2>1, EnqueueProperties
  <2> QED
    BY <1>1, <1>2, <1>4, <2>2 DEF AfterPick, RR, LOT, FCFS
<1>5. CASE scheduling_type = FCFS
  BY <1>1, <1>2, <1>5 DEF AfterPick, RR, LOT, FCFS
<1> QED
  BY <1>3, <1>4, <1>5 DEF TypeOK

LEMMA WalkType ==
  ASSUME TypeOK
  PROVE  /\ AfterWalk \in Seq(Threads)
         /\ current # 0 => current \in Threads /\ Requeued \in Seq(Threads)
<1> DEFINE n == Len(thread_list)
           P == [k \in 0..n |-> Seq(Threads)]
<1>1. thread_list \in Seq(Threads) /\ ready_list \in Seq(Threads) /\ n \in Nat
  BY LenProperties DEF TypeOK
<1>2. \A k \in 1..n : thread_list[k] \in Threads /\ k - 1 \in 0..n /\ k \in 0..n
  BY <1>1, ElementOfSeq
<1>3. /\ P \in [0..n -> SUBSET Seq(Threads)] /\ ready_list \in P[0]
      /\ \A k \in 1..n : \A q \in P[k - 1] : WalkStep(k, q) \in P[k]
  <2>1. P \in [0..n -> SUBSET Seq(Threads)] /\ ready_list \in P[0]
    BY <1>1
  <2>2. ASSUME NEW k \in 1..n, NEW q \in Seq(Threads)
        PROVE  WalkStep(k, q) \in Seq(Threads)
    BY <1>2, EnqueueProperties, RemoveFromListProperties DEF WalkStep
  <2> QED
    BY <1>2, <2>1, <2>2
<1> HIDE DEF P
<1>4. AfterWalk \in P[n]
  BY <1>1, <1>3, WalkInduction
<1>5. AfterWalk \in Seq(Threads)
  BY <1>1, <1>4 DEF P
<1>6. current # 0 => current \in Threads
  BY DEF TypeOK, Threads
<1>7. current # 0 => Requeued \in Seq(Threads)
  BY <1>5, <1>6, EnqueueProperties DEF Requeued
<1> QED
  BY <1>5, <1>6, <1>7

(* The calls that have a thread for their argument. *)
ArgumentIsThread ==
  \A t \in 0..MaxObjects :
    pc[t] \in {"create1", "create2", "create3", "suspend", "resume1", "resume2"}
      => arg[t] \in Threads

TypeInv == TypeOK /\ ArgumentIsThread

(* A dispatch, or Go: what is switched to is a thread of the list. *)
LEMMA SwitchType ==
  ASSUME TypeOK, NEW q \in Seq(Threads), NEW states \in [Threads -> States],
         Switch(q, states)
  PROVE  /\ current' \in 0..MaxObjects /\ ready_list' \in Seq(Threads)
         /\ state' \in [Threads -> States]
         /\ mode' \in {"running", "exited", "torn", "SIGFPE", "SIGSEGV"}
<1>1. CASE \E k \in Candidates(q) :
             /\ current' = q[k] /\ ready_list' = AfterPick(q, k)
             /\ state' = [states EXCEPT ![q[k]] = "RUNNING"] /\ mode' = mode
  <2>1. PICK k \in Candidates(q) :
             /\ current' = q[k] /\ ready_list' = AfterPick(q, k)
             /\ state' = [states EXCEPT ![q[k]] = "RUNNING"] /\ mode' = mode
    BY <1>1
  <2>2. q[k] \in Threads /\ AfterPick(q, k) \in Seq(Threads)
    BY PickProperties
  <2>3. q[k] \in 0..MaxObjects /\ "RUNNING" \in States
    BY <2>2, BoundsAssumption DEF Threads, States
  <2> QED
    BY <2>1, <2>2, <2>3 DEF TypeOK
<1>2. CASE /\ mode' = IF scheduling_type = LOT THEN "SIGFPE" ELSE "SIGSEGV"
           /\ ready_list' = q /\ state' = states /\ current' = current
  BY <1>2 DEF TypeOK
<1> QED
  BY <1>1, <1>2 DEF Switch

LEMMA DispatchType ==
  ASSUME TypeInv, Dispatch, pc' \in [0..MaxObjects -> Pcs],
         interrupted' \in BOOLEAN,
         \A t \in 0..MaxObjects : pc'[t] = pc[t] \/ pc'[t] = "idle"
  PROVE  TypeInv'
<1>1. TypeOK /\ current \in Threads /\ Requeued \in Seq(Threads)
  BY WalkType DEF TypeInv, Dispatch
<1>2. StateAfterWalk \in [Threads -> States]
  BY <1>1 DEF StateAfterWalk, TypeOK, States
<1>3. Switch(Requeued, StateAfterWalk)
  BY DEF Dispatch
<1>4. /\ current' \in 0..MaxObjects /\ ready_list' \in Seq(Threads)
      /\ state' \in [Threads -> States]
      /\ mode' \in {"running", "exited", "torn", "SIGFPE", "SIGSEGV"}
  BY <1>1, <1>2, <1>3, SwitchType
<1>5. /\ scheduling_type' = scheduling_type /\ thread_list' = thread_list
      /\ id' = id /\ next_thread' = next_thread /\ allocated' = allocated
      /\ wakeIn' = wakeIn /\ arg' = arg
  BY DEF Dispatch, names
<1>6. TypeOK'
  BY <1>1, <1>4, <1>5 DEF TypeOK
<1>7. ArgumentIsThread'
  BY <1>5 DEF TypeInv, ArgumentIsThread
<1> QED
  BY <1>6, <1>7 DEF TypeInv

LEMMA TypeInit == ASSUME Init PROVE TypeInv
<1>1. thread_list \in Seq(Threads) /\ ready_list \in Seq(Threads)
  BY DEF Init
<1>2. 0 \in 0..MaxObjects
  BY BoundsAssumption
<1>3. scheduling_type \in {RR, LOT, FCFS}
  BY SchedulesAssumption DEF Init
<1>4. TypeOK
  <2>1. state \in [Threads -> States] /\ pc \in [0..MaxObjects -> Pcs]
    BY DEF Init, States, Pcs
  <2>2. id \in [0..MaxObjects -> Int] /\ wakeIn \in [Threads -> Nat]
    BY DEF Init
  <2>3. arg \in [0..MaxObjects -> Nat]
    BY DEF Init
  <2> QED
    BY <1>1, <1>2, <1>3, <2>1, <2>2, <2>3 DEF Init, TypeOK
<1>5. ArgumentIsThread
  BY DEF Init, ArgumentIsThread
<1> QED
  BY <1>4, <1>5 DEF TypeInv

(* The steps of a call leave the types alone. *)
LEMMA TypeStep ==
  ASSUME TypeInv, [Next]_vars
  PROVE  TypeInv'
<1>0. /\ TypeOK /\ ArgumentIsThread
      /\ 0 \in 0..MaxObjects /\ current \in 0..MaxObjects
      /\ Threads \subseteq 0..MaxObjects
      /\ \A t \in 0..MaxObjects : t \in Threads \/ t = 0
  BY BoundsAssumption DEF TypeInv, TypeOK, Threads
<1>1. CASE Timer
  <2>1. interrupted' \in BOOLEAN
    BY <1>0, <1>1 DEF Timer, TypeOK
  <2> QED
    BY <1>0, <1>1, <2>1, DispatchType DEF Timer, TypeOK
<1>2. CASE YieldCPU
  <2>1. /\ pc' \in [0..MaxObjects -> Pcs]
        /\ \A t \in 0..MaxObjects : pc'[t] = pc[t] \/ pc'[t] = "idle"
    BY <1>0, <1>2 DEF YieldCPU, TypeOK, Pcs
  <2>2. interrupted' \in BOOLEAN
    BY <1>0, <1>2 DEF YieldCPU, TypeOK
  <2> QED
    BY <1>2, <2>1, <2>2, DispatchType DEF YieldCPU
<1>3. CASE Go
  <2>1. Switch(ready_list, state)
    BY <1>3 DEF Go
  <2>2. /\ current' \in 0..MaxObjects /\ ready_list' \in Seq(Threads)
        /\ state' \in [Threads -> States]
        /\ mode' \in {"running", "exited", "torn", "SIGFPE", "SIGSEGV"}
    BY <1>0, <2>1, SwitchType DEF TypeOK
  <2> QED
    BY <1>0, <1>3, <2>2 DEF Go, names, TypeInv, TypeOK, ArgumentIsThread
<1>4. CASE CleanUp
  BY <1>0, <1>4 DEF CleanUp, names, TypeInv, TypeOK, ArgumentIsThread
<1>5. CASE Tick
  BY <1>0, <1>5 DEF Tick, names, TypeInv, TypeOK, ArgumentIsThread
<1>6. CASE CreateAllocate
  <2>1. allocated' \in Threads /\ allocated' \in 0..MaxObjects
    BY <1>0, <1>6, BoundsAssumption DEF CreateAllocate, TypeOK, Threads
  <2>2. wakeIn' \in [Threads -> Nat]
    BY <1>0, <1>6, StaleAssumption DEF CreateAllocate, TypeOK
  <2>3. id' \in [0..MaxObjects -> Int] /\ arg' \in [0..MaxObjects -> Nat]
    BY <1>0, <1>6, <2>1 DEF CreateAllocate, TypeOK
  <2>4. TypeOK'
    BY <1>0, <1>6, <2>1, <2>2, <2>3 DEF CreateAllocate, Call, TypeOK, Pcs
  <2>5. ArgumentIsThread'
    BY <1>0, <1>6, <2>1 DEF CreateAllocate, Call, TypeOK, ArgumentIsThread
  <2> QED
    BY <2>4, <2>5 DEF TypeInv
<1>7. CASE CreateCount
  <2>1. arg[current] \in Threads
    BY <1>0, <1>7 DEF CreateCount, Call, ArgumentIsThread
  <2>2. TypeOK'
    BY <1>0, <1>7, <2>1 DEF CreateCount, Call, TypeOK, Pcs, States
  <2>3. ArgumentIsThread'
    BY <1>0, <1>7 DEF CreateCount, Call, TypeOK, ArgumentIsThread
  <2> QED
    BY <2>2, <2>3 DEF TypeInv
<1>8. CASE CreateEnqueue
  <2>1. arg[current] \in Threads
    BY <1>0, <1>8 DEF CreateEnqueue, Call, ArgumentIsThread
  <2>2. ready_list' \in Seq(Threads)
    BY <1>0, <1>8, <2>1, EnqueueProperties DEF CreateEnqueue, TypeOK
  <2>3. TypeOK'
    BY <1>0, <1>8, <2>2 DEF CreateEnqueue, Call, names, TypeOK, Pcs
  <2>4. ArgumentIsThread'
    BY <1>0, <1>8 DEF CreateEnqueue, Call, TypeOK, ArgumentIsThread
  <2> QED
    BY <2>3, <2>4 DEF TypeInv
<1>9. CASE CreateRegister
  <2>1. arg[current] \in Threads
    BY <1>0, <1>9 DEF CreateRegister, ArgumentIsThread
  <2>2. thread_list' \in Seq(Threads)
    BY <1>0, <1>9, <2>1, EnqueueProperties DEF CreateRegister, TypeOK
  <2>3. TypeOK'
    BY <1>0, <1>9, <2>2 DEF CreateRegister, ArgDone, names, TypeOK, Pcs
  <2>4. ArgumentIsThread'
    BY <1>0, <1>9 DEF CreateRegister, ArgDone, TypeOK, ArgumentIsThread
  <2> QED
    BY <2>3, <2>4 DEF TypeInv
<1>10. ASSUME NEW t \in Threads, DeleteThread(t) PROVE TypeInv'
  <2>1. TypeOK'
    BY <1>0, <1>10 DEF DeleteThread, Call, names, TypeOK, Pcs, States
  <2>2. ArgumentIsThread'
    BY <1>0, <1>10 DEF DeleteThread, Call, TypeOK, ArgumentIsThread
  <2> QED
    BY <2>1, <2>2 DEF TypeInv
<1>11. ASSUME NEW t \in Threads, SuspendThread(t) PROVE TypeInv'
  <2>0. t \in Nat
    BY DEF Threads
  <2>1. TypeOK'
    BY <1>0, <1>11, <2>0 DEF SuspendThread, Call, names, TypeOK, Pcs, States
  <2>2. ArgumentIsThread'
    BY <1>0, <1>11 DEF SuspendThread, Call, TypeOK, ArgumentIsThread
  <2> QED
    BY <2>1, <2>2 DEF TypeInv
<1>12. ASSUME NEW t \in Threads, ResumeThread(t) PROVE TypeInv'
  <2>0. t \in Nat
    BY DEF Threads
  <2>1. TypeOK'
    BY <1>0, <1>12, <2>0 DEF ResumeThread, Call, names, TypeOK, Pcs
  <2>2. ArgumentIsThread'
    BY <1>0, <1>12 DEF ResumeThread, Call, TypeOK, ArgumentIsThread
  <2> QED
    BY <2>1, <2>2 DEF TypeInv
<1>13. CASE SuspendRemove
  <2>1. ready_list' \in Seq(Threads)
    BY <1>0, <1>13, RemoveFromListProperties DEF SuspendRemove, TypeOK
  <2>2. TypeOK'
    BY <1>0, <1>13, <2>1 DEF SuspendRemove, Call, ArgDone, names, TypeOK, Pcs
  <2>3. ArgumentIsThread'
    BY <1>0, <1>13
    DEF SuspendRemove, Call, ArgDone, TypeOK, ArgumentIsThread
  <2> QED
    BY <2>2, <2>3 DEF TypeInv
<1>14. CASE ResumeEnqueue
  <2>1. arg[current] \in Threads
    BY <1>0, <1>14 DEF ResumeEnqueue, Call, ArgumentIsThread
  <2>2. ready_list' \in Seq(Threads)
    BY <1>0, <1>14, <2>1, EnqueueProperties DEF ResumeEnqueue, TypeOK
  <2>3. TypeOK'
    BY <1>0, <1>14, <2>2 DEF ResumeEnqueue, Call, names, TypeOK, Pcs
  <2>4. ArgumentIsThread'
    BY <1>0, <1>14 DEF ResumeEnqueue, Call, TypeOK, ArgumentIsThread
  <2> QED
    BY <2>3, <2>4 DEF TypeInv
<1>15. CASE ResumeMark
  <2>1. TypeOK'
    BY <1>0, <1>15 DEF ResumeMark, Call, ArgDone, names, TypeOK, Pcs, States
  <2>2. ArgumentIsThread'
    BY <1>0, <1>15 DEF ResumeMark, Call, ArgDone, TypeOK, ArgumentIsThread
  <2> QED
    BY <2>1, <2>2 DEF TypeInv
<1>16. ASSUME NEW time \in SleepTimes, SleepThread(time) PROVE TypeInv'
  <2>0. time \in Nat
    BY SleepAssumption
  <2>1. TypeOK'
    BY <1>0, <1>16, <2>0 DEF SleepThread, Call, names, TypeOK, Pcs, States
  <2>2. ArgumentIsThread'
    BY <1>0, <1>16 DEF SleepThread, Call, TypeOK, ArgumentIsThread
  <2> QED
    BY <2>1, <2>2 DEF TypeInv
<1>17. CASE SleepUntil
  <2>1. TypeOK'
    BY <1>0, <1>17 DEF SleepUntil, Call, ArgDone, names, TypeOK, Pcs
  <2>2. ArgumentIsThread'
    BY <1>0, <1>17 DEF SleepUntil, Call, ArgDone, TypeOK, ArgumentIsThread
  <2> QED
    BY <2>1, <2>2 DEF TypeInv
<1>18. CASE SleepRemove
  <2>1. ready_list' \in Seq(Threads)
    BY <1>0, <1>18, RemoveFromListProperties DEF SleepRemove, TypeOK
  <2>2. TypeOK'
    BY <1>0, <1>18, <2>1 DEF SleepRemove, Call, names, TypeOK, Pcs
  <2>3. ArgumentIsThread'
    BY <1>0, <1>18 DEF SleepRemove, Call, TypeOK, ArgumentIsThread
  <2> QED
    BY <2>2, <2>3 DEF TypeInv
<1>19. CASE UNCHANGED vars
  BY <1>0, <1>19 DEF vars, TypeInv, TypeOK, ArgumentIsThread
<1>20. CASE TimerTears
  BY <1>0, <1>20 DEF TimerTears, names, TypeInv, TypeOK, ArgumentIsThread
<1> QED
  BY <1>1, <1>2, <1>3, <1>4, <1>5, <1>6, <1>7, <1>8, <1>9, <1>10, <1>11,
     <1>12, <1>13, <1>14, <1>15, <1>16, <1>17, <1>18, <1>19, <1>20
  DEF Next, Signal, Continue

(* Every variable keeps its type, and so do the arguments of the calls that are
   under way: on whatever signal, and whatever the thread calls. *)
THEOREM TypeCorrect == Spec => []TypeOK
<1>1. TypeInv /\ [Next]_vars => TypeInv'
  BY TypeStep
<1>2. Init => TypeInv
  BY TypeInit
<1>3. TypeInv => TypeOK
  BY DEF TypeInv
<1> QED
  BY <1>1, <1>2, <1>3, PTL DEF Spec

LEMMA TypeAlways == Spec => []TypeInv
<1>1. TypeInv /\ [Next]_vars => TypeInv'
  BY TypeStep
<1>2. Init => TypeInv
  BY TypeInit
<1> QED
  BY <1>1, <1>2, PTL DEF Spec

(* Whichever thread is switched to is the only one that runs afterwards. *)
LEMMA SwitchRuns ==
  ASSUME TypeOK, NEW q \in Seq(Threads), NEW states \in [Threads -> States],
         \A t \in Threads : states[t] # "RUNNING", Switch(q, states)
  PROVE  AtMostOneRunning'
<1>1. CASE \E k \in Candidates(q) :
             /\ current' = q[k]
             /\ state' = [states EXCEPT ![q[k]] = "RUNNING"]
  BY <1>1, PickProperties DEF AtMostOneRunning
<1>2. CASE state' = states
  BY <1>2 DEF AtMostOneRunning
<1> QED
  BY <1>1, <1>2 DEF Switch

LEMMA RunningStep ==
  ASSUME TypeInv, AtMostOneRunning, [Next]_vars
  PROVE  AtMostOneRunning'
<1>0. /\ TypeOK /\ ArgumentIsThread /\ state \in [Threads -> States]
      /\ current \in 0..MaxObjects /\ 0 \notin Threads
  BY DEF TypeInv, TypeOK, Threads
<1>1. ASSUME Dispatch PROVE AtMostOneRunning'
  <2>1. Requeued \in Seq(Threads) /\ Switch(Requeued, StateAfterWalk)
    BY <1>0, <1>1, WalkType DEF Dispatch
  <2>2. /\ StateAfterWalk \in [Threads -> States]
        /\ \A t \in Threads : StateAfterWalk[t] # "RUNNING"
    BY <1>0 DEF StateAfterWalk, States, AtMostOneRunning
  <2> QED
    BY <1>0, <2>1, <2>2, SwitchRuns
<1>2. CASE Go
  <2>1. Switch(ready_list, state) /\ \A t \in Threads : state[t] # "RUNNING"
    BY <1>0, <1>2 DEF Go, AtMostOneRunning
  <2> QED
    BY <1>0, <2>1, SwitchRuns DEF TypeOK
<1>3. CASE UNCHANGED <<state, current>>
  BY <1>3 DEF AtMostOneRunning
<1>4. ASSUME \E t : \E new \in States \ {"RUNNING"} :
               state' = [state EXCEPT ![t] = new] /\ current' = current
      PROVE  AtMostOneRunning'
  BY <1>0, <1>4 DEF AtMostOneRunning
<1>5. CASE CreateAllocate \/ CreateEnqueue \/ CreateRegister \/ CleanUp \/ Tick
           \/ TimerTears \/ SuspendRemove \/ ResumeEnqueue \/ SleepUntil \/ SleepRemove
           \/ (\E t \in Threads : ResumeThread(t)) \/ UNCHANGED vars
  BY <1>3, <1>5
  DEF CreateAllocate, CreateEnqueue, CreateRegister, CleanUp, Tick, TimerTears,
      SuspendRemove, ResumeEnqueue, SleepUntil, SleepRemove, ResumeThread, Call, vars
<1>6. CASE CreateCount \/ ResumeMark
  <2>1. state' = [state EXCEPT ![arg[current]] = "READY"] /\ current' = current
    BY <1>6 DEF CreateCount, ResumeMark, Call
  <2>2. "READY" \in States \ {"RUNNING"}
    BY DEF States
  <2> QED
    BY <1>4, <2>1, <2>2
<1>7. ASSUME NEW t \in Threads, DeleteThread(t) \/ SuspendThread(t)
      PROVE  AtMostOneRunning'
  <2>1. /\ \/ state' = [state EXCEPT ![t] = "FINISHED"]
           \/ state' = [state EXCEPT ![t] = "SUSPENDED"]
        /\ current' = current
    BY <1>7 DEF DeleteThread, SuspendThread, Call
  <2>2. {"FINISHED", "SUSPENDED"} \subseteq States \ {"RUNNING"}
    BY DEF States
  <2> QED
    BY <1>4, <2>1, <2>2
<1>8. ASSUME NEW time \in SleepTimes, SleepThread(time)
      PROVE  AtMostOneRunning'
  <2>1. state' = [state EXCEPT ![current] = "SLEEPING"] /\ current' = current
    BY <1>8 DEF SleepThread, Call
  <2>2. "SLEEPING" \in States \ {"RUNNING"}
    BY DEF States
  <2> QED
    BY <1>4, <2>1, <2>2
<1> QED
  BY <1>1, <1>2, <1>5, <1>6, <1>7, <1>8 DEF Next, Signal, Continue, Timer, YieldCPU

(* However the timer interrupts the calls, at most one thread is RUNNING, and it
   is the one that current names. *)
THEOREM OneRunning == Spec => []AtMostOneRunning
<1>1. TypeInv /\ AtMostOneRunning /\ [Next]_vars => AtMostOneRunning'
  BY RunningStep
<1>2. Init => AtMostOneRunning
  BY DEF Init, AtMostOneRunning
<1> QED
  BY <1>1, <1>2, TypeAlways, PTL DEF Spec

-----------------------------------------------------------------------------
(***************************************************************************)
(* What holds until the timer interrupts a call.                           *)
(***************************************************************************)
(* Only the running thread is in a call; main() creates, and nothing else. *)
Solo ==
  /\ ~interrupted
  /\ \A t \in 0..MaxObjects : t # current => pc[t] = "idle"
  /\ current = 0 => pc[0] \in {"idle", "create1", "create2", "create3"}

(* An id is given out once, and the lists hold threads that exist. *)
Numbered ==
  /\ id[0] = -1 /\ \A t \in Threads : t <= allocated => id[t] = t - 1
  /\ next_thread = IF pc[current] = "create1" THEN allocated - 1 ELSE allocated
  /\ current <= allocated
  /\ \A t \in Threads : t > allocated =>
       state[t] = "NONE" /\ ~Contains(thread_list, t) /\ ~Contains(ready_list, t)

NoDuplicates == Once(thread_list) /\ Once(ready_list)

(* Who can be scheduled is in the ready list ... *)
ReadyListed ==
  \A t \in Threads :
    \/ state[t] = "READY"
    \/ state[t] = "RUNNING" /\ scheduling_type # RR
    => \/ Contains(ready_list, t)
       \/ pc[current] = "create2" /\ t = arg[current]

(* ... and who is in it can be scheduled, or is about to leave it or to be
   marked, by the call that is under way. *)
ListedReady ==
  \A t \in Threads : Contains(ready_list, t) =>
    \/ state[t] \in {"READY", "FINISHED"}
    \/ scheduling_type # RR /\ t = current /\ state[t] = "RUNNING"
    \/ pc[current] \in {"suspend", "resume2"} /\ t = arg[current]
    \/ pc[current] \in {"sleep1", "sleep2"} /\ t = current

(* What the call that is under way has done so far. *)
Underway ==
  LET a == arg[current]
  IN  /\ pc[current] \in {"create1", "create2", "create3", "suspend",
                          "resume1", "resume2"} => a <= allocated
      /\ pc[current] = "create1" => state[a] = "NONE"
      /\ pc[current] = "create2" => state[a] = "READY"
      /\ pc[current] \in {"create1", "create2"} => ~Contains(ready_list, a)
      /\ pc[current] \in {"create1", "create2", "create3"} =>
           ~Contains(thread_list, a)
      /\ pc[current] \in {"suspend", "resume1", "resume2"} =>
           state[a] = "SUSPENDED"
      /\ pc[current] = "resume2" => Contains(ready_list, a)

(* The current thread is RUNNING unless the call it is in has taken that away. *)
CurrentRuns ==
  mode \in {"running", "exited"} /\ current # 0 =>
    CASE pc[current] = "yield" ->
           state[current] \in {"FINISHED", "SUSPENDED", "SLEEPING"}
      [] pc[current] \in {"sleep1", "sleep2"} -> state[current] = "SLEEPING"
      [] pc[current] = "suspend" /\ arg[current] = current ->
           state[current] = "SUSPENDED"
      [] OTHER -> state[current] = "RUNNING"

(* A process that has died does not go on with a call. *)
Stopped == mode # "running" => pc[current] = "idle"

CallInv == /\ Solo /\ Numbered /\ NoDuplicates /\ ReadyListed /\ ListedReady
           /\ Underway /\ CurrentRuns /\ Stopped

-----------------------------------------------------------------------------
(***************************************************************************)
(* The list operations under the invariant.                                *)
(***************************************************************************)
(* A list of threads that exist, each once. *)
ListOf(q) ==
  /\ q \in Seq(Threads) /\ Once(q)
  /\ \A t \in Threads : Contains(q, t) => t <= allocated

LEMMA ElementsAreThreads ==
  ASSUME NEW q \in Seq(Threads), NEW x, Contains(q, x)
  PROVE  x \in Threads
BY LenProperties, ElementOfSeq DEF Contains

LEMMA ListsAreLists ==
  ASSUME TypeOK, Numbered, NoDuplicates
  PROVE  ListOf(thread_list) /\ ListOf(ready_list)
<1>1. allocated \in Nat /\ \A t \in Threads : t \in Nat
  BY DEF TypeOK, Threads
<1> QED
  BY <1>1 DEF TypeOK, Numbered, NoDuplicates, ListOf

(* Two threads that exist have different ids, and none has main's. *)
LEMMA DifferentIds ==
  ASSUME TypeOK, Numbered,
         NEW x \in Threads, NEW y \in Threads, x <= allocated, y <= allocated
  PROVE  /\ id[x] = id[y] <=> x = y
         /\ id[x] # id[0]
<1>1. x \in Nat /\ y \in Nat /\ x > 0 /\ y > 0
  BY DEF Threads
<1>2. id[x] = x - 1 /\ id[y] = y - 1 /\ id[0] = -1
  BY DEF Numbered
<1> QED
  BY <1>1, <1>2

LEMMA EnqueueToList ==
  ASSUME NEW q, ListOf(q), NEW t \in Threads, t <= allocated, ~Contains(q, t)
  PROVE  ListOf(thread_enqueue(t, q))
BY EnqueueProperties, EnqueueOnce DEF ListOf

(* RemoveFromList takes out the thread it is called for and nothing else. *)
LEMMA RemoveFromListOf ==
  ASSUME TypeOK, Numbered, NEW q, ListOf(q),
         NEW t \in Threads, t <= allocated
  PROVE  /\ ListOf(RemoveFromList(id[t], q))
         /\ \A x : Contains(RemoveFromList(id[t], q), x) <=>
                     Contains(q, x) /\ x # t
<1> DEFINE rest == RemoveFromList(id[t], q)
<1>1. ASSUME NEW x \in Threads, Contains(q, x), id[x] = id[t] PROVE x = t
  BY <1>1, DifferentIds DEF ListOf
<1>2. q \in Seq(Threads) /\ Once(q)
  BY DEF ListOf
<1>3. CASE rest = q /\ \A k \in DOMAIN q : id[q[k]] # id[t]
  <2>1. ~Contains(q, t)
    BY <1>2, <1>3, ContainsElement
  <2> QED
    BY <1>3, <2>1
<1>4. CASE \E k \in DOMAIN q : id[q[k]] = id[t] /\ rest = RemoveAt(q, k)
  <2>1. PICK k \in DOMAIN q : id[q[k]] = id[t] /\ rest = RemoveAt(q, k)
    BY <1>4
  <2>2. Contains(q, q[k])
    BY <1>2, ContainsElement
  <2>3. q[k] = t
    BY <1>1, <1>2, <2>1, <2>2, ElementsAreThreads
  <2> HIDE DEF rest
  <2>4. /\ rest \in Seq(Threads) /\ Once(rest)
        /\ \A x : Contains(rest, x) <=> Contains(q, x) /\ x # t
    BY <1>2, <2>1, <2>3, RemoveProperties
  <2>5. ListOf(rest)
    BY <2>4 DEF ListOf
  <2> QED
    BY <2>4, <2>5 DEF rest
<1>5. \/ rest = q /\ \A k \in DOMAIN q : id[q[k]] # id[t]
      \/ \E k \in DOMAIN q : id[q[k]] = id[t] /\ rest = RemoveAt(q, k)
  BY <1>2, RemoveFromListCases
<1> QED
  BY <1>3, <1>4, <1>5

-----------------------------------------------------------------------------
(***************************************************************************)
(* The order of a list.                                                    *)
(***************************************************************************)
LEMMA OneIsBefore ==
  ASSUME NEW q \in Seq(Threads), NEW x, NEW y, x # y,
         Contains(q, x), Contains(q, y)
  PROVE  Before(q, x, y) \/ Before(q, y, x)
<1>1. DOMAIN q = 1..Len(q)
  BY LenProperties
<1>2. PICK h \in DOMAIN q : q[h] = x
  BY ContainsElement
<1>3. PICK k \in DOMAIN q : q[k] = y
  BY ContainsElement
<1>4. h < k \/ k < h
  BY <1>1, <1>2, <1>3
<1> QED
  BY <1>2, <1>3, <1>4 DEF Before

-----------------------------------------------------------------------------
(***************************************************************************)
(* Dispatch under the invariant.                                           *)
(***************************************************************************)
(* What the first k steps of the walk may have made of the ready list. *)
Walked(k) ==
  {q \in Seq(Threads) :
     /\ ListOf(q)
     /\ \A x \in Threads : Contains(q, x) =>
          \/ Contains(ready_list, x)
          \/ Due(x) /\ \E j \in 1..k : thread_list[j] = x
     /\ \A x \in Threads :
          Contains(ready_list, x) /\ state[x] # "FINISHED" => Contains(q, x)
     /\ \A j \in 1..k : Due(thread_list[j]) => Contains(q, thread_list[j])}

LEMMA WalkStepWalks ==
  ASSUME TypeOK, Numbered, NoDuplicates,
         \A t \in Threads : Contains(ready_list, t) => ~Due(t),
         NEW k \in 1..Len(thread_list), NEW q \in Walked(k - 1)
  PROVE  WalkStep(k, q) \in Walked(k)
<1> DEFINE t == thread_list[k]
<1>1. /\ thread_list \in Seq(Threads) /\ ListOf(thread_list)
      /\ ready_list \in Seq(Threads) /\ Len(thread_list) \in Nat
      /\ DOMAIN thread_list = 1..Len(thread_list)
  BY ListsAreLists, LenProperties DEF TypeOK
<1>2. t \in Threads /\ t <= allocated
  <2>1. t \in Threads /\ Contains(thread_list, t)
    BY <1>1, ElementOfSeq, ContainsElement
  <2> QED
    BY <1>1, <2>1 DEF ListOf
<1>3. \A j \in 1..k : j \in 1..(k - 1) \/ j = k
  BY <1>1
<1>4. 1..(k - 1) \subseteq 1..k /\ k \in 1..k
  BY <1>1
<1>5. \A j \in 1..(k - 1) : thread_list[j] # t
  <2>1. \A j \in 1..(k - 1) : j \in DOMAIN thread_list /\ j # k
    BY <1>1
  <2> QED
    BY <1>1, <2>1 DEF NoDuplicates, Once
<1>6. /\ q \in Seq(Threads) /\ ListOf(q)
      /\ \A x \in Threads : Contains(q, x) =>
           \/ Contains(ready_list, x)
           \/ Due(x) /\ \E j \in 1..(k - 1) : thread_list[j] = x
      /\ \A x \in Threads :
           Contains(ready_list, x) /\ state[x] # "FINISHED" => Contains(q, x)
      /\ \A j \in 1..(k - 1) : Due(thread_list[j]) => Contains(q, thread_list[j])
  BY DEF Walked
<1> HIDE DEF t
<1>7. CASE Due(t)
  <2> DEFINE new == thread_enqueue(t, q)
  <2>1. ~Contains(ready_list, t) /\ ~Contains(q, t)
    BY <1>2, <1>5, <1>6, <1>7
  <2>2. ListOf(new) /\ new \in Seq(Threads)
    BY <1>2, <1>6, <2>1, EnqueueToList DEF ListOf
  <2>3. \A x : Contains(new, x) <=> Contains(q, x) \/ x = t
    BY <1>2, <1>6, EnqueueProperties
  <2>5. WalkStep(k, q) = new
    BY <1>7 DEF WalkStep, t
  <2> HIDE DEF new
  <2>6. ASSUME NEW x \in Threads, Contains(new, x)
        PROVE  \/ Contains(ready_list, x)
               \/ Due(x) /\ \E j \in 1..k : thread_list[j] = x
    <3>1. CASE x = t
      BY <1>4, <1>7, <3>1 DEF t
    <3>2. CASE x # t
      BY <1>4, <1>6, <2>3, <2>6, <3>2
    <3> QED
      BY <3>1, <3>2
  <2>7. \A j \in 1..k : Due(thread_list[j]) => Contains(new, thread_list[j])
    BY <1>3, <1>6, <2>3 DEF t
  <2>8. \A x \in Threads :
          Contains(ready_list, x) /\ state[x] # "FINISHED" => Contains(new, x)
    BY <1>6, <2>3
  <2> QED
    BY <2>2, <2>5, <2>6, <2>7, <2>8 DEF Walked
<1>8. CASE ~Due(t) /\ state[t] = "FINISHED"
  <2> DEFINE new == RemoveFromList(id[t], q)
  <2>1. /\ ListOf(new) /\ new \in Seq(Threads)
        /\ \A x : Contains(new, x) <=> Contains(q, x) /\ x # t
    BY <1>2, <1>6, RemoveFromListOf DEF ListOf
  <2>2. WalkStep(k, q) = new
    BY <1>8 DEF WalkStep, t
  <2> HIDE DEF new
  <2>5. ASSUME NEW x \in Threads, Contains(new, x)
        PROVE  \/ Contains(ready_list, x)
               \/ Due(x) /\ \E j \in 1..k : thread_list[j] = x
    BY <1>4, <1>6, <2>1, <2>5
  <2>6. \A j \in 1..k : Due(thread_list[j]) => Contains(new, thread_list[j])
    BY <1>3, <1>5, <1>6, <1>8, <2>1 DEF t
  <2>7. \A x \in Threads :
          Contains(ready_list, x) /\ state[x] # "FINISHED" => Contains(new, x)
    BY <1>6, <1>8, <2>1
  <2> QED
    BY <2>1, <2>2, <2>5, <2>6, <2>7 DEF Walked
<1>9. CASE ~Due(t) /\ state[t] # "FINISHED"
  <2>1. WalkStep(k, q) = q
    BY <1>9 DEF WalkStep, t
  <2>2. \A j \in 1..k : Due(thread_list[j]) => Contains(q, thread_list[j])
    BY <1>3, <1>6, <1>9 DEF t
  <2>3. ASSUME NEW x \in Threads, Contains(q, x)
        PROVE  \/ Contains(ready_list, x)
               \/ Due(x) /\ \E j \in 1..k : thread_list[j] = x
    BY <1>4, <1>6, <2>3
  <2> QED
    BY <1>6, <2>1, <2>2, <2>3 DEF Walked
<1> QED
  BY <1>7, <1>8, <1>9

LEMMA WalkProperties ==
  ASSUME TypeOK, Numbered, NoDuplicates,
         \A t \in Threads : Contains(ready_list, t) => ~Due(t)
  PROVE  /\ ListOf(AfterWalk)
         /\ \A x \in Threads : Contains(AfterWalk, x) =>
              \/ Contains(ready_list, x)
              \/ Due(x) /\ Contains(thread_list, x)
         /\ \A x \in Threads :
              \/ Contains(ready_list, x) /\ state[x] # "FINISHED"
              \/ Due(x) /\ Contains(thread_list, x)
              => Contains(AfterWalk, x)
<1> DEFINE n == Len(thread_list)
           P == [k \in 0..n |-> Walked(k)]
<1>1. /\ thread_list \in Seq(Threads) /\ ready_list \in Seq(Threads)
      /\ n \in Nat /\ DOMAIN thread_list = 1..n
  BY LenProperties DEF TypeOK
<1>2. ready_list \in Walked(0)
  <2>1. ListOf(ready_list)
    BY ListsAreLists
  <2>2. 1..0 = {}
    OBVIOUS
  <2> QED
    BY <1>1, <2>1, <2>2 DEF Walked
<1>3. \A k \in 0..n : Walked(k) \in SUBSET Seq(Threads)
  BY DEF Walked
<1>4. /\ P \in [0..n -> SUBSET Seq(Threads)] /\ ready_list \in P[0]
      /\ \A k \in 1..n : \A q \in P[k - 1] : WalkStep(k, q) \in P[k]
  <2>1. \A k \in 1..n : k \in 0..n /\ k - 1 \in 0..n
    BY <1>1
  <2>2. P[0] = Walked(0) /\ \A k \in 1..n : P[k] = Walked(k) /\ P[k - 1] = Walked(k - 1)
    BY <1>1, <2>1
  <2>3. P \in [0..n -> SUBSET Seq(Threads)]
    BY <1>3
  <2> HIDE DEF P
  <2> QED
    BY <1>2, <2>2, <2>3, WalkStepWalks
<1>5. P[n] = Walked(n)
  BY <1>1
<1> HIDE DEF P
<1>6. AfterWalk \in Walked(n)
  BY <1>1, <1>4, <1>5, WalkInduction
<1>7. \A x : Contains(thread_list, x) <=> \E j \in 1..n : thread_list[j] = x
  BY <1>1, ContainsElement
<1> QED
  BY <1>6, <1>7 DEF Walked

(* Round robin takes its thread out of the list, the others keep it. *)
LEMMA DequeueRemovesFirst ==
  ASSUME NEW q \in Seq(Threads), q # <<>>
  PROVE  thread_dequeue(q) = RemoveAt(q, 1)
<1> DEFINE a == Tail(q)
           b == RemoveAt(q, 1)
<1>1. Len(q) \in Nat /\ Len(q) # 0 /\ 1 \in 1..Len(q)
  BY EmptySeq, LenProperties
<1>2. /\ b \in Seq(Threads) /\ Len(b) = Len(q) - 1
      /\ \A j \in 1..(Len(q) - 1) : b[j] = IF j < 1 THEN q[j] ELSE q[j + 1]
  BY <1>1, RemoveAtProperties
<1>3. /\ a \in Seq(Threads) /\ Len(a) = Len(q) - 1
      /\ \A j \in 1..(Len(q) - 1) : a[j] = q[j + 1]
  BY <1>1, HeadTailProperties
<1> HIDE DEF a, b
<1>4. \A j \in 1..(Len(q) - 1) : a[j] = b[j]
  BY <1>2, <1>3
<1>5. a = b
  BY <1>2, <1>3, <1>4, SeqEqual
<1> QED
  BY <1>5 DEF a, b, thread_dequeue

LEMMA PickFromList ==
  ASSUME TypeOK, NEW q, ListOf(q), NEW k \in Candidates(q)
  PROVE  /\ ListOf(AfterPick(q, k)) /\ Contains(q, q[k]) /\ q[k] \in Threads
         /\ \A x : Contains(AfterPick(q, k), x) <=>
                     Contains(q, x) /\ (scheduling_type = RR => x # q[k])
<1> DEFINE new == AfterPick(q, k)
<1>1. /\ q \in Seq(Threads) /\ Once(q) /\ k \in DOMAIN q /\ q[k] \in Threads
      /\ DOMAIN q = 1..Len(q) /\ Len(q) \in Nat
  BY PickProperties, LenProperties DEF ListOf
<1>2. Contains(q, q[k]) /\ q[k] <= allocated
  <2>1. Contains(q, q[k])
    BY <1>1, ContainsElement
  <2> QED
    BY <1>1, <2>1 DEF ListOf
<1> DEFINE rest == RemoveAt(q, k)
<1>3. /\ rest \in Seq(Threads) /\ ListOf(rest)
      /\ \A x : Contains(rest, x) <=> Contains(q, x) /\ x # q[k]
  <2>1. /\ rest \in Seq(Threads) /\ Once(rest)
        /\ \A x : Contains(rest, x) <=> Contains(q, x) /\ x # q[k]
    BY <1>1, RemoveProperties
  <2> HIDE DEF rest
  <2>2. ListOf(rest)
    BY <2>1 DEF ListOf
  <2> QED
    BY <2>1, <2>2
<1>4. CASE scheduling_type = RR
  <2>1. k = 1 /\ q # <<>>
    BY <1>1, <1>4 DEF Candidates, RR, LOT
  <2>2. new = rest
    BY <1>1, <1>4, <2>1, DequeueRemovesFirst DEF AfterPick, RR, LOT, FCFS
  <2> HIDE DEF new, rest
  <2>4. ListOf(new) /\ \A x : Contains(new, x) <=>
                        Contains(q, x) /\ (scheduling_type = RR => x # q[k])
    BY <1>3, <1>4, <2>2
  <2> QED
    BY <1>1, <1>2, <2>2, <2>4 DEF new
<1>5. CASE scheduling_type = LOT
  <2>1. new = thread_enqueue(q[k], rest)
    BY <1>5 DEF AfterPick, RR, LOT, FCFS
  <2> HIDE DEF new, rest
  <2>2. ~Contains(rest, q[k])
    BY <1>3
  <2>3. ListOf(new)
    BY <1>1, <1>2, <1>3, <2>1, <2>2, EnqueueToList
  <2>4. \A x : Contains(new, x) <=> Contains(rest, x) \/ x = q[k]
    BY <1>1, <1>3, <2>1, EnqueueProperties
  <2>5. \A x : Contains(new, x) <=>
                 Contains(q, x) /\ (scheduling_type = RR => x # q[k])
    BY <1>2, <1>3, <1>5, <2>4 DEF RR, LOT
  <2> QED
    BY <1>1, <1>2, <1>5, <2>3, <2>5 DEF new
<1>6. CASE scheduling_type = FCFS
  <2>1. new = q
    BY <1>6 DEF AfterPick, RR, LOT, FCFS
  <2> HIDE DEF new
  <2> QED
    BY <1>1, <1>2, <1>6, <2>1 DEF new, RR, FCFS
<1> QED
  BY <1>4, <1>5, <1>6 DEF TypeOK

(* With nobody to pick the list is empty, or nobody in it has a ticket. *)
LEMMA NobodyToPick ==
  ASSUME NEW q \in Seq(Threads), Candidates(q) = {}, NEW t \in Threads,
         Contains(q, t)
  PROVE  scheduling_type = LOT /\ priority[t] = 0
<1>1. /\ DOMAIN q = 1..Len(q) /\ Len(q) \in Nat
  BY LenProperties
<1>2. PICK k \in DOMAIN q : q[k] = t
  BY ContainsElement
<1>3. 1 \in DOMAIN q
  BY <1>1, <1>2
<1>4. scheduling_type = LOT
  BY <1>3 DEF Candidates
<1>5. ~(priority[q[k]] > 0)
  BY <1>2, <1>4 DEF Candidates
<1>6. priority[t] \in Nat
  BY PriorityAssumption
<1> QED
  BY <1>2, <1>4, <1>5, <1>6

(* The list and the states that scheduler() is given by Dispatch. *)
LEMMA RequeuedProperties ==
  ASSUME TypeInv, CallInv, current # 0, pc[current] \in {"idle", "yield"}
  PROVE  /\ ListOf(Requeued)
         /\ \A x \in Threads :
              Contains(Requeued, x) => StateAfterWalk[x] \in {"READY", "FINISHED"}
         /\ \A x \in Threads : StateAfterWalk[x] = "READY" => Contains(Requeued, x)
         /\ \A x \in Threads : x > allocated => StateAfterWalk[x] = "NONE"
<1>0. /\ TypeOK /\ Numbered /\ NoDuplicates /\ ReadyListed /\ ListedReady
      /\ current \in Threads /\ current <= allocated
      /\ state \in [Threads -> States] /\ AfterWalk \in Seq(Threads)
  BY WalkType DEF TypeInv, TypeOK, CallInv, Numbered
<1>1. ASSUME NEW t \in Threads, Contains(ready_list, t)
      PROVE  \/ state[t] \in {"READY", "FINISHED"}
             \/ scheduling_type # RR /\ t = current /\ state[t] = "RUNNING"
  BY <1>0, <1>1 DEF ListedReady
<1>2. \A t \in Threads : Contains(ready_list, t) => ~Due(t)
  BY <1>1 DEF Due
<1>3. /\ ListOf(AfterWalk)
      /\ \A x \in Threads : Contains(AfterWalk, x) =>
           \/ Contains(ready_list, x)
           \/ Due(x) /\ Contains(thread_list, x)
      /\ \A x \in Threads :
           \/ Contains(ready_list, x) /\ state[x] # "FINISHED"
           \/ Due(x) /\ Contains(thread_list, x)
           => Contains(AfterWalk, x)
  BY <1>0, <1>2, WalkProperties
<1>4. ASSUME NEW x \in Threads
      PROVE  StateAfterWalk[x] = IF \/ Due(x) /\ Contains(thread_list, x)
                                    \/ x = current /\ state[x] = "RUNNING"
                                 THEN "READY" ELSE state[x]
  BY DEF StateAfterWalk
<1>5. ASSUME NEW x \in Threads, x > allocated
      PROVE  StateAfterWalk[x] = "NONE"
  <2>1. state[x] = "NONE"
    BY <1>0, <1>5 DEF Numbered
  <2> QED
    BY <1>4, <2>1 DEF Due
<1>6. ASSUME NEW x \in Threads, Contains(AfterWalk, x)
      PROVE  StateAfterWalk[x] \in {"READY", "FINISHED"}
  <2>1. CASE Contains(ready_list, x)
    BY <1>1, <1>4, <2>1
  <2>2. CASE Due(x) /\ Contains(thread_list, x)
    BY <1>4, <2>2
  <2> QED
    BY <1>3, <1>6, <2>1, <2>2
<1>7. ASSUME NEW x \in Threads, StateAfterWalk[x] = "READY",
             ~(x = current /\ state[x] = "RUNNING" /\ scheduling_type = RR)
      PROVE  Contains(AfterWalk, x)
  <2>1. CASE Due(x) /\ Contains(thread_list, x)
    BY <1>3, <2>1
  <2>2. CASE ~(Due(x) /\ Contains(thread_list, x))
    <3>1. \/ state[x] = "READY"
          \/ state[x] = "RUNNING" /\ scheduling_type # RR
      BY <1>4, <1>7, <2>2
    <3>2. Contains(ready_list, x)
      BY <1>0, <3>1 DEF ReadyListed
    <3> QED
      BY <1>3, <3>1, <3>2
  <2> QED
    BY <2>1, <2>2
<1>8. CASE state[current] = "RUNNING" /\ scheduling_type = RR
  <2> DEFINE q   == AfterWalk
             new == thread_enqueue(current, q)
  <2>1. ~Contains(q, current)
    BY <1>0, <1>1, <1>3, <1>8 DEF Due
  <2>2. Requeued = new
    BY <1>8 DEF Requeued
  <2> HIDE DEF q, new
  <2>3. ListOf(new)
    BY <1>0, <1>3, <2>1, EnqueueToList DEF q, new
  <2>4. \A x : Contains(new, x) <=> Contains(q, x) \/ x = current
    BY <1>0, EnqueueProperties DEF q, new
  <2>6. \A x \in Threads :
          Contains(new, x) => StateAfterWalk[x] \in {"READY", "FINISHED"}
    BY <1>0, <1>4, <1>6, <1>8, <2>4 DEF q
  <2>7. \A x \in Threads : StateAfterWalk[x] = "READY" => Contains(new, x)
    BY <1>7, <2>4 DEF q
  <2> QED
    BY <1>5, <2>2, <2>3, <2>6, <2>7
<1>9. CASE ~(state[current] = "RUNNING" /\ scheduling_type = RR)
  <2>1. Requeued = AfterWalk
    BY <1>9 DEF Requeued
  <2>2. \A x \in Threads : StateAfterWalk[x] = "READY" => Contains(AfterWalk, x)
    BY <1>7, <1>9
  <2> QED
    BY <1>3, <1>5, <1>6, <2>1, <2>2
<1> QED
  BY <1>8, <1>9

LEMMA SwitchCalls ==
  ASSUME TypeInv, Solo, Numbered, NoDuplicates, mode = "running",
         pc[current] # "create1",
         NEW q, ListOf(q), NEW states \in [Threads -> States],
         \A x \in Threads : Contains(q, x) => states[x] \in {"READY", "FINISHED"},
         \A x \in Threads : states[x] = "READY" => Contains(q, x),
         \A x \in Threads : x > allocated => states[x] = "NONE",
         \A x \in Threads : states[x] # "RUNNING",
         Switch(q, states),
         UNCHANGED <<scheduling_type, thread_list, names, arg>>,
         \A t \in 0..MaxObjects : pc'[t] = "idle", ~interrupted'
  PROVE  CallInv'
<1>0. /\ TypeOK /\ allocated' = allocated /\ id' = id /\ next_thread' = next_thread
      /\ thread_list' = thread_list /\ scheduling_type' = scheduling_type
      /\ current \in 0..MaxObjects /\ 0 \in 0..MaxObjects /\ 0 \notin Threads
      /\ Threads \subseteq 0..MaxObjects /\ allocated \in 0..MaxObjects
      /\ ListOf(thread_list) /\ Once(q)
  <2>1. TypeOK /\ ListOf(thread_list) /\ Once(q)
    BY ListsAreLists DEF TypeInv, ListOf
  <2> QED
    BY <2>1, BoundsAssumption DEF TypeOK, names, Threads
<1> DEFINE n == current'
<1>1. ASSUME NEW k \in Candidates(q), n = q[k],
             ready_list' = AfterPick(q, k),
             state' = [states EXCEPT ![q[k]] = "RUNNING"], mode' = mode
      PROVE  CallInv'
  <2>1. /\ ListOf(ready_list') /\ Contains(q, n) /\ n \in Threads
        /\ \A x : Contains(ready_list', x) <=>
                    Contains(q, x) /\ (scheduling_type = RR => x # n)
    BY <1>0, <1>1, PickFromList
  <2>2. n <= allocated /\ n \in 0..MaxObjects /\ pc'[n] = "idle" /\ n # 0
    BY <1>0, <2>1 DEF ListOf
  <2>3. \A x \in Threads : state'[x] = IF x = n THEN "RUNNING" ELSE states[x]
    BY <1>1
  <2> HIDE DEF n
  <2>4. Solo'
    BY <2>2 DEF Solo, n
  <2>5. Numbered'
    <3>1. ASSUME NEW t \in Threads, t > allocated
          PROVE  /\ state'[t] = "NONE" /\ ~Contains(thread_list, t)
                 /\ ~Contains(ready_list', t)
      <4>1. t # n
        BY <1>0, <2>2, <3>1
      <4> QED
        BY <1>0, <2>1, <2>3, <3>1, <4>1 DEF Numbered, ListOf
    <3>2. next_thread = allocated
      BY DEF Numbered
    <3> QED
      BY <1>0, <2>2, <3>1, <3>2 DEF Numbered, n
  <2>6. NoDuplicates'
    BY <1>0, <2>1 DEF NoDuplicates, ListOf
  <2>7. ReadyListed'
    BY <1>0, <2>1, <2>3 DEF ReadyListed
  <2>8. ListedReady'
    BY <1>0, <2>1, <2>3 DEF ListedReady, n
  <2>9. Underway' /\ Stopped'
    BY <1>1, <2>2 DEF Underway, Stopped, n
  <2>10. CurrentRuns'
    BY <2>1, <2>2, <2>3 DEF CurrentRuns, n
  <2> QED
    BY <2>4, <2>5, <2>6, <2>7, <2>8, <2>9, <2>10 DEF CallInv
<1>2. CASE /\ mode' = IF scheduling_type = LOT THEN "SIGFPE" ELSE "SIGSEGV"
           /\ ready_list' = q /\ state' = states /\ n = current
  <2>1. pc'[n] = "idle"
    BY <1>0, <1>2
  <2>2. Solo'
    BY <1>0, <1>2 DEF Solo
  <2>3. Numbered'
    <3>1. ASSUME NEW t \in Threads, t > allocated
          PROVE  ~Contains(thread_list, t) /\ ~Contains(q, t)
      BY <1>0, <3>1 DEF ListOf, Threads
    <3> QED
      BY <1>0, <1>2, <2>1, <3>1 DEF Numbered
  <2>4. NoDuplicates' /\ ReadyListed' /\ ListedReady'
    BY <1>0, <1>2 DEF NoDuplicates, ReadyListed, ListedReady
  <2>5. Underway' /\ CurrentRuns' /\ Stopped'
    BY <1>2, <2>1 DEF Underway, CurrentRuns, Stopped
  <2> QED
    BY <2>2, <2>3, <2>4, <2>5 DEF CallInv
<1> QED
  BY <1>1, <1>2 DEF Switch

-----------------------------------------------------------------------------
(***************************************************************************)
(* The invariant holds, call by call.                                      *)
(***************************************************************************)
LEMMA CallInit == ASSUME Init PROVE CallInv
<1>1. /\ \A x : ~Contains(<<>>, x)
      /\ Once(<<>>)
  BY DEF Contains, Once
<1>2. 0 \in 0..MaxObjects /\ 0 \notin Threads
  BY BoundsAssumption DEF Threads
<1>3. Solo /\ Underway /\ Stopped /\ CurrentRuns
  BY <1>2 DEF Init, Solo, Underway, Stopped, CurrentRuns
<1>4. Numbered
  BY <1>1, <1>2 DEF Init, Numbered, Threads
<1>5. NoDuplicates /\ ReadyListed /\ ListedReady
  BY <1>1 DEF Init, NoDuplicates, ReadyListed, ListedReady
<1> QED
  BY <1>3, <1>4, <1>5 DEF CallInv

LEMMA DispatchCalls ==
  ASSUME TypeInv, AtMostOneRunning, CallInv, ~interrupted', Timer \/ YieldCPU
  PROVE  CallInv'
<1>1. /\ mode = "running" /\ current # 0 /\ pc[current] \in {"idle", "yield"}
      /\ Switch(Requeued, StateAfterWalk)
      /\ UNCHANGED <<scheduling_type, thread_list, names, arg>>
  BY DEF Timer, YieldCPU, Dispatch, CallInv, Solo
<1>2. \A t \in 0..MaxObjects : pc'[t] = "idle"
  BY <1>1 DEF Timer, YieldCPU, CallInv, Solo, TypeInv, TypeOK
<1>3. /\ ListOf(Requeued)
      /\ \A x \in Threads :
           Contains(Requeued, x) => StateAfterWalk[x] \in {"READY", "FINISHED"}
      /\ \A x \in Threads : StateAfterWalk[x] = "READY" => Contains(Requeued, x)
      /\ \A x \in Threads : x > allocated => StateAfterWalk[x] = "NONE"
  BY <1>1, RequeuedProperties
<1>4. /\ StateAfterWalk \in [Threads -> States]
      /\ \A x \in Threads : StateAfterWalk[x] # "RUNNING"
  BY DEF StateAfterWalk, States, AtMostOneRunning, TypeInv, TypeOK
<1> QED
  BY <1>1, <1>2, <1>3, <1>4, SwitchCalls DEF CallInv

LEMMA GoCalls ==
  ASSUME TypeInv, AtMostOneRunning, CallInv, ~interrupted', Go
  PROVE  CallInv'
<1>1. /\ mode = "running" /\ current = 0 /\ pc[current] = "idle"
      /\ Switch(ready_list, state)
      /\ UNCHANGED <<scheduling_type, thread_list, names, arg>>
      /\ pc' = pc /\ 0 \notin Threads /\ TypeOK
  BY DEF Go, Threads, TypeInv
<1>2. \A t \in 0..MaxObjects : pc'[t] = "idle"
  BY <1>1 DEF CallInv, Solo
<1>3. ListOf(ready_list)
  BY <1>1, ListsAreLists DEF CallInv
<1>4. \A x \in Threads : Contains(ready_list, x) => state[x] \in {"READY", "FINISHED"}
  BY <1>1 DEF CallInv, ListedReady
<1>5. \A x \in Threads : state[x] = "READY" => Contains(ready_list, x)
  BY <1>1 DEF CallInv, ReadyListed
<1>6. /\ \A x \in Threads : x > allocated => state[x] = "NONE"
      /\ \A x \in Threads : state[x] # "RUNNING"
  BY <1>1 DEF CallInv, Numbered, AtMostOneRunning
<1>7. state \in [Threads -> States]
  BY <1>1 DEF TypeOK
<1> QED
  BY <1>1, <1>2, <1>3, <1>4, <1>5, <1>6, <1>7, SwitchCalls DEF CallInv

(* What every step of a call leaves alone. *)
LEMMA CallFrame ==
  ASSUME TypeInv, CallInv, NEW from, NEW to, Call(from, to)
  PROVE  /\ mode = "running" /\ mode' = mode /\ current' = current
         /\ scheduling_type' = scheduling_type /\ thread_list' = thread_list
         /\ pc[current] = from /\ pc'[current] = to
         /\ current \in 0..MaxObjects /\ current \in Nat /\ allocated \in Nat
         /\ current # 0 => current \in Threads
         /\ 0 \notin Threads
         /\ Stopped'
         /\ (current = 0 => to \in {"idle", "create1", "create2", "create3"})
              => Solo'
         /\ TypeOK /\ ArgumentIsThread
         /\ Solo /\ Numbered /\ NoDuplicates /\ ReadyListed /\ ListedReady
         /\ Underway /\ CurrentRuns
         /\ Threads \subseteq Nat
         /\ state \in [Threads -> States]
         /\ \A t \in Threads : t \in 0..MaxObjects
         /\ arg[current] \in Nat
<1>1. /\ TypeOK /\ current \in 0..MaxObjects /\ pc \in [0..MaxObjects -> Pcs]
      /\ state \in [Threads -> States] /\ arg \in [0..MaxObjects -> Nat]
      /\ allocated \in 0..MaxObjects
  BY DEF TypeInv, TypeOK
<1>2. /\ pc'[current] = to /\ current' = current /\ interrupted' = interrupted
      /\ \A t \in 0..MaxObjects : t # current => pc'[t] = pc[t]
  BY <1>1 DEF Call
<1>3. (current = 0 => to \in {"idle", "create1", "create2", "create3"}) => Solo'
  BY <1>2 DEF Solo, CallInv
<1>4. Threads \subseteq Nat /\ 0 \notin Threads /\ (current # 0 => current \in Threads)
  BY <1>1 DEF Threads
<1> QED
  BY <1>1, <1>2, <1>3, <1>4 DEF Call, CallInv, Stopped, TypeInv, Threads

LEMMA CreateCalls ==
  ASSUME TypeInv, CallInv,
         CreateAllocate \/ CreateCount \/ CreateEnqueue \/ CreateRegister
  PROVE  CallInv'
<1>1. CASE CreateAllocate
  <2> DEFINE new == allocated + 1
  <2>1. Call("idle", "create1")
    BY <1>1 DEF CreateAllocate
  <2>2. /\ allocated' = new /\ id' = [id EXCEPT ![new] = next_thread]
        /\ arg' = [arg EXCEPT ![current] = new]
        /\ ready_list' = ready_list /\ state' = state /\ next_thread' = next_thread
        /\ allocated < MaxObjects
    BY <1>1 DEF CreateAllocate
  <2>3. /\ mode = "running" /\ current' = current
        /\ scheduling_type' = scheduling_type /\ thread_list' = thread_list
        /\ pc[current] = "idle" /\ pc'[current] = "create1"
        /\ current \in 0..MaxObjects /\ current \in Nat /\ allocated \in Nat
        /\ current # 0 => current \in Threads
        /\ Stopped' /\ Solo' /\ TypeOK /\ Numbered /\ NoDuplicates
        /\ ReadyListed /\ ListedReady /\ CurrentRuns /\ Threads \subseteq Nat
        /\ 0 \notin Threads
    BY <2>1, CallFrame
  <2>4. new \in Threads /\ new # 0 /\ new > allocated /\ new \in 0..MaxObjects
    BY <2>2, <2>3, BoundsAssumption DEF Threads
  <2>5. arg'[current] = new
    BY <2>2, <2>3 DEF TypeOK
  <2>6. Numbered'
    <3>1. next_thread = allocated /\ current <= allocated
      BY <2>3 DEF Numbered
    <3>2. id'[0] = -1
      BY <2>2, <2>3, <2>4, BoundsAssumption DEF Numbered, TypeOK
    <3>3. ASSUME NEW t \in Threads, t <= new PROVE id'[t] = t - 1
      <4>1. t \in 0..MaxObjects /\ (t = new \/ t <= allocated)
        BY <2>3, <2>4, <3>3, BoundsAssumption DEF Threads
      <4>2. CASE t = new
        BY <2>2, <2>3, <2>4, <3>1, <4>2 DEF TypeOK
      <4>3. CASE t # new
        <5>1. id'[t] = id[t]
          BY <2>2, <2>3, <4>1, <4>3 DEF TypeOK
        <5> QED
          BY <2>3, <4>1, <4>3, <5>1 DEF Numbered
      <4> QED
        BY <4>2, <4>3
    <3>4. ASSUME NEW t \in Threads, t > new
          PROVE  state[t] = "NONE" /\ ~Contains(thread_list, t)
                 /\ ~Contains(ready_list, t)
      <4>1. t > allocated
        BY <2>3, <3>4 DEF Threads
      <4> QED
        BY <2>3, <4>1 DEF Numbered
    <3>5. next_thread = new - 1 /\ current <= new
      BY <2>3, <3>1
    <3> HIDE DEF new
    <3> QED
      BY <2>2, <2>3, <3>2, <3>3, <3>4, <3>5 DEF Numbered
  <2>7. NoDuplicates' /\ ReadyListed' /\ ListedReady'
    BY <2>2, <2>3 DEF NoDuplicates, ReadyListed, ListedReady
  <2>8. Underway'
    <3>1. /\ state[new] = "NONE" /\ ~Contains(thread_list, new)
          /\ ~Contains(ready_list, new)
      BY <2>3, <2>4 DEF Numbered
    <3>2. new <= new
      BY <2>3
    <3> HIDE DEF new
    <3> QED
      BY <2>2, <2>3, <2>5, <3>1, <3>2 DEF Underway
  <2>9. CurrentRuns'
    BY <2>2, <2>3 DEF CurrentRuns
  <2> QED
    BY <2>3, <2>6, <2>7, <2>8, <2>9 DEF CallInv
<1>2. CASE CreateCount
  <2> DEFINE a == arg[current]
  <2>1. Call("create1", "create2")
    BY <1>2 DEF CreateCount
  <2>2. /\ next_thread' = next_thread + 1
        /\ state' = [state EXCEPT ![a] = "READY"]
        /\ ready_list' = ready_list /\ id' = id /\ allocated' = allocated
        /\ arg' = arg
    BY <1>2 DEF CreateCount
  <2>3. /\ mode = "running" /\ current' = current
        /\ scheduling_type' = scheduling_type /\ thread_list' = thread_list
        /\ pc[current] = "create1" /\ pc'[current] = "create2"
        /\ current \in 0..MaxObjects /\ current \in Nat /\ allocated \in Nat
        /\ current # 0 => current \in Threads
        /\ Stopped' /\ Solo' /\ TypeOK /\ Numbered /\ NoDuplicates
        /\ ReadyListed /\ ListedReady /\ CurrentRuns /\ Threads \subseteq Nat
        /\ Underway /\ state \in [Threads -> States]
        /\ ArgumentIsThread
    BY <2>1, CallFrame
  <2>4. /\ a \in Threads /\ a <= allocated /\ state[a] = "NONE"
        /\ ~Contains(ready_list, a) /\ ~Contains(thread_list, a)
    BY <2>3 DEF Underway, ArgumentIsThread
  <2>5. \A t \in Threads : state'[t] = IF t = a THEN "READY" ELSE state[t]
    BY <2>2, <2>3
  <2> HIDE DEF a
  <2>6. Numbered'
    <3>1. next_thread = allocated - 1
      BY <2>3 DEF Numbered
    <3>2. next_thread' = allocated
      BY <2>2, <2>3, <3>1
    <3>3. ASSUME NEW t \in Threads, t > allocated
          PROVE  state'[t] = "NONE"
      <4>1. t # a
        BY <2>3, <2>4, <3>3
      <4> QED
        BY <2>3, <2>5, <3>3, <4>1 DEF Numbered
    <3> QED
      BY <2>2, <2>3, <3>2, <3>3 DEF Numbered
  <2>7. NoDuplicates' /\ ReadyListed' /\ ListedReady'
    BY <2>2, <2>3, <2>4, <2>5 DEF NoDuplicates, ReadyListed, ListedReady, a
  <2>8. Underway'
    BY <2>2, <2>3, <2>4, <2>5 DEF Underway, a
  <2>9. CurrentRuns'
    <3>1. CASE current = 0
      BY <2>3, <3>1 DEF CurrentRuns
    <3>2. CASE current # 0
      <4>1. state[current] = "RUNNING" /\ current # a
        BY <2>3, <2>4, <3>2 DEF CurrentRuns
      <4>2. state'[current] = "RUNNING"
        BY <2>3, <2>5, <3>2, <4>1
      <4> QED
        BY <2>3, <4>2 DEF CurrentRuns
    <3> QED
      BY <3>1, <3>2
  <2> QED
    BY <2>3, <2>6, <2>7, <2>8, <2>9 DEF CallInv
<1>3. CASE CreateEnqueue
  <2> DEFINE a == arg[current]
  <2>1. Call("create2", "create3")
    BY <1>3 DEF CreateEnqueue
  <2>2. /\ ready_list' = thread_enqueue(a, ready_list)
        /\ state' = state /\ arg' = arg
        /\ id' = id /\ allocated' = allocated /\ next_thread' = next_thread
    BY <1>3 DEF CreateEnqueue, names
  <2>3. /\ mode = "running" /\ current' = current
        /\ scheduling_type' = scheduling_type /\ thread_list' = thread_list
        /\ pc[current] = "create2" /\ pc'[current] = "create3"
        /\ current \in 0..MaxObjects /\ allocated \in Nat
        /\ Stopped' /\ Solo' /\ TypeOK /\ Numbered /\ NoDuplicates
        /\ ReadyListed /\ ListedReady /\ CurrentRuns /\ Threads \subseteq Nat
        /\ Underway /\ ArgumentIsThread
    BY <2>1, CallFrame
  <2>4. /\ a \in Threads /\ a <= allocated /\ state[a] = "READY"
        /\ ~Contains(ready_list, a) /\ ~Contains(thread_list, a)
    BY <2>3 DEF Underway, ArgumentIsThread
  <2>5. /\ ListOf(ready_list')
        /\ \A x : Contains(ready_list', x) <=> Contains(ready_list, x) \/ x = a
    <3>1. ListOf(ready_list) /\ ready_list \in Seq(Threads)
      BY <2>3, ListsAreLists DEF ListOf
    <3> QED
      BY <2>2, <2>4, <3>1, EnqueueToList, EnqueueProperties
  <2>6. Numbered'
    <3>1. ASSUME NEW t \in Threads, t > allocated PROVE ~Contains(ready_list', t)
      BY <2>3, <2>5, <3>1 DEF ListOf
    <3> QED
      BY <2>2, <2>3, <3>1 DEF Numbered
  <2> HIDE DEF a
  <2>7. NoDuplicates' /\ ReadyListed' /\ ListedReady'
    BY <2>2, <2>3, <2>4, <2>5
    DEF NoDuplicates, ReadyListed, ListedReady, ListOf, a
  <2>8. Underway' /\ CurrentRuns'
    BY <2>2, <2>3, <2>4 DEF Underway, CurrentRuns, a
  <2> QED
    BY <2>3, <2>6, <2>7, <2>8 DEF CallInv
<1>4. CASE CreateRegister
  <2> DEFINE a == arg[current]
  <2>1. /\ mode = "running" /\ mode' = mode /\ pc[current] = "create3"
        /\ pc' = [pc EXCEPT ![current] = "idle"]
        /\ thread_list' = thread_enqueue(a, thread_list)
        /\ current' = current /\ scheduling_type' = scheduling_type
        /\ ready_list' = ready_list /\ state' = state
        /\ id' = id /\ allocated' = allocated /\ next_thread' = next_thread
        /\ interrupted' = interrupted
    BY <1>4 DEF CreateRegister, names
  <2>2. /\ TypeOK /\ ArgumentIsThread /\ current \in 0..MaxObjects
        /\ allocated \in Nat /\ Threads \subseteq Nat
        /\ Solo /\ Numbered /\ NoDuplicates /\ ReadyListed /\ ListedReady
        /\ Underway /\ CurrentRuns
    BY DEF TypeInv, TypeOK, CallInv, Threads
  <2>3. pc'[current] = "idle" /\ \A t \in 0..MaxObjects : pc'[t] = "idle"
    BY <2>1, <2>2 DEF TypeOK, Solo
  <2>4. a \in Threads /\ a <= allocated /\ ~Contains(thread_list, a)
    BY <2>1, <2>2 DEF Underway, ArgumentIsThread
  <2>5. /\ ListOf(thread_list')
        /\ \A x : Contains(thread_list', x) <=> Contains(thread_list, x) \/ x = a
    <3>1. ListOf(thread_list) /\ thread_list \in Seq(Threads)
      BY <2>2, ListsAreLists DEF ListOf
    <3> QED
      BY <2>1, <2>4, <3>1, EnqueueToList, EnqueueProperties
  <2>6. Numbered'
    <3>1. ASSUME NEW t \in Threads, t > allocated
          PROVE  ~Contains(thread_list', t)
      BY <2>2, <2>5, <3>1 DEF ListOf
    <3> QED
      BY <2>1, <2>2, <2>3, <3>1 DEF Numbered
  <2>7. NoDuplicates' /\ ReadyListed' /\ ListedReady'
    BY <2>1, <2>2, <2>3, <2>5
    DEF NoDuplicates, ReadyListed, ListedReady, ListOf
  <2>8. Underway' /\ CurrentRuns' /\ Solo' /\ Stopped'
    BY <2>1, <2>2, <2>3 DEF Underway, CurrentRuns, Solo, Stopped
  <2> QED
    BY <2>6, <2>7, <2>8 DEF CallInv
<1> QED
  BY <1>1, <1>2, <1>3, <1>4

(* The threads that the calls are about exist. *)
LEMMA FoundThreads ==
  ASSUME TypeInv, CallInv, NEW t \in Threads, IsThread(t)
  PROVE  t <= allocated /\ Contains(thread_list, t)
<1>1. ListOf(thread_list) /\ thread_list \in Seq(Threads)
  BY ListsAreLists DEF TypeInv, CallInv, ListOf
<1>2. Contains(thread_list, t)
  BY <1>1, ContainsElement DEF IsThread
<1> QED
  BY <1>1, <1>2 DEF ListOf

LEMMA DeleteCalls ==
  ASSUME TypeInv, CallInv, NEW t \in Threads, DeleteThread(t)
  PROVE  CallInv'
<1> DEFINE to == IF IsSelf(t) THEN "yield" ELSE "idle"
<1>1. /\ Call("idle", to) /\ current # 0 /\ IsThread(t)
      /\ state' = [state EXCEPT ![t] = "FINISHED"]
      /\ ready_list' = ready_list /\ arg' = arg
      /\ id' = id /\ allocated' = allocated /\ next_thread' = next_thread
  BY DEF DeleteThread, names
<1> HIDE DEF to
<1>2. /\ mode = "running" /\ current' = current
      /\ scheduling_type' = scheduling_type /\ thread_list' = thread_list
      /\ pc[current] = "idle" /\ pc'[current] = to
      /\ current \in Threads /\ allocated \in Nat
      /\ Stopped' /\ Solo' /\ TypeOK /\ Numbered /\ NoDuplicates
      /\ ReadyListed /\ ListedReady /\ CurrentRuns /\ Threads \subseteq Nat
      /\ state \in [Threads -> States]
  BY <1>1, CallFrame
<1>3. t <= allocated
  BY <1>1, FoundThreads
<1>4. to = IF t = current THEN "yield" ELSE "idle"
  <2>1. current <= allocated
    BY <1>2 DEF Numbered
  <2>2. id[t] = id[current] <=> t = current
    BY <1>2, <1>3, <2>1, DifferentIds
  <2> QED
    BY <2>2 DEF to, IsSelf
<1>5. \A x \in Threads : state'[x] = IF x = t THEN "FINISHED" ELSE state[x]
  BY <1>1, <1>2
<1>6. Numbered'
  <2>1. ASSUME NEW x \in Threads, x > allocated PROVE state'[x] = "NONE"
    <3>1. x # t
      BY <1>2, <1>3, <2>1
    <3> QED
      BY <1>2, <1>5, <2>1, <3>1 DEF Numbered
  <2> QED
    BY <1>1, <1>2, <1>4, <2>1 DEF Numbered
<1>7. NoDuplicates' /\ ReadyListed' /\ ListedReady'
  BY <1>1, <1>2, <1>4, <1>5 DEF NoDuplicates, ReadyListed, ListedReady
<1>8. Underway'
  BY <1>2, <1>4 DEF Underway
<1>9. CurrentRuns'
  BY <1>1, <1>2, <1>4, <1>5 DEF CurrentRuns
<1> QED
  BY <1>2, <1>6, <1>7, <1>8, <1>9 DEF CallInv

LEMMA SuspendCalls ==
  ASSUME TypeInv, CallInv,
         SuspendRemove \/ \E t \in Threads : SuspendThread(t)
  PROVE  CallInv'
<1>1. ASSUME NEW t \in Threads, SuspendThread(t) PROVE CallInv'
  <2>1. /\ Call("idle", "suspend") /\ current # 0 /\ IsThread(t)
        /\ state' = [state EXCEPT ![t] = "SUSPENDED"]
        /\ arg' = [arg EXCEPT ![current] = t] /\ ready_list' = ready_list
        /\ id' = id /\ allocated' = allocated /\ next_thread' = next_thread
    BY <1>1 DEF SuspendThread, names
  <2>2. /\ mode = "running" /\ current' = current
        /\ scheduling_type' = scheduling_type /\ thread_list' = thread_list
        /\ pc[current] = "idle" /\ pc'[current] = "suspend"
        /\ current \in Threads /\ allocated \in Nat /\ current \in 0..MaxObjects
        /\ Stopped' /\ Solo' /\ TypeOK /\ Numbered /\ NoDuplicates
        /\ ReadyListed /\ ListedReady /\ CurrentRuns /\ Threads \subseteq Nat
        /\ state \in [Threads -> States]
    BY <2>1, CallFrame
  <2>3. t <= allocated
    BY <2>1, FoundThreads
  <2>4. \A x \in Threads : state'[x] = IF x = t THEN "SUSPENDED" ELSE state[x]
    BY <2>1, <2>2
  <2>5. arg'[current] = t
    BY <2>1, <2>2 DEF TypeOK
  <2>6. Numbered'
    <3>1. ASSUME NEW x \in Threads, x > allocated PROVE state'[x] = "NONE"
      <4>1. x # t
        BY <2>2, <2>3, <3>1
      <4> QED
        BY <2>2, <2>4, <3>1, <4>1 DEF Numbered
    <3> QED
      BY <2>1, <2>2, <3>1 DEF Numbered
  <2>7. NoDuplicates' /\ ReadyListed' /\ ListedReady'
    BY <2>1, <2>2, <2>4, <2>5 DEF NoDuplicates, ReadyListed, ListedReady
  <2>8. Underway' /\ CurrentRuns'
    BY <2>1, <2>2, <2>3, <2>4, <2>5 DEF Underway, CurrentRuns
  <2> QED
    BY <2>2, <2>6, <2>7, <2>8 DEF CallInv
<1>2. CASE SuspendRemove
  <2> DEFINE a  == arg[current]
             to == IF IsSelf(a) THEN "yield" ELSE "idle"
  <2>1. /\ Call("suspend", to)
        /\ ready_list' = RemoveFromList(id[a], ready_list)
        /\ arg' = [arg EXCEPT ![current] = 0] /\ state' = state
        /\ id' = id /\ allocated' = allocated /\ next_thread' = next_thread
    BY <1>2 DEF SuspendRemove, ArgDone, names
  <2>2. /\ to \in {"idle", "yield"}
        /\ to # "create1" /\ to # "create2" /\ to # "create3"
    OBVIOUS
  <2> HIDE DEF to
  <2>3. current # 0
    BY <2>1 DEF CallInv, Solo, Call
  <2>4. /\ mode = "running" /\ current' = current
        /\ scheduling_type' = scheduling_type /\ thread_list' = thread_list
        /\ pc[current] = "suspend" /\ pc'[current] = to
        /\ current \in Threads /\ allocated \in Nat /\ current \in 0..MaxObjects
        /\ Stopped' /\ Solo' /\ TypeOK /\ Numbered /\ NoDuplicates
        /\ ReadyListed /\ ListedReady /\ CurrentRuns /\ Threads \subseteq Nat
        /\ Underway /\ ArgumentIsThread
    BY <2>1, <2>3, CallFrame
  <2>5. a \in Threads /\ a <= allocated /\ state[a] = "SUSPENDED"
    BY <2>4 DEF Underway, ArgumentIsThread
  <2>6. to = IF a = current THEN "yield" ELSE "idle"
    <3>1. current <= allocated
      BY <2>4 DEF Numbered
    <3>2. id[a] = id[current] <=> a = current
      BY <2>4, <2>5, <3>1, DifferentIds
    <3> QED
      BY <3>2 DEF to, IsSelf
  <2> HIDE DEF a
  <2>7. /\ ListOf(ready_list')
        /\ \A x : Contains(ready_list', x) <=> Contains(ready_list, x) /\ x # a
    <3>1. ListOf(ready_list)
      BY <2>4, ListsAreLists
    <3> QED
      BY <2>1, <2>4, <2>5, <3>1, RemoveFromListOf
  <2>8. Numbered'
    BY <2>1, <2>2, <2>4, <2>7 DEF Numbered
  <2>9. NoDuplicates' /\ ReadyListed' /\ ListedReady'
    BY <2>1, <2>2, <2>4, <2>5, <2>7
    DEF NoDuplicates, ReadyListed, ListedReady, ListOf, a
  <2>10. Underway'
    BY <2>2, <2>4 DEF Underway
  <2>11. CurrentRuns'
    BY <2>1, <2>2, <2>4, <2>5, <2>6 DEF CurrentRuns, a
  <2> QED
    BY <2>4, <2>8, <2>9, <2>10, <2>11 DEF CallInv
<1> QED
  BY <1>1, <1>2

LEMMA ResumeCalls ==
  ASSUME TypeInv, CallInv,
         ResumeEnqueue \/ ResumeMark \/ \E t \in Threads : ResumeThread(t)
  PROVE  CallInv'
<1>1. ASSUME NEW t \in Threads, ResumeThread(t) PROVE CallInv'
  <2>1. /\ Call("idle", "resume1") /\ current # 0 /\ IsThread(t)
        /\ state[t] = "SUSPENDED" /\ state' = state
        /\ arg' = [arg EXCEPT ![current] = t] /\ ready_list' = ready_list
        /\ id' = id /\ allocated' = allocated /\ next_thread' = next_thread
    BY <1>1 DEF ResumeThread, names
  <2>2. /\ mode = "running" /\ current' = current
        /\ scheduling_type' = scheduling_type /\ thread_list' = thread_list
        /\ pc[current] = "idle" /\ pc'[current] = "resume1"
        /\ current \in Threads /\ current \in 0..MaxObjects
        /\ Stopped' /\ Solo' /\ TypeOK /\ Numbered /\ NoDuplicates
        /\ ReadyListed /\ ListedReady /\ CurrentRuns
    BY <2>1, CallFrame
  <2>3. t <= allocated
    BY <2>1, FoundThreads
  <2>4. arg'[current] = t
    BY <2>1, <2>2 DEF TypeOK
  <2>5. Numbered' /\ NoDuplicates' /\ ReadyListed' /\ ListedReady'
    BY <2>1, <2>2 DEF Numbered, NoDuplicates, ReadyListed, ListedReady
  <2>6. Underway' /\ CurrentRuns'
    BY <2>1, <2>2, <2>3, <2>4 DEF Underway, CurrentRuns
  <2> QED
    BY <2>2, <2>5, <2>6 DEF CallInv
<1>2. CASE ResumeEnqueue
  <2> DEFINE a == arg[current]
  <2>1. /\ Call("resume1", "resume2")
        /\ ready_list' = thread_enqueue(a, ready_list)
        /\ state' = state /\ arg' = arg
        /\ id' = id /\ allocated' = allocated /\ next_thread' = next_thread
    BY <1>2 DEF ResumeEnqueue, names
  <2>2. current # 0
    BY <2>1 DEF CallInv, Solo, Call
  <2>3. /\ mode = "running" /\ current' = current
        /\ scheduling_type' = scheduling_type /\ thread_list' = thread_list
        /\ pc[current] = "resume1" /\ pc'[current] = "resume2"
        /\ current \in Threads /\ allocated \in Nat /\ current \in 0..MaxObjects
        /\ Stopped' /\ Solo' /\ TypeOK /\ Numbered /\ NoDuplicates
        /\ ReadyListed /\ ListedReady /\ CurrentRuns /\ Threads \subseteq Nat
        /\ Underway /\ ArgumentIsThread
    BY <2>1, <2>2, CallFrame
  <2>4. a \in Threads /\ a <= allocated /\ state[a] = "SUSPENDED"
    BY <2>3 DEF Underway, ArgumentIsThread
  <2>5. ~Contains(ready_list, a)
    <3>1. a = current => state[a] = "RUNNING"
      BY <2>2, <2>3 DEF CurrentRuns
    <3> QED
      BY <2>3, <2>4, <3>1 DEF ListedReady
  <2>6. /\ ListOf(ready_list')
        /\ \A x : Contains(ready_list', x) <=> Contains(ready_list, x) \/ x = a
    <3>1. ListOf(ready_list) /\ ready_list \in Seq(Threads)
      BY <2>3, ListsAreLists DEF ListOf
    <3> QED
      BY <2>1, <2>4, <2>5, <3>1, EnqueueToList, EnqueueProperties
  <2>7. Numbered'
    <3>1. ASSUME NEW t \in Threads, t > allocated PROVE ~Contains(ready_list', t)
      BY <2>3, <2>6, <3>1 DEF ListOf
    <3> QED
      BY <2>1, <2>3, <3>1 DEF Numbered
  <2> HIDE DEF a
  <2>8. NoDuplicates' /\ ReadyListed' /\ ListedReady'
    BY <2>1, <2>3, <2>4, <2>6
    DEF NoDuplicates, ReadyListed, ListedReady, ListOf, a
  <2>9. Underway' /\ CurrentRuns'
    BY <2>1, <2>3, <2>4, <2>6 DEF Underway, CurrentRuns, a
  <2> QED
    BY <2>3, <2>7, <2>8, <2>9 DEF CallInv
<1>3. CASE ResumeMark
  <2> DEFINE a == arg[current]
  <2>1. /\ Call("resume2", "idle")
        /\ state' = [state EXCEPT ![a] = "READY"] /\ ready_list' = ready_list
        /\ id' = id /\ allocated' = allocated /\ next_thread' = next_thread
    BY <1>3 DEF ResumeMark, names
  <2>2. current # 0
    BY <2>1 DEF CallInv, Solo, Call
  <2>3. /\ mode = "running" /\ current' = current
        /\ scheduling_type' = scheduling_type /\ thread_list' = thread_list
        /\ pc[current] = "resume2" /\ pc'[current] = "idle"
        /\ current \in Threads /\ allocated \in Nat /\ current \in 0..MaxObjects
        /\ Stopped' /\ Solo' /\ TypeOK /\ Numbered /\ NoDuplicates
        /\ ReadyListed /\ ListedReady /\ CurrentRuns /\ Threads \subseteq Nat
        /\ Underway /\ ArgumentIsThread /\ state \in [Threads -> States]
    BY <2>1, <2>2, CallFrame
  <2>4. a \in Threads /\ a <= allocated /\ state[a] = "SUSPENDED"
    BY <2>3 DEF Underway, ArgumentIsThread
  <2>5. \A x \in Threads : state'[x] = IF x = a THEN "READY" ELSE state[x]
    BY <2>1, <2>3
  <2>6. Numbered'
    <3>1. ASSUME NEW x \in Threads, x > allocated PROVE state'[x] = "NONE"
      <4>1. x # a
        BY <2>3, <2>4, <3>1
      <4> QED
        BY <2>3, <2>5, <3>1, <4>1 DEF Numbered
    <3> QED
      BY <2>1, <2>3, <3>1 DEF Numbered
  <2>7. Contains(ready_list, a)
    BY <2>3 DEF Underway
  <2> HIDE DEF a
  <2>8. NoDuplicates' /\ ReadyListed' /\ ListedReady'
    BY <2>1, <2>3, <2>4, <2>5, <2>7 DEF NoDuplicates, ReadyListed, ListedReady, a
  <2>9. Underway'
    BY <2>3 DEF Underway
  <2>10. CurrentRuns'
    <3>1. current # a /\ state[current] = "RUNNING"
      BY <2>2, <2>3, <2>4 DEF CurrentRuns
    <3> QED
      BY <2>3, <2>5, <3>1 DEF CurrentRuns
  <2> QED
    BY <2>3, <2>6, <2>8, <2>9, <2>10 DEF CallInv
<1> QED
  BY <1>1, <1>2, <1>3

LEMMA SleepCalls ==
  ASSUME TypeInv, CallInv,
         SleepUntil \/ SleepRemove \/ \E time \in SleepTimes : SleepThread(time)
  PROVE  CallInv'
<1>1. ASSUME NEW time \in SleepTimes, SleepThread(time) PROVE CallInv'
  <2>1. /\ Call("idle", "sleep1") /\ current # 0
        /\ state' = [state EXCEPT ![current] = "SLEEPING"]
        /\ ready_list' = ready_list
        /\ id' = id /\ allocated' = allocated /\ next_thread' = next_thread
    BY <1>1 DEF SleepThread, names
  <2>2. /\ mode = "running" /\ current' = current
        /\ scheduling_type' = scheduling_type /\ thread_list' = thread_list
        /\ pc[current] = "idle" /\ pc'[current] = "sleep1"
        /\ current \in Threads /\ allocated \in Nat
        /\ Stopped' /\ Solo' /\ TypeOK /\ Numbered /\ NoDuplicates
        /\ ReadyListed /\ ListedReady /\ CurrentRuns /\ Threads \subseteq Nat
        /\ state \in [Threads -> States]
    BY <2>1, CallFrame
  <2>3. \A x \in Threads :
          state'[x] = IF x = current THEN "SLEEPING" ELSE state[x]
    BY <2>1, <2>2
  <2>4. Numbered'
    <3>1. ASSUME NEW x \in Threads, x > allocated PROVE state'[x] = "NONE"
      <4>1. x # current
        BY <2>2, <3>1 DEF Numbered
      <4> QED
        BY <2>2, <2>3, <3>1, <4>1 DEF Numbered
    <3> QED
      BY <2>1, <2>2, <3>1 DEF Numbered
  <2>5. NoDuplicates' /\ ReadyListed' /\ ListedReady'
    BY <2>1, <2>2, <2>3 DEF NoDuplicates, ReadyListed, ListedReady
  <2>6. Underway' /\ CurrentRuns'
    BY <2>1, <2>2, <2>3 DEF Underway, CurrentRuns
  <2> QED
    BY <2>2, <2>4, <2>5, <2>6 DEF CallInv
<1>2. CASE SleepUntil
  <2>1. /\ Call("sleep1", "sleep2")
        /\ state' = state /\ ready_list' = ready_list
        /\ id' = id /\ allocated' = allocated /\ next_thread' = next_thread
    BY <1>2 DEF SleepUntil, names
  <2>2. current # 0
    BY <2>1 DEF CallInv, Solo, Call
  <2>3. /\ mode = "running" /\ current' = current
        /\ scheduling_type' = scheduling_type /\ thread_list' = thread_list
        /\ pc[current] = "sleep1" /\ pc'[current] = "sleep2"
        /\ Stopped' /\ Solo' /\ Numbered /\ NoDuplicates
        /\ ReadyListed /\ ListedReady /\ CurrentRuns
    BY <2>1, <2>2, CallFrame
  <2>4. Numbered' /\ NoDuplicates' /\ ReadyListed' /\ ListedReady'
    BY <2>1, <2>3 DEF Numbered, NoDuplicates, ReadyListed, ListedReady
  <2>5. Underway' /\ CurrentRuns'
    BY <2>1, <2>2, <2>3 DEF Underway, CurrentRuns
  <2> QED
    BY <2>3, <2>4, <2>5 DEF CallInv
<1>3. CASE SleepRemove
  <2>1. /\ Call("sleep2", "yield")
        /\ ready_list' = RemoveFromList(id[current], ready_list)
        /\ state' = state
        /\ id' = id /\ allocated' = allocated /\ next_thread' = next_thread
    BY <1>3 DEF SleepRemove, names
  <2>2. current # 0
    BY <2>1 DEF CallInv, Solo, Call
  <2>3. /\ mode = "running" /\ current' = current
        /\ scheduling_type' = scheduling_type /\ thread_list' = thread_list
        /\ pc[current] = "sleep2" /\ pc'[current] = "yield"
        /\ current \in Threads
        /\ Stopped' /\ Solo' /\ TypeOK /\ Numbered /\ NoDuplicates
        /\ ReadyListed /\ ListedReady /\ CurrentRuns
    BY <2>1, <2>2, CallFrame
  <2>4. state[current] = "SLEEPING" /\ current <= allocated
    BY <2>2, <2>3 DEF CurrentRuns, Numbered
  <2>5. /\ ListOf(ready_list')
        /\ \A x : Contains(ready_list', x) <=>
                    Contains(ready_list, x) /\ x # current
    <3>1. ListOf(ready_list)
      BY <2>3, ListsAreLists
    <3> QED
      BY <2>1, <2>3, <2>4, <3>1, RemoveFromListOf
  <2>6. Numbered'
    BY <2>1, <2>3, <2>5 DEF Numbered
  <2>7. NoDuplicates' /\ ReadyListed' /\ ListedReady'
    BY <2>1, <2>3, <2>4, <2>5 DEF NoDuplicates, ReadyListed, ListedReady, ListOf
  <2>8. Underway' /\ CurrentRuns'
    BY <2>1, <2>2, <2>3, <2>4 DEF Underway, CurrentRuns
  <2> QED
    BY <2>3, <2>6, <2>7, <2>8 DEF CallInv
<1> QED
  BY <1>1, <1>2, <1>3

LEMMA CallStep ==
  ASSUME TypeInv, AtMostOneRunning, CallInv, [Next]_vars, ~interrupted'
  PROVE  CallInv'
<1>1. CASE Timer \/ YieldCPU
  BY <1>1, DispatchCalls
<1>2. CASE Go
  BY <1>2, GoCalls
<1>3. CASE CleanUp
  BY <1>3
  DEF CleanUp, names, CallInv, Solo, Numbered, NoDuplicates, ReadyListed,
      ListedReady, Underway, CurrentRuns, Stopped
<1>4. CASE Tick \/ UNCHANGED vars
  BY <1>4
  DEF Tick, vars, names, CallInv, Solo, Numbered, NoDuplicates, ReadyListed,
      ListedReady, Underway, CurrentRuns, Stopped
<1>5. CASE CreateAllocate \/ CreateCount \/ CreateEnqueue \/ CreateRegister
  BY <1>5, CreateCalls
<1>6. CASE SuspendRemove \/ \E t \in Threads : SuspendThread(t)
  BY <1>6, SuspendCalls
<1>7. CASE ResumeEnqueue \/ ResumeMark \/ \E t \in Threads : ResumeThread(t)
  BY <1>7, ResumeCalls
<1>8. CASE \E t \in Threads : DeleteThread(t)
  BY <1>8, DeleteCalls
<1>9. CASE SleepUntil \/ SleepRemove \/ \E time \in SleepTimes : SleepThread(time)
  BY <1>9, SleepCalls
<1> QED
  BY <1>1, <1>2, <1>3, <1>4, <1>5, <1>6, <1>7, <1>8, <1>9
  DEF Next, Signal, Continue, TimerTears

(* The three invariants together. *)
ThreadsInv == TypeInv /\ AtMostOneRunning /\ CallInv

(* That a call has been interrupted is not forgotten. *)
LEMMA InterruptedStays == [Next]_vars /\ interrupted => interrupted'
BY DEF Next, Signal, Continue, Timer, TimerTears, YieldCPU, Go, CleanUp, Tick,
       CreateAllocate, CreateCount, CreateEnqueue, CreateRegister, DeleteThread,
       SuspendThread, SuspendRemove, ResumeThread, ResumeEnqueue, ResumeMark,
       SleepThread, SleepUntil, SleepRemove, Call, vars

LEMMA ThreadsInvariance == Spec => [](~interrupted => ThreadsInv)
<1> DEFINE Inv == TypeInv /\ AtMostOneRunning /\ (~interrupted => CallInv)
<1>1. Init => Inv
  BY TypeInit, CallInit DEF Init, AtMostOneRunning
<1>2. Inv /\ [Next]_vars => Inv'
  BY TypeStep, RunningStep, CallStep, InterruptedStays
<1>3. Inv => (~interrupted => ThreadsInv)
  BY DEF ThreadsInv
<1> HIDE DEF Inv
<1> QED
  BY <1>1, <1>2, <1>3, PTL DEF Spec

-----------------------------------------------------------------------------
(***************************************************************************)
(* The ready list is what threads.c says of it, until SIGVTALRM interrupts *)
(* a call for the first time.                                              *)
(***************************************************************************)
(* Between calls every READY thread is in the ready list: no sequence of calls
   and dispatches loses one, as long as SIGVTALRM arrives between calls only. *)
THEOREM ReadyThreadsKept == Spec => [](~interrupted => NoReadyThreadLost)
<1>1. ThreadsInv => NoReadyThreadLost
  <2> SUFFICES ASSUME ThreadsInv, Quiescent, NEW t \in Threads,
                      state[t] = "READY"
               PROVE  Contains(ready_list, t)
    BY DEF NoReadyThreadLost
  <2>1. pc[current] = "idle"
    BY DEF ThreadsInv, TypeInv, TypeOK, Quiescent
  <2> QED
    BY <2>1 DEF ThreadsInv, CallInv, ReadyListed
<1> QED
  BY <1>1, ThreadsInvariance, PTL

(* As long as SIGVTALRM arrives between calls only, the ready list holds nothing
   else between calls, and nobody twice. *)
THEOREM OnlyReadyThreads == Spec => [](~interrupted => NothingElseReady)
<1>1. ThreadsInv => NothingElseReady
  <2> SUFFICES ASSUME ThreadsInv, Quiescent PROVE NothingElseReady
    BY DEF NothingElseReady
  <2>1. pc[current] = "idle" /\ ready_list \in Seq(Threads)
    BY DEF ThreadsInv, TypeInv, TypeOK, Quiescent
  <2>2. ASSUME NEW k \in DOMAIN ready_list
        PROVE  \/ state[ready_list[k]] \in {"READY", "FINISHED"}
               \/ scheduling_type # RR /\ ready_list[k] = current
    <3>1. Contains(ready_list, ready_list[k]) /\ ready_list[k] \in Threads
      BY <2>1, ContainsElement, ElementsAreThreads
    <3> QED
      BY <2>1, <3>1 DEF ThreadsInv, CallInv, ListedReady
  <2>3. \A h, k \in DOMAIN ready_list : ready_list[h] = ready_list[k] => h = k
    BY DEF ThreadsInv, CallInv, NoDuplicates, Once
  <2> QED
    BY <2>2, <2>3 DEF NothingElseReady
<1> QED
  BY <1>1, ThreadsInvariance, PTL

(* A process that the scheduler has killed had nobody to pick. *)
DiesEmpty == mode \in {"SIGFPE", "SIGSEGV"} => Candidates(ready_list) = {}

LEMMA DiesEmptyStep ==
  ASSUME DiesEmpty, [Next]_vars
  PROVE  DiesEmpty'
<1>1. ASSUME NEW q, NEW states, Switch(q, states), mode = "running",
             scheduling_type' = scheduling_type
      PROVE  DiesEmpty'
  BY <1>1 DEF Switch, DiesEmpty, Candidates
<1>2. CASE Timer \/ YieldCPU \/ Go
  BY <1>1, <1>2 DEF Timer, YieldCPU, Go, Dispatch
<1>3. CASE mode = "running" /\ mode' \in {"running", "exited"}
  BY <1>3 DEF DiesEmpty
<1>4. CASE UNCHANGED vars
  BY <1>4 DEF vars, DiesEmpty, Candidates
<1>5. ASSUME NEW from, NEW to, Call(from, to) PROVE DiesEmpty'
  BY <1>3, <1>5 DEF Call
<1>6. CASE CleanUp \/ Tick \/ CreateRegister \/ TimerTears
  <2>1. mode = "running" /\ mode' \in {"running", "exited", "torn"}
    BY <1>6 DEF CleanUp, Tick, CreateRegister, TimerTears
  <2> QED
    BY <2>1 DEF DiesEmpty
<1>7. CASE CreateAllocate \/ CreateCount \/ CreateEnqueue \/ SuspendRemove
           \/ ResumeEnqueue \/ ResumeMark \/ SleepUntil \/ SleepRemove
  BY <1>5, <1>7
  DEF CreateAllocate, CreateCount, CreateEnqueue, SuspendRemove, ResumeEnqueue,
      ResumeMark, SleepUntil, SleepRemove
<1>8. CASE \/ \E t \in Threads : DeleteThread(t) \/ SuspendThread(t) \/ ResumeThread(t)
           \/ \E time \in SleepTimes : SleepThread(time)
  BY <1>5, <1>8 DEF DeleteThread, SuspendThread, ResumeThread, SleepThread
<1> QED
  BY <1>2, <1>4, <1>6, <1>7, <1>8 DEF Next, Signal, Continue

(* As long as SIGVTALRM arrives between calls only, the process dies in the
   scheduler only when no thread is READY, or, in the lottery, none that holds a
   ticket.  (Once a call has been interrupted a READY thread may be lost, and the
   scheduler may die although there is one.) *)
THEOREM DiesOnlyOfNothingReady ==
  Spec => [](~interrupted => CrashOnlyWhenNothingReady)
<1>1. Init => DiesEmpty
  BY DEF Init, DiesEmpty
<1>2. DiesEmpty /\ [Next]_vars => DiesEmpty'
  BY DiesEmptyStep
<1>3. ThreadsInv /\ DiesEmpty => CrashOnlyWhenNothingReady
  <2> SUFFICES ASSUME ThreadsInv, DiesEmpty, mode \in {"SIGFPE", "SIGSEGV"},
                      NEW t \in Threads, state[t] = "READY"
               PROVE  scheduling_type = LOT /\ priority[t] = 0
    BY DEF CrashOnlyWhenNothingReady
  <2>1. pc[current] = "idle" /\ ready_list \in Seq(Threads)
    BY DEF ThreadsInv, CallInv, Stopped, TypeInv, TypeOK
  <2>2. Contains(ready_list, t)
    BY <2>1 DEF ThreadsInv, CallInv, ReadyListed
  <2>3. Candidates(ready_list) = {}
    BY DEF DiesEmpty
  <2> QED
    BY <2>1, <2>2, <2>3, NobodyToPick
<1> QED
  BY <1>1, <1>2, <1>3, ThreadsInvariance, PTL DEF Spec

-----------------------------------------------------------------------------
(***************************************************************************)
(* The order of the ready list, whenever the timer fires.                  *)
(***************************************************************************)
(* Each node of y has a node of x before it. *)
Ahead(q, x, y) ==
  \A k \in DOMAIN q : q[k] = y => \E h \in DOMAIN q : h < k /\ q[h] = x

LEMMA AheadOrBefore ==
  ASSUME NEW q \in Seq(Threads), NEW x, NEW y, x # y, Contains(q, x)
  PROVE  /\ ~Before(q, y, x) => Ahead(q, x, y)
         /\ Ahead(q, x, y) /\ Contains(q, y) => Before(q, x, y)
<1>1. DOMAIN q = 1..Len(q) /\ Len(q) \in Nat
  BY LenProperties
<1>2. PICK h \in DOMAIN q : q[h] = x
  BY ContainsElement
<1>3. \A k \in DOMAIN q : q[k] = y => h < k \/ k < h
  BY <1>1, <1>2
<1> QED
  BY <1>2, <1>3, ContainsElement DEF Ahead, Before

LEMMA EnqueueKeepsAhead ==
  ASSUME NEW q \in Seq(Threads), NEW t \in Threads, NEW x, NEW y
  PROVE  /\ Ahead(q, x, y) /\ Contains(q, x) => Ahead(thread_enqueue(t, q), x, y)
         /\ x # t /\ Before(thread_enqueue(t, q), y, x) => Before(q, y, x)
<1> DEFINE new == thread_enqueue(t, q)
<1>1. /\ DOMAIN q = 1..Len(q) /\ Len(q) \in Nat /\ DOMAIN new = 1..(Len(q) + 1)
      /\ \A k \in 1..Len(q) : new[k] = q[k]
      /\ new[Len(q) + 1] = t
  BY EnqueueProperties
<1> HIDE DEF new
<1>2. \A k \in DOMAIN new : k \in DOMAIN q \/ k = Len(q) + 1
  BY <1>1
<1>3. DOMAIN q \subseteq DOMAIN new /\ \A k \in DOMAIN q : k < Len(q) + 1
  BY <1>1
<1>4. ASSUME Ahead(q, x, y), Contains(q, x) PROVE Ahead(new, x, y)
  <2> SUFFICES ASSUME NEW k \in DOMAIN new, new[k] = y
               PROVE  \E h \in DOMAIN new : h < k /\ new[h] = x
    BY DEF Ahead
  <2>1. CASE k \in DOMAIN q
    <3>1. PICK h \in DOMAIN q : h < k /\ q[h] = x
      BY <1>1, <1>4, <2>1 DEF Ahead
    <3> QED
      BY <1>1, <1>3, <3>1
  <2>2. CASE k = Len(q) + 1
    <3>1. PICK h \in DOMAIN q : q[h] = x
      BY <1>4, ContainsElement
    <3> QED
      BY <1>1, <1>3, <2>2, <3>1
  <2> QED
    BY <1>2, <2>1, <2>2
<1>5. ASSUME x # t, Before(new, y, x) PROVE Before(q, y, x)
  <2>1. PICK h \in DOMAIN new, k \in DOMAIN new : h < k /\ new[h] = y /\ new[k] = x
    BY <1>5 DEF Before
  <2>2. k \in DOMAIN q /\ h \in DOMAIN q
    BY <1>1, <1>5, <2>1
  <2> QED
    BY <1>1, <2>1, <2>2 DEF Before
<1> QED
  BY <1>4, <1>5 DEF new

(* Removing the i-th node puts nobody before anybody, and leaves the first node
   of every other thread. *)
LEMMA RemoveKeepsAhead ==
  ASSUME NEW q \in Seq(Threads), NEW i \in DOMAIN q, NEW x, NEW y
  PROVE  /\ x # q[i] /\ Ahead(q, x, y) => Ahead(RemoveAt(q, i), x, y)
         /\ Before(RemoveAt(q, i), y, x) => Before(q, y, x)
<1> DEFINE rest == RemoveAt(q, i)
           At(m) == IF m < i THEN m ELSE m + 1
           Down(k) == IF k < i THEN k ELSE k - 1
<1>1. DOMAIN q = 1..Len(q) /\ Len(q) \in Nat /\ i \in 1..Len(q)
  BY LenProperties
<1>2. /\ rest \in Seq(Threads) /\ Len(rest) = Len(q) - 1
      /\ \A m \in 1..(Len(q) - 1) : rest[m] = IF m < i THEN q[m] ELSE q[m + 1]
  BY <1>1, RemoveAtProperties
<1> HIDE DEF rest
<1>3. DOMAIN rest = 1..(Len(q) - 1)
  BY <1>2, LenProperties
<1>4. ASSUME NEW m \in DOMAIN rest
      PROVE  At(m) \in DOMAIN q /\ rest[m] = q[At(m)] /\ m \in Int /\ At(m) \in Int
  BY <1>1, <1>2, <1>3
<1>5. ASSUME NEW m \in DOMAIN rest, NEW n \in DOMAIN rest, m < n
      PROVE  At(m) < At(n)
  BY <1>1, <1>3, <1>5
<1>6. ASSUME NEW h \in DOMAIN q, h # i, NEW m \in DOMAIN rest, h < At(m)
      PROVE  Down(h) \in DOMAIN rest /\ Down(h) < m /\ At(Down(h)) = h
  BY <1>1, <1>3, <1>6
<1> HIDE DEF At, Down
<1>7. ASSUME x # q[i], Ahead(q, x, y) PROVE Ahead(rest, x, y)
  <2> SUFFICES ASSUME NEW m \in DOMAIN rest, rest[m] = y
               PROVE  \E n \in DOMAIN rest : n < m /\ rest[n] = x
    BY DEF Ahead
  <2>1. PICK h \in DOMAIN q : h < At(m) /\ q[h] = x
    BY <1>4, <1>7 DEF Ahead
  <2>2. h # i
    BY <1>7, <2>1
  <2> QED
    BY <1>4, <1>6, <2>1, <2>2
<1>8. ASSUME Before(rest, y, x) PROVE Before(q, y, x)
  <2>1. PICK m \in DOMAIN rest, n \in DOMAIN rest : m < n /\ rest[m] = y /\ rest[n] = x
    BY <1>8 DEF Before
  <2> QED
    BY <1>4, <1>5, <2>1 DEF Before
<1> QED
  BY <1>7, <1>8 DEF rest

(* What keeps x ahead of y while Dispatch works on q.  A FINISHED x loses its first
   node in the walk, but it is not enqueued; any other is enqueued perhaps, but
   keeps its nodes. *)
StillAhead(q, x, y) ==
  /\ ToSet(q) \subseteq ToSet(thread_list) \cup ToSet(ready_list)
  /\ IF state[x] = "FINISHED" THEN ~Before(q, y, x)
     ELSE Contains(q, x) /\ Ahead(q, x, y)

LEMMA WalkKeepsAhead ==
  ASSUME TypeOK, IdsDiffer, NEW x \in Threads, NEW y \in Threads,
         StillAhead(ready_list, x, y)
  PROVE  AfterWalk \in Seq(Threads) /\ StillAhead(AfterWalk, x, y)
<1> DEFINE n == Len(thread_list)
           S == {q \in Seq(Threads) : StillAhead(q, x, y)}
           P == [k \in 0..n |-> S]
<1>1. /\ thread_list \in Seq(Threads) /\ ready_list \in Seq(Threads)
      /\ n \in Nat /\ DOMAIN thread_list = 1..n
  BY LenProperties DEF TypeOK
<1>2. ASSUME NEW k \in 1..n, NEW q \in S PROVE WalkStep(k, q) \in S
  <2> DEFINE t   == thread_list[k]
             new == WalkStep(k, q)
             all == ToSet(thread_list) \cup ToSet(ready_list)
  <2>1. t \in Threads /\ t \in all
    BY <1>1, ElementOfSeq DEF ToSet
  <2>2. q \in Seq(Threads) /\ StillAhead(q, x, y)
    OBVIOUS
  <2> HIDE DEF S, t
  <2>3. CASE Due(t)
    <3>1. new = thread_enqueue(t, q)
      BY <2>3 DEF WalkStep, t
    <3>2. new \in Seq(Threads)
      BY <2>1, <2>2, <3>1, EnqueueProperties
    <3>3. ToSet(new) \subseteq all
      <4>1. \A j \in DOMAIN new : (j \in DOMAIN q /\ new[j] = q[j]) \/ new[j] = t
        <5>1. /\ DOMAIN q = 1..Len(q) /\ Len(q) \in Nat
              /\ DOMAIN new = 1..(Len(q) + 1)
              /\ \A j \in 1..Len(q) : new[j] = q[j]
              /\ new[Len(q) + 1] = t
          BY <2>1, <2>2, <3>1, EnqueueProperties
        <5>2. \A j \in 1..(Len(q) + 1) : j \in 1..Len(q) \/ j = Len(q) + 1
          BY <5>1
        <5> HIDE DEF new
        <5> QED
          BY <5>1, <5>2
      <4> QED
        BY <2>1, <2>2, <4>1 DEF ToSet, StillAhead
    <3>4. state[x] = "FINISHED" => x # t
      BY <2>3 DEF Due
    <3>5. Contains(q, x) => Contains(new, x)
      BY <2>1, <2>2, <3>1, EnqueueProperties
    <3> HIDE DEF new, all
    <3>6. StillAhead(new, x, y)
      BY <2>1, <2>2, <3>1, <3>3, <3>4, <3>5, EnqueueKeepsAhead DEF StillAhead, all
    <3> QED
      BY <3>2, <3>6 DEF S, new
  <2>4. CASE ~Due(t) /\ state[t] = "FINISHED"
    <3>1. new = RemoveFromList(id[t], q)
      BY <2>4 DEF WalkStep, t
    <3>2. new = q \/ \E i \in DOMAIN q : id[q[i]] = id[t] /\ new = RemoveAt(q, i)
      BY <2>2, <3>1, RemoveFromListCases
    <3> HIDE DEF new
    <3>3. CASE new = q
      BY <2>2, <3>3 DEF S, new
    <3>4. ASSUME NEW i \in DOMAIN q, id[q[i]] = id[t], new = RemoveAt(q, i)
          PROVE  new \in S
      <4>1. q[i] \in ToSet(q)
        BY DEF ToSet
      <4>2. q[i] = t
        BY <2>1, <2>2, <3>4, <4>1 DEF IdsDiffer, StillAhead
      <4>3. /\ new \in Seq(Threads)
            /\ \A z : Contains(new, z) => Contains(q, z)
            /\ \A z : z # q[i] => (Contains(new, z) <=> Contains(q, z))
        BY <2>2, <3>4, RemoveProperties
      <4>4. ToSet(new) \subseteq all
        <5>1. ASSUME NEW z \in ToSet(new) PROVE z \in ToSet(q)
          <6>1. Contains(new, z)
            BY <4>3, <5>1, ContainsElement DEF ToSet
          <6>2. Contains(q, z)
            BY <4>3, <6>1
          <6> QED
            BY <2>2, <6>2, ContainsElement DEF ToSet
        <5> QED
          BY <2>2, <5>1 DEF StillAhead
      <4>5. state[x] # "FINISHED" => x # q[i]
        BY <2>4, <4>2
      <4> HIDE DEF all
      <4>6. StillAhead(new, x, y)
        BY <2>2, <3>4, <4>3, <4>4, <4>5, RemoveKeepsAhead DEF StillAhead, all
      <4> QED
        BY <4>3, <4>6 DEF S
    <3> QED
      BY <3>2, <3>3, <3>4 DEF new
  <2>5. CASE ~Due(t) /\ state[t] # "FINISHED"
    BY <2>2, <2>5 DEF WalkStep, t, S
  <2> QED
    BY <2>3, <2>4, <2>5
<1>3. ready_list \in S
  BY <1>1
<1> HIDE DEF S
<1>4. S \in SUBSET Seq(Threads)
  BY DEF S
<1>5. /\ P \in [0..n -> SUBSET Seq(Threads)] /\ ready_list \in P[0]
      /\ \A k \in 1..n : \A q \in P[k - 1] : WalkStep(k, q) \in P[k]
  <2>1. \A k \in 1..n : k \in 0..n /\ k - 1 \in 0..n
    BY <1>1
  <2>2. \A k \in 0..n : P[k] = S
    OBVIOUS
  <2>3. 0 \in 0..n
    BY <1>1
  <2> HIDE DEF P, n
  <2>4. P \in [0..n -> SUBSET Seq(Threads)]
    BY <1>4 DEF P
  <2> QED
    BY <1>2, <1>3, <2>1, <2>2, <2>3, <2>4 DEF n
<1>6. P[n] = S
  BY <1>1
<1> HIDE DEF P
<1>7. AfterWalk \in S
  BY <1>1, <1>5, <1>6, WalkInduction
<1> QED
  BY <1>7 DEF S

(* A thread that is ahead of another in what the scheduler is given is ahead of
   it in what the scheduler leaves, unless it has been dequeued. *)
LEMMA SwitchKeepsAhead ==
  ASSUME TypeOK, scheduling_type # LOT, NEW q \in Seq(Threads), NEW states,
         Switch(q, states), NEW x \in Threads, NEW y \in Threads, x # y,
         ~Before(q, y, x) \/ (Contains(q, x) /\ Ahead(q, x, y)),
         ~(scheduling_type = RR /\ current' = x),
         Contains(ready_list', x), Contains(ready_list', y)
  PROVE  Before(ready_list', x, y)
<1>1. ASSUME ready_list' = q PROVE Before(ready_list', x, y)
  BY <1>1, AheadOrBefore
<1>2. ASSUME NEW k \in Candidates(q), current' = q[k], ready_list' = AfterPick(q, k)
      PROVE  Before(ready_list', x, y)
  <2>1. CASE scheduling_type = FCFS
    BY <1>1, <1>2, <2>1 DEF AfterPick, RR, LOT, FCFS
  <2>2. CASE scheduling_type = RR
    <3>1. k = 1 /\ k \in DOMAIN q
      BY <2>2 DEF Candidates, RR, LOT
    <3>2. q # <<>>
      BY <3>1
    <3>3. ready_list' = RemoveAt(q, k)
      BY <1>2, <2>2, <3>1, <3>2, DequeueRemovesFirst DEF AfterPick, RR, LOT, FCFS
    <3> DEFINE new == RemoveAt(q, k)
    <3>4. new \in Seq(Threads)
      BY <3>1, RemoveProperties
    <3>5. x # q[k]
      BY <1>2, <2>2
    <3>6. /\ Ahead(q, x, y) => Ahead(new, x, y)
          /\ Before(new, y, x) => Before(q, y, x)
      BY <3>1, <3>5, RemoveKeepsAhead
    <3>7. Contains(new, x) /\ Contains(new, y)
      BY <3>3
    <3> HIDE DEF new
    <3>8. Before(new, x, y)
      BY <3>4, <3>6, <3>7, AheadOrBefore
    <3> QED
      BY <3>3, <3>8 DEF new
  <2> QED
    BY <2>1, <2>2 DEF TypeOK
<1> QED
  BY <1>1, <1>2 DEF Switch

(* Nobody overtakes in a step. *)
LEMMA OrderStep ==
  ASSUME TypeInv, scheduling_type # LOT, IdsDiffer, [Next]_vars,
         NEW x \in Threads, NEW y \in Threads, x # y, ~Before(ready_list, y, x),
         Contains(ready_list, x),
         Contains(ready_list', x), Contains(ready_list', y),
         ~(scheduling_type = RR /\ current' = x)
  PROVE  Before(ready_list', x, y)
<1>0. /\ TypeOK /\ ready_list \in Seq(Threads) /\ Ahead(ready_list, x, y)
      /\ current \in 0..MaxObjects /\ ArgumentIsThread
  BY AheadOrBefore DEF TypeInv, TypeOK
<1>1. CASE ready_list' = ready_list
  BY <1>0, <1>1, AheadOrBefore
<1>2. ASSUME NEW a \in Threads, ready_list' = thread_enqueue(a, ready_list)
      PROVE  Before(ready_list', x, y)
  BY <1>0, <1>2, EnqueueProperties, EnqueueKeepsAhead, AheadOrBefore
<1>3. ASSUME NEW m, ready_list' = RemoveFromList(m, ready_list)
      PROVE  Before(ready_list', x, y)
  <2>1. CASE ready_list' = ready_list
    BY <1>1, <2>1
  <2>2. ASSUME NEW i \in DOMAIN ready_list, ready_list' = RemoveAt(ready_list, i)
        PROVE  Before(ready_list', x, y)
    <3>1. ready_list' \in Seq(Threads) /\ ~Before(ready_list', y, x)
      BY <1>0, <2>2, RemoveProperties, RemoveKeepsAhead
    <3> QED
      BY <3>1, AheadOrBefore
  <2> QED
    BY <1>0, <1>3, <2>1, <2>2, RemoveFromListCases
<1>4. CASE Timer \/ YieldCPU
  <2>1. /\ Switch(Requeued, StateAfterWalk) /\ current \in Threads
        /\ Requeued \in Seq(Threads)
    BY <1>0, <1>4, WalkType DEF Timer, YieldCPU, Dispatch
  <2>2. StillAhead(ready_list, x, y)
    BY <1>0 DEF StillAhead
  <2>3. AfterWalk \in Seq(Threads) /\ StillAhead(AfterWalk, x, y)
    BY <1>0, <2>2, WalkKeepsAhead
  <2> DEFINE q   == AfterWalk
             new == Requeued
  <2>4. ~Before(new, y, x) \/ (Contains(new, x) /\ Ahead(new, x, y))
    <3>1. CASE state[current] = "RUNNING" /\ scheduling_type = RR
      <4>1. new = thread_enqueue(current, q)
        BY <3>1 DEF Requeued
      <4>2. state[x] = "FINISHED" => x # current
        BY <3>1
      <4> HIDE DEF new, q
      <4>3. Contains(q, x) => Contains(new, x)
        BY <2>1, <2>3, <4>1, EnqueueProperties DEF q
      <4> QED
        BY <2>1, <2>3, <4>1, <4>2, <4>3, EnqueueKeepsAhead DEF StillAhead, q
    <3>2. CASE ~(state[current] = "RUNNING" /\ scheduling_type = RR)
      BY <2>3, <3>2 DEF Requeued, StillAhead
    <3> QED
      BY <3>1, <3>2
  <2> QED
    BY <1>0, <2>1, <2>4, SwitchKeepsAhead
<1>5. CASE Go
  BY <1>0, <1>5, SwitchKeepsAhead DEF Go
<1>6. CASE CreateEnqueue \/ ResumeEnqueue
  <2>1. /\ ready_list' = thread_enqueue(arg[current], ready_list)
        /\ arg[current] \in Threads
    BY <1>0, <1>6 DEF CreateEnqueue, ResumeEnqueue, Call, ArgumentIsThread
  <2> QED
    BY <1>2, <2>1
<1>7. CASE SuspendRemove \/ SleepRemove
  BY <1>3, <1>7 DEF SuspendRemove, SleepRemove
<1>8. CASE \/ CleanUp \/ Tick \/ TimerTears \/ UNCHANGED vars
           \/ CreateAllocate \/ CreateCount \/ CreateRegister
           \/ ResumeMark \/ SleepUntil
           \/ \E t \in Threads : DeleteThread(t) \/ SuspendThread(t) \/ ResumeThread(t)
           \/ \E time \in SleepTimes : SleepThread(time)
  BY <1>1, <1>8
  DEF CleanUp, Tick, TimerTears, vars, CreateAllocate, CreateCount, CreateRegister,
      ResumeMark, SleepUntil, DeleteThread, SuspendThread, ResumeThread, SleepThread
<1> QED
  BY <1>4, <1>5, <1>6, <1>7, <1>8 DEF Next, Signal, Continue

(* In round robin and first come first served no step lets a thread overtake one
   that stays in the ready list, wherever SIGVTALRM interrupts the calls (up to
   the interruption of a list operation itself), as long as no two threads of the
   lists have one id. *)
THEOREM NobodyOvertakes == Spec => FifoOrder
<1>1. TypeInv /\ [Next]_vars =>
        [(/\ scheduling_type # LOT /\ IdsDiffer) =>
           \A x, y \in Threads :
             (/\ x # y /\ ~Before(ready_list, y, x)
              /\ Contains(ready_list, x) /\ Contains(ready_list', x)
              /\ Contains(ready_list', y)
              /\ ~(scheduling_type = RR /\ current' = x))
             => Before(ready_list', x, y)]_vars
  BY OrderStep
<1> QED
  BY <1>1, TypeAlways, PTL DEF Spec, FifoOrder
=============================================================================
