-------------------------- MODULE MapReduceProofs ---------------------------
(***************************************************************************)
(* Theorems about prog3: first about the mapper stage, for every number of *)
(* replicas, every buffer bound and every input; then about the whole      *)
(* program, which keeps what the stage and the reducer promise and         *)
(* implements WordCount.                                                   *)
(***************************************************************************)
EXTENDS MapReduce, CollectionLemmas

(***************************************************************************)
(* The inductive invariant behind the types: the size fields are lengths,  *)
(* and a node at hand is a node.                                           *)
(***************************************************************************)
SizeInv == \A r \in Replicas : brSize[r] = Len(buffer_read[r])

AtHandInv ==
  /\ mainPc \in {"spawnReader", "spawnAdder"} => rep \in Replicas
  /\ \A r \in Replicas :
       /\ rpc[r] \in {"check", "wait", "woken", "push"}
            => cursor[r] <= Len(Segment[r])
       /\ apc[r] = "merge" => tempNode[r] # NULL

Inv == TypeOK /\ SizeInv /\ AtHandInv

LEMMA InitInv == Init => Inv
<1> SUFFICES ASSUME Init PROVE Inv
  OBVIOUS
<1>1. /\ <<>> \in Seq(Words) /\ <<>> \in Seq(Nodes) /\ Len(<<>>) = 0
      /\ 1 \in Replicas /\ 1 \in 1..(replicas + 1)
  BY ReplicasAssumption DEF Replicas
<1>2. TypeOK
  <2>1. /\ buffer_read \in [Replicas -> Seq(Words)]
        /\ buffer_write \in [Replicas -> Seq(Nodes)]
    BY <1>1 DEF Init
  <2>2. /\ rpc \in [Replicas -> ReaderPcs]
        /\ apc \in [Replicas -> AdderPcs]
    BY DEF Init, ReaderPcs, AdderPcs
  <2>3. /\ cursor \in [Replicas -> Nat \ {0}]
        /\ lock \in [Replicas -> {"none", "reader", "adder"}]
        /\ brSize \in [Replicas -> Nat]
        /\ mapperDone \in [Replicas -> BOOLEAN]
        /\ tempNode \in [Replicas -> Words \union {NULL}]
        /\ bwSize \in [Replicas -> Nat]
        /\ loaded \in [Replicas -> Nat]
        /\ freed \in [Replicas -> BOOLEAN]
        /\ spurious \in [Replicas -> Nat]
    BY DEF Init
  <2> QED
    BY <1>1, <2>1, <2>2, <2>3 DEF Init, TypeOK
<1>3. SizeInv
  BY <1>1 DEF Init, SizeInv
<1>4. AtHandInv
  BY <1>1 DEF Init, AtHandInv
<1> QED
  BY <1>2, <1>3, <1>4 DEF Inv

(* Incrementing the count of a matched node leaves a list of nodes. *)
LEMMA IncrementProperties ==
  ASSUME NEW list \in Seq(Nodes), NEW k \in DOMAIN list
  PROVE  [list EXCEPT ![k].count = @ + 1] \in Seq(Nodes)
<1>1. list[k] \in Nodes
  OBVIOUS
<1>2. [list[k] EXCEPT !.count = @ + 1] \in Nodes
  BY <1>1 DEF Nodes
<1> QED
  BY <1>2

LEMMA ReaderInv ==
  ASSUME Inv, NEW r \in Replicas, Reader(r)
  PROVE  Inv'
<1> USE SegmentAssumption DEF Inv, TypeOK, SizeInv, AtHandInv, ReaderPcs,
        AdderPcs, ReaderMoves, ReaderGoto, AdderGoto, mainVars, adderData, buffer
<1>1. CASE ReaderLock(r)      BY <1>1 DEF ReaderLock, Acquire
<1>2. CASE ReaderWait(r)      BY <1>2 DEF ReaderWait, Release
<1>3. CASE ReaderReacquire(r) BY <1>3 DEF ReaderReacquire, Acquire
<1>4. CASE ReaderPush(r)
  <2> DEFINE w == Segment[r][cursor[r]]
  <2>1. w \in Words
    BY <1>4 DEF ReaderPush
  <2>2. buffer_read[r] \in Seq(Words)
    OBVIOUS
  <2>3. /\ PushHead(w, buffer_read[r]) \in Seq(Words)
        /\ Len(PushHead(w, buffer_read[r])) = Len(buffer_read[r]) + 1
    BY ONLY <2>1, <2>2, PushHeadProperties
  <2>4. /\ buffer_read' = [buffer_read EXCEPT ![r] = PushHead(w, buffer_read[r])]
        /\ rpc' = [rpc EXCEPT ![r] = "unlock"]
        /\ brSize' = [brSize EXCEPT ![r] = @ + 1]
        /\ cursor' = [cursor EXCEPT ![r] = @ + 1]
        /\ UNCHANGED <<mainPc, rep, apc, lock, mapperDone, tempNode,
                       buffer_write, bwSize, threads_returned, loaded, freed,
                       spurious, aborted>>
    BY <1>4 DEF ReaderPush
  <2> HIDE DEF w
  <2>5. TypeOK'
    <3>1. /\ buffer_read' \in [Replicas -> Seq(Words)]
          /\ rpc' \in [Replicas -> ReaderPcs]
          /\ brSize' \in [Replicas -> Nat]
          /\ cursor' \in [Replicas -> Nat \ {0}]
      BY <2>3, <2>4
    <3> QED
      BY <2>4, <3>1
  <2>6. SizeInv'
    BY <1>4, <2>3, <2>4 DEF ReaderPush
  <2>7. AtHandInv'
    BY <1>4, <2>4 DEF ReaderPush
  <2> QED
    BY <2>5, <2>6, <2>7
<1>5. CASE ReaderUnlock(r)     BY <1>5 DEF ReaderUnlock, Release
<1>6. CASE ReaderSignal(r)     BY <1>6 DEF ReaderSignal, Woken
<1>7. CASE ReaderSetDone(r)    BY <1>7 DEF ReaderSetDone
<1>8. CASE ReaderUnlockDone(r) BY <1>8 DEF ReaderUnlockDone, Release
<1>9. CASE ReaderSignalDone(r) BY <1>9 DEF ReaderSignalDone, Woken
<1> QED
  BY <1>1, <1>2, <1>3, <1>4, <1>5, <1>6, <1>7, <1>8, <1>9 DEF Reader

LEMMA AdderInv ==
  ASSUME Inv, NEW r \in Replicas, Adder(r)
  PROVE  Inv'
<1> USE WordsAssumption DEF Inv, TypeOK, SizeInv, AtHandInv, ReaderPcs,
        AdderPcs, AdderMoves, ReaderGoto, AdderGoto, mainVars, adderData, buffer
<1>1. CASE AdderTestDone(r)  BY <1>1 DEF AdderTestDone
<1>2. CASE AdderTestSize(r)  BY <1>2 DEF AdderTestSize
<1>3. CASE AdderLock(r)      BY <1>3 DEF AdderLock, Acquire
<1>4. CASE AdderWait(r)      BY <1>4 DEF AdderWait, Release
<1>5. CASE AdderReacquire(r) BY <1>5 DEF AdderReacquire, Acquire
<1>6. CASE AdderPop(r)
  <2>1. /\ PopHead(buffer_read[r]) \in Seq(Words)
        /\ buffer_read[r] = <<>> => Len(buffer_read[r]) = 0
                                    /\ PopHead(buffer_read[r]) = <<>>
        /\ buffer_read[r] # <<>> =>
             /\ Len(buffer_read[r]) > 0
             /\ Len(PopHead(buffer_read[r])) = Len(buffer_read[r]) - 1
             /\ Head(buffer_read[r]) \in Words
    BY PopHeadProperties
  <2>2. /\ brSize[r] = Len(buffer_read[r])
        /\ apc' = [apc EXCEPT ![r] = "unlock"]
    BY <1>6 DEF AdderPop
  <2>3. CASE buffer_read[r] = <<>>
    BY <1>6, <2>1, <2>2, <2>3 DEF AdderPop
  <2>4. CASE buffer_read[r] # <<>>
    <3> DEFINE front == Head(buffer_read[r])
               rest  == PopHead(buffer_read[r])
    <3>0. /\ tempNode' = [tempNode EXCEPT ![r] = front]
          /\ buffer_read' = [buffer_read EXCEPT ![r] = rest]
          /\ brSize' = [brSize EXCEPT ![r] = @ - 1]
          /\ front \in Words /\ rest \in Seq(Words) /\ brSize[r] - 1 \in Nat
          /\ UNCHANGED <<mainPc, rep, rpc, cursor, lock, mapperDone,
                         buffer_write, bwSize, threads_returned, loaded, freed,
                         spurious, aborted>>
      BY <1>6, <2>1, <2>2, <2>4 DEF AdderPop
    <3>1. TypeOK'
      <4> HIDE DEF front, rest
      <4> QED
        BY <2>2, <3>0
    <3>2. SizeInv'
      BY <1>6, <2>1, <2>2, <2>4 DEF AdderPop
    <3>3. AtHandInv'
      BY <1>6, <2>1, <2>2, <2>4 DEF AdderPop
    <3> QED
      BY <3>1, <3>2, <3>3
  <2> QED
    BY <2>3, <2>4
<1>7. CASE AdderUnlock(r)    BY <1>7 DEF AdderUnlock, Release
<1>8. CASE AdderMerge(r)
  <2> DEFINE k == FindMatch(buffer_write[r], tempNode[r], bwSize[r])
  <2>1. tempNode[r] \in Words
    BY <1>8 DEF AdderMerge
  <2>2. CASE k # 0
    <3>1. k \in DOMAIN buffer_write[r]
      BY <2>2, FindMatchProperties
    <3> DEFINE list == [buffer_write[r] EXCEPT ![k].count = @ + 1]
    <3>2. list \in Seq(Nodes)
      BY <3>1, IncrementProperties
    <3>3. /\ buffer_write' = [buffer_write EXCEPT ![r] = list]
          /\ tempNode' = [tempNode EXCEPT ![r] = NULL]
          /\ apc' = [apc EXCEPT ![r] = "signal"]
          /\ UNCHANGED <<mainPc, rep, rpc, cursor, lock, buffer_read, brSize,
                         mapperDone, bwSize, threads_returned, loaded, freed,
                         spurious, aborted>>
      BY <1>8, <2>2 DEF AdderMerge
    <3> HIDE DEF list
    <3> QED
      BY <3>2, <3>3
  <2>3. CASE k = 0
    <3>1. [word |-> tempNode[r], count |-> 1] \in Nodes
      BY <2>1 DEF Nodes
    <3>2. PushHead([word |-> tempNode[r], count |-> 1], buffer_write[r])
            \in Seq(Nodes)
      BY <3>1, PushHeadProperties
    <3> DEFINE list == PushHead([word |-> tempNode[r], count |-> 1],
                                buffer_write[r])
    <3>3. /\ buffer_write' = [buffer_write EXCEPT ![r] = list]
          /\ bwSize' = [bwSize EXCEPT ![r] = @ + 1]
          /\ tempNode' = [tempNode EXCEPT ![r] = NULL]
          /\ apc' = [apc EXCEPT ![r] = "signal"]
          /\ UNCHANGED <<mainPc, rep, rpc, cursor, lock, buffer_read, brSize,
                         mapperDone, threads_returned, loaded, freed, spurious,
                         aborted>>
      BY <1>8, <2>3 DEF AdderMerge
    <3>4. list \in Seq(Nodes)
      BY <3>2
    <3> HIDE DEF list, k
    <3>5. /\ buffer_write' \in [Replicas -> Seq(Nodes)]
          /\ bwSize' \in [Replicas -> Nat]
          /\ tempNode' \in [Replicas -> Words \union {NULL}]
          /\ apc' \in [Replicas -> AdderPcs]
      BY <3>3, <3>4
    <3>6. TypeOK'
      BY <3>3, <3>5
    <3>7. SizeInv' /\ AtHandInv'
      BY <3>3
    <3> QED
      BY <3>6, <3>7
  <2> QED
    BY <2>2, <2>3
<1>9. CASE AdderSignal(r)    BY <1>9 DEF AdderSignal, Woken
<1>10. CASE AdderLoad(r)     BY <1>10 DEF AdderLoad
<1>11. CASE AdderStore(r)    BY <1>11 DEF AdderStore
<1>12. CASE AdderFree(r)     BY <1>12 DEF AdderFree
<1> QED
  BY <1>1, <1>2, <1>3, <1>4, <1>5, <1>6, <1>7, <1>8, <1>9, <1>10, <1>11,
     <1>12 DEF Adder

LEMMA OtherInv ==
  ASSUME Inv,
         Main \/ \E r \in Replicas : ReaderUsesFreed(r) \/ SpuriousWakeup(r)
  PROVE  Inv'
<1> USE ReplicasAssumption
        DEF Inv, TypeOK, SizeInv, AtHandInv, ReaderPcs, AdderPcs, ReaderGoto,
        AdderGoto, mainVars, adderData, buffer
<1>1. CASE SpawnReader BY <1>1 DEF SpawnReader, MainMoves, Replicas
<1>2. CASE SpawnAdder
  <2>1. /\ rep + 1 \in 1..(replicas + 1)
        /\ rep < replicas => rep + 1 \in Replicas
    BY <1>2 DEF SpawnAdder, MainMoves, Replicas
  <2> QED
    BY <1>2, <2>1 DEF SpawnAdder, MainMoves
<1>3. CASE LeaveSpin   BY <1>3 DEF LeaveSpin, MainMoves
<1>4. ASSUME NEW r \in Replicas, ReaderUsesFreed(r) PROVE Inv'
  BY <1>4 DEF ReaderUsesFreed
<1>5. ASSUME NEW r \in Replicas, SpuriousWakeup(r) PROVE Inv'
  <2>1. /\ spurious' \in [Replicas -> Nat]
        /\ UNCHANGED <<mainPc, rep, cursor, lock, buffer_read, brSize,
                       mapperDone, tempNode, buffer_write, bwSize,
                       threads_returned, loaded, freed, aborted>>
    BY <1>5 DEF SpuriousWakeup
  <2>2. CASE /\ rpc[r] = "wait" /\ rpc' = [rpc EXCEPT ![r] = "woken"]
             /\ apc' = apc
    BY <2>1, <2>2
  <2>3. CASE /\ apc[r] = "wait" /\ apc' = [apc EXCEPT ![r] = "woken"]
             /\ rpc' = rpc
    BY <2>1, <2>3
  <2> QED
    BY <1>5, <2>2, <2>3 DEF SpuriousWakeup
<1> QED
  BY <1>1, <1>2, <1>3, <1>4, <1>5 DEF Main

LEMMA StepInv == Inv /\ [Next]_vars => Inv'
<1> SUFFICES ASSUME Inv, [Next]_vars PROVE Inv'
  OBVIOUS
<1>1. CASE Next
  BY <1>1, ReaderInv, AdderInv, OtherInv DEF Next
<1>2. CASE UNCHANGED vars
  BY <1>2 DEF vars, Inv, TypeOK, SizeInv, AtHandInv
<1> QED
  BY <1>1, <1>2

(* The types of MapStage's variables; in particular no size field of a list
   that popHead decrements ever becomes negative. *)
THEOREM TypeCorrect == Spec => []TypeOK
<1>1. Inv => TypeOK
  BY DEF Inv
<1> QED
  BY InitInv, StepInv, <1>1, PTL DEF Spec

-----------------------------------------------------------------------------
(***************************************************************************)
(* A thread that main() has not created yet has not moved, nor has any     *)
(* signal woken it.                                                        *)
(***************************************************************************)
BornInv ==
  \A r \in Replicas :
    /\ mainPc = "spawnReader" /\ r >= rep => rpc[r] = "unborn"
    /\ mainPc = "spawnAdder"  /\ r >  rep => rpc[r] = "unborn"
    /\ mainPc \in {"spawnReader", "spawnAdder"} /\ r >= rep
         => apc[r] = "unborn"

LEMMA InitBorn == Init => BornInv
BY DEF Init, BornInv

LEMMA BornStep == Inv /\ BornInv /\ [Next]_vars => BornInv'
<1> SUFFICES ASSUME Inv, BornInv, [Next]_vars PROVE BornInv'
  OBVIOUS
<1>0. /\ rpc \in [Replicas -> ReaderPcs] /\ apc \in [Replicas -> AdderPcs]
      /\ rep \in Int
  BY DEF Inv, TypeOK
<1> USE <1>0 DEF BornInv, ReaderMoves, AdderMoves, ReaderGoto, AdderGoto,
        mainVars, Woken
<1>1. ASSUME NEW r \in Replicas, Reader(r) PROVE BornInv'
  <2>1. /\ rpc[r] # "unborn" /\ \E pc \in ReaderPcs : ReaderGoto(r, pc)
        /\ apc' = [apc EXCEPT ![r] = Woken(apc[r])] \/ UNCHANGED apc
        /\ UNCHANGED <<mainPc, rep>>
    BY <1>1 DEF Reader, ReaderLock, ReaderWait, ReaderReacquire, ReaderPush,
       ReaderUnlock, ReaderSignal, ReaderSetDone, ReaderUnlockDone,
       ReaderSignalDone, ReaderPcs
  <2> QED
    BY <2>1
<1>2. ASSUME NEW r \in Replicas, Adder(r) PROVE BornInv'
  <2>1. /\ apc[r] # "unborn" /\ \E pc \in AdderPcs : AdderGoto(r, pc)
        /\ rpc' = [rpc EXCEPT ![r] = Woken(rpc[r])] \/ UNCHANGED rpc
        /\ UNCHANGED <<mainPc, rep>>
    BY <1>2 DEF Adder, AdderTestDone, AdderTestSize, AdderLock, AdderWait,
       AdderReacquire, AdderPop, AdderUnlock, AdderMerge, AdderSignal,
       AdderLoad, AdderStore, AdderFree, AdderPcs
  <2> QED
    BY <2>1
<1>3. CASE Main
  <2>1. CASE SpawnReader BY <2>1 DEF SpawnReader, MainMoves, Replicas
  <2>2. CASE SpawnAdder  BY <2>2 DEF SpawnAdder, MainMoves, Replicas
  <2>3. CASE LeaveSpin   BY <2>3 DEF LeaveSpin, MainMoves
  <2> QED
    BY <1>3, <2>1, <2>2, <2>3 DEF Main
<1>4. ASSUME NEW r \in Replicas, ReaderUsesFreed(r) PROVE BornInv'
  BY <1>4 DEF ReaderUsesFreed
<1>5. ASSUME NEW r \in Replicas, SpuriousWakeup(r) PROVE BornInv'
  BY <1>5 DEF SpuriousWakeup
<1>6. CASE UNCHANGED vars
  BY <1>6 DEF vars
<1> QED
  BY <1>1, <1>2, <1>3, <1>4, <1>5, <1>6 DEF Next

-----------------------------------------------------------------------------
(***************************************************************************)
(* No wakeup is lost between the reader and the adder of a pair.           *)
(* NoLostWakeup is inductive once the size of the buffer is known to be    *)
(* the length of the list: only then does a pop that decrements the size   *)
(* also leave the adder with a node, hence with a signal to give.          *)
(***************************************************************************)
LEMMA WakeupStep ==
  Inv /\ BornInv /\ NoLostWakeup /\ [Next]_vars => NoLostWakeup'
<1> SUFFICES ASSUME Inv, BornInv, NoLostWakeup, [Next]_vars
             PROVE  NoLostWakeup'
  OBVIOUS
<1>0. /\ rpc \in [Replicas -> ReaderPcs] /\ apc \in [Replicas -> AdderPcs]
      /\ brSize \in [Replicas -> Nat]
      /\ tempNode \in [Replicas -> Words \union {NULL}]
      /\ bufferMaxSize \in Nat
  BY BufferAssumption DEF Inv, TypeOK
<1> USE <1>0 DEF NoLostWakeup, OwesSignal, ReaderMoves, AdderMoves, ReaderGoto,
        AdderGoto, mainVars, adderData, buffer, Woken
<1>1. ASSUME NEW r \in Replicas, Reader(r) PROVE NoLostWakeup'
  <2>1. CASE ReaderLock(r)       BY <2>1 DEF ReaderLock
  <2>2. CASE ReaderWait(r)       BY <2>2 DEF ReaderWait
  <2>3. CASE ReaderReacquire(r)  BY <2>3 DEF ReaderReacquire
  <2>4. CASE ReaderPush(r)       BY <2>4 DEF ReaderPush
  <2>5. CASE ReaderUnlock(r)     BY <2>5 DEF ReaderUnlock
  <2>6. CASE ReaderSignal(r)     BY <2>6 DEF ReaderSignal
  <2>7. CASE ReaderSetDone(r)    BY <2>7 DEF ReaderSetDone
  <2>8. CASE ReaderUnlockDone(r) BY <2>8 DEF ReaderUnlockDone
  <2>9. CASE ReaderSignalDone(r) BY <2>9 DEF ReaderSignalDone
  <2> QED
    BY <1>1, <2>1, <2>2, <2>3, <2>4, <2>5, <2>6, <2>7, <2>8, <2>9 DEF Reader
<1>2. ASSUME NEW r \in Replicas, Adder(r) PROVE NoLostWakeup'
  <2>1. CASE AdderTestDone(r)  BY <2>1 DEF AdderTestDone
  <2>2. CASE AdderTestSize(r)  BY <2>2 DEF AdderTestSize
  <2>3. CASE AdderLock(r)      BY <2>3 DEF AdderLock
  <2>4. CASE AdderWait(r)      BY <2>4 DEF AdderWait
  <2>5. CASE AdderReacquire(r) BY <2>5 DEF AdderReacquire
  <2>6. CASE AdderPop(r)
    <3>1. buffer_read[r] # <<>> => tempNode'[r] # NULL
      BY <2>6, WordsAssumption DEF AdderPop, Inv, TypeOK
    <3> QED
      BY <2>6, <3>1 DEF AdderPop
  <2>7. CASE AdderUnlock(r)    BY <2>7 DEF AdderUnlock
  <2>8. CASE AdderMerge(r)     BY <2>8 DEF AdderMerge
  <2>9. CASE AdderSignal(r)    BY <2>9 DEF AdderSignal
  <2>10. CASE AdderLoad(r)     BY <2>10 DEF AdderLoad
  <2>11. CASE AdderStore(r)    BY <2>11 DEF AdderStore
  <2>12. CASE AdderFree(r)     BY <2>12 DEF AdderFree
  <2> QED
    BY <1>2, <2>1, <2>2, <2>3, <2>4, <2>5, <2>6, <2>7, <2>8, <2>9, <2>10,
       <2>11, <2>12 DEF Adder
<1>3. CASE Main
  <2>1. CASE SpawnReader
    <3>1. apc[rep] = "unborn"
      BY <2>1 DEF SpawnReader, MainMoves, BornInv, Inv, AtHandInv, Replicas
    <3> QED
      BY <2>1, <3>1 DEF SpawnReader, MainMoves
  <2>2. CASE SpawnAdder
    <3>1. apc[rep] = "unborn"
      BY <2>2 DEF SpawnAdder, MainMoves, BornInv, Inv, AtHandInv, Replicas
    <3> QED
      BY <2>2, <3>1 DEF SpawnAdder, MainMoves
  <2>3. CASE LeaveSpin   BY <2>3 DEF LeaveSpin, MainMoves
  <2> QED
    BY <1>3, <2>1, <2>2, <2>3 DEF Main
<1>4. ASSUME NEW r \in Replicas, ReaderUsesFreed(r) PROVE NoLostWakeup'
  BY <1>4 DEF ReaderUsesFreed
<1>5. ASSUME NEW r \in Replicas, SpuriousWakeup(r) PROVE NoLostWakeup'
  BY <1>5 DEF SpuriousWakeup
<1>6. CASE UNCHANGED vars
  BY <1>6 DEF vars
<1> QED
  BY <1>1, <1>2, <1>3, <1>4, <1>5, <1>6 DEF Next

(* A thread of a pair that waits although its condition has become true is
   owed a signal: for every number of pairs, bound and input, with spurious
   wakeups or without. *)
THEOREM NoWakeupLost == Spec => []NoLostWakeup
<1>1. Init => NoLostWakeup
  BY DEF Init, NoLostWakeup
<1> QED
  BY InitInv, StepInv, InitBorn, BornStep, WakeupStep, <1>1, PTL DEF Spec

(* With room for one node, the two threads of a pair never sleep together. *)
THEOREM NeverBothWait == Spec => []PairNeverBothWait
<1>1. Inv /\ NoLostWakeup => PairNeverBothWait
  <2> SUFFICES ASSUME Inv, NoLostWakeup, bufferMaxSize > 0, NEW r \in Replicas,
                      rpc[r] = "wait", apc[r] = "wait"
               PROVE  FALSE
    BY DEF PairNeverBothWait
  <2>1. brSize[r] \in Nat /\ bufferMaxSize \in Nat
    BY BufferAssumption DEF Inv, TypeOK
  <2>2. brSize[r] <= 0
    BY <2>1 DEF NoLostWakeup
  <2>3. brSize[r] >= bufferMaxSize
    BY <2>1 DEF NoLostWakeup, OwesSignal
  <2> QED
    BY <2>1, <2>2, <2>3
<1>2. Spec => []Inv
  BY InitInv, StepInv, PTL DEF Spec
<1> QED
  BY <1>1, <1>2, NoWakeupLost, PTL

-----------------------------------------------------------------------------
(***************************************************************************)
(* The buffer exceeds its bound by at most one node, and one more for each *)
(* spurious wakeup.  A reader that has been woken pushes without testing   *)
(* the bound, so there must be room then for one node up to the limit; an  *)
(* adder that still owes a signal can wake it at any time, so its pop must *)
(* already have made that room; and when both hold, room for two.          *)
(***************************************************************************)
WillPush(r) == rpc[r] \in {"woken", "push"}

Limit(r) == bufferMaxSize + 1 + spurious[r]

BoundInv ==
  \A r \in Replicas :
    /\ brSize[r] <= Limit(r)
    /\ WillPush(r)   => brSize[r] <= Limit(r) - 1
    /\ OwesSignal(r) => brSize[r] <= Limit(r) - 1
    /\ WillPush(r) /\ OwesSignal(r) => brSize[r] <= Limit(r) - 2

LEMMA BoundStep == Inv /\ BornInv /\ BoundInv /\ [Next]_vars => BoundInv'
<1> SUFFICES ASSUME Inv, BornInv, BoundInv, [Next]_vars
             PROVE  BoundInv'
  OBVIOUS
<1>0. /\ rpc \in [Replicas -> ReaderPcs] /\ apc \in [Replicas -> AdderPcs]
      /\ brSize \in [Replicas -> Nat]
      /\ tempNode \in [Replicas -> Words \union {NULL}]
      /\ bufferMaxSize \in Nat /\ spurious \in [Replicas -> Nat]
  BY BufferAssumption DEF Inv, TypeOK
<1> USE <1>0 DEF BoundInv, Limit, WillPush, OwesSignal, ReaderMoves, AdderMoves,
        ReaderGoto, AdderGoto, mainVars, adderData, buffer, Woken
<1>1. ASSUME NEW r \in Replicas, Reader(r) PROVE BoundInv'
  <2>1. CASE ReaderLock(r)       BY <2>1 DEF ReaderLock
  <2>2. CASE ReaderWait(r)       BY <2>2 DEF ReaderWait
  <2>3. CASE ReaderReacquire(r)  BY <2>3 DEF ReaderReacquire
  <2>4. CASE ReaderPush(r)       BY <2>4 DEF ReaderPush
  <2>5. CASE ReaderUnlock(r)     BY <2>5 DEF ReaderUnlock
  <2>6. CASE ReaderSignal(r)     BY <2>6 DEF ReaderSignal
  <2>7. CASE ReaderSetDone(r)    BY <2>7 DEF ReaderSetDone
  <2>8. CASE ReaderUnlockDone(r) BY <2>8 DEF ReaderUnlockDone
  <2>9. CASE ReaderSignalDone(r) BY <2>9 DEF ReaderSignalDone
  <2> QED
    BY <1>1, <2>1, <2>2, <2>3, <2>4, <2>5, <2>6, <2>7, <2>8, <2>9 DEF Reader
<1>2. ASSUME NEW r \in Replicas, Adder(r) PROVE BoundInv'
  <2>1. CASE AdderTestDone(r)  BY <2>1 DEF AdderTestDone
  <2>2. CASE AdderTestSize(r)  BY <2>2 DEF AdderTestSize
  <2>3. CASE AdderLock(r)      BY <2>3 DEF AdderLock
  <2>4. CASE AdderWait(r)      BY <2>4 DEF AdderWait
  <2>5. CASE AdderReacquire(r) BY <2>5 DEF AdderReacquire
  <2>6. CASE AdderPop(r)       BY <2>6 DEF AdderPop
  <2>7. CASE AdderUnlock(r)    BY <2>7 DEF AdderUnlock
  <2>8. CASE AdderMerge(r)     BY <2>8 DEF AdderMerge
  <2>9. CASE AdderSignal(r)    BY <2>9 DEF AdderSignal
  <2>10. CASE AdderLoad(r)     BY <2>10 DEF AdderLoad
  <2>11. CASE AdderStore(r)    BY <2>11 DEF AdderStore
  <2>12. CASE AdderFree(r)     BY <2>12 DEF AdderFree
  <2> QED
    BY <1>2, <2>1, <2>2, <2>3, <2>4, <2>5, <2>6, <2>7, <2>8, <2>9, <2>10,
       <2>11, <2>12 DEF Adder
<1>3. CASE Main
  <2>1. CASE SpawnReader BY <2>1 DEF SpawnReader, MainMoves
  <2>2. CASE SpawnAdder  BY <2>2 DEF SpawnAdder, MainMoves
  <2>3. CASE LeaveSpin   BY <2>3 DEF LeaveSpin, MainMoves
  <2> QED
    BY <1>3, <2>1, <2>2, <2>3 DEF Main
<1>4. ASSUME NEW r \in Replicas, ReaderUsesFreed(r) PROVE BoundInv'
  BY <1>4 DEF ReaderUsesFreed
<1>5. ASSUME NEW r \in Replicas, SpuriousWakeup(r) PROVE BoundInv'
  BY <1>5 DEF SpuriousWakeup
<1>6. CASE UNCHANGED vars
  BY <1>6 DEF vars
<1> QED
  BY <1>1, <1>2, <1>3, <1>4, <1>5, <1>6 DEF Next

(* The buffer never holds more than one node above its bound, and one more
   for each wait that ended without a signal, whatever the bound and the
   number of pairs. *)
THEOREM OverrunIsBounded == Spec => []BufferOverrunBounded
<1>1. Init => BoundInv
  BY BufferAssumption DEF Init, BoundInv, Limit, WillPush, OwesSignal
<1>2. BoundInv => BufferOverrunBounded
  BY DEF BoundInv, Limit, BufferOverrunBounded
<1> QED
  BY InitInv, StepInv, InitBorn, BornStep, BoundStep, <1>1, <1>2, PTL DEF Spec

-----------------------------------------------------------------------------
(***************************************************************************)
(* The reducer runs after the last adder, although *threads_returned is    *)
(* incremented without a lock: an increment may be lost, but the counter,  *)
(* and every value an adder has loaded to write back incremented, is at    *)
(* most the number of adders that have stored theirs.                      *)
(***************************************************************************)
Stored == {r \in Replicas : PastStore(r)}

CountInv ==
  /\ threads_returned <= Cardinality(Stored)
  /\ \A r \in Replicas : apc[r] = "store" => loaded[r] <= Cardinality(Stored)

LEMMA StoredFinite ==
  /\ IsFiniteSet(Replicas) /\ Cardinality(Replicas) = replicas
  /\ Stored \in SUBSET Replicas
  /\ IsFiniteSet(Stored) /\ Cardinality(Stored) \in Nat
  /\ Cardinality(Stored) >= replicas => Stored = Replicas
<1>1. IsFiniteSet(Replicas) /\ Cardinality(Replicas) = replicas
  BY ReplicasAssumption, FS_Interval DEF Replicas
<1>2. Stored \in SUBSET Replicas
  BY DEF Stored
<1>3. /\ IsFiniteSet(Stored)
      /\ Cardinality(Stored) <= Cardinality(Replicas)
      /\ Cardinality(Replicas) = Cardinality(Stored) => Replicas = Stored
  BY <1>1, <1>2, FS_Subset
<1>4. Cardinality(Stored) \in Nat
  BY <1>3, FS_CardinalityType
<1> QED
  BY <1>1, <1>2, <1>3, <1>4, ReplicasAssumption

(* A step other than AdderStore leaves the set of stored increments alone. *)
LEMMA StoredUnchanged ==
  ASSUME Inv, BornInv, [Next]_vars, \A r \in Replicas : ~AdderStore(r)
  PROVE  Stored' = Stored
<1>0. apc \in [Replicas -> AdderPcs]
  BY DEF Inv, TypeOK
<1> SUFFICES \A r \in Replicas : PastStore(r)' <=> PastStore(r)
  BY DEF Stored
<1> USE <1>0 DEF PastStore, AdderMoves, AdderGoto, Woken
<1>1. ASSUME NEW r \in Replicas, Reader(r)
      PROVE  \A q \in Replicas : PastStore(q)' <=> PastStore(q)
  <2>1. apc' = [apc EXCEPT ![r] = Woken(apc[r])] \/ UNCHANGED apc
    BY <1>1 DEF Reader, ReaderLock, ReaderWait, ReaderReacquire, ReaderPush,
       ReaderUnlock, ReaderSignal, ReaderSetDone, ReaderUnlockDone,
       ReaderSignalDone
  <2> QED
    BY <2>1
<1>2. ASSUME NEW r \in Replicas, Adder(r)
      PROVE  \A q \in Replicas : PastStore(q)' <=> PastStore(q)
  <2>1. \/ /\ apc[r] \notin {"free", "returned"}
           /\ \E pc \in AdderPcs \ {"free", "returned"} : AdderGoto(r, pc)
        \/ apc[r] = "free" /\ AdderGoto(r, "returned")
    BY <1>2 DEF Adder, AdderTestDone, AdderTestSize, AdderLock, AdderWait,
       AdderReacquire, AdderPop, AdderUnlock, AdderMerge, AdderSignal,
       AdderLoad, AdderFree, AdderPcs
  <2> QED
    BY <2>1
<1>3. ASSUME Main
      PROVE  \A q \in Replicas : PastStore(q)' <=> PastStore(q)
  <2>1. \/ UNCHANGED apc
        \/ apc[rep] = "unborn" /\ AdderGoto(rep, "testDone")
    BY <1>3 DEF Main, SpawnReader, SpawnAdder, LeaveSpin, MainMoves, BornInv,
       Inv, AtHandInv, Replicas
  <2> QED
    BY <2>1
<1>4. ASSUME NEW r \in Replicas, ReaderUsesFreed(r) \/ SpuriousWakeup(r)
      PROVE  \A q \in Replicas : PastStore(q)' <=> PastStore(q)
  BY <1>4 DEF ReaderUsesFreed, SpuriousWakeup
<1>5. CASE UNCHANGED vars
  BY <1>5 DEF vars
<1> QED
  BY <1>1, <1>2, <1>3, <1>4, <1>5 DEF Next

LEMMA CountStep == Inv /\ BornInv /\ CountInv /\ [Next]_vars => CountInv'
<1> SUFFICES ASSUME Inv, BornInv, CountInv, [Next]_vars PROVE CountInv'
  OBVIOUS
<1>0. /\ apc \in [Replicas -> AdderPcs] /\ loaded \in [Replicas -> Nat]
      /\ threads_returned \in Nat
  BY DEF Inv, TypeOK
<1>1. ASSUME NEW r \in Replicas, AdderStore(r) PROVE CountInv'
  <2>1. /\ apc[r] = "store" /\ apc' = [apc EXCEPT ![r] = "free"]
        /\ threads_returned' = loaded[r] + 1 /\ loaded' = loaded
    BY <1>1 DEF AdderStore, AdderMoves, AdderGoto, adderData
  <2>2. r \notin Stored /\ Stored' = Stored \cup {r}
    BY <1>0, <2>1 DEF Stored, PastStore
  <2>3. Cardinality(Stored') = Cardinality(Stored) + 1
    BY <2>2, StoredFinite, FS_AddElement
  <2>4. Cardinality(Stored) \in Nat
    BY StoredFinite
  <2> QED
    BY <1>0, <2>1, <2>3, <2>4 DEF CountInv
<1>2. ASSUME NEW r \in Replicas, AdderLoad(r) PROVE CountInv'
  <2>1. /\ apc[r] = "load" /\ apc' = [apc EXCEPT ![r] = "store"]
        /\ loaded' = [loaded EXCEPT ![r] = threads_returned]
        /\ UNCHANGED threads_returned
    BY <1>2 DEF AdderLoad, AdderMoves, AdderGoto
  <2>2. Stored' = Stored
    BY <1>0, <2>1 DEF Stored, PastStore
  <2> QED
    BY <1>0, <2>1, <2>2 DEF CountInv
<1>3. ASSUME \A r \in Replicas : ~AdderStore(r) /\ ~AdderLoad(r)
      PROVE  CountInv'
  <2>1. Stored' = Stored
    BY <1>3, StoredUnchanged
  <2>2. UNCHANGED <<threads_returned, loaded>>
    BY <1>3 DEF Next, vars, Main, SpawnReader, SpawnAdder, LeaveSpin, MainMoves,
       Reader, ReaderLock, ReaderWait, ReaderReacquire, ReaderPush,
       ReaderUnlock, ReaderSignal, ReaderSetDone, ReaderUnlockDone,
       ReaderSignalDone, ReaderUsesFreed, SpuriousWakeup, ReaderMoves, Adder,
       AdderTestDone, AdderTestSize, AdderLock, AdderWait, AdderReacquire,
       AdderPop, AdderUnlock, AdderMerge, AdderSignal, AdderFree, adderData
  <2>3. \A r \in Replicas : apc'[r] = "store" => apc[r] = "store"
    BY <1>0, <1>3 DEF Next, vars, Main, SpawnReader, SpawnAdder, LeaveSpin,
       MainMoves, Reader, ReaderLock, ReaderWait, ReaderReacquire, ReaderPush,
       ReaderUnlock, ReaderSignal, ReaderSetDone, ReaderUnlockDone,
       ReaderSignalDone, ReaderUsesFreed, SpuriousWakeup, Adder,
       AdderTestDone, AdderTestSize, AdderLock, AdderWait, AdderReacquire,
       AdderPop, AdderUnlock, AdderMerge, AdderSignal, AdderFree, AdderMoves,
       AdderGoto, Woken
  <2> QED
    BY <2>1, <2>2, <2>3 DEF CountInv
<1> QED
  BY <1>1, <1>2, <1>3

(* Once main() is in the reducer, all increments have been stored. *)
ReduceInv == mainPc = "reduce" => Stored = Replicas

LEMMA ReduceStep ==
  Inv /\ BornInv /\ CountInv /\ ReduceInv /\ [Next]_vars => ReduceInv'
<1> SUFFICES ASSUME Inv, BornInv, CountInv, ReduceInv, [Next]_vars,
                    mainPc' = "reduce"
             PROVE  Stored' = Replicas
  BY DEF ReduceInv, Replicas
<1>1. CASE LeaveSpin
  <2>1. threads_returned >= replicas /\ UNCHANGED apc
    BY <1>1 DEF LeaveSpin
  <2>2. Cardinality(Stored) >= replicas
    BY <2>1, StoredFinite, ReplicasAssumption DEF CountInv, Inv, TypeOK
  <2> QED
    BY <2>1, <2>2, StoredFinite DEF Stored, PastStore
<1>2. CASE ~LeaveSpin
  <2>1. mainPc = "reduce"
    BY <1>2 DEF Next, vars, Main, SpawnReader, SpawnAdder, MainMoves, mainVars,
       Reader, ReaderLock, ReaderWait, ReaderReacquire, ReaderPush,
       ReaderUnlock, ReaderSignal, ReaderSetDone, ReaderUnlockDone,
       ReaderSignalDone, ReaderUsesFreed, SpuriousWakeup, ReaderMoves, Adder,
       AdderTestDone, AdderTestSize, AdderLock, AdderWait, AdderReacquire,
       AdderPop, AdderUnlock, AdderMerge, AdderSignal, AdderLoad, AdderStore,
       AdderFree, AdderMoves
  <2>2. Stored = Replicas
    BY <2>1 DEF ReduceInv
  <2>3. \A r \in Replicas : ~AdderStore(r)
    BY <2>2 DEF Stored, PastStore, AdderStore, AdderMoves
  <2> QED
    BY <2>2, <2>3, StoredUnchanged
<1> QED
  BY <1>1, <1>2

(* "Only runs once, and only after the final map-adder-n has finished
   running": for every number of adders and every interleaving of their
   unprotected increments. *)
THEOREM ReducerRunsLast == Spec => []ReducerAfterLastAdder
<1>1. Init => CountInv /\ ReduceInv
  <2> SUFFICES ASSUME Init PROVE CountInv /\ ReduceInv
    OBVIOUS
  <2>1. threads_returned <= Cardinality(Stored)
    BY StoredFinite DEF Init
  <2> QED
    BY <2>1 DEF Init, CountInv, ReduceInv
<1>2. ReduceInv => ReducerAfterLastAdder
  BY DEF ReduceInv, ReducerAfterLastAdder, Stored
<1> QED
  BY InitInv, StepInv, InitBorn, BornStep, CountStep, ReduceStep, <1>1, <1>2,
     PTL DEF Spec

-----------------------------------------------------------------------------
(***************************************************************************)
(* What the reader may still do when its lock is freed.  An adder past its *)
(* loop has seen mapperDone, and the reader sets that flag on its way out. *)
(***************************************************************************)
Leaving(r) == rpc[r] \in {"unlockDone", "signalDone", "returned"}

DoneInv ==
  \A r \in Replicas :
    /\ mapperDone[r] => Leaving(r)
    /\ apc[r] = "testSize" \/ PastLoop(r) \/ freed[r] => mapperDone[r]

LEMMA DoneStep == Inv /\ BornInv /\ DoneInv /\ [Next]_vars => DoneInv'
<1> SUFFICES ASSUME Inv, BornInv, DoneInv, [Next]_vars PROVE DoneInv'
  OBVIOUS
<1>0. /\ rpc \in [Replicas -> ReaderPcs] /\ apc \in [Replicas -> AdderPcs]
      /\ mapperDone \in [Replicas -> BOOLEAN]
      /\ freed \in [Replicas -> BOOLEAN]
  BY DEF Inv, TypeOK
<1> USE <1>0 DEF DoneInv, Leaving, PastLoop, ReaderGoto, AdderGoto, Woken
(* A reader only moves on once it is leaving, and sets the flag then. *)
<1>1. ASSUME NEW r \in Replicas, Reader(r) PROVE DoneInv'
  <2>1. /\ UNCHANGED freed
        /\ apc' = [apc EXCEPT ![r] = Woken(apc[r])] \/ UNCHANGED apc
    BY <1>1 DEF Reader, ReaderLock, ReaderWait, ReaderReacquire, ReaderPush,
       ReaderUnlock, ReaderSignal, ReaderSetDone, ReaderUnlockDone,
       ReaderSignalDone, ReaderMoves, adderData
  <2>2. \E pc \in ReaderPcs :
          /\ ReaderGoto(r, pc)
          /\ Leaving(r) => pc \in {"signalDone", "returned"}
          /\ \/ UNCHANGED mapperDone
             \/ /\ mapperDone' = [mapperDone EXCEPT ![r] = TRUE]
                /\ pc = "unlockDone"
    BY <1>1 DEF Reader, ReaderLock, ReaderWait, ReaderReacquire, ReaderPush,
       ReaderUnlock, ReaderSignal, ReaderSetDone, ReaderUnlockDone,
       ReaderSignalDone, ReaderMoves, ReaderPcs
  <2> QED
    BY <2>1, <2>2
(* An adder gets past its test only when the flag is set, and its signal
   moves no reader that is leaving. *)
<1>2. ASSUME NEW r \in Replicas, Adder(r) PROVE DoneInv'
  <2>1. /\ UNCHANGED mapperDone
        /\ rpc' = [rpc EXCEPT ![r] = Woken(rpc[r])] \/ UNCHANGED rpc
        /\ \/ PastLoop(r) /\ freed' = [freed EXCEPT ![r] = TRUE]
           \/ UNCHANGED freed
    BY <1>2 DEF Adder, AdderTestDone, AdderTestSize, AdderLock, AdderWait,
       AdderReacquire, AdderPop, AdderUnlock, AdderMerge, AdderSignal,
       AdderLoad, AdderStore, AdderFree, AdderMoves, adderData
  <2>2. \E pc \in AdderPcs :
          /\ AdderGoto(r, pc)
          /\ pc \in {"testSize", "load", "store", "free", "returned"}
               => mapperDone[r]
    BY <1>2 DEF Adder, AdderTestDone, AdderTestSize, AdderLock, AdderWait,
       AdderReacquire, AdderPop, AdderUnlock, AdderMerge, AdderSignal,
       AdderLoad, AdderStore, AdderFree, AdderMoves, AdderPcs
  <2> QED
    BY <2>1, <2>2
(* A thread that main creates was not there before. *)
<1>3. CASE Main
  <2>1. CASE SpawnReader
    BY <2>1 DEF SpawnReader, MainMoves, adderData, BornInv, Inv, AtHandInv,
       Replicas
  <2>2. CASE SpawnAdder
    BY <2>2 DEF SpawnAdder, MainMoves, adderData
  <2>3. CASE LeaveSpin
    BY <2>3 DEF LeaveSpin, MainMoves, adderData
  <2> QED
    BY <1>3, <2>1, <2>2, <2>3 DEF Main
<1>4. ASSUME NEW r \in Replicas, ReaderUsesFreed(r) PROVE DoneInv'
  BY <1>4 DEF ReaderUsesFreed, adderData
<1>5. ASSUME NEW r \in Replicas, SpuriousWakeup(r) PROVE DoneInv'
  BY <1>5 DEF SpuriousWakeup, adderData
<1>6. CASE UNCHANGED vars
  BY <1>6 DEF vars
<1> QED
  BY <1>1, <1>2, <1>3, <1>4, <1>5, <1>6 DEF Next

(* When the adder has freed what the two threads share, the reader can only be
   on its way out: freed memory never meets a wait, a push or a test of the
   bound, in any number of pairs and for any input. *)
THEOREM FreedLate == Spec => []FreedOnlyAfterDone
<1>1. Init => DoneInv
  BY DEF Init, DoneInv, PastLoop
<1>2. DoneInv => FreedOnlyAfterDone
  BY DEF DoneInv, Leaving, FreedOnlyAfterDone
<1> QED
  BY InitInv, StepInv, InitBorn, BornStep, DoneStep, <1>1, <1>2, PTL DEF Spec

-----------------------------------------------------------------------------
(***************************************************************************)
(* No word is lost or doubled.  A step moves at most one word, from one of *)
(* the four places where it may be to the next; the adder has no node in   *)
(* its hands when it pops one, so none is overwritten.                     *)
(***************************************************************************)
HandInv ==
  \A r \in Replicas :
    /\ tempNode[r] # NULL => apc[r] \in {"unlock", "merge"}
    /\ cursor[r] <= Len(Segment[r]) + 1

(* The occurrences of w in r's segment, wherever they are. *)
Everywhere(r, w) ==
  Unread(r, w) + Occurrences(buffer_read[r], w)
    + (IF tempNode[r] = w THEN 1 ELSE 0) + CountOf(buffer_write[r], w)

WrittenInv ==
  \A r \in Replicas :
    Distinct(buffer_write[r]) /\ bwSize[r] = Len(buffer_write[r])

BalanceInv ==
  \A r \in Replicas, w \in Words : Everywhere(r, w) = Occurrences(Segment[r], w)

(* A step of r's pair other than the three that move a word. *)
LEMMA OtherStepsMoveNoWord ==
  ASSUME Inv, BornInv, [Next]_vars,
         \A r \in Replicas : ~ReaderPush(r) /\ ~AdderPop(r) /\ ~AdderMerge(r)
  PROVE  /\ UNCHANGED <<cursor, buffer_read, brSize, tempNode, buffer_write,
                        bwSize>>
         /\ \A r \in Replicas :
              /\ apc[r] = "unlock" /\ apc'[r] # "unlock" /\ tempNode[r] # NULL
                   => apc'[r] = "merge"
              /\ apc[r] = "merge" => apc'[r] = "merge"
<1>1. UNCHANGED <<cursor, buffer_read, brSize, tempNode, buffer_write, bwSize>>
  BY DEF Next, vars, Main, SpawnReader, SpawnAdder, LeaveSpin, MainMoves, buffer,
     Reader, ReaderLock, ReaderWait, ReaderReacquire, ReaderUnlock, ReaderSignal,
     ReaderSetDone, ReaderUnlockDone, ReaderSignalDone, ReaderUsesFreed,
     SpuriousWakeup, ReaderMoves, Adder, AdderTestDone, AdderTestSize, AdderLock,
     AdderWait, AdderReacquire, AdderUnlock, AdderSignal, AdderLoad, AdderStore,
     AdderFree, AdderMoves, adderData
<1>2. ASSUME NEW r \in Replicas
      PROVE  /\ apc[r] = "unlock" /\ apc'[r] # "unlock" /\ tempNode[r] # NULL
                  => apc'[r] = "merge"
             /\ apc[r] = "merge" => apc'[r] = "merge"
  <2>0. apc \in [Replicas -> AdderPcs]
    BY DEF Inv, TypeOK
  <2>1. ASSUME NEW q \in Replicas, Reader(q)
        PROVE  apc'[r] = apc[r] \/ apc[r] = "wait"
    BY <2>0, <2>1 DEF Reader, ReaderLock, ReaderWait, ReaderReacquire, ReaderPush,
       ReaderUnlock, ReaderSignal, ReaderSetDone, ReaderUnlockDone,
       ReaderSignalDone, AdderGoto, Woken
  <2>2. ASSUME NEW q \in Replicas, Adder(q)
        PROVE  \/ apc'[r] = apc[r] \/ apc[r] \notin {"unlock", "merge"}
               \/ apc[r] = "unlock" /\ (tempNode[r] # NULL => apc'[r] = "merge")
    BY <2>0, <2>2 DEF Adder, AdderTestDone, AdderTestSize, AdderLock, AdderWait,
       AdderReacquire, AdderUnlock, AdderSignal, AdderLoad, AdderStore,
       AdderFree, AdderMoves, AdderGoto
  <2>3. ASSUME Main
        PROVE  apc'[r] = apc[r] \/ apc[r] = "unborn"
    BY <2>0, <2>3 DEF Main, SpawnReader, SpawnAdder, LeaveSpin, MainMoves,
       AdderGoto, BornInv, Inv, AtHandInv
  <2>4. ASSUME NEW q \in Replicas, ReaderUsesFreed(q) \/ SpuriousWakeup(q)
        PROVE  apc'[r] = apc[r] \/ apc[r] = "wait"
    BY <2>0, <2>4 DEF ReaderUsesFreed, SpuriousWakeup, AdderGoto
  <2>5. UNCHANGED vars => apc'[r] = apc[r]
    BY DEF vars
  <2> QED
    BY <2>1, <2>2, <2>3, <2>4, <2>5 DEF Next
<1> QED
  BY <1>1, <1>2

LEMMA HandStep == Inv /\ BornInv /\ HandInv /\ [Next]_vars => HandInv'
<1> SUFFICES ASSUME Inv, BornInv, HandInv, [Next]_vars PROVE HandInv'
  OBVIOUS
<1>0. /\ apc \in [Replicas -> AdderPcs]
      /\ tempNode \in [Replicas -> Words \union {NULL}]
      /\ cursor \in [Replicas -> Nat \ {0}]
      /\ \A r \in Replicas : Len(Segment[r]) \in Nat
  BY SegmentAssumption DEF Inv, TypeOK
<1>1. ASSUME NEW r \in Replicas, ReaderPush(r) PROVE HandInv'
  <2>1. /\ cursor' = [cursor EXCEPT ![r] = @ + 1] /\ cursor[r] <= Len(Segment[r])
        /\ UNCHANGED <<tempNode, apc>>
    BY <1>1 DEF ReaderPush, ReaderMoves, adderData, Inv, AtHandInv
  <2> QED
    BY <1>0, <2>1 DEF HandInv
<1>2. ASSUME NEW r \in Replicas, AdderPop(r) PROVE HandInv'
  <2>1. /\ apc' = [apc EXCEPT ![r] = "unlock"] /\ UNCHANGED cursor
        /\ \A q \in Replicas : q # r => tempNode'[q] = tempNode[q]
    BY <1>0, <1>2 DEF AdderPop, AdderMoves, AdderGoto
  <2> QED
    BY <1>0, <2>1 DEF HandInv
<1>3. ASSUME NEW r \in Replicas, AdderMerge(r) PROVE HandInv'
  <2>1. /\ apc' = [apc EXCEPT ![r] = "signal"] /\ UNCHANGED cursor
        /\ tempNode' = [tempNode EXCEPT ![r] = NULL]
    BY <1>3 DEF AdderMerge, AdderMoves, AdderGoto
  <2> QED
    BY <1>0, <2>1 DEF HandInv
<1>4. ASSUME \A r \in Replicas : ~ReaderPush(r) /\ ~AdderPop(r) /\ ~AdderMerge(r)
      PROVE  HandInv'
  BY <1>4, OtherStepsMoveNoWord DEF HandInv
<1> QED
  BY <1>1, <1>2, <1>3, <1>4

(* The positions of w from c on. *)
Rest(list, c, w) == {k \in c..Len(list) : list[k] = w}

(* Reading the word under the cursor. *)
LEMMA UnreadProperties ==
  ASSUME NEW list \in Seq(Words), NEW c \in Nat \ {0}, NEW w
  PROVE  /\ Cardinality(Rest(list, c, w)) \in Nat
         /\ c > Len(list) => Cardinality(Rest(list, c, w)) = 0
         /\ c <= Len(list) =>
              Cardinality(Rest(list, c, w))
                = Cardinality(Rest(list, c + 1, w))
                  + (IF list[c] = w THEN 1 ELSE 0)
<1>1. Len(list) \in Nat
  OBVIOUS
<1>2. \A d \in Nat : /\ IsFiniteSet(Rest(list, d, w))
                     /\ Cardinality(Rest(list, d, w)) \in Nat
  <2> SUFFICES ASSUME NEW d \in Nat
               PROVE  /\ IsFiniteSet(Rest(list, d, w))
                      /\ Cardinality(Rest(list, d, w)) \in Nat
    OBVIOUS
  <2>1. IsFiniteSet(d..Len(list))
    BY <1>1, FS_Interval
  <2>2. Rest(list, d, w) \in SUBSET (d..Len(list))
    BY DEF Rest
  <2>3. IsFiniteSet(Rest(list, d, w))
    BY <2>1, <2>2, FS_Subset
  <2> QED
    BY <2>3, FS_CardinalityType
<1>3. ASSUME c > Len(list) PROVE Cardinality(Rest(list, c, w)) = 0
  <2>1. Rest(list, c, w) = {}
    BY <1>1, <1>3 DEF Rest
  <2> QED
    BY <2>1, FS_EmptySet
<1>4. ASSUME c <= Len(list)
      PROVE  Cardinality(Rest(list, c, w))
               = Cardinality(Rest(list, c + 1, w)) + (IF list[c] = w THEN 1 ELSE 0)
  <2> DEFINE A == Rest(list, c, w)
             B == Rest(list, c + 1, w)
  <2>1. IsFiniteSet(B) /\ Cardinality(B) \in Nat
    BY <1>2
  <2>2. CASE list[c] = w
    <3>1. A = B \cup {c} /\ c \notin B
      BY <1>1, <1>4, <2>2 DEF Rest
    <3> HIDE DEF A, B
    <3>2. Cardinality(B \cup {c}) = Cardinality(B) + 1
      BY <2>1, <3>1, FS_AddElement
    <3> QED
      BY <2>1, <2>2, <3>1, <3>2 DEF A, B
  <2>3. CASE list[c] # w
    <3>1. A = B
      BY <1>1, <1>4, <2>3 DEF Rest
    <3> HIDE DEF A, B
    <3> QED
      BY <2>1, <2>3, <3>1 DEF A, B
  <2> QED
    BY <2>2, <2>3
<1> QED
  BY <1>2, <1>3, <1>4

(* The four places hold numbers of words. *)
LEMMA PlacesType ==
  ASSUME Inv, NEW r \in Replicas, NEW w \in Words
  PROVE  /\ Unread(r, w) \in Nat
         /\ Occurrences(buffer_read[r], w) \in Nat
         /\ Occurrences(Segment[r], w) \in Nat
         /\ CountOf(buffer_write[r], w) \in Nat
<1>1. /\ Segment[r] \in Seq(Words) /\ buffer_read[r] \in Seq(Words)
      /\ buffer_write[r] \in Seq(Nodes) /\ cursor[r] \in Nat \ {0}
  BY SegmentAssumption DEF Inv, TypeOK
<1>2. Unread(r, w) \in Nat
  <2>1. Unread(r, w) = Cardinality(Rest(Segment[r], cursor[r], w))
    BY DEF Unread, Rest
  <2> QED
    BY <1>1, <2>1, UnreadProperties
<1>3. \A list \in Seq(Words) : Occurrences(list, w) \in Nat
  BY OccurrencesPush
<1>4. CountOf(buffer_write[r], w) \in Nat
  <2> DEFINE list == buffer_write[r]
             k    == FindMatch(list, w, Len(list))
  <2>1. Len(list) \in Nat
    BY <1>1
  <2>2. k = 0 \/ k \in DOMAIN list
    BY <1>1, <2>1, FindMatchProperties
  <2>3. \A m \in DOMAIN list : list[m].count \in Nat
    <3>1. \A m \in DOMAIN list : list[m] \in Nodes
      BY <1>1
    <3> QED
      BY <3>1 DEF Nodes
  <2> HIDE DEF list
  <2> QED
    BY <2>2, <2>3 DEF CountOf, list
<1> QED
  BY <1>1, <1>2, <1>3, <1>4

(* map_adder either finds the node of the word or makes one, and findMatch
   looks at the whole list because bwSize is its length. *)
LEMMA MergeCounts ==
  ASSUME Inv, WrittenInv, NEW r \in Replicas, AdderMerge(r)
  PROVE  /\ buffer_write'[r] \in Seq(Nodes)
         /\ Distinct(buffer_write'[r]) /\ bwSize'[r] = Len(buffer_write'[r])
         /\ \A w \in Words :
              CountOf(buffer_write'[r], w)
                = CountOf(buffer_write[r], w) + (IF tempNode[r] = w THEN 1 ELSE 0)
         /\ \A q \in Replicas : q # r => /\ buffer_write'[q] = buffer_write[q]
                                         /\ bwSize'[q] = bwSize[q]
<1> DEFINE list == buffer_write[r]
           t    == tempNode[r]
           k    == FindMatch(list, t, Len(list))
<1>1. /\ list \in Seq(Nodes) /\ t \in Words /\ Distinct(list)
      /\ bwSize[r] = Len(list) /\ Len(list) \in Nat
      /\ buffer_write \in [Replicas -> Seq(Nodes)] /\ bwSize \in [Replicas -> Nat]
  BY DEF Inv, TypeOK, AtHandInv, WrittenInv, AdderMerge, AdderMoves
<1>2. /\ k # 0 => /\ buffer_write' = [buffer_write EXCEPT
                                         ![r] = [list EXCEPT ![k].count = @ + 1]]
                  /\ bwSize' = bwSize
      /\ k = 0 => /\ buffer_write' = [buffer_write EXCEPT
                        ![r] = PushHead([word |-> t, count |-> 1], list)]
                  /\ bwSize' = [bwSize EXCEPT ![r] = @ + 1]
  BY <1>1 DEF AdderMerge
<1>3. \/ k = 0 /\ \A m \in DOMAIN list : list[m].word # t
      \/ k \in DOMAIN list /\ list[k].word = t /\ k # 0
  <2>1. DOMAIN list = 1..Len(list)
    BY <1>1
  <2> QED
    BY <1>1, <2>1, FindMatchProperties
<1>4. \A w \in Words : CountOf(list, w) \in Nat
  BY PlacesType
<1> HIDE DEF list, t, k
<1>5. CASE k = 0
  <2> DEFINE node == [word |-> t, count |-> 1]
  <2>1. node \in Nodes /\ node.word = t /\ node.count = 1
    BY <1>1 DEF Nodes
  <2>2. \A m \in DOMAIN list : list[m].word # node.word
    BY <1>3, <1>5, <2>1
  <2> HIDE DEF node
  <2> DEFINE new == PushHead(node, list)
  <2>3. new \in Seq(Nodes) /\ Len(new) = Len(list) + 1
    BY <1>1, <2>1, PushHeadProperties
  <2>4. /\ Distinct(new) /\ CountOf(list, node.word) = 0
        /\ \A w : CountOf(new, w)
                    = IF w = node.word THEN node.count ELSE CountOf(list, w)
    <3>1. /\ list \in Seq([word : Words, count : Nat])
          /\ node \in [word : Words, count : Nat]
      BY <1>1, <2>1 DEF Nodes
    <3> QED
      BY <1>1, <2>2, <3>1, CountPushed
  <2>5. /\ buffer_write' = [buffer_write EXCEPT ![r] = new]
        /\ bwSize' = [bwSize EXCEPT ![r] = @ + 1]
    BY <1>2, <1>5 DEF node
  <2> HIDE DEF new
  <2>6. buffer_write'[r] = new /\ bwSize'[r] = Len(list) + 1
    BY <1>1, <2>5
  <2>7. \A w \in Words : CountOf(new, w) = CountOf(list, w) + (IF t = w THEN 1 ELSE 0)
    BY <1>4, <2>1, <2>4
  <2> QED
    BY <1>1, <2>3, <2>4, <2>5, <2>6, <2>7 DEF list, t
<1>6. CASE k # 0
  <2> DEFINE x   == [list[k] EXCEPT !.count = @ + 1]
             new == [list EXCEPT ![k] = x]
  <2>1. k \in DOMAIN list /\ list[k].word = t /\ list[k] \in Nodes
    BY <1>1, <1>3, <1>6
  <2>2. /\ x \in Nodes /\ x.word = t /\ x.count = list[k].count + 1
        /\ list[k].count \in Nat
    BY <2>1 DEF Nodes
  <2>4. buffer_write' = [buffer_write EXCEPT ![r] = new] /\ bwSize' = bwSize
    BY <1>2, <1>6
  <2> HIDE DEF x
  <2>3. /\ new \in Seq(Nodes) /\ Len(new) = Len(list)
        /\ Distinct(new) /\ CountOf(list, x.word) = list[k].count
        /\ \A w : CountOf(new, w)
                    = IF w = x.word THEN x.count ELSE CountOf(list, w)
    <3>1. /\ list \in Seq(Nodes) /\ Distinct(list) /\ k \in DOMAIN list
          /\ x \in Nodes /\ x.word = list[k].word
          /\ new \in {[list EXCEPT ![k] = x]}
      BY <1>1, <2>1, <2>2
    <3> HIDE DEF new
    <3> QED
      BY ONLY <3>1, CountRaised
  <2> HIDE DEF new
  <2>5. buffer_write'[r] = new /\ bwSize'[r] = Len(list)
    BY <1>1, <2>4
  <2>6. \A w \in Words : CountOf(new, w) = CountOf(list, w) + (IF t = w THEN 1 ELSE 0)
    BY <1>4, <2>1, <2>2, <2>3
  <2>7. new \in Seq(Nodes)
    BY <2>3 DEF Nodes
  <2> QED
    BY <1>1, <2>3, <2>4, <2>5, <2>6, <2>7 DEF list, t
<1> QED
  BY <1>5, <1>6

LEMMA WrittenStep == Inv /\ BornInv /\ WrittenInv /\ [Next]_vars => WrittenInv'
<1> SUFFICES ASSUME Inv, BornInv, WrittenInv, [Next]_vars PROVE WrittenInv'
  OBVIOUS
<1>1. ASSUME NEW r \in Replicas, ReaderPush(r) PROVE WrittenInv'
  BY <1>1 DEF ReaderPush, ReaderMoves, adderData, WrittenInv
<1>2. ASSUME NEW r \in Replicas, AdderPop(r) PROVE WrittenInv'
  BY <1>2 DEF AdderPop, WrittenInv
<1>3. ASSUME NEW r \in Replicas, AdderMerge(r) PROVE WrittenInv'
  BY <1>3, MergeCounts DEF WrittenInv
<1>4. ASSUME \A r \in Replicas : ~ReaderPush(r) /\ ~AdderPop(r) /\ ~AdderMerge(r)
      PROVE  WrittenInv'
  BY <1>4, OtherStepsMoveNoWord DEF WrittenInv
<1> QED
  BY <1>1, <1>2, <1>3, <1>4

LEMMA BalanceStep ==
  Inv /\ BornInv /\ HandInv /\ WrittenInv /\ BalanceInv /\ [Next]_vars => BalanceInv'
<1> SUFFICES ASSUME Inv, BornInv, HandInv, WrittenInv, BalanceInv, [Next]_vars,
                    NEW q \in Replicas, NEW w \in Words
             PROVE  Everywhere(q, w)' = Occurrences(Segment[q], w)
  BY DEF BalanceInv
<1>0. /\ cursor \in [Replicas -> Nat \ {0}]
      /\ buffer_read \in [Replicas -> Seq(Words)]
      /\ tempNode \in [Replicas -> Words \union {NULL}]
      /\ Segment[q] \in Seq(Words) /\ w # NULL
      /\ Everywhere(q, w) = Occurrences(Segment[q], w)
  BY SegmentAssumption, WordsAssumption DEF Inv, TypeOK, BalanceInv
<1> DEFINE U == Unread(q, w)
           B == Occurrences(buffer_read[q], w)
           H == IF tempNode[q] = w THEN 1 ELSE 0
           C == CountOf(buffer_write[q], w)
<1>a. U \in Nat /\ B \in Nat /\ C \in Nat /\ H \in Nat
  BY PlacesType
<1>b. Everywhere(q, w) = U + B + H + C /\ Everywhere(q, w)' = U' + B' + H' + C'
  BY DEF Everywhere
(* Nothing changes for a pair whose variables do not. *)
<1>c. ASSUME cursor'[q] = cursor[q], buffer_read'[q] = buffer_read[q],
             tempNode'[q] = tempNode[q], buffer_write'[q] = buffer_write[q]
      PROVE  Everywhere(q, w)' = Occurrences(Segment[q], w)
  BY <1>0, <1>c DEF Everywhere, Unread
<1> HIDE DEF U, B, H, C
(* From the segment to the buffer. *)
<1>1. ASSUME NEW r \in Replicas, ReaderPush(r)
      PROVE  Everywhere(q, w)' = Occurrences(Segment[q], w)
  <2> DEFINE x == Segment[r][cursor[r]]
  <2>1. /\ cursor' = [cursor EXCEPT ![r] = @ + 1]
        /\ buffer_read' = [buffer_read EXCEPT ![r] = PushHead(x, @)]
        /\ UNCHANGED <<tempNode, buffer_write>>
        /\ cursor[r] <= Len(Segment[r])
    BY <1>1 DEF ReaderPush, ReaderMoves, adderData, Inv, AtHandInv
  <2>2. CASE q # r
    <3>1. cursor'[q] = cursor[q] /\ buffer_read'[q] = buffer_read[q]
      BY <1>0, <2>1, <2>2
    <3> QED
      BY <1>c, <2>1, <3>1
  <2>3. CASE q = r
    <3>1. x \in Words
      BY <1>0, <2>1, <2>3
    <3>2. /\ buffer_read'[q] = PushHead(x, buffer_read[q])
          /\ cursor'[q] = cursor[q] + 1 /\ buffer_read[q] \in Seq(Words)
          /\ cursor[q] \in Nat \ {0}
      BY <1>0, <2>1, <2>3
    <3>3. B' = B + (IF x = w THEN 1 ELSE 0)
      BY <3>1, <3>2, OccurrencesPush DEF B
    <3>4. U = U' + (IF x = w THEN 1 ELSE 0)
      <4>1. /\ U = Cardinality(Rest(Segment[q], cursor[q], w))
            /\ U' = Cardinality(Rest(Segment[q], cursor[q] + 1, w))
        BY <3>2 DEF U, Unread, Rest
      <4> QED
        BY <1>0, <2>1, <2>3, <3>2, <4>1, UnreadProperties
    <3>5. H' = H /\ C' = C
      BY <2>1 DEF H, C
    <3>6. U' \in Nat
      <4>1. cursor[q] + 1 \in Nat \ {0}
        BY <3>2
      <4>2. U' = Cardinality(Rest(Segment[q], cursor[q] + 1, w))
        BY <3>2 DEF U, Unread, Rest
      <4> QED
        BY <1>0, <4>1, <4>2, UnreadProperties
    <3> HIDE DEF x
    <3> QED
      BY <1>0, <1>a, <1>b, <3>3, <3>4, <3>5, <3>6
  <2> QED
    BY <2>2, <2>3
(* From the buffer to the adder's hands, which are empty. *)
<1>2. ASSUME NEW r \in Replicas, AdderPop(r)
      PROVE  Everywhere(q, w)' = Occurrences(Segment[q], w)
  <2>1. /\ UNCHANGED <<cursor, buffer_write>>
        /\ tempNode' = [tempNode EXCEPT ![r] =
                          IF buffer_read[r] = <<>> THEN NULL
                          ELSE Head(buffer_read[r])]
        /\ buffer_read' = [buffer_read EXCEPT ![r] = PopHead(@)]
        /\ apc[r] \in {"check", "pop"}
    BY <1>2 DEF AdderPop, AdderMoves
  <2>2. CASE q # r
    <3>1. tempNode'[q] = tempNode[q] /\ buffer_read'[q] = buffer_read[q]
      BY <1>0, <2>1, <2>2
    <3> QED
      BY <1>c, <2>1, <3>1
  <2>3. CASE q = r
    <3>1. /\ tempNode'[q] = IF buffer_read[q] = <<>> THEN NULL
                            ELSE Head(buffer_read[q])
          /\ buffer_read'[q] = PopHead(buffer_read[q])
          /\ buffer_read[q] \in Seq(Words)
      BY <1>0, <2>1, <2>3
    <3>2. tempNode[q] = NULL
      BY <2>1, <2>3 DEF HandInv
    <3>3. H = 0 /\ U' = U /\ C' = C
      BY <1>0, <2>1, <3>2 DEF H, U, C, Unread
    <3>4. B' + H' = B
      <4>1. CASE buffer_read[q] = <<>>
        <5>1. tempNode'[q] = NULL /\ buffer_read'[q] = buffer_read[q]
          BY <3>1, <4>1 DEF PopHead
        <5>2. H' = 0 /\ B' = B
          BY <1>0, <5>1 DEF H, B
        <5> QED
          BY <1>a, <5>2
      <4>2. CASE buffer_read[q] # <<>>
        <5> DEFINE h == Head(buffer_read[q])
        <5>1. B' = B - (IF h = w THEN 1 ELSE 0)
          BY <3>1, <4>2, OccurrencesPop DEF B
        <5>2. H' = IF h = w THEN 1 ELSE 0
          BY <3>1, <4>2 DEF H
        <5> HIDE DEF h
        <5> QED
          BY <1>a, <5>1, <5>2
      <4> QED
        BY <4>1, <4>2
    <3>5. B' \in Nat /\ H' \in Nat
      <4>1. PopHead(buffer_read[q]) \in Seq(Words)
        BY <3>1, PopHeadProperties
      <4>2. B' \in Nat
        BY <3>1, <4>1, OccurrencesPush DEF B
      <4> QED
        BY <4>2 DEF H
    <3>6. U' + B' + H' + C' = U + (B' + H') + C
      BY <1>a, <3>3, <3>5
    <3>7. U' + B' + H' + C' = U + B + H + C
      BY <1>a, <3>3, <3>4, <3>6
    <3> QED
      BY <1>0, <1>b, <3>7
  <2> QED
    BY <2>2, <2>3
(* From the adder's hands to the count. *)
<1>3. ASSUME NEW r \in Replicas, AdderMerge(r)
      PROVE  Everywhere(q, w)' = Occurrences(Segment[q], w)
  <2>1. /\ UNCHANGED <<cursor, buffer_read>>
        /\ tempNode' = [tempNode EXCEPT ![r] = NULL]
    BY <1>3 DEF AdderMerge, AdderMoves, buffer
  <2>2. CASE q # r
    <3>1. tempNode'[q] = tempNode[q] /\ buffer_write'[q] = buffer_write[q]
      BY <1>0, <1>3, <2>1, <2>2, MergeCounts
    <3> QED
      BY <1>c, <2>1, <3>1
  <2>3. CASE q = r
    <3>1. C' = C + H
      BY <1>3, <2>3, MergeCounts DEF C, H
    <3>2. H' = 0
      BY <1>0, <2>1, <2>3 DEF H
    <3>3. U' = U /\ B' = B
      BY <2>1 DEF U, B, Unread
    <3> QED
      BY <1>0, <1>a, <1>b, <3>1, <3>2, <3>3
  <2> QED
    BY <2>2, <2>3
<1>4. ASSUME \A r \in Replicas : ~ReaderPush(r) /\ ~AdderPop(r) /\ ~AdderMerge(r)
      PROVE  Everywhere(q, w)' = Occurrences(Segment[q], w)
  BY <1>4, <1>c, OtherStepsMoveNoWord
<1> QED
  BY <1>1, <1>2, <1>3, <1>4

LEMMA ConservedInit == Init => HandInv /\ WrittenInv /\ BalanceInv
<1> SUFFICES ASSUME Init PROVE HandInv /\ WrittenInv /\ BalanceInv
  OBVIOUS
<1>1. ASSUME NEW r \in Replicas
      PROVE  /\ cursor[r] = 1 /\ buffer_read[r] = <<>> /\ tempNode[r] = NULL
             /\ buffer_write[r] = <<>> /\ bwSize[r] = 0
             /\ Segment[r] \in Seq(Words)
  BY SegmentAssumption DEF Init
<1>2. HandInv
  BY <1>1 DEF HandInv
<1>3. WrittenInv
  BY <1>1 DEF WrittenInv, Distinct
<1>4. ASSUME NEW r \in Replicas, NEW w \in Words
      PROVE  Everywhere(r, w) = Occurrences(Segment[r], w)
  <2>1. Unread(r, w) = Occurrences(Segment[r], w)
    <3>1. cursor[r]..Len(Segment[r]) = DOMAIN Segment[r]
      BY <1>1
    <3> QED
      BY <3>1 DEF Unread, Occurrences
  <2>2. Occurrences(buffer_read[r], w) = 0
    <3>1. {k \in DOMAIN buffer_read[r] : buffer_read[r][k] = w} = {}
      BY <1>1
    <3> QED
      BY <3>1, FS_EmptySet DEF Occurrences
  <2>3. CountOf(buffer_write[r], w) = 0
    <3>1. Hits(buffer_write[r], w, Len(buffer_write[r])) = {}
      BY <1>1 DEF Hits
    <3> QED
      BY <3>1 DEF CountOf, FindMatch
  <2>4. Occurrences(Segment[r], w) \in Nat
    BY InitInv, PlacesType
  <2>5. tempNode[r] # w
    BY <1>1, WordsAssumption
  <2> QED
    BY <2>1, <2>2, <2>3, <2>4, <2>5 DEF Everywhere
<1> QED
  BY <1>2, <1>3, <1>4 DEF BalanceInv

(* No interleaving of readers and adders loses or doubles a word: for every
   number of pairs, every bound, every input and any number of spurious
   wakeups, each occurrence is unread, buffered, in the adder's hands or
   counted. *)
THEOREM NoWordLost == Spec => []WordsConserved
<1>1. Inv /\ WrittenInv /\ BalanceInv => WordsConserved
  BY DEF Inv, SizeInv, WrittenInv, BalanceInv, Everywhere, WordsConserved
<1> QED
  BY InitInv, StepInv, InitBorn, BornStep, ConservedInit, HandStep, WrittenStep,
     BalanceStep, <1>1, PTL DEF Spec

-----------------------------------------------------------------------------
(***************************************************************************)
(* The counts are complete when main() leaves its loop.  A reader sets     *)
(* mapperDone after its last word; an adder that has seen the flag reads   *)
(* an empty buffer before it leaves, and nobody pushes any more.           *)
(***************************************************************************)
DrainedInv ==
  \A r \in Replicas :
    /\ rpc[r] = "setDone" \/ Leaving(r) => cursor[r] > Len(Segment[r])
    /\ PastLoop(r) => brSize[r] = 0

LEMMA DrainedStep ==
  Inv /\ BornInv /\ DoneInv /\ DrainedInv /\ [Next]_vars => DrainedInv'
<1> SUFFICES ASSUME Inv, BornInv, DoneInv, DrainedInv, [Next]_vars
             PROVE  DrainedInv'
  OBVIOUS
<1>0. /\ rpc \in [Replicas -> ReaderPcs] /\ apc \in [Replicas -> AdderPcs]
      /\ brSize \in [Replicas -> Nat] /\ cursor \in [Replicas -> Nat \ {0}]
      /\ \A r \in Replicas : Len(Segment[r]) \in Nat
  BY SegmentAssumption DEF Inv, TypeOK
<1> USE <1>0 DEF DrainedInv, Leaving, PastLoop, ReaderMoves, AdderMoves,
        ReaderGoto, AdderGoto, mainVars, adderData, buffer, Woken
<1>1. ASSUME NEW r \in Replicas, Reader(r) PROVE DrainedInv'
  <2>1. CASE ReaderLock(r)       BY <2>1 DEF ReaderLock
  <2>2. CASE ReaderWait(r)       BY <2>2 DEF ReaderWait
  <2>3. CASE ReaderReacquire(r)  BY <2>3 DEF ReaderReacquire
  <2>4. CASE ReaderPush(r)       BY <2>4 DEF ReaderPush, DoneInv
  <2>5. CASE ReaderUnlock(r)     BY <2>5 DEF ReaderUnlock
  <2>6. CASE ReaderSignal(r)     BY <2>6 DEF ReaderSignal
  <2>7. CASE ReaderSetDone(r)    BY <2>7 DEF ReaderSetDone
  <2>8. CASE ReaderUnlockDone(r) BY <2>8 DEF ReaderUnlockDone
  <2>9. CASE ReaderSignalDone(r) BY <2>9 DEF ReaderSignalDone
  <2> QED
    BY <1>1, <2>1, <2>2, <2>3, <2>4, <2>5, <2>6, <2>7, <2>8, <2>9 DEF Reader
<1>2. ASSUME NEW r \in Replicas, Adder(r) PROVE DrainedInv'
  <2>1. CASE AdderTestDone(r)  BY <2>1 DEF AdderTestDone
  <2>2. CASE AdderTestSize(r)  BY <2>2 DEF AdderTestSize
  <2>3. CASE AdderLock(r)      BY <2>3 DEF AdderLock
  <2>4. CASE AdderWait(r)      BY <2>4 DEF AdderWait
  <2>5. CASE AdderReacquire(r) BY <2>5 DEF AdderReacquire
  <2>6. CASE AdderPop(r)       BY <2>6 DEF AdderPop
  <2>7. CASE AdderUnlock(r)    BY <2>7 DEF AdderUnlock
  <2>8. CASE AdderMerge(r)     BY <2>8 DEF AdderMerge
  <2>9. CASE AdderSignal(r)    BY <2>9 DEF AdderSignal
  <2>10. CASE AdderLoad(r)     BY <2>10 DEF AdderLoad
  <2>11. CASE AdderStore(r)    BY <2>11 DEF AdderStore
  <2>12. CASE AdderFree(r)     BY <2>12 DEF AdderFree
  <2> QED
    BY <1>2, <2>1, <2>2, <2>3, <2>4, <2>5, <2>6, <2>7, <2>8, <2>9, <2>10,
       <2>11, <2>12 DEF Adder
<1>3. CASE Main
  <2>1. CASE SpawnReader BY <2>1 DEF SpawnReader, MainMoves
  <2>2. CASE SpawnAdder  BY <2>2 DEF SpawnAdder, MainMoves
  <2>3. CASE LeaveSpin   BY <2>3 DEF LeaveSpin, MainMoves
  <2> QED
    BY <1>3, <2>1, <2>2, <2>3 DEF Main
<1>4. ASSUME NEW r \in Replicas, ReaderUsesFreed(r) PROVE DrainedInv'
  BY <1>4 DEF ReaderUsesFreed
<1>5. ASSUME NEW r \in Replicas, SpuriousWakeup(r) PROVE DrainedInv'
  BY <1>5 DEF SpuriousWakeup
<1>6. CASE UNCHANGED vars
  BY <1>6 DEF vars
<1> QED
  BY <1>1, <1>2, <1>3, <1>4, <1>5, <1>6 DEF Next

(* The inductive invariant of the stage. *)
StageInv ==
  /\ Inv /\ BornInv /\ CountInv /\ ReduceInv /\ DoneInv /\ DrainedInv
  /\ HandInv /\ WrittenInv /\ BalanceInv

LEMMA StageInit == Init => StageInv
<1> SUFFICES ASSUME Init PROVE StageInv
  OBVIOUS
<1>1. threads_returned <= Cardinality(Stored)
  BY StoredFinite DEF Init
<1>2. CountInv /\ ReduceInv /\ DoneInv /\ DrainedInv
  BY <1>1 DEF Init, CountInv, ReduceInv, DoneInv, DrainedInv, PastLoop, Leaving
<1> QED
  BY <1>2, InitInv, InitBorn, ConservedInit DEF StageInv

LEMMA StageStep == StageInv /\ [Next]_vars => StageInv'
BY StepInv, BornStep, CountStep, ReduceStep, DoneStep, DrainedStep, HandStep,
   WrittenStep, BalanceStep DEF StageInv

(* Once main() has left its loop, a pair has nothing left to do. *)
LEMMA PairFinished ==
  ASSUME StageInv, mainPc = "reduce", NEW r \in Replicas
  PROVE  /\ PastStore(r) /\ Leaving(r)
         /\ brSize[r] = 0 /\ buffer_read[r] = <<>> /\ tempNode[r] = NULL
         /\ cursor[r] = Len(Segment[r]) + 1
         /\ \A w \in Words :
              CountOf(buffer_write[r], w) = Occurrences(Segment[r], w)
<1>1. PastStore(r)
  BY DEF StageInv, ReduceInv, Stored
<1>2. Leaving(r)
  BY <1>1 DEF StageInv, DoneInv, PastStore, PastLoop
<1>3. brSize[r] = 0 /\ cursor[r] > Len(Segment[r]) /\ tempNode[r] = NULL
  BY <1>1, <1>2 DEF PastStore, PastLoop, StageInv, DrainedInv, HandInv
<1>4. /\ Segment[r] \in Seq(Words) /\ cursor[r] \in Nat \ {0}
      /\ Len(Segment[r]) \in Nat
  BY SegmentAssumption DEF StageInv, Inv, TypeOK
<1>5. cursor[r] = Len(Segment[r]) + 1
  BY <1>3, <1>4 DEF StageInv, HandInv
<1>6. Len(buffer_read[r]) = 0 /\ buffer_read[r] \in Seq(Words)
  BY <1>3 DEF StageInv, Inv, SizeInv, TypeOK
<1>7. buffer_read[r] = <<>>
  BY <1>6
<1>8. ASSUME NEW w \in Words
      PROVE  CountOf(buffer_write[r], w) = Occurrences(Segment[r], w)
  <2>1. Unread(r, w) = 0
    <3>1. Unread(r, w) = Cardinality(Rest(Segment[r], cursor[r], w))
      BY DEF Unread, Rest
    <3> QED
      BY <1>3, <1>4, <3>1, UnreadProperties
  <2>2. Occurrences(buffer_read[r], w) = 0
    <3>1. {k \in DOMAIN buffer_read[r] : buffer_read[r][k] = w} = {}
      BY <1>7
    <3> QED
      BY <3>1, FS_EmptySet DEF Occurrences
  <2>3. tempNode[r] # w
    BY <1>3, WordsAssumption
  <2>4. CountOf(buffer_write[r], w) \in Nat
    BY PlacesType DEF StageInv
  <2>5. Everywhere(r, w) = Occurrences(Segment[r], w)
    BY DEF StageInv, BalanceInv
  <2> QED
    BY <2>1, <2>2, <2>3, <2>4, <2>5 DEF Everywhere
<1> QED
  BY <1>1, <1>2, <1>3, <1>5, <1>7, <1>8

(* What the reducer finds when main() leaves its loop is the complete count of
   every segment, although the adders leave theirs on two reads made without
   the mutex. *)
THEOREM FinalCounts == Spec => []ReducerSeesFinalCounts
<1>1. StageInv => ReducerSeesFinalCounts
  BY PairFinished DEF ReducerSeesFinalCounts
<1> QED
  BY StageInit, StageStep, <1>1, PTL DEF Spec

-----------------------------------------------------------------------------
(***************************************************************************)
(* The whole program.                                                      *)
(***************************************************************************)
RP == INSTANCE ReducerProofs WITH pc <- reducerPc, given <- buffer_write,
                                  MapperOutput <- {}

-----------------------------------------------------------------------------
(***************************************************************************)
(* The reducer of the program is the reducer of ReducerProofs.             *)
(***************************************************************************)
LEMMA SameReducer == R!Next <=> RP!Next
BY DEF R!Next, RP!Next, R!PickWord, RP!PickWord, R!ListsEmpty,
   RP!ListsEmpty, R!ScanNoMatch, RP!ScanNoMatch, R!ScanInside, RP!ScanInside,
   R!ScanHead, RP!ScanHead, R!ScanNext, RP!ScanNext, R!Match, RP!Match,
   R!NonEmpty, RP!NonEmpty, R!Replicas, RP!Replicas, R!PushHead, RP!PushHead,
   R!PopHead, RP!PopHead, R!RemoveAt, RP!RemoveAt, R!FindMatch, RP!FindMatch,
   R!Min, RP!Min, R!Hits, RP!Hits

LEMMA SameNames ==
  /\ RP!Replicas = Replicas /\ RP!Counted = Nodes
  /\ \A list : RP!Distinct(list) <=> Distinct(list)
BY DEF RP!Replicas, Replicas, RP!Counted, Nodes, RP!Distinct, Distinct

LEMMA ReducerStarts == RP!Start => RP!IInv
BY RP!StartInv, ReplicasAssumption

LEMMA ReducerSteps == RP!IInv /\ [R!Next]_(R!vars) => RP!IInv'
<1>1. (R!vars' = R!vars) <=> (RP!vars' = RP!vars)
  BY DEF R!vars, RP!vars
<1>2. [R!Next]_(R!vars) => [RP!Next]_(RP!vars)
  BY <1>1, SameReducer
<1> QED
  BY <1>2, RP!StepReducer, ReplicasAssumption

-----------------------------------------------------------------------------
(***************************************************************************)
(* What main() does to the lists, and when.                                *)
(***************************************************************************)
LEMMA MainSteps ==
  ASSUME Next
  PROVE  SpawnReader \/ SpawnAdder \/ LeaveSpin \/ mainPc' = mainPc
BY DEF Next, Main, mainVars, Reader, ReaderLock, ReaderWait, ReaderReacquire,
   ReaderPush, ReaderUnlock, ReaderSignal, ReaderSetDone, ReaderUnlockDone,
   ReaderSignalDone, ReaderUsesFreed, SpuriousWakeup, ReaderMoves, Adder,
   AdderTestDone, AdderTestSize, AdderLock, AdderWait, AdderReacquire,
   AdderPop, AdderUnlock, AdderMerge, AdderSignal, AdderLoad, AdderStore,
   AdderFree, AdderMoves

(* Nobody but main() touches the lists once it has left its loop. *)
LEMMA ListsAreMains ==
  ASSUME StageInv, [Next]_vars, mainPc = "reduce"
  PROVE  mainPc' = "reduce" /\ UNCHANGED buffer_write
<1>1. mainPc' = "reduce"
  BY MainSteps DEF SpawnReader, SpawnAdder, LeaveSpin, MainMoves, vars
<1>2. \A r \in Replicas : ~ReaderPush(r) /\ ~AdderPop(r) /\ ~AdderMerge(r)
  <2> SUFFICES ASSUME NEW r \in Replicas
               PROVE  ~ReaderPush(r) /\ ~AdderPop(r) /\ ~AdderMerge(r)
    OBVIOUS
  <2>1. PastStore(r) /\ Leaving(r)
    BY PairFinished
  <2> QED
    BY <2>1 DEF PastStore, Leaving, ReaderPush, AdderPop, AdderMerge,
       ReaderMoves, AdderMoves
<1>3. UNCHANGED buffer_write
  BY <1>2, OtherStepsMoveNoWord DEF StageInv
<1> QED
  BY <1>1, <1>3

LEMMA HandedOver ==
  ASSUME StageInv, StageInv', Next, mainPc # "reduce", mainPc' = "reduce"
  PROVE  /\ UNCHANGED buffer_write
         /\ buffer_write \in [Replicas -> Seq(Nodes)]
         /\ \A r \in Replicas : Distinct(buffer_write[r])
         /\ bwSize = [r \in Replicas |-> Len(buffer_write[r])]
<1>1. LeaveSpin
  BY MainSteps, ReplicasAssumption DEF SpawnReader, SpawnAdder, MainMoves
<1>2. UNCHANGED buffer_write
  BY <1>1 DEF LeaveSpin, MainMoves, adderData
<1>3. /\ buffer_write \in [Replicas -> Seq(Nodes)]
      /\ bwSize \in [Replicas -> Nat]
      /\ \A r \in Replicas : /\ Distinct(buffer_write[r])
                             /\ bwSize[r] = Len(buffer_write[r])
  BY DEF StageInv, Inv, TypeOK, WrittenInv
<1> QED
  BY <1>2, <1>3

-----------------------------------------------------------------------------
(***************************************************************************)
(* The inductive invariant of the program.                                 *)
(***************************************************************************)
SystemInv ==
  /\ StageInv
  /\ mainPc # "reduce" =>
       reducerPc = "pick" /\ i = 1 /\ j = 1 /\ finalList = <<>>
  /\ mainPc = "reduce" => RP!IInv
  /\ headMatched \in BOOLEAN
  /\ cleaned => mainPc = "reduce" /\ reducerPc = "done"
  /\ exited => cleaned

LEMMA SystemStarts == SystemInit => SystemInv
BY StageInit DEF SystemInit, SystemInv, Init

LEMMA ReducerRuns ==
  ASSUME R!Next
  PROVE  reducerPc \in {"pick", "scan"} /\ (headMatched' \in {TRUE, headMatched})
BY DEF R!Next, R!PickWord, R!ListsEmpty, R!ScanNoMatch, R!ScanInside,
   R!ScanHead, R!ScanNext

LEMMA SystemStep == SystemInv /\ [SystemNext]_systemVars => SystemInv'
<1> SUFFICES ASSUME SystemInv, [SystemNext]_systemVars PROVE SystemInv'
  OBVIOUS
<1>0. StageInv /\ headMatched \in BOOLEAN
  BY DEF SystemInv
<1>a. ASSUME UNCHANGED vars PROVE StageInv'
  BY <1>0, <1>a, StageStep
<1>b. ASSUME UNCHANGED <<buffer_write, reducerVars>>, RP!IInv PROVE RP!IInv'
  BY <1>b, ReducerSteps DEF reducerVars, R!vars
<1>1. ASSUME Stage(Next) PROVE SystemInv'
  <2>0. Next /\ HandOver /\ UNCHANGED <<cleaned, exited>>
    BY <1>1 DEF Stage
  <2>1. StageInv'
    BY <1>0, <2>0, StageStep
  <2>2. CASE mainPc = "reduce"
    <3>1. mainPc' = "reduce" /\ UNCHANGED buffer_write
      BY <1>0, <2>0, <2>2, ListsAreMains
    <3>2. UNCHANGED reducerVars
      BY <2>0, <2>2 DEF HandOver
    <3>3. RP!IInv'
      BY <1>b, <2>2, <3>1, <3>2 DEF SystemInv
    <3> QED
      BY <1>0, <2>0, <2>1, <3>1, <3>2, <3>3 DEF SystemInv, reducerVars
  <2>3. CASE mainPc # "reduce" /\ mainPc' = "reduce"
    <3>1. /\ lists' = buffer_write /\ size' = bwSize
          /\ UNCHANGED <<reducerPc, i, j, finalList, headMatched>>
      BY <2>0, <2>3 DEF HandOver
    <3>2. /\ UNCHANGED buffer_write
          /\ buffer_write \in [Replicas -> Seq(Nodes)]
          /\ \A r \in Replicas : Distinct(buffer_write[r])
          /\ bwSize = [r \in Replicas |-> Len(buffer_write[r])]
      BY <1>0, <2>0, <2>1, <2>3, HandedOver
    <3>3. RP!Start'
      BY <2>3, <3>1, <3>2, SameNames DEF RP!Start, SystemInv
    <3>4. RP!IInv'
      BY <3>3, ReducerStarts, PTL
    <3> QED
      BY <1>0, <2>0, <2>1, <2>3, <3>1, <3>4 DEF SystemInv
  <2>4. CASE mainPc # "reduce" /\ mainPc' # "reduce"
    <3>1. UNCHANGED reducerVars
      BY <2>0, <2>4 DEF HandOver
    <3> QED
      BY <1>0, <2>0, <2>1, <2>4, <3>1 DEF SystemInv, reducerVars
  <2> QED
    BY <2>2, <2>3, <2>4
<1>2. ASSUME Reduce PROVE SystemInv'
  <2>1. mainPc = "reduce" /\ R!Next /\ UNCHANGED <<vars, cleaned, exited>>
    BY <1>2 DEF Reduce
  <2>2. StageInv' /\ mainPc' = mainPc
    BY <1>a, <2>1 DEF vars
  <2>3. RP!IInv'
    BY <2>1, ReducerSteps DEF SystemInv
  <2>4. ~cleaned /\ headMatched' \in BOOLEAN
    BY <1>0, <2>1, ReducerRuns DEF SystemInv
  <2> QED
    BY <2>1, <2>2, <2>3, <2>4 DEF SystemInv
<1>3. ASSUME FreeAll \/ Return PROVE SystemInv'
  <2>1. UNCHANGED vars /\ UNCHANGED reducerVars
    BY <1>3 DEF FreeAll, Return
  <2>2. /\ StageInv' /\ UNCHANGED <<mainPc, buffer_write, reducerPc, i, j,
                                    finalList, headMatched>>
    BY <1>a, <2>1 DEF vars, reducerVars
  <2>3. mainPc = "reduce" => RP!IInv'
    BY <1>b, <2>1, <2>2 DEF SystemInv
  <2>4. cleaned' => mainPc = "reduce" /\ reducerPc = "done"
    BY <1>3 DEF FreeAll, Return, SystemInv
  <2>5. exited' => cleaned'
    BY <1>3 DEF FreeAll, Return, SystemInv
  <2> QED
    BY <1>0, <2>2, <2>3, <2>4, <2>5 DEF SystemInv
<1>4. ASSUME UNCHANGED systemVars PROVE SystemInv'
  <2>1. UNCHANGED vars /\ UNCHANGED reducerVars /\ UNCHANGED <<cleaned, exited>>
    BY <1>4 DEF systemVars
  <2>2. /\ StageInv' /\ UNCHANGED <<mainPc, buffer_write, reducerPc, i, j,
                                    finalList, headMatched>>
    BY <1>a, <2>1 DEF vars, reducerVars
  <2>3. mainPc = "reduce" => RP!IInv'
    BY <1>b, <2>1, <2>2 DEF SystemInv
  <2> QED
    BY <1>0, <2>1, <2>2, <2>3 DEF SystemInv
<1> QED
  BY <1>1, <1>2, <1>3, <1>4 DEF SystemNext

LEMMA SystemInvariance == System => []SystemInv
BY SystemStarts, SystemStep, PTL DEF System

-----------------------------------------------------------------------------
(* Whatever holds of every run of the mapper stage holds of every run of the
   program: the reducer and the clean-up take nothing from the threads that
   are still on their way out. *)
THEOREM SystemRunsStage == System => Spec
<1>1. SystemInit => Init
  BY DEF SystemInit
<1>2. [SystemNext]_systemVars => [Next]_vars
  BY DEF SystemNext, Stage, Reduce, FreeAll, Return, systemVars
<1> QED
  BY <1>1, <1>2, PTL DEF System, Spec

(* The stage's guarantees, in the program that goes on to reduce and to free:
   the buffer bound, no lost wakeup, no lost word, and a reducer that starts
   after the last adder and on complete counts. *)
THEOREM StageGuarantees ==
  System => [](/\ TypeOK /\ BufferOverrunBounded /\ NoLostWakeup
               /\ PairNeverBothWait /\ WordsConserved /\ ReducerAfterLastAdder
               /\ ReducerSeesFinalCounts /\ FreedOnlyAfterDone)
BY SystemRunsStage, TypeCorrect, OverrunIsBounded, NoWakeupLost, NeverBothWait,
   NoWordLost, ReducerRunsLast, FinalCounts, FreedLate, PTL

(* main() frees the lists while threads may still run, yet none of them has an
   access to them left; and when main() returns, no node that a reader has
   allocated is left anywhere: for every number of pairs, every bound and every
   input. *)
THEOREM CleanUp == System => []CleanUpIsExact
<1>1. SystemInv => CleanUpIsExact
  <2> SUFFICES ASSUME SystemInv PROVE CleanUpIsExact
    OBVIOUS
  <2>1. ASSUME cleaned, NEW r \in Replicas
        PROVE  /\ rpc[r] \in {"unlockDone", "signalDone", "returned"}
               /\ PastStore(r)
    BY <2>1, PairFinished DEF SystemInv, Leaving
  <2>2. ASSUME exited, NEW r \in Replicas
        PROVE  /\ cursor[r] = Len(Segment[r]) + 1
               /\ buffer_read[r] = <<>> /\ tempNode[r] = NULL
               /\ lists[r] = <<>>
    <3>1. mainPc = "reduce" /\ reducerPc = "done" /\ StageInv /\ RP!IInv
      BY <2>2 DEF SystemInv
    <3>2. lists[r] = <<>>
      BY <3>1, SameNames DEF RP!IInv, RP!EmptiedInv
    <3> QED
      BY <3>1, <3>2, PairFinished
  <2> QED
    BY <2>1, <2>2 DEF CleanUpIsExact
<1> QED
  BY <1>1, SystemInvariance, PTL

-----------------------------------------------------------------------------
(***************************************************************************)
(* The program implements WordCount.  First, what the tables of WordCount  *)
(* are in terms of the lists.                                              *)
(***************************************************************************)
LEMMA SameSums ==
  ASSUME NEW f, NEW S
  PROVE  /\ RP!SumFunctionOnSet(f, S) = SumFunctionOnSet(f, S)
         /\ RP!SumFunction(f) = SumFunction(f)
         /\ Abstract!Sum(f) = SumFunctionOnSet(f, Words)
BY DEF RP!SumFunction, RP!SumFunctionOnSet, RP!FoldFunctionOnSet,
   RP!MapThenFoldSet, Abstract!Sum, Abstract!SumFunctionOnSet,
   Abstract!FoldFunctionOnSet, Abstract!MapThenFoldSet, SumFunction,
   SumFunctionOnSet, FoldFunctionOnSet, MapThenFoldSet

LEMMA SameTotals ==
  ASSUME NEW list, NEW W
  PROVE  R!Total(list, W) = RP!Total(list, W)
BY DEF R!Total, RP!Total, R!SumFunction, R!SumFunctionOnSet,
   R!FoldFunctionOnSet, R!MapThenFoldSet, RP!SumFunction, RP!SumFunctionOnSet,
   RP!FoldFunctionOnSet, RP!MapThenFoldSet

LEMMA SameCounts ==
  ASSUME NEW list, NEW w
  PROVE  RP!CountOf(list, w) = CountOf(list, w)
BY DEF RP!CountOf, CountOf, RP!FindMatch, FindMatch, RP!Hits, Hits

(* The tables hold numbers, at most those of the file, and those of the file
   when main() has left its loop. *)
LEMMA TableValues ==
  ASSUME StageInv, NEW w \in Words
  PROVE  /\ InLists[w] \in Nat /\ InFile[w] \in Nat /\ InLists[w] <= InFile[w]
         /\ mainPc = "reduce" => InLists[w] = InFile[w]
<1> DEFINE f == [r \in Replicas |-> CountOf(buffer_write[r], w)]
           h == [r \in Replicas |-> Occurrences(Segment[r], w)]
<1>1. /\ InLists[w] = SumFunctionOnSet(f, Replicas)
      /\ InFile[w] = SumFunctionOnSet(h, Replicas)
  BY DEF InLists, InFile, SumFunction
<1>2. IsFiniteSet(Replicas)
  BY StoredFinite
<1>3. ASSUME NEW r \in Replicas
      PROVE  f[r] \in Nat /\ h[r] \in Nat /\ f[r] <= h[r]
  <2>1. /\ Unread(r, w) \in Nat /\ Occurrences(buffer_read[r], w) \in Nat
        /\ Occurrences(Segment[r], w) \in Nat /\ CountOf(buffer_write[r], w) \in Nat
    BY PlacesType DEF StageInv
  <2>2. Everywhere(r, w) = Occurrences(Segment[r], w)
    BY DEF StageInv, BalanceInv
  <2> QED
    BY <2>1, <2>2 DEF Everywhere
<1>4. mainPc = "reduce" => \A r \in Replicas : h[r] = f[r]
  BY PairFinished
<1> HIDE DEF f, h
<1>5. SumFunctionOnSet(f, Replicas) \in Nat /\ SumFunctionOnSet(h, Replicas) \in Nat
  BY <1>2, <1>3, SumNotNegative
<1>6. SumFunctionOnSet(f, Replicas) <= SumFunctionOnSet(h, Replicas)
  <2>1. \A r \in Replicas : f[r] \in Int /\ h[r] \in Int /\ f[r] <= h[r]
    BY <1>3
  <2> QED
    BY <1>2, <2>1, SumMonotone
<1>7. ASSUME mainPc = "reduce"
      PROVE  SumFunctionOnSet(h, Replicas) = SumFunctionOnSet(f, Replicas)
  <2>1. \A r \in Replicas : f[r] \in Int /\ h[r] = f[r]
    BY <1>3, <1>4, <1>7
  <2> QED
    BY <1>2, <2>1, SumEqual
<1> QED
  BY <1>1, <1>5, <1>6, <1>7

LEMMA CompleteTable == StageInv /\ mainPc = "reduce" => InLists = InFile
<1> SUFFICES ASSUME StageInv, mainPc = "reduce" PROVE InLists = InFile
  OBVIOUS
<1>1. \A w \in Words : InLists[w] = InFile[w]
  BY TableValues
<1>2. /\ InLists = [w \in Words |-> InLists[w]]
      /\ InFile = [w \in Words |-> InFile[w]]
  BY DEF InLists, InFile
<1> QED
  BY <1>1, <1>2

(* Merging a word counts it once. *)
LEMMA MergeIsCount ==
  ASSUME StageInv, NEW r \in Replicas, AdderMerge(r)
  PROVE  /\ tempNode[r] \in Words
         /\ InLists' = [InLists EXCEPT ![tempNode[r]] = @ + 1]
<1> DEFINE t == tempNode[r]
<1>1. t \in Words
  BY DEF AdderMerge, AdderMoves, StageInv, Inv, TypeOK, AtHandInv
<1>2. /\ \A w \in Words : CountOf(buffer_write'[r], w)
                            = CountOf(buffer_write[r], w) + (IF t = w THEN 1 ELSE 0)
      /\ \A q \in Replicas : q # r => buffer_write'[q] = buffer_write[q]
  BY MergeCounts DEF StageInv
<1> HIDE DEF t
<1>3. ASSUME NEW w \in Words
      PROVE  InLists'[w] = InLists[w] + (IF t = w THEN 1 ELSE 0)
  <2> DEFINE f == [q \in Replicas |-> CountOf(buffer_write[q], w)]
             h == [q \in Replicas |-> CountOf(buffer_write'[q], w)]
  <2>1. /\ InLists[w] = SumFunctionOnSet(f, Replicas)
        /\ InLists'[w] = SumFunctionOnSet(h, Replicas)
    BY DEF InLists, SumFunction
  <2>2. \A q \in Replicas : f[q] \in Int
    BY PlacesType DEF StageInv
  <2>3. /\ h[r] = f[r] + (IF t = w THEN 1 ELSE 0)
        /\ \A q \in Replicas : q # r => h[q] = f[q]
    BY <1>2
  <2>4. IsFiniteSet(Replicas)
    BY StoredFinite
  <2> HIDE DEF f, h
  <2>5. \A q \in Replicas : h[q] \in Int
    BY <2>2, <2>3
  <2>6. SumFunctionOnSet(h, Replicas) = SumFunctionOnSet(f, Replicas) - f[r] + h[r]
    BY <2>2, <2>3, <2>4, <2>5, SumChanged
  <2>7. SumFunctionOnSet(f, Replicas) \in Int
    BY <2>2, <2>4, SumOnSet
  <2> QED
    BY <2>1, <2>2, <2>3, <2>6, <2>7
<1>4. InLists' = [InLists EXCEPT ![t] = @ + 1]
  <2> DEFINE new == [InLists EXCEPT ![t] = @ + 1]
  <2>1. InLists = [w \in Words |-> InLists[w]]
    BY DEF InLists
  <2>2. InLists' = [w \in Words |-> InLists'[w]]
    BY DEF InLists
  <2>3. \A w \in Words : InLists[w] \in Nat
    BY TableValues
  <2>4. new = [w \in Words |-> new[w]]
    BY <2>1
  <2>5. ASSUME NEW w \in Words PROVE new[w] = InLists'[w]
    <3>1. new[w] = IF w = t THEN InLists[w] + 1 ELSE InLists[w]
      BY <1>1, <2>1
    <3> QED
      BY <1>3, <2>3, <3>1
  <2> HIDE DEF new
  <2>6. InLists' = new
    BY <2>2, <2>4, <2>5
  <2> QED
    BY <2>6 DEF new
<1> QED
  BY <1>1, <1>4 DEF t

(* When the lists are empty, finalList has the occurrences of the file, and
   those of each word unless some match was the head of its list. *)
Published == [w \in Words |-> R!Total(finalList, {w})]

LEMMA FamilyTable ==
  ASSUME StageInv, mainPc = "reduce", NEW w \in Words
  PROVE  RP!TotalOf(buffer_write, {w}) = InFile[w]
<1> DEFINE f == [r \in Replicas |-> RP!Total(buffer_write[r], {w})]
           h == [r \in Replicas |-> CountOf(buffer_write[r], w)]
<1>1. RP!TotalOf(buffer_write, {w}) = SumFunctionOnSet(f, Replicas)
  BY SameNames, SameSums DEF RP!TotalOf, SumFunction
<1>2. InLists[w] = SumFunctionOnSet(h, Replicas)
  BY DEF InLists, SumFunction
<1>3. ASSUME NEW r \in Replicas
      PROVE  f[r] = h[r]
  <2>1. buffer_write[r] \in Seq(RP!Counted) /\ RP!Distinct(buffer_write[r])
    BY SameNames DEF StageInv, Inv, TypeOK, WrittenInv
  <2>2. RP!Total(buffer_write[r], {w}) = RP!CountOf(buffer_write[r], w)
    BY <2>1, RP!TotalIsCount, ReplicasAssumption
  <2> QED
    BY <2>2, SameCounts
<1>4. f = h
  BY <1>3
<1> QED
  BY <1>1, <1>2, <1>4, TableValues

LEMMA PublishedResult ==
  ASSUME SystemInv, mainPc = "reduce", \A r \in Replicas : lists[r] = <<>>
  PROVE  /\ Published \in [Words -> 0..Abstract!Sum(InFile)]
         /\ Abstract!Sum(Published) = Abstract!Sum(InFile)
         /\ ~headMatched => Published = InFile
<1> DEFINE t == [w \in Words |-> RP!Total(finalList, {w})]
           g == [w \in Words |-> RP!TotalOf(buffer_write, {w})]
<1>0. RP!IsFiniteSet(Words)
  BY FileAssumption DEF RP!IsFiniteSet, IsFiniteSet
<1>1. /\ StageInv /\ RP!TypeInv /\ RP!Balance(Words) /\ RP!ExactInv
      /\ finalList \in Seq(RP!Counted)
      /\ buffer_write \in [RP!Replicas -> Seq(RP!Counted)]
  BY DEF SystemInv, RP!IInv, RP!TypeInv
<1>2. Published = t
  BY SameTotals DEF Published
<1>3. g = InFile
  <2>1. \A w \in Words : g[w] = InFile[w]
    BY <1>1, FamilyTable
  <2>2. InFile = [w \in Words |-> InFile[w]]
    BY DEF InFile
  <2> QED
    BY <2>1, <2>2
<1>4. \A w \in Words : t[w] \in Nat
  BY <1>1, RP!TotalNatural, ReplicasAssumption
<1>5. SumFunctionOnSet(t, Words) = RP!Total(finalList, Words)
  <2>1. RP!SumFunctionOnSet(t, Words) = RP!Total(finalList, Words)
    BY <1>0, <1>1, RP!WordTotals, ReplicasAssumption
  <2> QED
    BY <2>1, SameSums
<1>6. SumFunctionOnSet(g, Words) = RP!TotalOf(buffer_write, Words)
  <2>1. RP!SumFunctionOnSet(g, Words) = RP!TotalOf(buffer_write, Words)
    BY <1>0, <1>1, RP!FamilyWordTotals, ReplicasAssumption
  <2> QED
    BY <2>1, SameSums
<1>7. \A W : RP!TotalOf(lists, W) = 0
  <2>1. \A r \in RP!Replicas : lists[r] = <<>>
    BY SameNames
  <2> QED
    BY <2>1, RP!TotalOfEmpty, ReplicasAssumption
<1>8. \A W : RP!Balance(W) => RP!Total(finalList, W) = RP!TotalOf(buffer_write, W)
  <2> SUFFICES ASSUME NEW W, RP!Balance(W)
               PROVE  RP!Total(finalList, W) = RP!TotalOf(buffer_write, W)
    OBVIOUS
  <2>1. RP!TotalOf(lists, W) + RP!Total(finalList, W) = RP!TotalOf(buffer_write, W)
    BY DEF RP!Balance
  <2>2. RP!Total(finalList, W) \in Nat
    BY <1>1, RP!TotalNatural, ReplicasAssumption
  <2>3. RP!TotalOf(lists, W) = 0
    BY <1>7
  <2> QED
    BY <2>1, <2>2, <2>3
<1>9. SumFunctionOnSet(t, Words) = SumFunctionOnSet(g, Words)
  BY <1>1, <1>5, <1>6, <1>8
<1>10. \A w \in Words : t[w] \in 0..SumFunctionOnSet(t, Words)
  <2> HIDE DEF t
  <2>1. /\ SumFunctionOnSet(t, Words) \in Nat
        /\ \A w \in Words : t[w] <= SumFunctionOnSet(t, Words)
    BY <1>4, FileAssumption, SumNotNegative
  <2> QED
    BY <1>4, <2>1
<1>11. ASSUME ~headMatched PROVE t = g
  <2>1. \A w \in Words : RP!Balance({w})
    BY <1>1, <1>11 DEF RP!ExactInv
  <2> QED
    BY <1>8, <2>1
<1>12. t \in [Words -> 0..SumFunctionOnSet(t, Words)]
  BY <1>10
<1> HIDE DEF t, g
<1>13. /\ Abstract!Sum(t) = SumFunctionOnSet(t, Words)
       /\ Abstract!Sum(g) = SumFunctionOnSet(g, Words)
  BY SameSums
<1> QED
  BY <1>2, <1>3, <1>9, <1>11, <1>12, <1>13

-----------------------------------------------------------------------------
(***************************************************************************)
(* The initial states map to initial states, and every step to a step of   *)
(* WordCount or to a stutter.                                              *)
(***************************************************************************)
LEMMA InitCounts == SystemInit => Abstract!Init
<1> SUFFICES ASSUME SystemInit PROVE Abstract!Init
  OBVIOUS
<1>1. \A w \in Words, r \in Replicas : CountOf(buffer_write[r], w) = 0
  <2> SUFFICES ASSUME NEW w \in Words, NEW r \in Replicas
               PROVE  CountOf(buffer_write[r], w) = 0
    OBVIOUS
  <2>1. buffer_write[r] = <<>>
    BY DEF SystemInit, Init
  <2>2. Hits(buffer_write[r], w, Len(buffer_write[r])) = {}
    BY <2>1 DEF Hits
  <2> QED
    BY <2>2 DEF CountOf, FindMatch
<1>2. ASSUME NEW w \in Words
      PROVE  SumFunction([r \in Replicas |-> CountOf(buffer_write[r], w)]) = 0
  <2> DEFINE f == [r \in Replicas |-> CountOf(buffer_write[r], w)]
  <2>1. SumFunction(f) = SumFunctionOnSet(f, Replicas)
    BY DEF SumFunction
  <2>2. \A r \in Replicas : f[r] = 0
    BY <1>1
  <2>3. IsFiniteSet(Replicas)
    BY StoredFinite
  <2> HIDE DEF f
  <2>4. SumFunction(f) = 0
    BY <2>1, <2>2, <2>3, SumOfZeros
  <2> QED
    BY <2>4 DEF f
<1>3. InLists = [w \in Words |-> 0]
  BY <1>2 DEF InLists
<1> QED
  BY <1>3 DEF SystemInit, Init, Abstract!Init

(* What the program has published. *)
Outcome == IF reducerPc = "done" THEN Published ELSE NULL

LEMMA Stutters ==
  ASSUME UNCHANGED <<buffer_write, headMatched, aborted>>, Outcome' = Outcome
  PROVE  UNCHANGED Abstract!vars
<1>1. InLists' = InLists
  BY DEF InLists
<1> QED
  BY <1>1 DEF Abstract!vars, Outcome, Published

LEMMA OutcomeKept ==
  ASSUME UNCHANGED <<reducerPc, finalList>>
  PROVE  Outcome' = Outcome
BY SameTotals DEF Outcome, Published, R!Total, R!SumFunction,
   R!SumFunctionOnSet, R!FoldFunctionOnSet, R!MapThenFoldSet

(* Only a merge changes a list, and only freed memory ends the process. *)
LEMMA OtherStageSteps ==
  ASSUME StageInv, Next,
         \A r \in Replicas : ~AdderMerge(r) /\ ~ReaderUsesFreed(r)
  PROVE  UNCHANGED <<buffer_write, aborted>>
BY DEF Next, Main, SpawnReader, SpawnAdder, LeaveSpin, MainMoves, Reader,
   ReaderLock, ReaderWait, ReaderReacquire, ReaderPush, ReaderUnlock,
   ReaderSignal, ReaderSetDone, ReaderUnlockDone, ReaderSignalDone,
   SpuriousWakeup, ReaderMoves, adderData, Adder, AdderTestDone, AdderTestSize,
   AdderLock, AdderWait, AdderReacquire, AdderPop, AdderUnlock, AdderSignal,
   AdderLoad, AdderStore, AdderFree, AdderMoves

LEMMA TableBound == StageInv => \A w \in Words : InLists[w] <= InFile[w]
BY TableValues

LEMMA StageCounts ==
  ASSUME SystemInv, SystemInv', Stage(Next)
  PROVE  Abstract!Next \/ UNCHANGED Abstract!vars
<1>1. /\ Next /\ ~aborted /\ StageInv /\ StageInv'
      /\ UNCHANGED <<reducerPc, finalList, headMatched>>
  BY DEF Stage, Runs, HandOver, reducerVars, SystemInv
<1>2. Outcome' = Outcome
  BY <1>1, OutcomeKept
<1>3. ASSUME NEW r \in Replicas, AdderMerge(r)
      PROVE  Abstract!Next
  <2> DEFINE t == tempNode[r]
  <2>1. t \in Words /\ InLists' = [InLists EXCEPT ![t] = @ + 1]
    BY <1>1, <1>3, MergeIsCount
  <2> HIDE DEF t
  <2>2. aborted' = aborted
    BY <1>3 DEF AdderMerge, AdderMoves
  <2>3. InLists'[t] = InLists[t] + 1
    <3>1. DOMAIN InLists = Words
      BY DEF InLists
    <3> QED
      BY <2>1, <3>1
  <2>4. InLists'[t] <= InFile[t]
    <3>1. \A w \in Words : InLists'[w] <= InFile[w]
      <4>1. (\A w \in Words : InLists[w] <= InFile[w])'
        BY <1>1, TableBound, PTL
      <4>2. InFile' = InFile
        BY DEF InFile
      <4> QED
        BY <4>1, <4>2
    <3> QED
      BY <2>1, <3>1
  <2>5. Abstract!Count(t)
    BY <1>1, <1>2, <2>1, <2>2, <2>3, <2>4 DEF Abstract!Count, Outcome, Published
  <2> QED
    BY <2>1, <2>5 DEF Abstract!Next
<1>4. ASSUME NEW r \in Replicas, ReaderUsesFreed(r)
      PROVE  Abstract!Next
  <2>1. aborted' = TRUE /\ UNCHANGED buffer_write
    BY <1>4 DEF ReaderUsesFreed, adderData
  <2>2. InLists' = InLists
    BY <2>1 DEF InLists
  <2>3. Abstract!Die
    BY <1>1, <1>2, <2>1, <2>2 DEF Abstract!Die, Outcome, Published
  <2> QED
    BY <2>3 DEF Abstract!Next
<1>5. ASSUME \A r \in Replicas : ~AdderMerge(r) /\ ~ReaderUsesFreed(r)
      PROVE  UNCHANGED Abstract!vars
  BY <1>1, <1>2, <1>5, OtherStageSteps, Stutters
<1> QED
  BY <1>3, <1>4, <1>5

LEMMA ReduceCounts ==
  ASSUME SystemInv, Reduce
  PROVE  Abstract!Next \/ UNCHANGED Abstract!vars
<1>1. /\ R!Next /\ mainPc = "reduce" /\ ~aborted /\ StageInv
      /\ UNCHANGED <<buffer_write, aborted>> /\ InLists = InFile
  BY CompleteTable DEF Reduce, Runs, vars, SystemInv
<1>2. Outcome = NULL
  BY <1>1, ReducerRuns DEF Outcome
<1>3. InLists' = InLists /\ InFile' = InFile
  BY <1>1 DEF InLists, InFile
<1>4. CASE R!PickWord \/ R!ScanNoMatch \/ R!ScanInside
  <2>1. reducerPc' # "done" /\ UNCHANGED headMatched
    BY <1>4 DEF R!PickWord, R!ScanNoMatch, R!ScanInside, R!ScanNext
  <2>2. Outcome' = NULL
    BY <2>1 DEF Outcome
  <2> QED
    BY <1>1, <1>2, <2>1, <2>2, Stutters
<1>5. CASE R!ScanHead
  <2>1. reducerPc' # "done" /\ headMatched' = TRUE
    BY <1>5 DEF R!ScanHead, R!ScanNext
  <2>2. Outcome' = NULL
    BY <2>1 DEF Outcome
  <2>3. CASE headMatched
    <3>1. headMatched' = headMatched
      BY <2>1, <2>3 DEF SystemInv
    <3> QED
      BY <1>1, <1>2, <2>2, <3>1, Stutters
  <2>4. CASE ~headMatched
    <3>1. Abstract!Skew
      BY <1>1, <1>2, <1>3, <2>1, <2>2, <2>4
      DEF Abstract!Skew, Abstract!Summing, Outcome, Published
    <3> QED
      BY <3>1 DEF Abstract!Next
  <2> QED
    BY <2>3, <2>4
<1>6. CASE R!ListsEmpty
  <2>1. /\ reducerPc' = "done" /\ UNCHANGED <<finalList, headMatched>>
        /\ \A r \in Replicas : lists[r] = <<>>
    BY <1>6 DEF R!ListsEmpty, R!NonEmpty, R!Replicas, Replicas
  <2>2. /\ Published \in [Words -> 0..Abstract!Sum(InFile)]
        /\ Abstract!Sum(Published) = Abstract!Sum(InFile)
        /\ ~headMatched => Published = InFile
    BY <1>1, <2>1, PublishedResult
  <2>3. Outcome' = Published
    <3>1. Published' = Published
      BY <2>1, SameTotals DEF Published, R!Total, R!SumFunction,
         R!SumFunctionOnSet, R!FoldFunctionOnSet, R!MapThenFoldSet
    <3> QED
      BY <2>1, <3>1 DEF Outcome
  <2>4. Published # NULL
    <3>1. Published \in [Words -> Nat]
      BY <2>2
    <3> QED
      BY <3>1, ResultAssumption
  <2> HIDE DEF Published
  <2>5. /\ Outcome' # NULL /\ Outcome' \in [Words -> 0..Abstract!Sum(InFile)]
        /\ Abstract!Sum(Outcome') = Abstract!Sum(InFile)
        /\ ~headMatched => Outcome' = InFile
    BY <2>2, <2>3, <2>4
  <2>6. Abstract!Publish
    BY <1>1, <1>2, <1>3, <2>1, <2>5
    DEF Abstract!Publish, Abstract!Summing, Outcome, Published
  <2> QED
    BY <2>6 DEF Abstract!Next
<1> QED
  BY <1>1, <1>4, <1>5, <1>6 DEF R!Next

LEMMA StepCounts ==
  SystemInv /\ SystemInv' /\ [SystemNext]_systemVars
    => [Abstract!Next]_(Abstract!vars)
<1> SUFFICES ASSUME SystemInv, SystemInv', [SystemNext]_systemVars
             PROVE  Abstract!Next \/ UNCHANGED Abstract!vars
  OBVIOUS
<1>1. ASSUME FreeAll \/ Return \/ UNCHANGED systemVars
      PROVE  UNCHANGED Abstract!vars
  <2>1. UNCHANGED <<buffer_write, headMatched, aborted, reducerPc, finalList>>
    BY <1>1 DEF FreeAll, Return, systemVars, vars, reducerVars
  <2> QED
    BY <2>1, OutcomeKept, Stutters
<1> QED
  BY <1>1, StageCounts, ReduceCounts DEF SystemNext

(* The program of prog3 implements WordCount: for every number of pairs, every
   buffer bound and every file, each occurrence is counted once, a result is
   published when all are, and it is the counts of the file unless a match was
   at the head of its list, when only the sum over all words is right. *)
THEOREM ImplementsWordCount == System => CountsWords
<1>1. CountsWords <=> Abstract!Init /\ [][Abstract!Next]_(Abstract!vars)
  BY DEF CountsWords, Abstract!Spec
<1> QED
  BY <1>1, InitCounts, StepCounts, SystemInvariance, PTL DEF System
=============================================================================
