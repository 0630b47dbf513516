------------------------------ MODULE MapStage ------------------------------
(***************************************************************************)
(* The mapper stage of prog3/cmpsc473mr.c: main() starts, for every        *)
(* replica, a reader thread (map_reader, the producer) and an adder thread *)
(* (map_adder, the consumer) around a bounded buffer with one mutex and    *)
(* one condition variable, then spins on *threads_returned until it may    *)
(* run reducer().                                                          *)
(*                                                                         *)
(* One action per access that another thread can observe: a lock, a wait,  *)
(* an unlock, a signal, and each unprotected read or write of mapperDone,  *)
(* *brSize and *threads_returned is a step of its own.                     *)
(***************************************************************************)
EXTENDS WordList

CONSTANTS
  replicas,        (* argv[2]: the number of reader/adder pairs            *)
  bufferMaxSize,   (* argv[3]: the bound of every buffer_read              *)
  Words,           (* the words that occur in the file                     *)
  NULL,            (* no node                                              *)
  Segment,         (* Segment[r]: the words strtok_r finds in r's segment  *)
  MaxSpurious      (* bound: waits of a pair that end without a signal     *)

Replicas == 1..replicas

ASSUME ReplicasAssumption == replicas \in Nat \ {0}
ASSUME BufferAssumption   == bufferMaxSize \in Nat
ASSUME WordsAssumption    == NULL \notin Words
ASSUME SegmentAssumption  == Segment \in [Replicas -> Seq(Words)]
ASSUME SpuriousAssumption == MaxSpurious \in Nat

VARIABLES
  mainPc,             (* where main() is                                   *)
  rep,                (* the replica main starts next                      *)
  rpc,                (* where reader r is                                 *)
  apc,                (* where adder r is                                  *)
  cursor,             (* index in Segment[r] of the reader's current word  *)
  lock,               (* owner of replica r's mutex                        *)
  buffer_read,        (* buffer_reader_array[r-1]                          *)
  brSize,             (* *br_size_array[r-1]                               *)
  mapperDone,         (* the flag of replica r                             *)
  tempNode,           (* the node adder r popped, or NULL                  *)
  buffer_write,       (* buffer_adder_array[r-1]                           *)
  bwSize,             (* *bw_size_array[r-1]                               *)
  threads_returned,   (* the shared, unprotected counter                   *)
  loaded,             (* the value adder r read of it in ++                *)
  freed,              (* lock, cond and mapperDone of r have been freed    *)
  spurious,           (* ghost: waits of r's pair that ended by themselves *)
  aborted             (* the process died of using freed memory            *)

adderData == <<tempNode, buffer_write, bwSize, loaded, freed>>
buffer    == <<buffer_read, brSize>>
mainVars  == <<mainPc, rep>>

vars == <<mainPc, rep, rpc, apc, cursor, lock, buffer_read, brSize, mapperDone,
          tempNode, buffer_write, bwSize, threads_returned, loaded, freed,
          spurious, aborted>>

ReaderPcs == {"unborn", "strtok", "check", "wait", "woken", "push", "unlock",
              "signal", "setDone", "unlockDone", "signalDone", "returned"}
AdderPcs  == {"unborn", "testDone", "testSize", "lock", "check", "wait",
              "woken", "pop", "unlock", "merge", "signal", "load", "store",
              "free", "returned"}
Nodes     == [word : Words, count : Nat]

-----------------------------------------------------------------------------
(***************************************************************************)
(* The mutex and the condition variable of a pair.  Both threads of a pair *)
(* wait on the same condition variable; a thread that signals is not       *)
(* waiting itself, so a signal wakes the other thread or nobody.           *)
(***************************************************************************)
Acquire(r, who) == lock[r] = "none" /\ lock' = [lock EXCEPT ![r] = who]
Release(r)      == lock' = [lock EXCEPT ![r] = "none"]
Woken(pc)       == IF pc = "wait" THEN "woken" ELSE pc

ReaderGoto(r, pc) == rpc' = [rpc EXCEPT ![r] = pc]
AdderGoto(r, pc)  == apc' = [apc EXCEPT ![r] = pc]

(* A step of reader r, resp. adder r, between two points of its code, with
   the variables no step of such a thread writes. *)
ReaderMoves(r, from, to) ==
  /\ rpc[r] = from
  /\ ReaderGoto(r, to)
  /\ UNCHANGED <<mainVars, adderData, threads_returned, spurious, aborted>>

AdderMoves(r, from, to) ==
  /\ apc[r] = from
  /\ AdderGoto(r, to)
  /\ UNCHANGED <<mainVars, cursor, mapperDone, spurious, aborted>>

-----------------------------------------------------------------------------
(***************************************************************************)
(* map_reader                                                              *)
(***************************************************************************)
(* pthread_mutex_lock: before a push when strtok_r returned a word, before
   setting mapperDone when it returned NULL. *)
ReaderLock(r) ==
  /\ ReaderMoves(r, "strtok",
                 IF cursor[r] <= Len(Segment[r]) THEN "check" ELSE "setDone")
  /\ Acquire(r, "reader")
  /\ UNCHANGED <<apc, buffer, cursor, mapperDone>>

(* The buffer is full: pthread_cond_wait releases the mutex and blocks. *)
ReaderWait(r) ==
  /\ brSize[r] >= bufferMaxSize
  /\ ReaderMoves(r, "check", "wait")
  /\ Release(r)
  /\ UNCHANGED <<apc, buffer, cursor, mapperDone>>

(* pthread_cond_wait returns with the mutex: brSize is not tested again. *)
ReaderReacquire(r) ==
  /\ ReaderMoves(r, "woken", "push")
  /\ Acquire(r, "reader")
  /\ UNCHANGED <<apc, buffer, cursor, mapperDone>>

(* Mutant: the test of the bound is missing. *)
ReaderPushUnguarded(r) ==
  /\ ReaderMoves(r, "check", "unlock") \/ ReaderMoves(r, "push", "unlock")
  /\ buffer_read' = [buffer_read EXCEPT ![r] =
                       PushHead(Segment[r][cursor[r]], @)]
  /\ brSize' = [brSize EXCEPT ![r] = @ + 1]
  /\ cursor' = [cursor EXCEPT ![r] = @ + 1]
  /\ UNCHANGED <<apc, lock, mapperDone>>

ReaderPush(r) ==
  /\ \/ ReaderMoves(r, "check", "unlock") /\ brSize[r] < bufferMaxSize
     \/ ReaderMoves(r, "push", "unlock")
  /\ buffer_read' = [buffer_read EXCEPT ![r] =
                       PushHead(Segment[r][cursor[r]], @)]
  /\ brSize' = [brSize EXCEPT ![r] = @ + 1]
  /\ cursor' = [cursor EXCEPT ![r] = @ + 1]
  /\ UNCHANGED <<apc, lock, mapperDone>>

ReaderUnlock(r) ==
  /\ ReaderMoves(r, "unlock", "signal")
  /\ Release(r)
  /\ UNCHANGED <<apc, buffer, cursor, mapperDone>>

(* Mutant: the signal is forgotten. *)
ReaderSignalForgotten(r) ==
  /\ ReaderMoves(r, "signal", "strtok")
  /\ UNCHANGED <<apc, buffer, cursor, lock, mapperDone>>

(* Signal that a node was added to the buffer; next word. *)
ReaderSignal(r) ==
  /\ ReaderMoves(r, "signal", "strtok")
  /\ AdderGoto(r, Woken(apc[r]))
  /\ UNCHANGED <<buffer, cursor, lock, mapperDone>>

ReaderSetDone(r) ==
  /\ ReaderMoves(r, "setDone", "unlockDone")
  /\ mapperDone' = [mapperDone EXCEPT ![r] = TRUE]
  /\ UNCHANGED <<apc, buffer, cursor, lock>>

ReaderUnlockDone(r) ==
  /\ ReaderMoves(r, "unlockDone", "signalDone")
  /\ Release(r)
  /\ UNCHANGED <<apc, buffer, cursor, mapperDone>>

(* The signal that announces mapperDone; the reader returns. *)
ReaderSignalDone(r) ==
  /\ ReaderMoves(r, "signalDone", "returned")
  /\ AdderGoto(r, Woken(apc[r]))
  /\ UNCHANGED <<buffer, cursor, lock, mapperDone>>

(* The adder has freed lock and cond, which the reader still unlocks or
   signals: undefined behaviour.  Either the access goes through (the two
   actions above) or the process dies. *)
ReaderUsesFreed(r) ==
  /\ rpc[r] \in {"unlockDone", "signalDone"}
  /\ freed[r]
  /\ aborted' = TRUE
  /\ UNCHANGED <<mainVars, adderData, buffer, rpc, apc, cursor, lock,
                 mapperDone, threads_returned, spurious>>

Reader(r) ==
  \/ ReaderLock(r) \/ ReaderWait(r) \/ ReaderReacquire(r) \/ ReaderPush(r)
  \/ ReaderUnlock(r) \/ ReaderSignal(r) \/ ReaderSetDone(r)
  \/ ReaderUnlockDone(r) \/ ReaderSignalDone(r)

-----------------------------------------------------------------------------
(***************************************************************************)
(* map_adder                                                               *)
(***************************************************************************)
(* Mutant: the loop ends on mapperDone, whatever is left in the buffer. *)
AdderTestDoneOnly(r) ==
  /\ AdderMoves(r, "testDone", IF mapperDone[r] THEN "load" ELSE "lock")
  /\ UNCHANGED <<adderData, buffer, rpc, lock, threads_returned>>

(* Mutant: && for ||, the loop also ends on an empty buffer. *)
AdderTestEitherEnds(r) ==
  /\ AdderMoves(r, "testDone", IF mapperDone[r] THEN "load" ELSE "testSize")
  /\ UNCHANGED <<adderData, buffer, rpc, lock, threads_returned>>

(* The loop condition reads *mapperDone, then *brSize, without the mutex. *)
AdderTestDone(r) ==
  /\ AdderMoves(r, "testDone", IF mapperDone[r] THEN "testSize" ELSE "lock")
  /\ UNCHANGED <<adderData, buffer, rpc, lock, threads_returned>>

AdderTestSize(r) ==
  /\ AdderMoves(r, "testSize", IF brSize[r] > 0 THEN "lock" ELSE "load")
  /\ UNCHANGED <<adderData, buffer, rpc, lock, threads_returned>>

AdderLock(r) ==
  /\ AdderMoves(r, "lock", "check")
  /\ Acquire(r, "adder")
  /\ UNCHANGED <<adderData, buffer, rpc, threads_returned>>

(* The buffer is empty: wait, without looking at mapperDone again. *)
AdderWait(r) ==
  /\ brSize[r] <= 0
  /\ AdderMoves(r, "check", "wait")
  /\ Release(r)
  /\ UNCHANGED <<adderData, buffer, rpc, threads_returned>>

AdderReacquire(r) ==
  /\ AdderMoves(r, "woken", "pop")
  /\ Acquire(r, "adder")
  /\ UNCHANGED <<adderData, buffer, rpc, threads_returned>>

(* Mutant: the size is decremented although nothing was popped. *)
AdderPopMiscounts(r) ==
  /\ \/ AdderMoves(r, "check", "unlock") /\ brSize[r] > 0
     \/ AdderMoves(r, "pop", "unlock")
  /\ tempNode' = [tempNode EXCEPT ![r] =
                    IF buffer_read[r] = <<>> THEN NULL
                    ELSE Head(buffer_read[r])]
  /\ buffer_read' = [buffer_read EXCEPT ![r] = PopHead(@)]
  /\ brSize' = [brSize EXCEPT ![r] = @ - 1]
  /\ UNCHANGED <<buffer_write, bwSize, loaded, freed, rpc, lock,
                 threads_returned>>

(* popHead: NULL, and brSize untouched, when the list is empty. *)
AdderPop(r) ==
  /\ \/ AdderMoves(r, "check", "unlock") /\ brSize[r] > 0
     \/ AdderMoves(r, "pop", "unlock")
  /\ LET empty == buffer_read[r] = <<>> IN
     /\ tempNode' = [tempNode EXCEPT ![r] =
                       IF empty THEN NULL ELSE Head(buffer_read[r])]
     /\ buffer_read' = [buffer_read EXCEPT ![r] = PopHead(@)]
     /\ brSize' = [brSize EXCEPT ![r] = IF empty THEN @ ELSE @ - 1]
  /\ UNCHANGED <<buffer_write, bwSize, loaded, freed, rpc, lock,
                 threads_returned>>

(* Unlock; with no node the loop starts over and nobody is signalled. *)
AdderUnlock(r) ==
  /\ AdderMoves(r, "unlock",
                IF tempNode[r] = NULL THEN "testDone" ELSE "merge")
  /\ Release(r)
  /\ UNCHANGED <<adderData, buffer, rpc, threads_returned>>

(* Mutant: a match is found and its count is not incremented. *)
AdderMergeForgets(r) ==
  /\ AdderMoves(r, "merge", "signal")
  /\ IF FindMatch(buffer_write[r], tempNode[r], bwSize[r]) # 0
     THEN UNCHANGED <<buffer_write, bwSize>>
     ELSE /\ buffer_write' = [buffer_write EXCEPT ![r] =
                                PushHead([word |-> tempNode[r], count |-> 1], @)]
          /\ bwSize' = [bwSize EXCEPT ![r] = @ + 1]
  /\ tempNode' = [tempNode EXCEPT ![r] = NULL]
  /\ UNCHANGED <<loaded, freed, buffer, rpc, lock, threads_returned>>

(* Count the word in buffer_write, which is private to the adder. *)
AdderMerge(r) ==
  /\ AdderMoves(r, "merge", "signal")
  /\ LET k == FindMatch(buffer_write[r], tempNode[r], bwSize[r]) IN
     IF k # 0
     THEN /\ buffer_write' = [buffer_write EXCEPT ![r][k].count = @ + 1]
          /\ UNCHANGED bwSize
     ELSE /\ buffer_write' = [buffer_write EXCEPT ![r] =
                                PushHead([word |-> tempNode[r], count |-> 1], @)]
          /\ bwSize' = [bwSize EXCEPT ![r] = @ + 1]
  /\ tempNode' = [tempNode EXCEPT ![r] = NULL]
  /\ UNCHANGED <<loaded, freed, buffer, rpc, lock, threads_returned>>

(* Mutant: the reader is not alerted to the free slot. *)
AdderSignalForgotten(r) ==
  /\ AdderMoves(r, "signal", "testDone")
  /\ UNCHANGED <<adderData, buffer, rpc, lock, threads_returned>>

(* Alert the reader to the free slot, after the mutex was given back. *)
AdderSignal(r) ==
  /\ AdderMoves(r, "signal", "testDone")
  /\ ReaderGoto(r, Woken(rpc[r]))
  /\ UNCHANGED <<adderData, buffer, lock, threads_returned>>

(* ++( *threads_returned ) is a load and a store with no lock around them. *)
AdderLoad(r) ==
  /\ AdderMoves(r, "load", "store")
  /\ loaded' = [loaded EXCEPT ![r] = threads_returned]
  /\ UNCHANGED <<tempNode, buffer_write, bwSize, freed, buffer, rpc, lock,
                 threads_returned>>

AdderStore(r) ==
  /\ AdderMoves(r, "store", "free")
  /\ threads_returned' = loaded[r] + 1
  /\ UNCHANGED <<adderData, buffer, rpc, lock>>

(* free(lock); free(cond); free(mapperDone); free(adder); return *)
AdderFree(r) ==
  /\ AdderMoves(r, "free", "returned")
  /\ freed' = [freed EXCEPT ![r] = TRUE]
  /\ UNCHANGED <<tempNode, buffer_write, bwSize, loaded, buffer, rpc, lock,
                 threads_returned>>

Adder(r) ==
  \/ AdderTestDone(r) \/ AdderTestSize(r) \/ AdderLock(r) \/ AdderWait(r)
  \/ AdderReacquire(r) \/ AdderPop(r) \/ AdderUnlock(r) \/ AdderMerge(r)
  \/ AdderSignal(r) \/ AdderLoad(r) \/ AdderStore(r) \/ AdderFree(r)

(* POSIX allows pthread_cond_wait to return without a signal. *)
SpuriousWakeup(r) ==
  /\ spurious[r] < MaxSpurious
  /\ spurious' = [spurious EXCEPT ![r] = @ + 1]
  /\ \/ rpc[r] = "wait" /\ ReaderGoto(r, "woken") /\ UNCHANGED apc
     \/ apc[r] = "wait" /\ AdderGoto(r, "woken") /\ UNCHANGED rpc
  /\ UNCHANGED <<mainVars, adderData, buffer, cursor, lock, mapperDone,
                 threads_returned, aborted>>

-----------------------------------------------------------------------------
(***************************************************************************)
(* main and mapper: replica rep gets its slot, then its reader, then its   *)
(* adder, while the pairs started before are already running.              *)
(***************************************************************************)
MainMoves(from, to) ==
  /\ mainPc = from
  /\ mainPc' = to
  /\ UNCHANGED <<adderData, buffer, cursor, lock, mapperDone,
                 threads_returned, spurious, aborted>>

SpawnReader ==
  /\ MainMoves("spawnReader", "spawnAdder")
  /\ ReaderGoto(rep, "strtok")
  /\ UNCHANGED <<rep, apc>>

SpawnAdder ==
  /\ MainMoves("spawnAdder", IF rep < replicas THEN "spawnReader" ELSE "spin")
  /\ AdderGoto(rep, "testDone")
  /\ rep' = rep + 1
  /\ UNCHANGED rpc

(* Mutant: main leaves the loop one return early. *)
LeaveSpinEarly ==
  /\ threads_returned + 1 >= replicas
  /\ MainMoves("spin", "reduce")
  /\ UNCHANGED <<rep, rpc, apc>>

(* while ( *threads_returned < replicas ); *)
LeaveSpin ==
  /\ threads_returned >= replicas
  /\ MainMoves("spin", "reduce")
  /\ UNCHANGED <<rep, rpc, apc>>

Main == SpawnReader \/ SpawnAdder \/ LeaveSpin

-----------------------------------------------------------------------------
Init ==
  /\ mainPc = "spawnReader"
  /\ rep = 1
  /\ rpc = [r \in Replicas |-> "unborn"]
  /\ apc = [r \in Replicas |-> "unborn"]
  /\ cursor = [r \in Replicas |-> 1]
  /\ lock = [r \in Replicas |-> "none"]
  /\ buffer_read = [r \in Replicas |-> <<>>]
  /\ brSize = [r \in Replicas |-> 0]
  /\ mapperDone = [r \in Replicas |-> FALSE]
  /\ tempNode = [r \in Replicas |-> NULL]
  /\ buffer_write = [r \in Replicas |-> <<>>]
  /\ bwSize = [r \in Replicas |-> 0]
  /\ threads_returned = 0
  /\ loaded = [r \in Replicas |-> 0]
  /\ freed = [r \in Replicas |-> FALSE]
  /\ spurious = [r \in Replicas |-> 0]
  /\ aborted = FALSE

Next ==
  /\ ~aborted
  /\ \/ Main
     \/ \E r \in Replicas : \/ Reader(r) \/ Adder(r) \/ ReaderUsesFreed(r)
                            \/ SpuriousWakeup(r)

Spec == Init /\ [][Next]_vars

(* Every thread is scheduled: one that can take a step does not stay
   preempted for ever.  Nothing obliges a wait to end by itself or freed
   memory to bite. *)
Fairness ==
  /\ WF_vars(~aborted /\ Main)
  /\ \A r \in Replicas : WF_vars(~aborted /\ Reader(r))
                         /\ WF_vars(~aborted /\ Adder(r))

FairSpec == Spec /\ Fairness
-----------------------------------------------------------------------------
(***************************************************************************)
(* Properties                                                              *)
(***************************************************************************)
TypeOK ==
  /\ mainPc \in {"spawnReader", "spawnAdder", "spin", "reduce"}
  /\ rep \in 1..(replicas + 1)
  /\ rpc \in [Replicas -> ReaderPcs]
  /\ apc \in [Replicas -> AdderPcs]
  /\ cursor \in [Replicas -> Nat \ {0}]
  /\ lock \in [Replicas -> {"none", "reader", "adder"}]
  /\ buffer_read \in [Replicas -> Seq(Words)]
  /\ brSize \in [Replicas -> Nat]
  /\ mapperDone \in [Replicas -> BOOLEAN]
  /\ tempNode \in [Replicas -> Words \union {NULL}]
  /\ buffer_write \in [Replicas -> Seq(Nodes)]
  /\ bwSize \in [Replicas -> Nat]
  /\ threads_returned \in Nat
  /\ loaded \in [Replicas -> Nat]
  /\ freed \in [Replicas -> BOOLEAN]
  /\ spurious \in [Replicas -> Nat]
  /\ aborted \in BOOLEAN

(* Adder r has popped a node and not yet signalled the free slot. *)
OwesSignal(r) ==
  \/ apc[r] \in {"merge", "signal"}
  \/ apc[r] = "unlock" /\ tempNode[r] # NULL

(* Adder r has left its loop. *)
PastLoop(r)  == apc[r] \in {"load", "store", "free", "returned"}
PastStore(r) == apc[r] \in {"free", "returned"}

(* The wait in map_reader is guarded by `if` and not by `while`, and the
   adder signals after it has unlocked, so a late signal lets the reader push
   into a full buffer.  What the code does guarantee: the excess is one node,
   and one more for each wait that ended without a signal, however long the
   run. *)
BufferOverrunBounded ==
  \A r \in Replicas : brSize[r] <= bufferMaxSize + 1 + spurious[r]

(* No wakeup is lost between the two loops: a thread that waits although its
   condition has become true is still owed a signal by the other thread. *)
NoLostWakeup ==
  \A r \in Replicas :
    /\ apc[r] = "wait" /\ brSize[r] > 0 => rpc[r] \in {"unlock", "signal"}
    /\ rpc[r] = "wait" /\ brSize[r] < bufferMaxSize => OwesSignal(r)

(* With room for one node the reader and the adder of a pair never wait for
   each other (with bufferMaxSize = 0 they do, at once). *)
PairNeverBothWait ==
  bufferMaxSize > 0 =>
    \A r \in Replicas : ~(rpc[r] = "wait" /\ apc[r] = "wait")

(* The adder frees the lock, the condition variable and the flag that it
   shares with the reader.  The reader may still be using them, yet only for
   its very last unlock and signal: no wait, no push and no test of the bound
   ever meets freed memory. *)
FreedOnlyAfterDone ==
  \A r \in Replicas :
    freed[r] => rpc[r] \in {"unlockDone", "signalDone", "returned"}

(* Words of r's segment that have not reached buffer_read yet. *)
Unread(r, w) ==
  Cardinality({k \in cursor[r]..Len(Segment[r]) : Segment[r][k] = w})

(* No interleaving loses or doubles a word: each occurrence is unread, in the
   buffer, in the adder's hands, or counted in buffer_write, whose nodes have
   distinct words and whose size field is its length. *)
WordsConserved ==
  \A r \in Replicas :
    /\ Distinct(buffer_write[r])
    /\ bwSize[r] = Len(buffer_write[r])
    /\ brSize[r] = Len(buffer_read[r])
    /\ \A w \in Words :
         Unread(r, w) + Occurrences(buffer_read[r], w)
           + (IF tempNode[r] = w THEN 1 ELSE 0) + CountOf(buffer_write[r], w)
         = Occurrences(Segment[r], w)

(* "Single threaded operation.  Only runs once, and only after the final
   map-adder-n has finished running": whatever lost updates do to the
   unprotected *threads_returned, when main() leaves its spin loop every adder
   has made its last access to the lists. *)
ReducerAfterLastAdder == mainPc = "reduce" => \A r \in Replicas : PastStore(r)

(* ... and what it finds in the lists of a replica is the complete count of
   the replica's segment, although the adders leave their loop on two
   unprotected reads. *)
ReducerSeesFinalCounts ==
  mainPc = "reduce" =>
    \A r \in Replicas, w \in Words :
      CountOf(buffer_write[r], w) = Occurrences(Segment[r], w)

(* Why main() may never leave its loop: an adder went to sleep after its
   reader's last signal, or an increment of *threads_returned was lost. *)
HangCause ==
  \/ \E r \in Replicas : apc[r] = "wait" /\ rpc[r] = "returned"
  \/ /\ \A r \in Replicas : apc[r] = "returned"
     /\ threads_returned < replicas

(***************************************************************************)
(* What a comment of the source says and the code does not do.             *)
(***************************************************************************)
(* cmpsc473mr.c:343 "Notify that mapper is done": once notified, the adder
   leaves its loop and main() gets to the reducer. *)
MainReachesReducer == <>(mainPc = "reduce" \/ aborted)
=============================================================================
