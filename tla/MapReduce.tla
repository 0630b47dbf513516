----------------------------- MODULE MapReduce ------------------------------
(***************************************************************************)
(* The whole program of prog3/cmpsc473mr.c: the mapper stage, the reducer  *)
(* that main() runs once it has left its loop, and the clean-up at the end *)
(* of main(), with reader and adder threads that may still be on their way *)
(* out meanwhile.                                                          *)
(*                                                                         *)
(* When main() leaves its loop, the lists become the reducer's: lists and  *)
(* size start as buffer_write and bwSize, and these keep the values that   *)
(* the stage left.  No thread but main touches the lists from then on      *)
(* (ReducerAfterLastAdder).                                                *)
(***************************************************************************)
EXTENDS MapStage, FiniteSetsExt

(* A file has finitely many words, and no table of counts is a null pointer. *)
ASSUME FileAssumption   == IsFiniteSet(Words)
ASSUME ResultAssumption == NULL \notin [Words -> Nat]

VARIABLES
  reducerPc,          (* where reducer() is                                *)
  i, j,               (* its loop variables                                *)
  lists, size,        (* buffer_adder_array and bw_size_array              *)
  finalList, flSize,  (* its result                                        *)
  headMatched,        (* ghost: some match was the head of its list        *)
  cleaned,            (* main() has freed the lists, sizes and arrays      *)
  exited              (* main() has returned, and the process is gone      *)

reducerVars == <<reducerPc, i, j, lists, size, finalList, flSize, headMatched>>
systemVars  == <<vars, reducerVars, cleaned, exited>>

R == INSTANCE Reducer WITH pc <- reducerPc, given <- buffer_write,
                           MapperOutput <- {}

Runs == ~aborted /\ ~exited

(* The stage hands its lists over when main() leaves its loop. *)
HandOver ==
  IF mainPc # "reduce" /\ mainPc' = "reduce"
  THEN /\ lists' = buffer_write
       /\ size' = bwSize
       /\ UNCHANGED <<reducerPc, i, j, finalList, flSize, headMatched>>
  ELSE UNCHANGED reducerVars

(* A step of the threads, or of main() before the reducer. *)
Stage(step) ==
  /\ Runs
  /\ step
  /\ HandOver
  /\ UNCHANGED <<cleaned, exited>>

Reduce ==
  /\ Runs /\ mainPc = "reduce"
  /\ R!Next
  /\ UNCHANGED <<vars, cleaned, exited>>

(* Mutant: main frees before the reducer is called. *)
FreeAllEarly ==
  /\ Runs /\ mainPc = "spin" /\ ~cleaned
  /\ cleaned' = TRUE
  /\ UNCHANGED <<vars, reducerVars, exited>>

(* The sizes, every node of finalList, the arrays and the counters. *)
FreeAll ==
  /\ Runs /\ mainPc = "reduce" /\ reducerPc = "done" /\ ~cleaned
  /\ cleaned' = TRUE
  /\ UNCHANGED <<vars, reducerVars, exited>>

(* return 0: the process ends, whatever the other threads are doing. *)
Return ==
  /\ Runs /\ cleaned
  /\ exited' = TRUE
  /\ UNCHANGED <<vars, reducerVars, cleaned>>

SystemInit ==
  /\ Init
  /\ reducerPc = "pick" /\ i = 1 /\ j = 1
  /\ lists = buffer_write /\ size = bwSize
  /\ finalList = <<>> /\ flSize = 0
  /\ headMatched = FALSE
  /\ cleaned = FALSE /\ exited = FALSE

SystemNext == Stage(Next) \/ Reduce \/ FreeAll \/ Return

System == SystemInit /\ [][SystemNext]_systemVars

(* Every thread is scheduled, as in MapStage, for as long as the process
   lives. *)
FairSystem ==
  /\ System
  /\ WF_systemVars(Stage(Main) \/ Reduce \/ FreeAll \/ Return)
  /\ \A r \in Replicas : /\ WF_systemVars(Stage(Reader(r)))
                         /\ WF_systemVars(Stage(Adder(r)))

-----------------------------------------------------------------------------
(***************************************************************************)
(* Properties                                                              *)
(***************************************************************************)
(* The program implements WordCount: a word is counted when an adder enters
   it in buffer_write, and the result is published when reducer() returns. *)
InFile  == [w \in Words |->
              SumFunction([r \in Replicas |-> Occurrences(Segment[r], w)])]
InLists == [w \in Words |->
              SumFunction([r \in Replicas |-> CountOf(buffer_write[r], w)])]

Abstract ==
  INSTANCE WordCount WITH
    Text     <- InFile,
    NoResult <- NULL,
    counted  <- InLists,
    skewed   <- headMatched,
    result   <- IF reducerPc = "done"
                THEN [w \in Words |-> R!Total(finalList, {w})] ELSE NULL,
    died     <- aborted

CountsWords == Abstract!Spec

(* main() frees the lists and their sizes without joining the threads.  None
   of them will use what is freed: a reader has only its last unlock and
   signal left, an adder only its own clean-up.  And nothing is left when main
   returns: each node that a reader allocated has been freed, and none is in a
   buffer, in an adder's hands or in a list. *)
CleanUpIsExact ==
  /\ cleaned =>
       \A r \in Replicas :
         /\ rpc[r] \in {"unlockDone", "signalDone", "returned"}
         /\ PastStore(r)
  /\ exited =>
       \A r \in Replicas :
         /\ cursor[r] = Len(Segment[r]) + 1
         /\ buffer_read[r] = <<>> /\ tempNode[r] = NULL
         /\ lists[r] = <<>>

(* Every word gets counted, and main() returns, unless it hangs for one of the
   causes in HangCause or the process dies in freed memory. *)
ReturnsUnlessHung ==
  <>(aborted \/ (InLists = InFile /\ (exited \/ HangCause)))
=============================================================================
