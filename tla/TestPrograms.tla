---------------------------- MODULE TestPrograms ----------------------------
(***************************************************************************)
(* The four test programs of prog1, TestFile1.c to TestFile4.c, as clients *)
(* of module Threads: main creates the threads and calls Go, and the       *)
(* threads run the functions below.                                        *)
(*                                                                         *)
(* Every function is an endless loop that makes its next call when a       *)
(* counter reaches a limit.  How long that takes compared with the timer   *)
(* is left open, so a function is the sequence of its calls.               *)
(***************************************************************************)
EXTENDS Threads

CONSTANT Programs    (* the numbers of the test programs that are run      *)

ASSUME ProgramsAssumption == Programs \subseteq 1..4

VARIABLES
  program,           (* which test program this is                         *)
  calls              (* how many calls each thread has begun               *)

testVars == <<vars, program, calls>>

(* main: the functions it creates threads of, in this order. *)
TestFile1 == <<"simple_thread", "delete_test", "delete_other_test">>
TestFile2 == <<"simple_thread", "simple_thread", "simple_thread",
               "simple_thread">>
TestFile3 == <<"simple_thread", "simple_thread", "suspend_test",
               "simple_thread", "simple_thread">>
TestFile4 == <<"simple_thread", "simple_thread", "sleep_test",
               "simple_thread">>

Functions == <<TestFile1, TestFile2, TestFile3, TestFile4>>[program]

(* CreateThread numbers the threads from 0. *)
WithId(n) == n + 1

MainCreates ==
  /\ current = 0 /\ allocated < Len(Functions)
  /\ CreateAllocate
  /\ UNCHANGED <<program, calls>>

MainGoes ==
  /\ allocated = Len(Functions)
  /\ Go
  /\ UNCHANGED <<program, calls>>

(* The running thread has begun n calls of function f; it begins the next. *)
Turn(f, n) ==
  /\ current # 0 /\ Functions[current] = f /\ calls[current] = n
  /\ calls' = [calls EXCEPT ![current] = @ + 1]
  /\ UNCHANGED program

simple_thread == Turn("simple_thread", 0) /\ CleanUp

(* Mutant: the thread deletes its predecessor. *)
delete_testPrevious == Turn("delete_test", 0) /\ DeleteThread(current - 1)

delete_test == Turn("delete_test", 0) /\ DeleteThread(current)

delete_other_test == Turn("delete_other_test", 0) /\ DeleteThread(WithId(1))

(* A ResumeThread of a thread that is not suspended changes nothing. *)
suspend_test ==
  \/ Turn("suspend_test", 0) /\ SuspendThread(WithId(0))
  \/ Turn("suspend_test", 1) /\ ResumeThread(WithId(0))
  \/ /\ Turn("suspend_test", 1)
     /\ mode = "running" /\ pc[current] = "idle"
     /\ state[WithId(0)] # "SUSPENDED"
     /\ UNCHANGED vars

sleep_test ==
  /\ Turn("sleep_test", 0)
  /\ \E time \in SleepTimes : SleepThread(time)

(* What is left of a call, the timer, and the passing of time. *)
Package ==
  /\ \/ Continue \/ Signal \/ Tick
     \/ pc[current] = "yield" /\ YieldCPU
  /\ UNCHANGED <<program, calls>>

TestInit ==
  /\ Init
  /\ program \in Programs
  /\ calls = [t \in Threads |-> 0]

TestNext ==
  \/ MainCreates \/ MainGoes \/ Package
  \/ simple_thread \/ delete_test \/ delete_other_test
  \/ suspend_test \/ sleep_test

TestSpec == TestInit /\ [][TestNext]_testVars

(* As in Threads: what has begun goes on, and the timer fires.  A loop counts
   on whenever its thread runs, so a thread that runs again and again reaches
   its limit. *)
TestFairness ==
  /\ WF_testVars(current = 0 /\ (MainCreates \/ MainGoes \/ Package))
  /\ \A t \in Threads :
       /\ SF_testVars(current = t /\ simple_thread)
       /\ SF_testVars(current = t /\ Package)
  /\ SF_testVars(Timer /\ UNCHANGED <<program, calls>>)

FairTestSpec == TestSpec /\ TestFairness

-----------------------------------------------------------------------------
(***************************************************************************)
(* Properties                                                              *)
(***************************************************************************)
(* A deleted thread is never scheduled again. *)
DeletedForGood ==
  [][\A t \in Threads : state[t] = "FINISHED" => state'[t] = "FINISHED"]_vars

(* A badly timed SIGVTALRM can make a thread READY and not in the list.  Unless
   it hits a list operation itself, it takes a call that removes a thread from
   the list: the only threads that the test programs can lose are the one that
   TestFile3 suspends and the one that puts itself to sleep in TestFile4.  (A
   thread_enqueue of TestFile3's ResumeThread that is cut in two, between
   my_scheduler.c:32 and :34, can lose any thread: mode is then "torn".) *)
LosesOnlyTheRemoved ==
  Quiescent =>
    \A t \in Threads :
      state[t] = "READY" /\ ~Contains(ready_list, t) =>
        \/ program = 3 /\ t = WithId(0)
        \/ program = 4 /\ Functions[t] = "sleep_test"

(* Every test program ends in CleanUp, except for bad luck in the lottery, with
   which it may go on for ever, and except for a timer that cuts a list operation
   of TestFile3 or TestFile4 in two.  Otherwise none dies in the scheduler,
   although threads delete, suspend and put to sleep themselves and each other,
   and the timer fires between any two of their writes: somebody is always left
   to run. *)
EndsInCleanUp ==
  \/ <>(mode = "exited" \/ (mode = "torn" /\ program \in {3, 4}))
  \/ scheduling_type = LOT /\ [](mode = "running")
=============================================================================
