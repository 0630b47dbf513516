----------------------------- MODULE Accounting -----------------------------
(***************************************************************************)
(* The statistics of prog1/threads.c on top of module Threads: what        *)
(* Dispatch, Go and SleepThread write in a thread's status besides its     *)
(* state, and the CPU time they read.                                      *)
(*                                                                         *)
(* CreateThread initialises none of it.  The totals are sums, so they are  *)
(* kept here as what was added to the garbage; the number of bursts is a   *)
(* divisor, so its garbage is kept.                                        *)
(*                                                                         *)
(* The handler uses CPU time too.  It reads the clock when it is entered   *)
(* and again before it returns, and goes through the lists in between.     *)
(***************************************************************************)
EXTENDS Threads

CONSTANTS
  Width,           (* the bits of an unsigned                              *)
  StaleBursts,     (* what malloc may leave in no_of_bursts                *)
  MaxClock,        (* bound: the CPU time of a run                         *)
  MaxDispatches    (* bound: the dispatches of a run                       *)

ASSUME WidthAssumption  == Width \in Nat /\ StaleBursts \subseteq 0..(2^Width - 1)
(* True of every Width; the provers know nothing of powers. *)
ASSUME PowerAssumption  == 2^Width \in Nat \ {0}
ASSUME LengthAssumption == MaxClock \in Nat /\ MaxDispatches \in Nat

VARIABLES
  clock,           (* GetCurrentTime()                                     *)
  start_time,      (* the clock when the current thread was switched to    *)
  exec,            (* total_exec_time                                      *)
  wait,            (* total_wait_time                                      *)
  sleep,           (* total_sleep_time                                     *)
  bursts,          (* no_of_bursts                                         *)
  began,           (* ghost: the clock at Go()                             *)
  stale,           (* ghost: the garbage in bursts                         *)
  twice,           (* ghost: what a thread that woke itself was charged    *)
  dispatches,      (* ghost: how many there were                           *)
  divided,         (* the process died of a division by zero               *)
  handler,         (* where Dispatch is, "no" when it is not running       *)
  time_delta,      (* the slice that Dispatch charges                      *)
  lost             (* ghost: the CPU time that passed in Dispatch          *)

times    == <<exec, wait, sleep>>
ghosts   == <<began, stale, twice, dispatches, lost>>
accounts == <<clock, start_time, times, bursts, ghosts, divided, handler,
              time_delta>>

(* How many nodes of q are t's. *)
NodesOf(q, t) == Cardinality({k \in DOMAIN q : q[k] = t})

-----------------------------------------------------------------------------
(* Dispatch is entered, by the timer or by a YieldCPU: the slice goes to the
   thread that ran as execution. *)
HandlerEntered ==
  /\ handler = "no" /\ ~divided /\ dispatches < MaxDispatches
  /\ mode = "running" /\ current # 0
  /\ Preempt \/ pc[current] \in {"idle", "yield"}
  /\ handler' = "entered" /\ dispatches' = dispatches + 1
  /\ time_delta' = clock - start_time
  /\ exec' = [exec EXCEPT ![current] = @ + time_delta']
  /\ UNCHANGED <<vars, clock, start_time, wait, sleep, bursts, began, stale, twice,
                 lost, divided>>

(* Mutant: the preempted thread is back in the list when waits are charged. *)
ChargeRequeued ==
  wait' = [t \in Threads |-> wait[t] + NodesOf(Requeued, t) * time_delta]

(* The slice goes to each node of the ready list as waiting; the list is what
   the walk has left of it. *)
ChargeWaits ==
  wait' = [t \in Threads |-> wait[t] + NodesOf(AfterWalk, t) * time_delta]

(* Mutant: the burst is counted after the divisions. *)
CountBurstLate(t) ==
  /\ bursts' = [bursts EXCEPT ![t] = (@ + 1) % 2^Width]
  /\ divided' = (bursts[t] = 0 \/ bursts[t] + 1 = 2^Width)

(* The next thread's burst is counted, and its averages are computed: over
   no_of_bursts and over no_of_bursts + 1, both unsigned. *)
CountBurst(t) ==
  /\ bursts' = [bursts EXCEPT ![t] = (@ + 1) % 2^Width]
  /\ divided' = (bursts'[t] = 0 \/ bursts'[t] + 1 = 2^Width)

(* The walk, the waits, and the choice of the next thread. *)
Account(dispatch) ==
  /\ handler = "entered" /\ handler' = "switched"
  /\ dispatch
  /\ ChargeWaits
  /\ twice' = [twice EXCEPT ![current] = IF Due(current) THEN @ + time_delta
                                         ELSE @]
  /\ IF mode' = "running" THEN CountBurst(current')
     ELSE UNCHANGED <<bursts, divided>>
  /\ UNCHANGED <<clock, start_time, exec, sleep, began, stale, dispatches, lost,
                 time_delta>>

(* The timer has interrupted a list operation (see Threads). *)
AccountTears ==
  /\ handler = "entered"
  /\ TimerTears
  /\ UNCHANGED accounts

(* Mutant: the clock is not read again. *)
HandlerLeftEarly ==
  /\ handler = "switched" /\ ~divided /\ mode = "running"
  /\ handler' = "no" /\ start_time' = start_time + time_delta
  /\ UNCHANGED <<vars, clock, times, bursts, ghosts, divided, time_delta>>

(* The next thread goes on, and its slice begins. *)
HandlerLeft ==
  /\ handler = "switched" /\ ~divided /\ mode = "running"
  /\ handler' = "no" /\ start_time' = clock
  /\ UNCHANGED <<vars, clock, times, bursts, ghosts, divided, time_delta>>

-----------------------------------------------------------------------------
(* Go counts no burst. *)
AccountGo ==
  /\ Go
  /\ start_time' = clock /\ began' = clock
  /\ UNCHANGED <<clock, times, bursts, stale, twice, dispatches, lost, divided,
                 handler, time_delta>>

AccountCreate ==
  /\ handler = "no" /\ ~divided /\ CreateAllocate
  /\ \E garbage \in StaleBursts :
       /\ bursts' = [bursts EXCEPT ![allocated'] = garbage]
       /\ stale' = [stale EXCEPT ![allocated'] = garbage]
  /\ UNCHANGED <<clock, start_time, times, began, twice, dispatches, lost,
                 divided, handler, time_delta>>

(* SleepThread charges what it is asked for, in advance. *)
AccountSleep ==
  /\ handler = "no" /\ ~divided /\ SleepUntil
  /\ sleep' = [sleep EXCEPT ![current] = @ + arg[current]]
  /\ UNCHANGED <<clock, start_time, exec, wait, bursts, ghosts, divided, handler,
                 time_delta>>

(* The calls and the parts of calls that do not touch the statistics. *)
Unaccounted ==
  /\ handler = "no" /\ ~divided
  /\ \/ CleanUp
     \/ CreateCount \/ CreateEnqueue \/ CreateRegister
     \/ SuspendRemove \/ ResumeEnqueue \/ ResumeMark \/ SleepRemove
     \/ \E t \in Threads : DeleteThread(t) \/ SuspendThread(t) \/ ResumeThread(t)
     \/ \E time \in SleepTimes : SleepThread(time)
  /\ UNCHANGED accounts

(* The process uses CPU time, in the handler too. *)
Pass ==
  /\ ~divided /\ mode = "running" /\ clock < MaxClock
  /\ clock' = clock + 1
  /\ wakeIn' = [t \in Threads |-> IF wakeIn[t] > 0 THEN wakeIn[t] - 1 ELSE 0]
  /\ lost' = IF handler = "no" THEN lost ELSE lost + 1
  /\ UNCHANGED <<scheduling_type, thread_list, ready_list, current, state,
                 names, pc, arg, mode, interrupted, start_time, times, bursts,
                 began, stale, twice, dispatches, divided, handler, time_delta>>

AccountInit ==
  /\ Init
  /\ clock = 0 /\ start_time = 0 /\ began = 0 /\ lost = 0
  /\ exec = [t \in Threads |-> 0] /\ wait = exec /\ sleep = exec
  /\ bursts = exec /\ stale = exec /\ twice = exec
  /\ dispatches = 0 /\ divided = FALSE
  /\ handler = "no" /\ time_delta = 0

AccountNext ==
  \/ HandlerEntered \/ Account(Timer) \/ Account(YieldCPU) \/ AccountTears
  \/ HandlerLeft \/ AccountGo
  \/ AccountCreate \/ AccountSleep \/ Unaccounted \/ Pass

AccountSpec == AccountInit /\ [][AccountNext]_<<vars, accounts>>

-----------------------------------------------------------------------------
(***************************************************************************)
(* Properties                                                              *)
(***************************************************************************)
(* The CPU time since Go is what was charged as execution, each unit to one thread
   and once, and what Dispatch itself used, which is charged to nobody, but for
   the slice that is under way; that one is never charged to the thread that
   calls CleanUp. *)
CpuTimeConserved ==
  (current # 0 /\ mode \in {"running", "exited"} /\ ~divided) =>
    SumFunctionOnSet(exec, Threads) + lost
      + (IF handler = "no" THEN clock - start_time ELSE 0) = clock - began

(* In round robin, and until the timer interrupts a call, no time is charged to a
   thread as execution and as waiting, nor as waiting twice, with one exception:
   a thread whose sleep is over when it gives way is woken by its own dispatch,
   and is charged for both.  (In the other two policies the running thread stays
   in the list and is charged for both always; a call that is interrupted can
   leave a thread in the list twice.) *)
NeverChargedTwice ==
  scheduling_type = RR /\ ~interrupted =>
    \A t \in Threads : exec[t] + wait[t] <= clock + twice[t]

(* The divisions fail only through garbage: a count within the run's dispatches
   of the largest unsigned. *)
DividesByGarbageOnly ==
  divided => \E t \in Threads : stale[t] + MaxDispatches + 1 >= 2^Width
=============================================================================
