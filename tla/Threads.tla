------------------------------ MODULE Threads -------------------------------
(***************************************************************************)
(* The user-level threads package of prog1: threads.c (the calls and the   *)
(* SIGVTALRM handler Dispatch) and my_scheduler.c (round robin, lottery,   *)
(* first come first served).                                               *)
(*                                                                         *)
(* One thread runs at a time.  The handler runs with its signal masked, so *)
(* a dispatch is one action.  The calls do not mask it: each of their      *)
(* writes to a status, and each operation on a list, is an action of its   *)
(* own, and the timer may fire between two of them.  It may also fire in   *)
(* the middle of thread_enqueue or RemoveFromList, with the list half      *)
(* changed or a node of it in hand; the list is then no sequence any more, *)
(* and the model ends there (mode is "torn").  ThreadQueue goes through    *)
(* those operations write by write.  With Preempt = FALSE the timer is     *)
(* only let in between calls.                                              *)
(*                                                                         *)
(* A thread_t is a number in Threads, in the order of allocation, and 0 is *)
(* main() before Go().  A list is the sequence of the threads of its nodes.*)
(***************************************************************************)
EXTENDS Integers, FiniteSets, SequencesExt

CONSTANTS
  Schedules,         (* the arguments of setup()                           *)
  MaxThreads,        (* MAX_NO_OF_THREADS                                  *)
  MaxObjects,        (* bound: thread_t structures the run allocates       *)
  priority,          (* the lottery tickets CreateThread is given          *)
  SleepTimes,        (* the arguments of SleepThread                       *)
  StaleWakes,        (* what malloc may leave in wake_time, seen from now  *)
  Preempt            (* may the timer fire in the middle of a call?        *)

Threads == 1..MaxObjects
RR == 0
LOT == 1
FCFS == 2

ASSUME SchedulesAssumption  == Schedules \subseteq {RR, LOT, FCFS}
ASSUME BoundsAssumption     == MaxThreads \in Nat /\ MaxObjects \in Nat
ASSUME PriorityAssumption   == priority \in [Threads -> Nat]
ASSUME SleepAssumption      == SleepTimes \subseteq Nat
ASSUME StaleAssumption      == StaleWakes \subseteq Nat /\ StaleWakes # {}
ASSUME PreemptAssumption    == Preempt \in BOOLEAN

VARIABLES
  scheduling_type, (* the policy                                           *)
  thread_list,    (* the list of all threads                               *)
  ready_list,     (* the list of all ready threads                         *)
  current,        (* the running thread                                    *)
  state,          (* status->state                                         *)
  id,             (* status->id                                            *)
  wakeIn,         (* wake_time - now, or 0 when that is past               *)
  next_thread,    (* the next id                                           *)
  allocated,      (* how many thread_t exist                               *)
  pc,             (* where each caller is in the call it has made          *)
  arg,            (* the thread, or the time, that call is about           *)
  mode,            (* "running", "exited", "torn", or the signal that killed it *)
  interrupted      (* ghost: the timer has fired in the middle of a call   *)

vars == <<scheduling_type, thread_list, ready_list, current, state, id,
          wakeIn, next_thread, allocated, pc, arg, mode, interrupted>>
names == <<id, next_thread, allocated>>

-----------------------------------------------------------------------------
(* The queue operations.  The scheduler alone dequeues. *)
thread_enqueue(t, q) == Append(q, t)
thread_dequeue(q) == Tail(q)

(* GetThread: the first thread of thread_list with this id. *)
IsThread(t) ==
  \E k \in DOMAIN thread_list :
    /\ thread_list[k] = t
    /\ \A h \in 1..(k - 1) : id[thread_list[h]] # id[t]

(* RemoveFromList: the first node with this id goes, if there is one. *)
RemoveFromList(n, q) ==
  LET hits == {k \in DOMAIN q : id[q[k]] = n}
  IN  IF hits = {} THEN q ELSE RemoveAt(q, Min(hits))

(* The caller is the running thread: it leaves `from`, with an argument. *)
Call(from, to) ==
  /\ mode = "running"
  /\ pc[current] = from
  /\ pc' = [pc EXCEPT ![current] = to]
  /\ UNCHANGED <<scheduling_type, thread_list, current, mode, interrupted>>

(* The call has no more use for its argument. *)
ArgDone == arg' = [arg EXCEPT ![current] = 0]

IsSelf(t) == id[t] = id[current]

-----------------------------------------------------------------------------
(***************************************************************************)
(* scheduler(): the threads it can pick from q, and the q it leaves.       *)
(***************************************************************************)
(* RR dequeues the head, FCFS leaves it in place; the lottery takes any
   thread with a ticket and puts it at the back. *)
Candidates(q) ==
  IF scheduling_type = LOT THEN {k \in DOMAIN q : priority[q[k]] > 0}
  ELSE {k \in DOMAIN q : k = 1}

(* Mutant: the lottery's winner is not put back. *)
AfterPickLoses(q, k) ==
  CASE scheduling_type = RR   -> thread_dequeue(q)
    [] scheduling_type = LOT  -> RemoveAt(q, k)
    [] scheduling_type = FCFS -> q

AfterPick(q, k) ==
  CASE scheduling_type = RR   -> thread_dequeue(q)
    [] scheduling_type = LOT  -> thread_enqueue(q[k], RemoveAt(q, k))
    [] scheduling_type = FCFS -> q

(***************************************************************************)
(* Dispatch                                                                *)
(***************************************************************************)
Due(t) == state[t] = "SLEEPING" /\ wakeIn[t] = 0

(* The walk over thread_list: wake who has slept enough, drop the finished. *)
AfterWalk ==
  LET after[k \in 0..Len(thread_list)] ==
        IF k = 0 THEN ready_list
        ELSE LET t == thread_list[k]  q == after[k - 1]
             IN  IF Due(t) THEN thread_enqueue(t, q)
                 ELSE IF state[t] = "FINISHED" THEN RemoveFromList(id[t], q)
                 ELSE q
  IN  after[Len(thread_list)]

(* Mutant: the preempted thread goes to the front of the queue. *)
RequeuedInFront ==
  IF state[current] = "RUNNING" /\ scheduling_type = RR
  THEN <<current>> \o AfterWalk ELSE AfterWalk

(* Mutant: the test of scheduling_type is inverted. *)
RequeuedInverted ==
  IF state[current] = "RUNNING" /\ scheduling_type # RR
  THEN thread_enqueue(current, AfterWalk) ELSE AfterWalk

(* InsertWrapper: round robin puts a preempted thread back; the other two
   policies never took it out. *)
Requeued ==
  IF state[current] = "RUNNING" /\ scheduling_type = RR
  THEN thread_enqueue(current, AfterWalk) ELSE AfterWalk

(* Mutant: whatever the current thread has become, it is READY. *)
StateAfterWalkRevives ==
  [t \in Threads |->
     IF (Due(t) /\ Contains(thread_list, t)) \/ t = current
     THEN "READY" ELSE state[t]]

StateAfterWalk ==
  [t \in Threads |->
     IF \/ Due(t) /\ Contains(thread_list, t)
        \/ t = current /\ state[t] = "RUNNING"
     THEN "READY" ELSE state[t]]

(* The thread picked from q runs.  With none to pick the process dies: the
   lottery computes random() % 0, the others dereference NULL. *)
Switch(q, states) ==
  \/ \E k \in Candidates(q) :
       /\ current' = q[k]
       /\ ready_list' = AfterPick(q, k)
       /\ state' = [states EXCEPT ![q[k]] = "RUNNING"]
       /\ UNCHANGED mode
  \/ /\ Candidates(q) = {}
     /\ mode' = IF scheduling_type = LOT THEN "SIGFPE" ELSE "SIGSEGV"
     /\ ready_list' = q /\ state' = states
     /\ UNCHANGED current

Dispatch ==
  /\ mode = "running" /\ current # 0
  /\ Switch(Requeued, StateAfterWalk)
  /\ UNCHANGED <<scheduling_type, thread_list, names, wakeIn, arg>>

(* Mutant: no dispatch when there is nobody to switch to. *)
TimerOnlyWithOthers ==
  /\ ready_list # <<>>
  /\ Preempt \/ pc[current] = "idle"
  /\ Dispatch
  /\ interrupted' = (interrupted \/ pc[current] # "idle")
  /\ UNCHANGED pc

(* The quantum is over, before the next write of the call if there is one. *)
Timer ==
  /\ Preempt \/ pc[current] = "idle"
  /\ Dispatch
  /\ interrupted' = (interrupted \/ pc[current] # "idle")
  /\ UNCHANGED pc

(* The calls that are at a thread_enqueue or a RemoveFromList. *)
ListOperations == {"create2", "create3", "suspend", "resume1", "sleep2"}

(* The quantum is over in the middle of one. *)
TimerTears ==
  /\ Preempt
  /\ mode = "running" /\ current # 0
  /\ pc[current] \in ListOperations
  /\ mode' = "torn" /\ interrupted' = TRUE
  /\ UNCHANGED <<scheduling_type, thread_list, ready_list, current, state, names,
                 wakeIn, pc, arg>>

(* SIGVTALRM, once the first switch has started the timer. *)
Signal == current # 0 /\ (Timer \/ TimerTears)

(* YieldCPU: raise(SIGVTALRM), as a call or at the end of another one. *)
YieldCPU ==
  /\ pc[current] \in {"idle", "yield"}
  /\ Dispatch
  /\ pc' = [pc EXCEPT ![current] = "idle"]
  /\ UNCHANGED interrupted

(* Go: main gives way to the first thread, for good. *)
Go ==
  /\ mode = "running" /\ current = 0 /\ pc[0] = "idle"
  /\ Switch(ready_list, state)
  /\ UNCHANGED <<scheduling_type, thread_list, names, wakeIn, pc, arg,
                 interrupted>>

-----------------------------------------------------------------------------
(***************************************************************************)
(* CreateThread, by main or by a thread.                                   *)
(***************************************************************************)
(* Over the limit the call returns -1 and changes nothing.  The status_t is
   malloc'ed, and wake_time is whatever was there. *)
CreateAllocate ==
  /\ Call("idle", "create1")
  /\ Len(thread_list) + 1 <= MaxThreads
  /\ allocated < MaxObjects
  /\ allocated' = allocated + 1
  /\ id' = [id EXCEPT ![allocated'] = next_thread]
  /\ arg' = [arg EXCEPT ![current] = allocated']
  /\ \E stale \in StaleWakes :
       wakeIn' = [wakeIn EXCEPT ![allocated'] = stale]
  /\ UNCHANGED <<ready_list, state, next_thread>>

CreateCount ==
  /\ Call("create1", "create2")
  /\ next_thread' = next_thread + 1
  /\ state' = [state EXCEPT ![arg[current]] = "READY"]
  /\ UNCHANGED <<ready_list, id, wakeIn, allocated, arg>>

CreateEnqueue ==
  /\ Call("create2", "create3")
  /\ ready_list' = thread_enqueue(arg[current], ready_list)
  /\ UNCHANGED <<state, names, wakeIn, arg>>

CreateRegister ==
  /\ mode = "running"
  /\ pc[current] = "create3"
  /\ pc' = [pc EXCEPT ![current] = "idle"]
  /\ thread_list' = thread_enqueue(arg[current], thread_list)
  /\ ArgDone
  /\ UNCHANGED <<scheduling_type, ready_list, current, state, names, wakeIn,
                 mode, interrupted>>

-----------------------------------------------------------------------------
(***************************************************************************)
(* The calls of a running thread.  A call about an id that GetThread does  *)
(* not find returns -1 and changes nothing.                                *)
(***************************************************************************)
DeleteThread(t) ==
  /\ current # 0 /\ IsThread(t)
  /\ Call("idle", IF IsSelf(t) THEN "yield" ELSE "idle")
  /\ state' = [state EXCEPT ![t] = "FINISHED"]
  /\ UNCHANGED <<ready_list, names, wakeIn, arg>>

SuspendThread(t) ==
  /\ current # 0 /\ IsThread(t)
  /\ Call("idle", "suspend")
  /\ state' = [state EXCEPT ![t] = "SUSPENDED"]
  /\ arg' = [arg EXCEPT ![current] = t]
  /\ UNCHANGED <<ready_list, names, wakeIn>>

(* Mutant: a thread is taken off the ready list only when it suspends itself. *)
SuspendRemoveSelfOnly ==
  /\ Call("suspend", IF IsSelf(arg[current]) THEN "yield" ELSE "idle")
  /\ ready_list' = IF IsSelf(arg[current])
                   THEN RemoveFromList(id[arg[current]], ready_list)
                   ELSE ready_list
  /\ ArgDone
  /\ UNCHANGED <<state, names, wakeIn>>

SuspendRemove ==
  /\ Call("suspend", IF IsSelf(arg[current]) THEN "yield" ELSE "idle")
  /\ ready_list' = RemoveFromList(id[arg[current]], ready_list)
  /\ ArgDone
  /\ UNCHANGED <<state, names, wakeIn>>

(* A thread that is not suspended stays as it is. *)
ResumeThread(t) ==
  /\ current # 0 /\ IsThread(t)
  /\ state[t] = "SUSPENDED"
  /\ Call("idle", "resume1")
  /\ arg' = [arg EXCEPT ![current] = t]
  /\ UNCHANGED <<ready_list, state, names, wakeIn>>

(* Mutant: a resumed thread goes to the front of the queue. *)
ResumeInFront ==
  /\ Call("resume1", "resume2")
  /\ ready_list' = <<arg[current]>> \o ready_list
  /\ UNCHANGED <<state, names, wakeIn, arg>>

ResumeEnqueue ==
  /\ Call("resume1", "resume2")
  /\ ready_list' = thread_enqueue(arg[current], ready_list)
  /\ UNCHANGED <<state, names, wakeIn, arg>>

ResumeMark ==
  /\ Call("resume2", "idle")
  /\ state' = [state EXCEPT ![arg[current]] = "READY"]
  /\ ArgDone
  /\ UNCHANGED <<ready_list, names, wakeIn>>

SleepThread(time) ==
  /\ current # 0
  /\ Call("idle", "sleep1")
  /\ state' = [state EXCEPT ![current] = "SLEEPING"]
  /\ arg' = [arg EXCEPT ![current] = time]
  /\ UNCHANGED <<ready_list, names, wakeIn>>

SleepUntil ==
  /\ Call("sleep1", "sleep2")
  /\ wakeIn' = [wakeIn EXCEPT ![current] = arg[current]]
  /\ ArgDone
  /\ UNCHANGED <<ready_list, state, names>>

SleepRemove ==
  /\ Call("sleep2", "yield")
  /\ ready_list' = RemoveFromList(id[current], ready_list)
  /\ UNCHANGED <<state, names, wakeIn, arg>>

(* CleanUp: Dispatch returns at once from here on; print, free and exit. *)
CleanUp ==
  /\ mode = "running" /\ current # 0 /\ pc[current] = "idle"
  /\ mode' = "exited"
  /\ UNCHANGED <<scheduling_type, thread_list, ready_list, current, state, names,
                 wakeIn, pc, arg, interrupted>>

(* Mutant: the time left runs below zero. *)
TickPastZero ==
  /\ mode = "running"
  /\ \E t \in Threads : wakeIn[t] > 0
  /\ wakeIn' = [t \in Threads |-> wakeIn[t] - 1]
  /\ UNCHANGED <<scheduling_type, thread_list, ready_list, current, state, names,
                 pc, arg, mode, interrupted>>

(* CPU time passes. *)
Tick ==
  /\ mode = "running"
  /\ \E t \in Threads : wakeIn[t] > 0
  /\ wakeIn' = [t \in Threads |-> IF wakeIn[t] > 0 THEN wakeIn[t] - 1 ELSE 0]
  /\ UNCHANGED <<scheduling_type, thread_list, ready_list, current, state, names,
                 pc, arg, mode, interrupted>>

-----------------------------------------------------------------------------
Init ==
  /\ scheduling_type \in Schedules
  /\ thread_list = <<>> /\ ready_list = <<>>
  /\ current = 0
  /\ state = [t \in Threads |-> "NONE"]
  /\ id = [t \in 0..MaxObjects |-> -1]
  /\ wakeIn = [t \in Threads |-> 0]
  /\ next_thread = 0 /\ allocated = 0
  /\ pc = [t \in 0..MaxObjects |-> "idle"]
  /\ arg = [t \in 0..MaxObjects |-> 0]
  /\ mode = "running" /\ interrupted = FALSE

(* The rest of a call that has begun. *)
Continue ==
  \/ CreateCount \/ CreateEnqueue \/ CreateRegister
  \/ SuspendRemove \/ ResumeEnqueue \/ ResumeMark
  \/ SleepUntil \/ SleepRemove

Next ==
  \/ Signal \/ YieldCPU \/ Go \/ CleanUp \/ Tick \/ CreateAllocate \/ Continue
  \/ \E t \in Threads : DeleteThread(t) \/ SuspendThread(t) \/ ResumeThread(t)
  \/ \E time \in SleepTimes : SleepThread(time)

Spec == Init /\ [][Next]_vars

(* main reaches Go, a thread that runs goes on with its call (or, at the end
   of one, yields), CPU time passes, and the interval timer fires: a second
   of CPU time ends whatever calls the thread makes meanwhile, which is why
   the timer's fairness is strong. *)
Fairness ==
  /\ WF_vars(Go)
  /\ WF_vars(Continue)
  /\ WF_vars(pc[current] = "yield" /\ YieldCPU)
  /\ WF_vars(Tick)
  /\ SF_vars(Timer)

FairSpec == Spec /\ Fairness

-----------------------------------------------------------------------------
(***************************************************************************)
(* Properties                                                              *)
(***************************************************************************)
States == {"NONE", "RUNNING", "READY", "SLEEPING", "SUSPENDED", "FINISHED"}
Pcs    == {"idle", "yield", "create1", "create2", "create3", "suspend",
           "resume1", "resume2", "sleep1", "sleep2"}

TypeOK ==
  /\ scheduling_type \in {RR, LOT, FCFS}
  /\ thread_list \in Seq(Threads) /\ ready_list \in Seq(Threads)
  /\ current \in 0..MaxObjects
  /\ state \in [Threads -> States]
  /\ id \in [0..MaxObjects -> Int]
  /\ wakeIn \in [Threads -> Nat]
  /\ next_thread \in Nat /\ allocated \in 0..MaxObjects
  /\ pc \in [0..MaxObjects -> Pcs]
  /\ arg \in [0..MaxObjects -> Nat]
  /\ mode \in {"running", "exited", "torn", "SIGFPE", "SIGSEGV"}
  /\ interrupted \in BOOLEAN

(* No call is under way. *)
Quiescent == mode = "running" /\ \A t \in 0..MaxObjects : pc[t] = "idle"

(* threads.c:63 "the list of all ready threads": between calls, a thread that
   is READY can be scheduled. *)
NoReadyThreadLost ==
  Quiescent => \A t \in Threads : state[t] = "READY" => Contains(ready_list, t)

(* ... and nothing else can be, except a thread deleted since the last
   dispatch and, in the policies that leave it in the list, the running one;
   and no thread is in the list twice. *)
NothingElseReady ==
  Quiescent =>
    /\ \A k \in DOMAIN ready_list :
         \/ state[ready_list[k]] \in {"READY", "FINISHED"}
         \/ scheduling_type # RR /\ ready_list[k] = current
    /\ \A h, k \in DOMAIN ready_list : ready_list[h] = ready_list[k] => h = k

(* Even when calls are preempted, no thread but the current one is RUNNING: a
   part of the inductive invariants. *)
AtMostOneRunning ==
  \A t \in Threads : state[t] = "RUNNING" => t = current

(* The scheduler fails only when it has nothing to run: no thread is READY
   (in the lottery: none that has a ticket). *)
CrashOnlyWhenNothingReady ==
  mode \in {"SIGFPE", "SIGSEGV"} =>
    \A t \in Threads :
      state[t] = "READY" => scheduling_type = LOT /\ priority[t] = 0

(* x is before y in q. *)
Before(q, x, y) ==
  \E h, k \in DOMAIN q : h < k /\ q[h] = x /\ q[k] = y

(* Two threads have one id when CreateThread is preempted between its use of
   next_thread and the increment; RemoveFromList then takes out either. *)
IdsDiffer ==
  \A t, u \in ToSet(thread_list) \cup ToSet(ready_list) : id[t] = id[u] => t = u

(* In RR and FCFS nobody overtakes, even when calls are preempted: a thread that
   stays in the ready list stays ahead of those behind it and gets ahead of
   those who join, unless round robin has just dequeued it. *)
FifoOrder ==
  [][(/\ scheduling_type # LOT /\ IdsDiffer) =>
       \A x, y \in Threads :
         (/\ x # y /\ ~Before(ready_list, y, x)
          /\ Contains(ready_list, x) /\ Contains(ready_list', x)
          /\ Contains(ready_list', y)
          /\ ~(scheduling_type = RR /\ current' = x))
         => Before(ready_list', x, y)]_vars

(* Round robin starves nobody: a READY thread runs, or is suspended or
   deleted by another, unless the process ends. *)
ReadyThreadRuns ==
  \A t \in Threads :
    scheduling_type = RR /\ state[t] = "READY"
      ~> state[t] # "READY" \/ mode # "running"

(* A sleeping thread wakes, or is suspended or deleted by another, unless the
   process ends. *)
SleeperWakes ==
  \A t \in Threads :
    state[t] = "SLEEPING" ~> state[t] # "SLEEPING" \/ mode # "running"
=============================================================================
