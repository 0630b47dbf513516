---------------------------- MODULE ThreadQueue -----------------------------
(***************************************************************************)
(* The ready list of prog1 as it is in memory: thread_enqueue,             *)
(* thread_dequeue and the lottery's unlinking of my_scheduler.c, and       *)
(* RemoveFromList of threads.c, over malloc'ed nodes.                      *)
(*                                                                         *)
(* Dispatch runs with its signal masked and is one action.  A thread's own *)
(* call is an action per write and per step of a search, and the timer may *)
(* fire between any two.  The model stops where two uses of the list       *)
(* overlap (`torn`): where Dispatch changes it, or another call starts on  *)
(* it, while a call is in the middle of it.  From there on the code        *)
(* promises nothing: a search may stand on a node that has been freed.     *)
(*                                                                         *)
(* Which threads the calls are about, and which are found SLEEPING or      *)
(* FINISHED, is left open: module Threads has their states.  A thread's    *)
(* number is its place in thread_list.                                     *)
(***************************************************************************)
EXTENDS Integers, FiniteSets, SequencesExt

CONSTANTS
  Schedules,    (* the policies                                            *)
  MaxThreads,   (* bound: threads                                          *)
  MaxNodes      (* bound: nodes in use, or unlinked and never freed        *)

RR == 0
LOT == 1
FCFS == 2
Threads == 1..MaxThreads
Nodes   == 1..MaxNodes
NULL    == 0

ASSUME SchedulesAssumption == Schedules \subseteq {RR, LOT, FCFS}
ASSUME BoundsAssumption    == MaxThreads \in Nat /\ MaxNodes \in Nat

VARIABLES
  policy,       (* scheduling_type                                         *)
  q,            (* head, tail and size of the list; the nodes; which are
                   allocated; and whether only such were dereferenced      *)
  current,      (* the running thread, 0 for main() before Go              *)
  pc,           (* where each thread is in the call it has made            *)
  subject,      (* the thread that the call is about                       *)
  node, prev,   (* newNode or node of the call, and prev_node              *)
  torn,         (* ghost: two uses of the list overlap                     *)
  mode          (* "running", or "died" with nobody to schedule            *)

vars == <<policy, q, current, pc, subject, node, prev, torn, mode>>

-----------------------------------------------------------------------------
(***************************************************************************)
(* The writes that the operations consist of.                              *)
(***************************************************************************)
Alive(h, n) == IF n \in h.alive THEN h ELSE [h EXCEPT !.ok = FALSE]

(* malloc reuses freed memory at once. *)
malloc(h) == Min(Nodes \ h.alive)

NewNode(h, t, n) == [h EXCEPT !.alive = @ \union {n},
                              !.thread[n] = t, !.next[n] = NULL]
SetTail(h, n)  == [h EXCEPT !.tail = n]
SetHead(h, n)  == [h EXCEPT !.head = n]
Count(h, d)    == [h EXCEPT !.size = @ + d]
Link(h, m, n)  == IF m \in h.alive THEN [h EXCEPT !.next[m] = n]
                  ELSE [h EXCEPT !.ok = FALSE]
Release(h, n)  == [h EXCEPT !.alive = @ \ {n},
                            !.thread[n] = 0, !.next[n] = NULL]

(* The nodes from the head on. *)
Chain(h) ==
  LET from[n \in Nodes \union {NULL}] ==
        IF n = NULL THEN <<>> ELSE <<n>> \o from[h.next[n]]
  IN  from[h.head]

Queue(h) ==
  LET from[n \in Nodes \union {NULL}] ==
        IF n = NULL THEN <<>> ELSE <<h.thread[n]>> \o from[h.next[n]]
  IN  from[h.head]

(* Mutant: the tail is only set in an empty list. *)
thread_enqueueKeepsTail(h, t) ==
  LET n   == malloc(h)
      new == NewNode(h, t, n)
  IN  Count(IF h.size = 0 THEN SetHead(SetTail(new, n), n)
            ELSE Link(new, h.tail, n), 1)

thread_enqueue(h, t) ==
  LET n   == malloc(h)
      new == NewNode(h, t, n)
  IN  Count(IF h.size = 0 THEN SetHead(SetTail(new, n), n)
            ELSE SetTail(Link(new, h.tail, n), n), 1)

(* The tail of a list that becomes empty is left behind, and dangles. *)
thread_dequeue(h) ==
  IF h.head = NULL THEN h
  ELSE Count(Release(SetHead(Alive(h, h.head), h.next[h.head]), h.head), -1)

(* RemoveFromList looks for the first node of thread t. *)
Position(h, t) == SelectInSeq(Queue(h), LAMBDA u : u = t)
NodeOf(h, k)   == IF k \in DOMAIN Chain(h) THEN Chain(h)[k] ELSE NULL

(* ... and unlinks it.  The node is not freed. *)
Unlink(h, n, p) ==
  IF n = h.head THEN SetHead(Alive(h, n), h.next[n])
  ELSE Link(Alive(h, n), p, h.next[n])

MovesTail(h, n) == n # h.head /\ h.next[n] = NULL

RemoveFromList(h, t) ==
  LET k == Position(h, t)
      n == NodeOf(h, k)
      p == NodeOf(h, k - 1)
  IN  IF k = 0 THEN h
      ELSE LET cut == Unlink(h, n, p)
           IN  Count(IF MovesTail(h, n) THEN SetTail(cut, p) ELSE cut, -1)

(* Mutant: the tail is not moved when the last node wins. *)
DrawnKeepsTail(h, k) ==
  IF k = 1 THEN thread_dequeue(h)
  ELSE Count(Release(Link(h, Chain(h)[k - 1], h.next[Chain(h)[k]]),
                     Chain(h)[k]), -1)

(* The lottery takes the winner out of the list. *)
Drawn(h, k) ==
  IF k = 1 THEN thread_dequeue(h)
  ELSE LET n   == Chain(h)[k]
           p   == Chain(h)[k - 1]
           cut == Link(h, p, h.next[n])
       IN  Count(Release(IF cut.next[p] = NULL THEN SetTail(cut, p) ELSE cut,
                         n), -1)

(* scheduler(): the list it leaves and the thread it returns. *)
Scheduled(h) ==
  CASE policy = RR   -> {<<thread_dequeue(h), Queue(h)[1]>>}
    [] policy = LOT  -> {<<thread_enqueue(Drawn(h, k), Queue(h)[k]),
                           Queue(h)[k]>> : k \in DOMAIN Queue(h)}
    [] policy = FCFS -> {<<h, Queue(h)[1]>>}

-----------------------------------------------------------------------------
Runs == mode = "running" /\ q.ok /\ ~torn

(* Is there memory for n nodes more? *)
Room(n) == Cardinality(Nodes \ q.alive) >= n

(* From the test of the size, or the first look at the head, to the count. *)
Window == {"setTail", "setHead", "link", "moveTail", "count",
           "walk", "unlink", "cutTail", "uncount"}

Busy(threads) == \E t \in threads : pc[t] \in Window

(* The walk over thread_list: `woken` have slept enough, `finished` have been
   deleted. *)
AfterWalk(woken, finished) ==
  LET after[t \in 0..MaxThreads] ==
        IF t = 0 THEN q
        ELSE IF t \in woken THEN thread_enqueue(after[t - 1], t)
        ELSE IF t \in finished THEN RemoveFromList(after[t - 1], t)
        ELSE after[t - 1]
  IN  after[MaxThreads]

(* In RR the preempted thread goes back, if it was RUNNING. *)
Requeued(h, preempted) ==
  IF policy = RR /\ preempted THEN thread_enqueue(h, current) ELSE h

(* The list becomes h, unless a call is in its window: what happens then is not
   followed up.  The lottery unlinks and links even where the list ends up as it
   was. *)
Change(h) ==
  /\ torn' = ((h # q \/ policy = LOT) /\ Busy(0..MaxThreads))
  /\ q' = IF torn' THEN q ELSE h

(* The next thread is chosen. *)
Dispatch(h) ==
  IF h.head = NULL
  THEN Change(h) /\ mode' = "died" /\ UNCHANGED current
  ELSE /\ \E s \in Scheduled(h) : Change(s[1]) /\ current' = s[2]
       /\ UNCHANGED mode

(* The timer fires, or the thread yields, wherever it is in its call. *)
Timer ==
  /\ Runs /\ current # 0
  /\ \E woken, finished \in SUBSET Threads, preempted \in BOOLEAN :
       /\ woken \cap finished = {}
       /\ Room(Cardinality(woken) + (IF preempted THEN 1 ELSE 0))
       /\ Dispatch(Requeued(AfterWalk(woken, finished), preempted))
  /\ pc' = [pc EXCEPT ![current] = IF @ = "yield" THEN "idle" ELSE @]
  /\ UNCHANGED <<policy, subject, node, prev>>

(* main starts the first thread. *)
Go ==
  /\ Runs /\ current = 0 /\ pc[0] = "idle" /\ q.head # NULL
  /\ \E s \in Scheduled(q) : q' = s[1] /\ current' = s[2]
  /\ UNCHANGED <<policy, pc, subject, node, prev, torn, mode>>

-----------------------------------------------------------------------------
(***************************************************************************)
(* The calls of the running thread, write by write.                        *)
(***************************************************************************)
Goto(from, to) ==
  /\ Runs
  /\ pc[current] = from
  /\ pc' = [pc EXCEPT ![current] = to]
  /\ UNCHANGED <<policy, current, mode>>

Locals == <<subject, node, prev>>
CallOver ==
  /\ subject' = [subject EXCEPT ![current] = 0]
  /\ node' = [node EXCEPT ![current] = NULL]
  /\ prev' = [prev EXCEPT ![current] = NULL]
new    == node[current]

(* The call starts on the list. *)
Starts == torn' = Busy((0..MaxThreads) \ {current})

Writes(h) == q' = h /\ UNCHANGED torn

(* CreateThread or ResumeThread enters thread_enqueue: the node is made. *)
Enter(t) ==
  /\ Room(1)
  /\ Goto("idle", "test")
  /\ subject' = [subject EXCEPT ![current] = t]
  /\ node' = [node EXCEPT ![current] = malloc(q)]
  /\ Writes(NewNode(q, t, malloc(q)))
  /\ UNCHANGED prev

EnqueueTest ==
  /\ Goto("test", IF q.size = 0 THEN "setTail" ELSE "link")
  /\ Starts
  /\ UNCHANGED <<q, Locals>>

EnqueueTail ==
  /\ Goto("setTail", "setHead") /\ Writes(SetTail(q, new))
  /\ UNCHANGED Locals

EnqueueHead ==
  /\ Goto("setHead", "count") /\ Writes(SetHead(q, new))
  /\ UNCHANGED Locals

EnqueueLink ==
  /\ Goto("link", "moveTail") /\ Writes(Link(q, q.tail, new))
  /\ UNCHANGED Locals

EnqueueMoveTail ==
  /\ Goto("moveTail", "count") /\ Writes(SetTail(q, new))
  /\ UNCHANGED Locals

EnqueueCount ==
  /\ Goto("count", "idle") /\ Writes(Count(q, 1))
  /\ CallOver

(* SuspendThread or SleepThread enters RemoveFromList. *)
Leave(t) ==
  /\ current # 0
  /\ Goto("idle", "find")
  /\ subject' = [subject EXCEPT ![current] = t]
  /\ UNCHANGED <<q, node, prev, torn>>

(* A thread that has removed itself yields. *)
Back == IF subject[current] = current THEN "yield" ELSE "idle"

(* The search starts at the head, if there is one. *)
RemoveEmpty ==
  /\ q.head = NULL
  /\ Goto("find", Back)
  /\ CallOver
  /\ UNCHANGED <<q, torn>>

RemoveHead ==
  /\ q.head # NULL
  /\ Goto("find", "walk")
  /\ Starts
  /\ node' = [node EXCEPT ![current] = q.head]
  /\ UNCHANGED <<q, subject, prev>>

(* Mutant: prev_node is left where it was. *)
RemoveNextKeepsPrev ==
  /\ Goto("walk", "walk")
  /\ q.thread[new] # subject[current] /\ q.next[new] # NULL
  /\ node' = [node EXCEPT ![current] = q.next[new]]
  /\ Writes(Alive(q, new))
  /\ UNCHANGED <<subject, prev>>

(* It is not this node's thread: on to the next, *)
RemoveNext ==
  /\ Goto("walk", "walk")
  /\ q.thread[new] # subject[current] /\ q.next[new] # NULL
  /\ prev' = [prev EXCEPT ![current] = new]
  /\ node' = [node EXCEPT ![current] = q.next[new]]
  /\ Writes(Alive(q, new))
  /\ UNCHANGED subject

(* ... there is no next: it is not in the list, *)
RemoveMissing ==
  /\ Goto("walk", Back)
  /\ q.thread[new] # subject[current] /\ q.next[new] = NULL
  /\ Writes(Alive(q, new))
  /\ CallOver

(* ... it is this one. *)
RemoveFound ==
  /\ Goto("walk", "unlink")
  /\ q.thread[new] = subject[current]
  /\ Writes(Alive(q, new))
  /\ UNCHANGED Locals

RemoveUnlink ==
  /\ Goto("unlink", IF MovesTail(q, new) THEN "cutTail" ELSE "uncount")
  /\ Writes(Unlink(q, new, prev[current]))
  /\ UNCHANGED Locals

RemoveCutTail ==
  /\ Goto("cutTail", "uncount") /\ Writes(SetTail(q, prev[current]))
  /\ UNCHANGED Locals

RemoveCount ==
  /\ Goto("uncount", Back) /\ Writes(Count(q, -1)) /\ CallOver

-----------------------------------------------------------------------------
(* setup: nothing initialises thread_list->tail. *)
Init ==
  /\ policy \in Schedules
  /\ \E garbage \in {NULL} \union {n \in Nodes : n = 1} :
       q = [head |-> NULL, tail |-> garbage, size |-> 0,
            next |-> [n \in Nodes |-> NULL], thread |-> [n \in Nodes |-> 0],
            alive |-> {}, ok |-> TRUE]
  /\ current = 0
  /\ pc = [t \in 0..MaxThreads |-> "idle"]
  /\ subject = [t \in 0..MaxThreads |-> 0]
  /\ node = [t \in 0..MaxThreads |-> NULL]
  /\ prev = [t \in 0..MaxThreads |-> NULL]
  /\ torn = FALSE
  /\ mode = "running"

Next ==
  \/ Timer \/ Go
  \/ \E t \in Threads : Enter(t) \/ Leave(t)
  \/ EnqueueTest \/ EnqueueTail \/ EnqueueHead \/ EnqueueLink
  \/ EnqueueMoveTail \/ EnqueueCount
  \/ RemoveEmpty \/ RemoveHead \/ RemoveNext \/ RemoveMissing \/ RemoveFound
  \/ RemoveUnlink \/ RemoveCutTail \/ RemoveCount

Spec == Init /\ [][Next]_vars

-----------------------------------------------------------------------------
(***************************************************************************)
(* Properties                                                              *)
(***************************************************************************)
(* The pointers implement a sequence for as long as no two uses of the list
   overlap: whatever the timer does otherwise, threads are added at the end,
   dropped and scheduled as module Threads has it. *)
Abstract ==
  INSTANCE SequenceQueue WITH queue <- IF torn THEN <<>> ELSE Queue(q),
                              broken <- torn
IsSequence == Abstract!Spec

(* No freed node is in the list, and none is read or written, although
   thread_dequeue leaves the tail on a freed node and RemoveFromList leaves it
   on an unlinked one.  The fields of the list agree whenever no call is in
   its window: the size, on which thread_enqueue relies to find out that the
   list is empty, is the length, and unless it is 0 the tail is the last node
   and not a dangling or an uninitialised pointer. *)
FieldsAgree ==
  ~torn =>
    /\ q.ok /\ \A k \in DOMAIN Chain(q) : Chain(q)[k] \in q.alive
    /\ (\A t \in 0..MaxThreads : pc[t] \notin Window) =>
         /\ q.size = Len(Chain(q))
         /\ q.size > 0 => q.tail = Chain(q)[q.size]
=============================================================================
