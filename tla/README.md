# Verification of cmpsc-473-homework

The repository holds three independent C programs, one per assignment. None of
them links with another. This directory keeps TLA+ models of each, the TLC
configurations that check them, and machine-checked proofs about all three: what the runs
show of small instances, the proofs show of every number of threads, every input and every bound.

All modules are checked with `tlc -config X.cfg M`; the `*Proofs` modules and
`CollectionLemmas` with `tlapm`. `PROJECT.json` lists the runs, the definitions' source lines, the
findings and the hazards.

## 1. Inventory

### prog3: a parallel word count (`cmpsc473mr.c`)

| component | state | operations | who calls it, what is shared |
|---|---|---|---|
| `main`, `mapper` | `threads_returned`, the four arrays, `finalList` | create two threads per replica, spin until `threads_returned` reaches `replicas`, call `reducer`, free everything, return | creates the threads while earlier ones already run, and joins none |
| `map_reader` (producer) | its segment of the file, `buffer_read`, `brSize` | read and tokenise its segment, push under the lock, signal, set `mapperDone` | one mutex, one condition variable and one flag per replica, shared with its adder |
| `map_adder` (consumer) | `buffer_write`, `bwSize` | pop under the lock, count the word in its private list, signal, increment `threads_returned`, free lock, condition and flag | `threads_returned` is shared by all adders and `main`, without a lock |
| `reducer` | `finalList`, `flSize`, the lists | sum the lists word by word | called by `main`, while threads may still be on their way out |
| word lists | head pointer and a separate `int` size | `push`, `popHead`, `findMatch` | used by all of the above |
| segmentation | the byte range, `readArray` | `fseek`, `fread`, `strtok_r`, `strncpy` | inside `map_reader` |

Hard here: the buffer bound is tested with `if` and not `while`; signals come
after the unlock; the adder's loop condition reads two shared variables without
the lock; `++(*threads_returned)` is unprotected; the adder frees what the reader
still uses; the reducer mixes the indices `i` and `j`; byte ranges are computed in `int`, and
`strtok_r` runs over an array without a NUL. Correct means: no word lost
or doubled in any interleaving, no lost wakeup, a bounded buffer, the reducer
only after the last adder, exact sums, every node freed and none too early, termination, and
segments that are the file.

### prog1: user-level threads (`threads.c`, `my_scheduler.c`)

| component | state | operations | interaction |
|---|---|---|---|
| thread calls | `thread_list`, `ready_list`, `current`, `next_thread`, each thread's `status` | `CreateThread`, `DeleteThread`, `SuspendThread`, `ResumeThread`, `SleepThread`, `YieldCPU`, `Go`, `CleanUp` | run in the calling thread, with SIGVTALRM not blocked |
| `Dispatch` | the same | wake sleepers, drop finished threads, requeue, switch | signal handler, from the timer or from `raise` |
| scheduler | `ready_list` | round robin, lottery, first come first served | called by `Dispatch` and `Go` |
| queue | nodes, head, tail, size | `thread_enqueue`, `thread_dequeue`, `RemoveFromList`, the lottery's unlinking | used by all |
| statistics | counts and times in `status`, `start_time` | updated in `Dispatch`, `Go` and `SleepThread` | read by `GetStatus` and `CleanUp` only |
| context switch | jump buffers, stacks | `sigsetjmp`, `siglongjmp`, address mangling | |
| test programs | loop counters | `TestFile1.c` to `TestFile4.c`: create three to five threads that suspend, resume, delete or sleep, then `Go` | clients of the calls |

Hard here: the timer can switch threads between any two writes of a call;
the lists and the states must agree after every mixture of calls; three
policies treat the ready list differently; an empty ready list is fatal; the tail
of the queue dangles when it becomes empty; `no_of_bursts` is never initialised.
Correct means: a READY thread is in the ready list, once, and nothing else is;
queue order is respected; ready threads run and sleepers wake; the pointers are a
sequence; CPU time is charged once; the test programs end.

### prog2: a memory allocator (`psumemory.c`)

| component | state | operations |
|---|---|---|
| allocator | free list inside one mapped region, headers of live blocks | `psumeminit`, `psumalloc` (`bestFit`, `worstFit`, `popNode`), `psufree` |
| `coalesce` | the free list | dead code, its call is commented out |
| diagnostics | none | `printHeap`, `printFreeList`, `printHeaderSize` |
| programs | arrays of pointers | `main.c`; eight drivers, small or large blocks, freed in order (symmetric) or by halves (asymmetric), best or worst fit |

Sequential. Hard here: a node is 16 bytes, a header 8, and sizes are converted
between the two conventions at each call; long sequences of splits and frees;
comparisons that are strict in one place and not in another; a magic number that stays
valid in freed memory. Correct means: blocks never overlap, no byte is lost, the promised block is
chosen, NULL when there is none; the drivers free all they got, and nothing twice.

## 2. Modules

| module | models | state and actions against the code |
|---|---|---|
| `WordList` | `push`, `popHead`, `findMatch` | lists as sequences, head first; the size the callers keep apart is an argument, never `Len` |
| `MapStage` (extends `WordList`) | `main`, `mapper`, `map_reader`, `map_adder` | one program counter per thread (`rpc`, `apc`, `mainPc`); one action per access another thread can observe. Names are the code's: `brSize`, `mapperDone`, `buffer_write`, `threads_returned`. The increment is two actions, load and store. Freed memory: the reader's use of it either goes through or the process dies (`aborted`). `pthread_cond_wait` may return without a signal `MaxSpurious` times |
| `Reducer` (extends `WordList`) | `reducer` | one action per loop iteration: `PickWord`, then `ScanNoMatch`, `ScanInside` or `ScanHead` for each list |
| `MapReduce` (extends `MapStage`, instance of `Reducer`) | the whole program | the stage's steps, the reducer's on the lists the stage left (`HandOver`), `main`'s frees and its return, which ends all threads |
| `WordCount` | what prog3 promises | each occurrence is counted once, in any order, then the result is published; `MapReduce!Abstract` is the mapping |
| `FileSegments` | `map_reader` up to the node | files and words are sequences of characters; `int` arithmetic wraps at `Width` bits; what lies behind `readArray`, `delimiters` and a full `word` is chosen from small sets |
| `Threads` | calls, `Dispatch`, scheduler | each write of a call to a status is an action, and so is each operation on a list; `Dispatch` is one action, since the handler's own signal is masked while it runs. `Preempt` says whether the timer may fire inside calls or only between them; `interrupted` records that it has. It may fire in the middle of a list operation too (`TimerTears`): the list is then no sequence, and the model ends (`mode` is "torn") |
| `SequenceQueue`, `ThreadQueue` | the queue as promised, and in memory | `ThreadQueue` has nodes with `next` and `thread`, `malloc` that reuses what was freed, and a call is an action per write and per step of a search, with the timer in between. A dispatch wakes and drops any number of threads, in the order of `thread_list`. The model stops where two uses of the list overlap (`torn`): where a dispatch changes it, or another call starts on it, while a call is in the middle of it. `ThreadQueue!Abstract` maps it to `SequenceQueue` |
| `Accounting` (extends `Threads`) | times and bursts | each dispatch of `Threads` with what it charges, in three actions: the clock is read when the handler is entered (`HandlerEntered`) and again before it returns (`HandlerLeft`). `Pass` is CPU time, in the handler too, where nobody is charged for it (`lost`) |
| `TestPrograms` (extends `Threads`) | `TestFile1-4.c` | a thread function is the sequence of its calls, `main` a sequence of `CreateThread` and `Go` |
| `Allocator` | prog2 | `free` is the free list, each node with its address and size field; `live` holds the headers of the blocks handed out. One action per outcome of `psumalloc` and one for `psufree` |
| `Coalesce` (extends `Allocator`) | `coalesce` | a function of the free list: each of its two loops is a function of the number of turns, up to a bound that is proved to be enough |
| `AllocatorPrograms` (extends `Allocator`) | `main.c`, the eight drivers | each is a script of calls; `pointer_array` is what it holds; `main.c`'s seven pointers have slots of their own. The program `any` makes every call at every moment |
| `MC*` | | instances for TLC: constants and the sets of inputs; `MCAllocatorPrograms` brings `AllocatorPrograms` and `Coalesce` together |
| `CollectionLemmas` (extends `WordList`) | | lemmas about numbers, recursion, sums, sequences and the word lists, for all proofs |
| `FileSegmentsProofs`, `ReducerProofs` | | theorems about the segments with the words in them, and about the reducer |
| `MapReduceProofs` | | theorems about the mapper stage, then about the whole of prog3, with `ReducerProofs` as an instance |
| `ThreadsProofs`, `ThreadClientsProofs` | | theorems about prog1's calls, then about its statistics and its test programs; the second extends the first |
| `ThreadQueueProofs` | | theorems about the queue in memory |
| `AllocatorProofs` | | theorems about the allocator, `coalesce` and the programs that call them |

Abstractions. In `MapStage` words are model values and the words of a segment are the constant
`Segment`; how a segment gets its words is `FileSegments`' matter. Threads of prog1 are numbered
in the order of allocation. Time in `Threads` is what remains until `wake_time`, and `Tick` lets it run
down. Addresses in `Allocator` are offsets; contents of blocks are not modelled; the model goes on
with overlapping *claims* for as long as the bytes really used do not collide
(`NoCollision`), and stops where C's behaviour stops being defined.
In `ThreadQueue` the lottery may draw any node: tickets, states and ids are `Threads`' matter. The policy of `setup` and the
strategy of `psumeminit` are variables set once, so that one run covers all of them.

The definitions marked as mutants are faulty variants of the action or operator
that follows them. No specification uses them; they show that each property
distinguishes the code from a plausible bug.

### The two refinements

`MapReduce` implements `WordCount`. A word is counted when an adder enters it in
`buffer_write`; the result is published when `reducer` returns. Everything else (buffers, locks, pushes,
the scans) stutters. `WordCount` makes two reservations, both the code's: the process may
die, because a reader uses what its adder has freed; and the sums may be `skewed`, once a match
was the head of its list, in which case only the total over all words is promised.

`ThreadQueue` implements `SequenceQueue`, and section 5 proves both refinements. A thread is added when its node becomes reachable,
not when the size is counted, and a whole dispatch is one step. The promise ends when two uses of the list
overlap, and it does end in the code: a `thread_enqueue` interrupted between my_scheduler.c:32 and :34 by a dispatch that enqueues
sets the tail to a node that is no longer the last, and a search (threads.c:248) interrupted by a dispatch that dequeues may stand on a
node that is no longer there. `torn` marks the moment, and nothing is claimed about what follows.

## 3. Runs

Runs that pass:

| run | instance | shows |
|---|---|---|
| `mapreduce_whole` | 2 replicas (`a b a` and `a`), buffers of 1, one spurious wakeup, `main`, reducer, fair scheduler | refinement of `WordCount`; the bound is exceeded by at most one node and one per spurious wakeup; no lost wakeup, no pair asleep; every word conserved; the reducer starts after the last adder's store and finds complete counts; freed memory meets the reader only on its way out, and nobody when `main` frees the rest; no node leaks; all words are counted and `main` returns unless it hangs for a listed cause or the process dies |
| `reduce_lists` | all pairs of lists over 3 words, counts 1 and 2, all orders | the sum of all counts is conserved whatever is popped; exact unless a match was a head; sizes never exceed lengths and no scan leaves the lists; it ends |
| `file_segments` | all files up to 4 characters over two letters and a blank and up to 7 over one letter and a newline, two files whose length is no `int` of 5 bits, 1 to 3 readers, words of 2 characters | without overflow no assertion fails and the segments are the file; the words are the file's, two for a word that is cut; bytes behind `readArray` can lengthen the segment's last word and add words of their own, at most as many as they contain, and change no other node |
| `threads_calls` | each of the three policies, 3 threads, sleeps of 0 and 1, tickets 2, 0, 1, fair timer that fires between calls only | lists and states agree between calls; FIFO order; a crash only with nothing to run; in RR ready threads run; sleepers wake |
| `threads_accounts` | three policies, 2 threads, 2 units of CPU time, 2 dispatches, `unsigned` of 3 bits, the timer inside calls | execution times, the handler's own time and the slice under way add up to the CPU time; until a call is interrupted RR charges nothing twice, but for a thread that wakes itself; only garbage divides by zero |
| `threads_queue` | three policies, 2 threads, 3 nodes, the timer inside calls and inside searches | until two uses of the list overlap: refinement of `SequenceQueue`; head, tail and size agree between changes; no freed node is read or written, though the tail dangles |
| `test_programs` | the four test programs, three policies, a fair timer that also fires inside calls | until a list operation is itself cut in two, only a thread that a call takes out of the list can get lost, and nobody overtakes in RR and FCFS except where two threads have one id; deleted threads stay deleted; every program reaches `CleanUp`, but with the lottery it may go on for ever, and in `TestFile3` and `TestFile4` the timer may cut a list operation in two: none dies in the scheduler before that |
| `alloc_programs` | `main.c`, the drivers with short arrays and any program, best and worst fit, two pages of 4096 (`main.c`'s own region) | claims grow by 16 per split and change by nothing else; no byte lost; the choice of the node; what is freed next is live or NULL; all is freed; with best fit each round of the large symmetric driver gets as many blocks as the first; `coalesce` conserves the bytes claimed |

Runs that end in a violation, each against a sentence of the source:

| run | sentence | what happens |
|---|---|---|
| `map_hang` | cmpsc473mr.c:343 "Notify that mapper is done" | the last signal falls between the adder's test and its wait |
| `reduce_exact` | :193 "increment the head of the final list" | list `i` is popped for a match in list `j` |
| `threads_lostready` | threads.c:63 "the list of all ready threads" | a call is interrupted between state and list |
| `alloc_overlap` | psumemory.c:33 "whatever remains" | the rest is recorded 16 bytes too large; the calls of small_symmetric_best.c make blocks collide |

### Bounds and why they are enough

- `MapReduce`: one pair shows all interactions of a reader and its adder, since pairs
  share nothing but `threads_returned`; two show the lost update, the spin loop and matches between
  lists, at the head and inside. A third word is what it takes to overrun a buffer of 1. A word
  occurs more than once so that merging and pushing both happen. `MaxSpurious = 1` lets a wait end
  without a signal once. What does not depend on the numbers is proved (section 5).
- `Reducer`: two lists contain every relation between `i` and `j`. All orders of all subsets of three words put matches
  at the head, inside and at the end.
- `FileSegments`: seven characters and three readers leave every remainder and put a boundary at every place of a
  word; with 5 bits, 3 times 6 is the first product to overflow, so both sides of `NoOverflow` occur.
  `STRMAX = 2` stands for 25. The readers share nothing here and run one after the other.
- `Threads`: three threads are the least for overtaking. `MaxObjects` bounds the allocations of a run;
  `MaxThreads`, `MAX_NO_OF_THREADS`, is out of its reach in `threads_calls`. Calls that
  are interrupted are followed in `test_programs`, whose programs end, and by the proofs, which know no bound.
- `Accounting`: `MaxClock` and `MaxDispatches` bound the run: time can pass before, in and after a handler. A count of 5 in 3 bits is
  close enough to the largest `unsigned` for a divisor to become 0 within two dispatches, and a count of 0 is not.
- `ThreadQueue`: `MaxNodes` bounds the nodes in use and those `RemoveFromList` leaks. With three nodes
  a list has a head, a middle and a tail; calls may be about any thread and a thread may have several nodes, so two threads
  fill it, are both in a call, and interrupt each other.
- `TestPrograms`: five threads, as many as the largest program creates. `StaleWakes` is what
  malloc may leave in `wake_time`: a time to come, which a tick makes a time that is past.
- `AllocatorPrograms`: sizes are drawn and every byte is accounted for in every state, so
  a symmetric driver makes 3 rounds over 4 pointers instead of 10 over 100, an asymmetric
  one has 4 arrays of 2 instead of 16 of 100; small requests are 8 or 100 bytes, large ones 64 and
  5440, of which the second fits once only. `main.c` has its own sizes and its own region. `any` asks for sizes below the minimum, at
  it, above it, and for almost a page and almost the region, so that exact fits, splits, whole blocks and refusals
  all occur; `MaxSplits` bounds its run, because claims grow with every split and the space would have no end.

Deadlock checking is off everywhere: all programs end, and prog3 and prog1 also stop
in the ways the findings describe.

### Fairness and why the code justifies it

- `MapReduce!FairSystem`, `MapStage!Fairness`: weak fairness for `main`, each reader and each adder. They
  are POSIX threads under a preemptive kernel: a thread that can run is run, for as long as the process lives. There is no
  fairness for spurious wakeups or for freed memory. Weak fairness is enough for the
  mutex: a thread can take it only a bounded number of times (words left to read,
  nodes left to pop) before it must wait for its partner or return.
- `Reducer!FairSpec`: the only thread of the process goes on.
- `Threads!Fairness`: weak for `Go`, for the rest of a call once begun, for the yield at
  the end of a call, and for the passing of CPU time; strong for the timer, which is
  set at each switch and counts the process's CPU time, so calls made meanwhile
  can delay its effect and not prevent it. No fairness for calls: a program
  may never make them.
- `TestPrograms!TestFairness`: weak for `main` until `Go`; strong for the timer as above, for the rest of a call of
  each thread and for the loop of each `simple_thread`: the loop counts on whenever its thread has the
  processor, so that a thread which runs again and again reaches its limit. None is assumed of the
  functions that suspend, delete or sleep.

## 4. Findings

The four violations are listed in `PROJECT.json` with the lines on both sides. The
properties that hold beside them say how far each one goes: a lost increment can only
delay `main`, never let it go too early; what the adders leave is complete even though their loop
condition is unprotected; the reducer moves counts between words and loses none; in the test programs
only the thread that is suspended or sleeps can get lost, unless the timer hits a list operation itself; claims
drift by 16 bytes per split and by nothing else.

The models contain more behaviour of this kind that no run is spent on:

- the buffer that cmpsc473mr.c:2 calls "bounded in size" holds one node too many after a late
  signal, and one more after each spurious wakeup: `BufferOverrunBounded` is the bound that is true;
- two adders lose an increment (cmpsc473mr.c:416), one of the causes in `HangCause`; the adder
  frees the lock before the reader's last unlock (:419, action `ReaderUsesFreed`);
- a word at a segment boundary is counted as two (:288), and a word of 25 characters or more runs
  on into its node's count (:314): the exceptions in `WordsAreCutWords`;
- a list operation that the timer cuts in two (`TimerTears` in `Threads`, `torn` in `ThreadQueue`): a `ResumeThread` of `TestFile3` interrupted
  between my_scheduler.c:32 and :34 can leave the tail on a node outside the list, so that later enqueues are lost and, in round robin, the
  scheduler at last dereferences NULL (threads.c:178);
- the CPU time that `Dispatch` itself uses, between its two readings of the clock (threads.c:125, 183), is charged to nobody;
- two interrupted `CreateThread` calls share an id or pass the limit together (threads.c:82, 90-92; no
  program of the repository creates threads while the timer runs); the lottery divides by zero where it means
  to return NULL (my_scheduler.c:100);
- a thread whose sleep is over when it gives way wakes itself and is charged the slice as waiting
  too (threads.c:149, 166); without round robin the running thread is always charged both ways; with a
  count of bursts left by malloc near the largest `unsigned`, line 182 divides by zero;
- an empty free list is dereferenced (psumemory.c:201, 315: `MallocOnEmptyList`); worst fit misses an
  exact fit behind the head (psumemory.c:333: the exception in `FitIsRight`);
- `coalesce`, if it were called, would keep the bytes but not the addresses: of two neighbours the
  node at the upper address survives, with a claim that begins at the lower one's (psumemory.c:144-149), and it
  then does not recognise further neighbours.

## 5. Proofs

Every theorem holds for all values of the constants that the modules' own `ASSUME`s admit. Those say
which sets and types the constants are, with four exceptions: `FileAssumption` (a file has
finitely many words), `ResultAssumption` (`NULL` is no result), the two `PowerAssumption`s, which state
of 2^Width what is true of every width, because the provers know nothing of powers, and `HalvesAssumption`: the asymmetric
drivers free the upper half of their arrays, then the upper half of what is left, and reach all of them only when the number of
arrays halves exactly down to 1, as their 16 do. `IInv`, `StageInv` and the like
below are the inductive invariants. TLC found each of them true on the instances of section 3 (of the allocator's
`EveryClaimed`, which speaks of every byte, with fewer splits and at every 32nd byte).

The provers have no induction over data. It is done here with lemmas whose parameter is a set or a function instead of an
operator: `Induction` and `SubsetInduction`, `RecursionExists` (a function made in steps exists), `LoopExists` and `LoopInduction` (the
same of a loop, given as a function of its turns), and from these the
sums over finite sets (`SumsExists` to `SumMonotone`), what is where in sequences put together (`FlattenSteps`, `FlattenPlaces`), and `WalkInduction` and `SearchInduction`
for the folds that model the scheduler's walk and the search for a node.

### prog3

| theorem | states | rests on |
|---|---|---|
| `MapReduceProofs` | | |
| `TypeCorrect` | `Spec => []TypeOK` | `Inv` |
| `NoWakeupLost`, `NeverBothWait` | no wakeup is lost, a pair is never asleep together | `Inv`, `BornInv` |
| `OverrunIsBounded` | the true bound of the buffer | `BoundInv` |
| `FreedLate` | freed memory meets the reader on its way out only | `DoneInv` |
| `ReducerRunsLast` | the reducer starts after the last adder's store | `CountInv`, `ReduceInv` |
| `NoWordLost` | each occurrence of a word is unread, in the buffer, in hand or counted, exactly once | `HandInv`, `WrittenInv`, `BalanceInv` |
| `FinalCounts` | the reducer finds the counts of the segments | `DrainedInv`, `StageInv` |
| `SystemRunsStage` | `System => Spec`: the program adds nothing that disturbs the stage | |
| `StageGuarantees` | all of the above hold of the whole program | `SystemRunsStage` |
| `CleanUp` | `main` frees under nobody's feet and leaks no node | `SystemInv` |
| `ImplementsWordCount` | `System => CountsWords`, the refinement of `WordCount` | `SystemInv`, `StepCounts` |
| `ReducerProofs` | | |
| `NeverOutside` | sizes never exceed lengths, no scan leaves a list | `IInv` |
| `NoOccurrenceLost` | no count is lost; each word's is exact unless a match was a head | `IInv` |
| `FileSegmentsProofs` | | |
| `ReadersReadTheFile` | without overflow no assertion fails, and the segments are the file | `SegInv` |
| `OnlyLastWordSpoilt` | what stands in memory behind a segment lengthens at most its last word, and adds at most as many words as it contains | `TextInv` |
| `NodesAreCutWords` | the nodes are the words of the file in order, those on a boundary cut in two | `AllInv` |

- `Inv` adds to the types that `brSize` is the length of `buffer_read` and that a thread
  about to push or merge has something to push or merge. Types alone are not
  inductive: `popHead` keeps `brSize` a natural number only because the list is
  empty when the size is 0.
- `BornInv`: a thread `main` has not created yet has not moved and has not been woken.
  Without it `SpawnReader` and `SpawnAdder` could restart a thread in the middle of its work.
- `NoLostWakeup` is inductive relative to these: each step that makes a wait's
  condition true is taken by a thread that then owes a signal, and its signal
  wakes the partner, because the signaller itself is not waiting.
- `BoundInv`: `brSize <= bufferMaxSize + 1`, and one more for each spurious wakeup, is not inductive alone. A woken reader pushes
  without testing the bound, so there must be room for it then; an
  adder that still owes a signal can wake it at any time, so its pop must have made
  that room; and when both hold there must be room for two.
- `DoneInv`: an adder past its loop condition has seen `mapperDone`, and a reader that has set
  it only unlocks, signals and returns. `freed` alone says nothing about the reader.
- `CountInv`: `threads_returned`, and every value an adder has loaded and not stored yet,
  is at most the number of adders past their store. A store therefore never
  writes more than that number, lost updates only lower the counter, and when it
  reaches `replicas` all adders are past (finite cardinalities).
  `ReduceInv` carries this to the moment `main` has left its loop.
- `BalanceInv`: for each word the four places add up to its occurrences in the segment. Three steps move
  a word (push, pop, merge). The merge needs `WrittenInv`, that a word has one node and `bwSize` is the length, so that
  `findMatch` sees the whole list; the pop needs `HandInv`, that it does not overwrite a word in hand.
- `DrainedInv`: a reader past its loop has read everything, and an adder past its loop has left an empty
  buffer. With `ReduceInv` this makes the first three places empty when the reducer starts.
- `IInv` of the reducer: types, `BoundInv`, the balance of all counts, and for as long as no match was a head (`ExactInv`)
  the balance of each word, which needs that a word of `finalList` is elsewhere only in lists still to be
  scanned for it. It is proved for lists with any counts, since the stage hands over any.
- `SystemInv` joins the two: before `main` leaves its loop the reducer has not moved; afterwards `IInv` holds of the
  lists the stage left. `ReducerProofs` is instantiated for the second part. The refinement maps each step: a merge to a
  count, the reducer's return to the publication, everything else to a stutter.
- `SegInv`: what reader r has read is its byte range. The ranges meet because the end of one is the start of the next by the
  same division (`RangesMeet`), they are in order because division is monotone, and `WrapFits` says that nothing wraps.
- `TextInv`: the nodes of a reader are the words of its text up to where `strtok_r` stands, which is always behind a delimiter (`Edge`),
  so that no word is begun in its middle. It holds whatever `Tails` has: a segment and what follows it have the same words but for the
  last (`TailSpoilsLast`).
- `AllInv` adds that the nodes of all readers so far are the words of the file so far, cut where two segments meet. A word's number is the
  `Rank` of the place where it begins, the number of beginnings up to it, so a step need only say which place comes next
  (`RankStays`, `RankGrows`). `CutText`, against which the property is stated, has a blank for each boundary and so other places:
  `PiecesAreCutWords` maps one to the other in order, and ranks survive that (`RankMapped`).

### prog1

| theorem | states | under |
|---|---|---|
| `ThreadsProofs` | | |
| `TypeCorrect`, `OneRunning` | types; nobody but the current thread is RUNNING | |
| `ReadyThreadsKept`, `OnlyReadyThreads` | between calls, who is READY is in the ready list, and nothing else is | `~interrupted` |
| `DiesOnlyOfNothingReady` | a crash only with nothing to run | `~interrupted` |
| `NobodyOvertakes` | FIFO order of the ready list, as an action property | ids differ |
| `ThreadQueueProofs` | | |
| `FieldsAlwaysAgree` | head, tail and size agree with the nodes whenever no call is in the middle of the list | `~torn` |
| `ImplementsSequence` | `Spec => IsSequence`: the pointers are a sequence, with nodes that `malloc` reuses | `~torn` |
| `ThreadClientsProofs` | | |
| `AccountingImplementsThreads` | `AccountSpec => Spec` | |
| `TimeConserved` | execution times, the handler's time and the slice under way are the CPU time since `Go` | |
| `OnlyGarbageDivides` | no division by zero but by a count malloc left near the largest `unsigned` | |
| `ChargedOnlyOnce` | RR charges no time twice, but for a thread that wakes itself | `~interrupted` |
| `ProgramsAreClients` | `TestSpec => Spec`: the test programs do what `Threads` allows | |
| `OnlyTheRemovedLost` | only a thread that a call takes out of the ready list can get lost | |
| `DeletedStayDeleted` | a deleted thread stays FINISHED: nothing schedules it again | |

The theorems hold for both values of `Preempt`. What they say is limited by the moment: `interrupted` is false
as long as SIGVTALRM has arrived between calls only, and the theorems under it are about the package as its author thought of it,
since the run `threads_lostready` shows that the first of them fails otherwise. All of them end where the timer cuts a list operation in
two (`mode` "torn" in `Threads`), and those about the queue where two uses of the list overlap (`torn` in `ThreadQueue`).

- `CallInv` is what makes the agreement of states and lists inductive while a call is half done. It holds until the timer interrupts a call. `Solo`: only the current thread is in a
  call. `Numbered`, `NoDuplicates`: ids are given out once, and a list holds a thread once, so that removing a node removes the thread.
  `ReadyListed` and `ListedReady` are the property with the exceptions each call makes on its way;
  `Underway` says what the call has done so far, which is what ends those exceptions; `CurrentRuns` and `Stopped` tie
  `current` to its state, because a dispatch requeues it.
- The scheduler's walk over the ready list, which skips and drops threads as it goes, is a fold. `WalkProperties` says that it
  ends with the first thread that can be scheduled and that those before it were dropped rightly; `NobodyOvertakes` is that fact carried
  through each call.
- `IInv` of the queue. `FieldsAgree` is not inductive: it follows `next` through memory, so one wrong pointer anywhere may change what
  it sees. `Sound`: the nodes from `head` are a path without a cycle through allocated nodes (`NoCycle`, `Along`), and carry the
  threads that `SequenceQueue` would have. `Apart`: a node that is made and not yet linked is allocated, has no successor,
  is off the path and belongs to one call only. `Clean`: size and tail agree with the path. `Midway`: how far the list is for the one
  call that is in the middle of it; for a search, that `node` is the k-th of the path and `prev_node` the one before it (`StandsOn`). Each operation
  has a lemma that says what it does to the path (`Enqueues`, `Unlinks`,
  `Removes`, `Dequeues`, `Draws`, `Walks`, `Chooses`), which rests on what a single write of a pointer does to it (`Relinked`,
  `Beheaded`, `Bypassed`); that the chain followed by recursion is the path is `FollowerOnPath` and `PathIsChain`, and that the walk over the
  threads does to the path what `SequenceQueue!AfterWalk` does to the sequence is `Walks`, by `WalkInduction`.
- `AccountInv`: the charged times and what the handler lost are the time from `Go` to the slice, or the handler, under way (`Balance`), and a count of bursts is
  within the dispatches of its garbage (`Garbage`). `ChargedOnce` needs `RunningDequeued`: in round robin the running thread is not in
  the list whose threads are charged as waiting.
- `TestInv`: `Calling` (who makes which calls), `Created` (threads are numbered in `main`'s order), `Kept` (a thread no call removes is
  listed whenever it can be picked, wherever the timer fires), `Deleted` (only thread 2 of `TestFile1`
  is ever deleted, and it never has two nodes). `Kept` is the heart: a dispatch that interrupts
  a call can drop only threads that are not schedulable, and `WalkKeeps` follows that through the walk.

### prog2

| theorem of `AllocatorProofs` | states |
|---|---|
| `TypeCorrect` | types: addresses and sizes stay natural numbers, and what a program writes fits its block |
| `SixteenBytesPerSplit` | what is claimed exceeds the region by 16 bytes per split |
| `NothingLost` | every byte of the region is claimed by a node or a block |
| `RightFit` | the node chosen is the one the strategy promises, with worst fit's exception |
| `AnyProgram` | these four, of every program that frees what it was given and writes what it asked for |
| `CoalescingConserves` | whenever a program called `coalesce`, both its loops would end and the bytes claimed would be the same |
| `FreedOnce` | what a program frees next is a live block or NULL, and every block is freed by the end |

All but `AnyProgram` are about `main.c` and the eight drivers, for any region and any sizes (`ProgramSpec`). `AllocInv` adds to the four that
`live` is finite, so that its claims have a sum, that a block has room for a node when it comes back (`RoomForNode`), and that every byte is
claimed (`EveryClaimed`); `NoByteLost` is that where it matters. `BestFitProperties` and `WorstFitProperties` say what the two searches
return, by `SearchInduction` over the position in the list.

`CoalescingConserves` needs a measure that a merge lowers, since after one the outer loop may start again: in `InnerAfter` and `OuterAfter` a turn either merges two
nodes or passes one, so the turns are at most quadratic in the length of the list. `InnerLoopEnds`
and `OuterLoopEnds` show that the bounds in `Coalesce` are never what ends a loop. `AbsorbProperties` says that a merge keeps the sum.

`FreedOnce` keeps books of each slot of `pointer_array`. A ledger says which slots hold what has yet to be given back and which are
still NULL; a script is `InOrder` from one ledger to another when each of its calls finds its slot as it should: a NULL one where it stores,
a held one where it frees. Scripts put after one another are in order (`JoinInOrder`, `AllInOrder`), so those of the drivers are in order loop by
loop, the asymmetric ones because `FreeOrder` names each array once (`FreeOrderEnumerates`, from `HalvesAssumption`). The invariant `BooksTrue`
ties the ledger of the calls still to come to `live`: two held slots have different addresses because a step whose block would collide with
a live one is not taken (`NoCollision`).

### Only model-checked

- liveness, of all three programs: the prover has no ENABLED and so no fairness;
- `RoundsServedAlike`: a fact about one driver's numbers and not of every region.

## 6. Not modelled

- the context switch: machine code, modelled by its effect;
- `psufree` of a pointer that is not a live block, sizes near `INT_MAX` and a failing `mmap`: no program of the repository
  gets there (`FreesEachBlockOnce`), and the bytes have no contents in the model. `Allocator` stays *partly* modelled for these;
- the memory behind `buffer_adder_array`, of which the reducer reads one element (cmpsc473mr.c:199): the value has no effect;
- what a torn queue does: `ThreadQueue` and `Threads` stop there. `Threads` with `Preempt` follows what calls interrupted between two
  list operations leave to each other;
- `malloc` itself: it is one step, and takes the lowest free node;
- the C library's heap, which the handler enters while a call may be inside it (my_scheduler.c:14);
- signed overflow of the loop counters of the test programs: the makefiles compile without optimisation, where it wraps and
  counts on;
- `yield_test` and `create_test`, which no test program starts; output, timing, and reading the arguments.

## 7. Plan

Done: the models of all components above with their compositions and refinements, and the proofs of section 5. Of the invariants
that the runs check, every one has its theorem but `RoundsServedAlike`, which depends on a driver's numbers; beyond
them, liveness is left to TLC. Not followed up is what the code does once two uses of a list have overlapped.
