------------------------ MODULE ThreadClientsProofs -------------------------
(***************************************************************************)
(* Theorems about what runs on top of the package of prog1: its            *)
(* statistics, and the four test programs, for every number of threads,    *)
(* every policy and every run.  Both add to the package and leave it       *)
(* alone: what ThreadsProofs shows of it holds of them too.                *)
(***************************************************************************)
EXTENDS Accounting, TestPrograms, ThreadsProofs

-----------------------------------------------------------------------------
(***************************************************************************)
(*                              STATISTICS                                 *)
(***************************************************************************)
-----------------------------------------------------------------------------
(***************************************************************************)
(* The package under the statistics.                                       *)
(***************************************************************************)
LEMMA AccountsWatch ==
  ASSUME TypeInv, [AccountNext]_<<vars, accounts>>
  PROVE  [Next]_vars
<1>1. CASE Account(Timer) \/ Account(YieldCPU)
  BY <1>1 DEF Account, Next, Signal, Timer, Dispatch, YieldCPU
<1>2. CASE AccountGo \/ AccountCreate \/ AccountSleep \/ AccountTears
  BY <1>2
  DEF AccountGo, AccountCreate, AccountSleep, AccountTears, TimerTears, Next, Signal, Continue
<1>3. CASE Unaccounted
  BY <1>3 DEF Unaccounted, Next, Continue
<1>4. CASE Pass
  <2>1. CASE \E t \in Threads : wakeIn[t] > 0
    <3>1. Tick
      BY <1>4, <2>1 DEF Pass, Tick, names
    <3> QED
      BY <3>1 DEF Next
  <2>2. CASE ~\E t \in Threads : wakeIn[t] > 0
    <3>1. \A t \in Threads : wakeIn[t] = 0
      BY <2>2 DEF TypeInv, TypeOK
    <3>2. wakeIn \in [Threads -> Nat] /\ wakeIn' = [t \in Threads |-> 0]
      BY <1>4, <3>1 DEF Pass, TypeInv, TypeOK
    <3>3. wakeIn' = wakeIn
      BY <3>1, <3>2
    <3> QED
      BY <1>4, <3>3 DEF Pass, vars, names
  <2> QED
    BY <2>1, <2>2
<1>5. CASE HandlerEntered \/ HandlerLeft \/ UNCHANGED <<vars, accounts>>
  BY <1>5 DEF HandlerEntered, HandlerLeft, vars
<1> QED
  BY <1>1, <1>2, <1>3, <1>4, <1>5 DEF AccountNext

LEMMA AccountTypes == AccountSpec => []TypeInv
<1>1. AccountInit => TypeInv
  BY TypeInit DEF AccountInit
<1>2. TypeInv /\ [AccountNext]_<<vars, accounts>> => TypeInv'
  BY AccountsWatch, TypeStep
<1> QED
  BY <1>1, <1>2, PTL DEF AccountSpec

(* Keeping the statistics does not change what the package does: with them it
   is still an implementation of the package without. *)
THEOREM AccountingImplementsThreads == AccountSpec => Spec
<1>1. AccountInit => Init
  BY DEF AccountInit
<1>2. TypeInv /\ [AccountNext]_<<vars, accounts>> => [Next]_vars
  BY AccountsWatch
<1> QED
  BY <1>1, <1>2, AccountTypes, PTL DEF AccountSpec, Spec

-----------------------------------------------------------------------------
(***************************************************************************)
(* The types of the statistics.                                            *)
(***************************************************************************)
(* The charges, the two reads of the clock and the time between them. *)
AccountType ==
  /\ clock \in Nat /\ start_time \in Nat /\ began \in Nat /\ lost \in Nat
  /\ start_time <= clock
  /\ exec \in [Threads -> Nat] /\ wait \in [Threads -> Nat]
  /\ bursts \in [Threads -> Nat] /\ stale \in [Threads -> Nat]
  /\ twice \in [Threads -> Nat]
  /\ dispatches \in Nat /\ dispatches <= MaxDispatches
  /\ divided \in BOOLEAN
  /\ handler \in {"no", "entered", "switched"} /\ time_delta \in Nat
  /\ handler # "no" => start_time + time_delta <= clock
  /\ handler = "entered" => ~divided

LEMMA NodesOfProperties ==
  ASSUME NEW q \in Seq(Threads), NEW t
  PROVE  /\ NodesOf(q, t) \in Nat
         /\ ~Contains(q, t) => NodesOf(q, t) = 0
         /\ Once(q) => NodesOf(q, t) \in {0, 1}
<1> DEFINE nodes == {k \in DOMAIN q : q[k] = t}
<1>1. DOMAIN q = 1..Len(q) /\ Len(q) \in Nat
  BY LenProperties
<1>2. IsFiniteSet(1..Len(q)) /\ nodes \subseteq 1..Len(q)
  BY <1>1, FS_Interval
<1>3. IsFiniteSet(nodes)
  BY <1>2, FS_Subset
<1>4. Cardinality(nodes) \in Nat
  BY <1>3, FS_CardinalityType
<1>5. ASSUME ~Contains(q, t) PROVE Cardinality(nodes) = 0
  <2>1. nodes = {}
    BY <1>5, ContainsElement
  <2> QED
    BY <2>1, FS_EmptySet
<1>6. ASSUME Once(q) PROVE Cardinality(nodes) \in {0, 1}
  <2>1. CASE nodes = {}
    BY <2>1, FS_EmptySet
  <2>2. CASE nodes # {}
    <3>1. PICK k \in nodes : TRUE
      BY <2>2
    <3>2. nodes = {k}
      BY <1>6, <3>1 DEF Once
    <3> HIDE DEF nodes
    <3> QED
      BY <3>2, FS_Singleton
  <2> QED
    BY <2>1, <2>2
<1> QED
  BY <1>4, <1>5, <1>6 DEF NodesOf

(* The entry of the handler charges the slice to the thread that ran it. *)
LEMMA EnteredProperties ==
  ASSUME TypeInv, AccountType, HandlerEntered
  PROVE  /\ current \in Threads /\ mode = "running" /\ ~divided
         /\ handler = "no" /\ handler' = "entered"
         /\ time_delta' \in Nat /\ time_delta' = clock - start_time
         /\ exec' \in [Threads -> Nat]
         /\ \A t \in Threads :
              exec'[t] = IF t = current THEN exec[t] + time_delta' ELSE exec[t]
         /\ dispatches < MaxDispatches /\ dispatches' = dispatches + 1
<1>1. /\ current # 0 /\ TypeOK /\ mode = "running" /\ ~divided
      /\ handler = "no" /\ handler' = "entered"
      /\ dispatches < MaxDispatches /\ dispatches' = dispatches + 1
      /\ time_delta' = clock - start_time
      /\ exec' = [exec EXCEPT ![current] = @ + time_delta']
  BY DEF HandlerEntered, TypeInv
<1>2. current \in Threads
  BY <1>1, BoundsAssumption DEF TypeOK, Threads
<1>3. time_delta' \in Nat /\ exec \in [Threads -> Nat]
  BY <1>1 DEF AccountType
<1>4. \A t \in Threads :
        exec'[t] = IF t = current THEN exec[t] + time_delta' ELSE exec[t]
  BY <1>1, <1>2, <1>3
<1>5. exec' \in [Threads -> Nat]
  BY <1>1, <1>2, <1>3
<1> QED
  BY <1>1, <1>2, <1>3, <1>4, <1>5

(* What the rest of a dispatch does to the accounts. *)
LEMMA ChargeProperties ==
  ASSUME TypeInv, AccountType, NEW dispatch, Account(dispatch), Dispatch
  PROVE  /\ current \in Threads /\ mode = "running"
         /\ handler = "entered" /\ handler' = "switched"
         /\ \A t \in Threads :
              wait'[t] = wait[t] + NodesOf(AfterWalk, t) * time_delta
         /\ \A t \in Threads :
              twice'[t] = IF t = current /\ Due(t) THEN twice[t] + time_delta
                          ELSE twice[t]
         /\ wait' \in [Threads -> Nat] /\ twice' \in [Threads -> Nat]
         /\ \A t \in Threads : NodesOf(AfterWalk, t) \in Nat
         /\ mode' = "running" => current' \in Threads /\ CountBurst(current')
         /\ mode' # "running" => bursts' = bursts /\ divided' = divided
<1>1. /\ mode = "running" /\ current # 0 /\ ChargeWaits
      /\ handler = "entered" /\ handler' = "switched"
      /\ current \in Threads /\ AfterWalk \in Seq(Threads)
      /\ Requeued \in Seq(Threads) /\ TypeOK
      /\ Switch(Requeued, StateAfterWalk)
  BY WalkType DEF Dispatch, Account, TypeInv
<1>2. time_delta \in Nat
  BY DEF AccountType
<1>3. \A t \in Threads : NodesOf(AfterWalk, t) \in Nat
  BY <1>1, NodesOfProperties
<1>4. \A t \in Threads : NodesOf(AfterWalk, t) * time_delta \in Nat
  BY <1>2, <1>3
<1>5. /\ wait' \in [Threads -> Nat]
      /\ \A t \in Threads :
           wait'[t] = wait[t] + NodesOf(AfterWalk, t) * time_delta
  <2>1. wait' = [t \in Threads |-> wait[t] + NodesOf(AfterWalk, t) * time_delta]
    BY <1>1 DEF ChargeWaits
  <2>2. \A t \in Threads : wait[t] \in Nat
    BY DEF AccountType
  <2> QED
    BY <1>4, <2>1, <2>2
<1>6. /\ twice' \in [Threads -> Nat]
      /\ \A t \in Threads :
           twice'[t] = IF t = current /\ Due(t) THEN twice[t] + time_delta
                       ELSE twice[t]
  <2>1. twice' = [twice EXCEPT ![current] = IF Due(current) THEN @ + time_delta ELSE @]
    BY DEF Account
  <2> QED
    BY <1>1, <1>2, <2>1 DEF AccountType
<1>7. ASSUME mode' = "running" PROVE current' \in Threads /\ CountBurst(current')
  <2>1. PICK k \in Candidates(Requeued) : current' = Requeued[k]
    BY <1>1, <1>7 DEF Switch
  <2>2. current' \in Threads
    BY <1>1, <2>1, PickProperties
  <2> QED
    BY <1>7, <2>2 DEF Account
<1>8. ASSUME mode' # "running" PROVE bursts' = bursts /\ divided' = divided
  BY <1>8 DEF Account
<1> QED
  BY <1>1, <1>3, <1>5, <1>6, <1>7, <1>8

LEMMA BurstType ==
  ASSUME AccountType, NEW t \in Threads, CountBurst(t)
  PROVE  bursts' \in [Threads -> Nat] /\ divided' \in BOOLEAN
<1>1. (bursts[t] + 1) % 2^Width \in Nat
  BY PowerAssumption DEF AccountType
<1> QED
  BY <1>1 DEF CountBurst, AccountType

-----------------------------------------------------------------------------
(***************************************************************************)
(* CPU time is conserved, and the divisions fail by garbage only.          *)
(***************************************************************************)
(* Nothing is charged before Go(), and all that passes after it is. *)
Balance ==
  /\ current = 0 => /\ handler = "no" /\ lost = 0
                    /\ \A t \in Threads : exec[t] = 0
  /\ CpuTimeConserved

(* The dispatches that have counted a burst. *)
counted == IF handler = "entered" THEN dispatches - 1 ELSE dispatches

(* Unless some garbage was too near the largest unsigned, no count of bursts
   has wrapped: each is within the dispatches of its garbage. *)
Garbage ==
  /\ \A t \in Threads : t > allocated => stale[t] = 0
  /\ \/ \E t \in Threads : stale[t] + MaxDispatches + 1 >= 2^Width
     \/ ~divided /\ \A t \in Threads : bursts[t] <= stale[t] + counted

AccountInv == AccountType /\ Balance /\ Garbage

LEMMA SumOfExec ==
  ASSUME NEW f \in [Threads -> Nat]
  PROVE  SumFunctionOnSet(f, Threads) \in Int
<1>1. IsFiniteSet(Threads) /\ \A x \in Threads : f[x] \in Int
  BY BoundsAssumption, FS_Interval DEF Threads
<1> QED
  BY <1>1, SumOnSet

LEMMA AccountInitInv == ASSUME AccountInit PROVE AccountInv
<1>1. /\ current = 0 /\ clock = 0 /\ start_time = 0 /\ began = 0 /\ lost = 0
      /\ exec = [t \in Threads |-> 0] /\ wait = exec /\ bursts = exec
      /\ stale = exec /\ twice = exec /\ dispatches = 0 /\ divided = FALSE
      /\ handler = "no" /\ time_delta = 0
  BY DEF AccountInit, Init
<1>2. AccountType
  <2>1. [t \in Threads |-> 0] \in [Threads -> Nat]
    OBVIOUS
  <2>2. /\ exec \in [Threads -> Nat] /\ wait \in [Threads -> Nat]
        /\ bursts \in [Threads -> Nat] /\ stale \in [Threads -> Nat]
        /\ twice \in [Threads -> Nat]
    BY <1>1, <2>1
  <2>3. divided \in BOOLEAN
    BY <1>1
  <2>4. dispatches \in Nat /\ dispatches <= MaxDispatches
    BY <1>1, LengthAssumption
  <2>5. /\ clock \in Nat /\ start_time \in Nat /\ began \in Nat /\ lost \in Nat
        /\ start_time <= clock /\ time_delta \in Nat
    BY <1>1
  <2> QED
    BY <1>1, <2>2, <2>3, <2>4, <2>5 DEF AccountType
<1>3. Balance
  BY <1>1 DEF Balance, CpuTimeConserved
<1>4. Garbage
  BY <1>1 DEF Garbage, counted
<1> QED
  BY <1>2, <1>3, <1>4 DEF AccountInv

(* The handler is entered: the slice that ends is charged to the thread that
   ran it. *)
LEMMA EnteredAccounts ==
  ASSUME TypeInv, AccountInv, HandlerEntered
  PROVE  AccountInv'
<1> DEFINE delta == time_delta'
<1>0. AccountType /\ Balance /\ Garbage
  BY DEF AccountInv
<1>1. /\ current \in Threads /\ mode = "running" /\ ~divided
      /\ handler = "no" /\ handler' = "entered"
      /\ delta \in Nat /\ delta = clock - start_time
      /\ exec' \in [Threads -> Nat]
      /\ \A t \in Threads :
           exec'[t] = IF t = current THEN exec[t] + delta ELSE exec[t]
      /\ dispatches < MaxDispatches /\ dispatches' = dispatches + 1
  BY <1>0, EnteredProperties
<1>2. /\ clock' = clock /\ start_time' = start_time /\ began' = began
      /\ lost' = lost /\ wait' = wait /\ bursts' = bursts /\ stale' = stale
      /\ twice' = twice /\ divided' = divided
      /\ current' = current /\ mode' = mode /\ allocated' = allocated
  BY DEF HandlerEntered, vars
<1>3. current # 0
  BY <1>1 DEF Threads
<1>4. AccountType'
  BY <1>0, <1>1, <1>2, LengthAssumption DEF AccountType
<1>5. Balance'
  <2>1. SumFunctionOnSet(exec', Threads)
          = SumFunctionOnSet(exec, Threads) - exec[current] + exec'[current]
    <3>1. IsFiniteSet(Threads)
      BY BoundsAssumption, FS_Interval DEF Threads
    <3>2. /\ \A x \in Threads : exec[x] \in Int
          /\ \A x \in Threads : exec'[x] \in Int
          /\ \A x \in Threads : current # x => exec'[x] = exec[x]
      BY <1>0, <1>1 DEF AccountType
    <3> QED
      BY <1>1, <3>1, <3>2, SumChanged
  <2>2. SumFunctionOnSet(exec, Threads) + lost + (clock - start_time)
          = clock - began
    BY <1>0, <1>1, <1>3 DEF Balance, CpuTimeConserved
  <2>3. exec'[current] = exec[current] + delta /\ exec[current] \in Nat
    BY <1>0, <1>1 DEF AccountType
  <2>4. SumFunctionOnSet(exec, Threads) \in Int
    BY <1>0, SumOfExec DEF AccountType
  <2>5. SumFunctionOnSet(exec', Threads) + lost' + 0 = clock' - began'
    <3> HIDE DEF delta
    <3> QED
      BY <1>0, <1>1, <1>2, <2>1, <2>2, <2>3, <2>4 DEF AccountType
  <2> QED
    BY <1>1, <1>2, <1>3, <2>5 DEF Balance, CpuTimeConserved
<1>6. Garbage'
  <2>1. counted' = counted
    BY <1>0, <1>1 DEF AccountType, counted
  <2> QED
    BY <1>0, <1>2, <2>1 DEF Garbage
<1> QED
  BY <1>4, <1>5, <1>6 DEF AccountInv

(* The waits are charged, and the next thread's burst is counted. *)
LEMMA DispatchAccounts ==
  ASSUME TypeInv, AccountInv, NEW dispatch, Account(dispatch), Dispatch
  PROVE  AccountInv'
<1>0. AccountType /\ Balance /\ Garbage
  BY DEF AccountInv
<1>1. /\ current \in Threads /\ mode = "running"
      /\ handler = "entered" /\ handler' = "switched"
      /\ wait' \in [Threads -> Nat] /\ twice' \in [Threads -> Nat]
      /\ mode' = "running" => current' \in Threads /\ CountBurst(current')
      /\ mode' # "running" => bursts' = bursts /\ divided' = divided
  BY <1>0, ChargeProperties
<1>2. /\ clock' = clock /\ start_time' = start_time /\ began' = began
      /\ lost' = lost /\ exec' = exec /\ stale' = stale
      /\ dispatches' = dispatches /\ time_delta' = time_delta
  BY DEF Account
<1>3. current # 0 /\ allocated' = allocated /\ ~divided
  BY <1>0, <1>1 DEF Dispatch, names, Threads, AccountType
<1>4. AccountType'
  <2>1. bursts' \in [Threads -> Nat] /\ divided' \in BOOLEAN
    <3>1. CASE mode' = "running"
      BY <1>0, <1>1, <3>1, BurstType
    <3>2. CASE mode' # "running"
      BY <1>0, <1>1, <3>2 DEF AccountType
    <3> QED
      BY <3>1, <3>2
  <2> QED
    BY <1>0, <1>1, <1>2, <2>1 DEF AccountType
<1>5. Balance'
  <2>1. CASE mode' = "running"
    <3>1. current' # 0
      BY <1>1, <2>1 DEF Threads
    <3>2. SumFunctionOnSet(exec, Threads) + lost + 0 = clock - began
      BY <1>0, <1>1, <1>3 DEF Balance, CpuTimeConserved
    <3> QED
      BY <1>1, <1>2, <3>1, <3>2 DEF Balance, CpuTimeConserved
  <2>2. CASE mode' # "running"
    <3>1. mode' \notin {"running", "exited"} /\ current' = current
      BY <1>1, <2>2 DEF Dispatch, Switch
    <3> QED
      BY <1>3, <3>1 DEF Balance, CpuTimeConserved
  <2> QED
    BY <2>1, <2>2
<1>6. Garbage'
  <2>0. counted' = dispatches /\ counted = dispatches - 1
    BY <1>1, <1>2 DEF counted
  <2>1. \A t \in Threads : t > allocated' => stale'[t] = 0
    BY <1>0, <1>2, <1>3 DEF Garbage
  <2>2. CASE \E t \in Threads : stale[t] + MaxDispatches + 1 >= 2^Width
    BY <1>2, <2>1, <2>2 DEF Garbage
  <2>3. CASE ~\E t \in Threads : stale[t] + MaxDispatches + 1 >= 2^Width
    <3>0. MaxDispatches \in Nat /\ dispatches \in Nat /\ dispatches <= MaxDispatches
      BY <1>0, LengthAssumption DEF AccountType
    <3>1. ASSUME NEW t \in Threads
          PROVE  /\ bursts[t] \in Nat /\ stale[t] \in Nat
                 /\ bursts[t] <= stale[t] + dispatches - 1
                 /\ bursts[t] + 2 < 2^Width
      <4>1. /\ bursts[t] \in Nat /\ stale[t] \in Nat
            /\ bursts[t] <= stale[t] + (dispatches - 1)
        BY <1>0, <2>0, <2>3 DEF Garbage, AccountType
      <4>2. stale[t] + MaxDispatches + 1 < 2^Width
        BY <2>3, <3>0, <4>1, PowerAssumption
      <4> HIDE DEF AccountInv
      <4> QED
        BY <3>0, <4>1, <4>2, PowerAssumption
    <3>2. ~divided' /\ \A t \in Threads : bursts'[t] <= stale'[t] + dispatches
      <4>1. CASE mode' # "running"
        BY <1>1, <1>2, <1>3, <3>0, <3>1, <4>1
      <4>2. CASE mode' = "running"
        <5> DEFINE n == current'
                   top == 2^Width
        <5>1. n \in Threads /\ CountBurst(n)
          BY <1>1, <4>2
        <5> HIDE DEF n
        <5>2. top \in Nat /\ bursts[n] + 2 < top /\ bursts[n] \in Nat
          BY <3>1, <5>1, PowerAssumption
        <5>3. /\ bursts' = [bursts EXCEPT ![n] = (bursts[n] + 1) % top]
              /\ divided' = (bursts'[n] = 0 \/ bursts'[n] + 1 = top)
          BY <5>1 DEF CountBurst
        <5> HIDE DEF top
        <5>4. (bursts[n] + 1) % top = bursts[n] + 1
          BY <5>2
        <5>5. \A t \in Threads :
                bursts'[t] = IF t = n THEN bursts[n] + 1 ELSE bursts[t]
          BY <1>0, <5>3, <5>4 DEF AccountType
        <5>6. ~(bursts'[n] = 0 \/ bursts'[n] + 1 = top)
          BY <5>1, <5>2, <5>5
        <5>7. ~divided'
          BY <5>3, <5>6, Zenon
        <5> QED
          BY <1>2, <3>0, <3>1, <5>1, <5>5, <5>7
      <4> QED
        BY <4>1, <4>2
    <3> QED
      BY <2>0, <2>1, <3>2 DEF Garbage
  <2> QED
    BY <2>2, <2>3
<1> QED
  BY <1>4, <1>5, <1>6 DEF AccountInv

(* The clock is read again, and the next slice begins. *)
LEMMA LeftAccounts ==
  ASSUME AccountInv, HandlerLeft
  PROVE  AccountInv'
<1>0. AccountType /\ Balance /\ Garbage
  BY DEF AccountInv
<1>1. /\ handler = "switched" /\ ~divided /\ mode = "running"
      /\ handler' = "no" /\ start_time' = clock
      /\ clock' = clock /\ exec' = exec /\ wait' = wait /\ bursts' = bursts
      /\ stale' = stale /\ twice' = twice /\ began' = began /\ lost' = lost
      /\ dispatches' = dispatches /\ divided' = divided
      /\ time_delta' = time_delta
      /\ current' = current /\ mode' = mode /\ allocated' = allocated
  BY DEF HandlerLeft, times, ghosts, vars
<1>2. current # 0
  BY <1>0, <1>1 DEF Balance
<1>3. AccountType'
  BY <1>0, <1>1 DEF AccountType
<1>4. Balance'
  <2>1. SumFunctionOnSet(exec, Threads) + lost + 0 = clock - began
    BY <1>0, <1>1, <1>2 DEF Balance, CpuTimeConserved
  <2>2. clock' - start_time' = 0
    BY <1>0, <1>1 DEF AccountType
  <2> QED
    BY <1>1, <1>2, <2>1, <2>2 DEF Balance, CpuTimeConserved
<1>5. Garbage'
  BY <1>0, <1>1 DEF Garbage, counted
<1> QED
  BY <1>3, <1>4, <1>5 DEF AccountInv

LEMMA AccountStep ==
  ASSUME TypeInv, AccountInv, [AccountNext]_<<vars, accounts>>
  PROVE  AccountInv'
<1>0. AccountType /\ Balance /\ Garbage /\ TypeOK
  BY DEF AccountInv, TypeInv
<1>1. CASE Account(Timer) \/ Account(YieldCPU)
  <2>1. Dispatch
    BY <1>1 DEF Account, Timer, YieldCPU
  <2> QED
    BY <1>1, <2>1, DispatchAccounts
<1>2. CASE AccountGo
  <2>1. /\ current = 0 /\ start_time' = clock /\ began' = clock /\ clock' = clock
        /\ exec' = exec /\ wait' = wait /\ bursts' = bursts /\ stale' = stale
        /\ twice' = twice /\ dispatches' = dispatches /\ divided' = divided
        /\ allocated' = allocated /\ lost' = lost /\ handler' = handler
        /\ time_delta' = time_delta
    BY <1>2 DEF AccountGo, Go, times, names
  <2>2. handler = "no" /\ lost = 0 /\ \A t \in Threads : exec[t] = 0
    BY <1>0, <2>1 DEF Balance
  <2>3. AccountType'
    BY <1>0, <2>1, <2>2 DEF AccountType
  <2>4. Balance'
    <3>1. IsFiniteSet(Threads)
      BY BoundsAssumption, FS_Interval DEF Threads
    <3>2. SumFunctionOnSet(exec, Threads) = 0
      BY <2>2, <3>1, SumOfZeros
    <3>3. clock - clock = 0
      BY <1>0 DEF AccountType
    <3> QED
      BY <2>1, <2>2, <3>2, <3>3 DEF Balance, CpuTimeConserved
  <2>5. Garbage'
    BY <1>0, <2>1 DEF Garbage, counted
  <2> QED
    BY <2>3, <2>4, <2>5 DEF AccountInv
<1>3. CASE AccountCreate
  <2> DEFINE n == allocated'
  <2>1. /\ n = allocated + 1 /\ n \in Threads /\ current' = current /\ mode' = mode
        /\ allocated \in Nat
    BY <1>0, <1>3, BoundsAssumption
    DEF AccountCreate, CreateAllocate, Call, TypeOK, Threads
  <2>2. /\ clock' = clock /\ start_time' = start_time /\ exec' = exec
        /\ wait' = wait /\ began' = began /\ twice' = twice
        /\ dispatches' = dispatches /\ divided' = divided /\ ~divided
        /\ lost' = lost /\ handler' = handler /\ time_delta' = time_delta
        /\ handler = "no"
    BY <1>3 DEF AccountCreate, times
  <2>3. PICK garbage \in StaleBursts :
          /\ bursts' = [bursts EXCEPT ![n] = garbage]
          /\ stale' = [stale EXCEPT ![n] = garbage]
    BY <1>3 DEF AccountCreate
  <2>4. garbage \in Nat
    BY WidthAssumption, PowerAssumption
  <2>5. AccountType'
    BY <1>0, <2>2, <2>3, <2>4 DEF AccountType
  <2>6. Balance'
    BY <1>0, <2>1, <2>2 DEF Balance, CpuTimeConserved
  <2> HIDE DEF n
  <2>7. \A t \in Threads : /\ stale'[t] = IF t = n THEN garbage ELSE stale[t]
                           /\ bursts'[t] = IF t = n THEN garbage ELSE bursts[t]
    BY <1>0, <2>3 DEF AccountType
  <2>8. \A t \in Threads : t > n => stale'[t] = 0
    <3>1. \A t \in Threads : t > n => t > allocated /\ t # n
      BY <2>1 DEF Threads
    <3> QED
      BY <1>0, <2>7, <3>1 DEF Garbage
  <2>9. ASSUME NEW t \in Threads, stale[t] + MaxDispatches + 1 >= 2^Width
        PROVE  stale'[t] + MaxDispatches + 1 >= 2^Width
    <3>1. CASE t # n
      BY <2>7, <2>9, <3>1
    <3>2. CASE t = n
      <4>1. stale[t] = 0 /\ stale'[t] = garbage
        BY <1>0, <2>1, <2>7, <3>2 DEF Garbage
      <4> QED
        BY <2>4, <2>9, <4>1, LengthAssumption, PowerAssumption
    <3> QED
      BY <3>1, <3>2
  <2>10. ASSUME \A t \in Threads : bursts[t] <= stale[t] + dispatches
         PROVE  \A t \in Threads : bursts'[t] <= stale'[t] + dispatches
    BY <1>0, <2>4, <2>7, <2>10 DEF AccountType
  <2>11. counted = dispatches /\ counted' = dispatches
    BY <2>2 DEF counted
  <2>12. Garbage'
    BY <1>0, <2>2, <2>8, <2>9, <2>10, <2>11 DEF Garbage, n
  <2> QED
    BY <2>5, <2>6, <2>12 DEF AccountInv
<1>4. CASE AccountSleep \/ Unaccounted \/ AccountTears \/ UNCHANGED <<vars, accounts>>
  <2>1. /\ clock' = clock /\ start_time' = start_time /\ exec' = exec
        /\ wait' = wait /\ began' = began /\ twice' = twice /\ stale' = stale
        /\ bursts' = bursts /\ dispatches' = dispatches /\ divided' = divided
        /\ lost' = lost /\ handler' = handler /\ time_delta' = time_delta
    BY <1>4 DEF AccountSleep, Unaccounted, AccountTears, accounts, times, ghosts
  <2>2. current' = current /\ allocated' = allocated
    BY <1>4
    DEF AccountSleep, Unaccounted, AccountTears, TimerTears, SleepUntil, CleanUp,
        CreateCount, CreateEnqueue, CreateRegister, SuspendRemove, ResumeEnqueue,
        ResumeMark, SleepRemove, DeleteThread, SuspendThread, ResumeThread,
        SleepThread, Call, names, vars
  <2>3. mode' \in {"running", "exited"} => mode \in {"running", "exited"}
    BY <1>4
    DEF AccountSleep, Unaccounted, AccountTears, TimerTears, SleepUntil, CleanUp,
        CreateCount, CreateEnqueue, CreateRegister, SuspendRemove, ResumeEnqueue,
        ResumeMark, SleepRemove, DeleteThread, SuspendThread, ResumeThread,
        SleepThread, Call, vars
  <2>4. AccountType'
    BY <1>0, <2>1 DEF AccountType
  <2>5. Balance' /\ Garbage'
    BY <1>0, <2>1, <2>2, <2>3 DEF Balance, CpuTimeConserved, Garbage, counted
  <2> QED
    BY <2>4, <2>5 DEF AccountInv
<1>5. CASE Pass
  <2>1. /\ clock' = clock + 1 /\ start_time' = start_time /\ exec' = exec
        /\ wait' = wait /\ began' = began /\ twice' = twice /\ stale' = stale
        /\ bursts' = bursts /\ dispatches' = dispatches /\ divided' = divided
        /\ current' = current /\ allocated' = allocated /\ mode' = mode
        /\ handler' = handler /\ time_delta' = time_delta
        /\ lost' = IF handler = "no" THEN lost ELSE lost + 1
    BY <1>5 DEF Pass, times, names
  <2>2. AccountType'
    BY <1>0, <2>1 DEF AccountType
  <2>3. Balance'
    <3>1. SumFunctionOnSet(exec, Threads) \in Int
      BY <1>0, SumOfExec DEF AccountType
    <3>2. current = 0 => lost' = lost
      BY <1>0, <2>1 DEF Balance
    <3> QED
      BY <1>0, <2>1, <3>1, <3>2 DEF Balance, CpuTimeConserved, AccountType
  <2>4. Garbage'
    BY <1>0, <2>1 DEF Garbage, counted
  <2> QED
    BY <2>2, <2>3, <2>4 DEF AccountInv
<1>6. CASE HandlerEntered
  BY <1>6, EnteredAccounts
<1>7. CASE HandlerLeft
  BY <1>7, LeftAccounts
<1> QED
  BY <1>1, <1>2, <1>3, <1>4, <1>5, <1>6, <1>7 DEF AccountNext

LEMMA AccountInvariance == AccountSpec => []AccountInv
<1>1. AccountInit => AccountInv
  BY AccountInitInv
<1>2. TypeInv /\ AccountInv /\ [AccountNext]_<<vars, accounts>> => AccountInv'
  BY AccountStep
<1> QED
  BY <1>1, <1>2, AccountTypes, PTL DEF AccountSpec

(* The CPU time since Go() is what was charged as execution, each unit to one
   thread and once, the slice under way, and what passed between the two reads
   of the clock of each Dispatch, which is charged to nobody; whatever
   interrupts what. *)
THEOREM TimeConserved == AccountSpec => []CpuTimeConserved
<1>1. AccountInv => CpuTimeConserved
  BY DEF AccountInv, Balance
<1> QED
  BY <1>1, AccountInvariance, PTL

(* The averages are divided by zero only when malloc left a number of bursts
   that the dispatches of the run can bring to the largest unsigned. *)
THEOREM OnlyGarbageDivides == AccountSpec => []DividesByGarbageOnly
<1>1. AccountInv => DividesByGarbageOnly
  BY DEF AccountInv, Garbage, DividesByGarbageOnly
<1> QED
  BY <1>1, AccountInvariance, PTL

-----------------------------------------------------------------------------
(***************************************************************************)
(* No time is charged twice in round robin, until a call is interrupted.   *)
(***************************************************************************)
(* In round robin the running thread is not in the ready list. *)
RunningDequeued ==
  scheduling_type = RR /\ mode \in {"running", "exited"} =>
    ~Contains(ready_list, current)

LEMMA DequeuedStep ==
  ASSUME ThreadsInv, RunningDequeued, [Next]_vars, ~interrupted'
  PROVE  RunningDequeued'
<1>0. /\ TypeOK /\ TypeInv /\ CallInv /\ ready_list \in Seq(Threads)
      /\ Numbered /\ NoDuplicates /\ ListOf(ready_list)
      /\ scheduling_type' = scheduling_type
  <2>1. TypeOK /\ TypeInv /\ CallInv /\ Numbered /\ NoDuplicates
        /\ ready_list \in Seq(Threads)
    BY DEF ThreadsInv, TypeInv, TypeOK, CallInv
  <2>2. scheduling_type' = scheduling_type
    BY DEF Next, Signal, Continue, vars, Timer, TimerTears, YieldCPU, Dispatch, Go, CleanUp, Tick, Call,
           CreateAllocate, CreateCount, CreateEnqueue, CreateRegister, SuspendRemove,
           ResumeEnqueue, ResumeMark, SleepUntil, SleepRemove, DeleteThread,
           SuspendThread, ResumeThread, SleepThread
  <2> QED
    BY <2>1, <2>2, ListsAreLists
<1>1. ASSUME NEW q, ListOf(q), NEW states, Switch(q, states)
      PROVE  RunningDequeued'
  <2>1. ASSUME NEW k \in Candidates(q), current' = q[k],
               ready_list' = AfterPick(q, k)
        PROVE  RunningDequeued'
    <3> DEFINE new == AfterPick(q, k)
    <3>1. \A x : Contains(new, x) <=>
                   Contains(q, x) /\ (scheduling_type = RR => x # q[k])
      BY <1>0, <1>1, PickFromList
    <3> HIDE DEF new
    <3>2. scheduling_type = RR => ~Contains(new, q[k])
      BY <3>1
    <3> QED
      BY <1>0, <2>1, <3>2 DEF RunningDequeued, new
  <2>2. CASE mode' \notin {"running", "exited"}
    BY <2>2 DEF RunningDequeued
  <2> QED
    BY <1>1, <2>1, <2>2 DEF Switch
<1>2. CASE Timer \/ YieldCPU
  <2>1. /\ current # 0 /\ pc[current] \in {"idle", "yield"}
        /\ Switch(Requeued, StateAfterWalk)
    BY <1>0, <1>2 DEF Timer, YieldCPU, Dispatch, CallInv, Solo
  <2>2. ListOf(Requeued)
    BY <1>0, <2>1, RequeuedProperties
  <2> QED
    BY <1>1, <2>1, <2>2
<1>3. CASE Go
  BY <1>0, <1>1, <1>3 DEF Go
<1>4. ASSUME NEW a \in Threads, ready_list' = thread_enqueue(a, ready_list),
             a # current, current' = current, mode' = mode
      PROVE  RunningDequeued'
  <2>1. \A x : Contains(ready_list', x) <=> Contains(ready_list, x) \/ x = a
    BY <1>0, <1>4, EnqueueProperties
  <2> QED
    BY <1>0, <1>4, <2>1 DEF RunningDequeued
<1>5. ASSUME NEW n, ready_list' = RemoveFromList(n, ready_list),
             current' = current, mode' = mode
      PROVE  RunningDequeued'
  <2>1. \A x : Contains(ready_list', x) => Contains(ready_list, x)
    BY <1>0, <1>5, RemoveFromListProperties
  <2> QED
    BY <1>0, <1>5, <2>1 DEF RunningDequeued
<1>6. CASE CreateEnqueue
  <2>1. Call("create2", "create3")
    BY <1>6 DEF CreateEnqueue
  <2>2. /\ pc[current] = "create2" /\ current \in 0..MaxObjects
        /\ mode = "running" /\ current' = current /\ mode' = mode
    BY <1>0, <2>1 DEF Call, TypeOK
  <2>3. arg[current] \in Threads /\ state[arg[current]] = "READY"
    BY <1>0, <2>2 DEF CallInv, Underway, TypeInv, ArgumentIsThread
  <2>4. arg[current] # current
    <3>1. arg[current] = current => state[current] = "RUNNING"
      BY <1>0, <2>2, <2>3 DEF CallInv, CurrentRuns, Threads
    <3> QED
      BY <2>3, <3>1
  <2> QED
    BY <1>4, <1>6, <2>2, <2>3, <2>4 DEF CreateEnqueue
<1>7. CASE ResumeEnqueue
  <2>1. Call("resume1", "resume2")
    BY <1>7 DEF ResumeEnqueue
  <2>2. /\ pc[current] = "resume1" /\ current \in 0..MaxObjects
        /\ mode = "running" /\ current' = current /\ mode' = mode
    BY <1>0, <2>1 DEF Call, TypeOK
  <2>3. arg[current] \in Threads /\ state[arg[current]] = "SUSPENDED"
    BY <1>0, <2>2 DEF CallInv, Underway, TypeInv, ArgumentIsThread
  <2>4. arg[current] # current
    <3>1. arg[current] = current => state[current] = "RUNNING"
      BY <1>0, <2>2, <2>3 DEF CallInv, CurrentRuns, Threads
    <3> QED
      BY <2>3, <3>1
  <2> QED
    BY <1>4, <1>7, <2>2, <2>3, <2>4 DEF ResumeEnqueue
<1>8. CASE SuspendRemove \/ SleepRemove
  <2>1. /\ \E n : ready_list' = RemoveFromList(n, ready_list)
        /\ current' = current /\ mode' = mode
    BY <1>8 DEF SuspendRemove, SleepRemove, Call
  <2> QED
    BY <1>5, <2>1
<1>9. CASE \/ CleanUp \/ Tick \/ TimerTears \/ UNCHANGED vars
           \/ CreateAllocate \/ CreateCount \/ CreateRegister
           \/ ResumeMark \/ SleepUntil
           \/ \E t \in Threads : DeleteThread(t) \/ SuspendThread(t) \/ ResumeThread(t)
           \/ \E time \in SleepTimes : SleepThread(time)
  <2>1. /\ ready_list' = ready_list /\ current' = current
        /\ mode' \in {"running", "exited"} => mode \in {"running", "exited"}
    BY <1>9
    DEF CleanUp, Tick, TimerTears, vars, CreateAllocate, CreateCount, CreateRegister,
        ResumeMark, SleepUntil, DeleteThread, SuspendThread, ResumeThread, SleepThread, Call
  <2> QED
    BY <1>0, <2>1 DEF RunningDequeued
<1> QED
  BY <1>2, <1>3, <1>6, <1>7, <1>8, <1>9 DEF Next, Signal, Continue

(* Execution and waiting together are within the time that has passed, and
   while the process runs within the slices that are over; the handler charges
   the last one to the thread that ran it when it is entered, and to those that
   waited when it has gone through the list. *)
WithinSlices(t) ==
  CASE handler = "no"       -> exec[t] + wait[t] <= start_time + twice[t]
    [] handler = "entered"  -> exec[t] + wait[t] <=
         start_time + twice[t] + (IF t = current THEN time_delta ELSE 0)
    [] handler = "switched" ->
         exec[t] + wait[t] <= start_time + twice[t] + time_delta

ChargedOnce ==
  scheduling_type = RR =>
    \A t \in Threads :
      /\ exec[t] + wait[t] <= clock + twice[t]
      /\ mode = "running" => WithinSlices(t)

LEMMA DispatchChargesOnce ==
  ASSUME ThreadsInv, AccountInv, RunningDequeued, ChargedOnce,
         NEW dispatch, Account(dispatch), Timer \/ YieldCPU, ~interrupted'
  PROVE  ChargedOnce'
<1> DEFINE delta == time_delta
<1>0. /\ TypeInv /\ TypeOK /\ CallInv /\ AccountType /\ Dispatch
      /\ scheduling_type' = scheduling_type
  BY DEF ThreadsInv, TypeInv, AccountInv, Timer, YieldCPU, Dispatch
<1>1. /\ current \in Threads /\ delta \in Nat /\ mode = "running"
      /\ handler = "entered" /\ handler' = "switched"
      /\ start_time + delta <= clock
      /\ \A t \in Threads : wait'[t] = wait[t] + NodesOf(AfterWalk, t) * delta
      /\ \A t \in Threads :
           twice'[t] = IF t = current /\ Due(t) THEN twice[t] + delta ELSE twice[t]
  BY <1>0, ChargeProperties DEF AccountType
<1>2. /\ clock' = clock /\ start_time' = start_time /\ exec' = exec
      /\ time_delta' = time_delta
  BY DEF Account
<1>3. ASSUME scheduling_type = RR, NEW t \in Threads
      PROVE  exec[t] + wait'[t] <= start_time + twice'[t] + delta
  <2>1. /\ pc[current] \in {"idle", "yield"} /\ TypeOK /\ Numbered /\ NoDuplicates
        /\ current # 0
    <3>1. pc[current] \in {"idle", "yield"}
      BY DEF Timer, YieldCPU
    <3> QED
      BY <1>0, <1>1, <3>1 DEF CallInv, Threads
  <2>2. \A x \in Threads : Contains(ready_list, x) => ~Due(x)
    BY <1>0, <2>1 DEF CallInv, ListedReady, Due
  <2>3. /\ ListOf(AfterWalk)
        /\ \A x \in Threads : Contains(AfterWalk, x) =>
             Contains(ready_list, x) \/ Due(x)
    BY <2>1, <2>2, WalkProperties
  <2>4. NodesOf(AfterWalk, t) \in {0, 1}
    BY <2>3, NodesOfProperties DEF ListOf
  <2>5. t = current /\ ~Due(t) => NodesOf(AfterWalk, t) = 0
    <3>1. ~Contains(ready_list, current)
      BY <1>1, <1>3 DEF RunningDequeued
    <3> QED
      BY <1>1, <2>3, <3>1, NodesOfProperties DEF ListOf
  <2>6. exec[t] + wait[t] <= start_time + twice[t] + (IF t = current THEN delta ELSE 0)
    BY <1>1, <1>3 DEF ChargedOnce, WithinSlices
  <2>7. /\ exec[t] \in Nat /\ wait[t] \in Nat /\ twice[t] \in Nat
        /\ start_time \in Nat
    BY <1>0 DEF AccountType
  <2> DEFINE nodes == NodesOf(AfterWalk, t)
             extra == nodes * delta
  <2>8. extra = IF nodes = 0 THEN 0 ELSE delta
    <3> HIDE DEF delta, nodes
    <3>1. nodes \in {0, 1}
      BY <2>4 DEF nodes
    <3> QED
      BY <1>1, <3>1
  <2>9. /\ wait'[t] = wait[t] + extra
        /\ twice'[t] = IF t = current /\ Due(t) THEN twice[t] + delta ELSE twice[t]
    BY <1>1
  <2> HIDE DEF delta, nodes, extra
  <2>10. t = current /\ ~Due(t) => extra = 0
    BY <2>5, <2>8 DEF nodes
  <2>11. extra \in {0, delta}
    BY <2>8
  <2> QED
    BY <1>1, <2>6, <2>7, <2>9, <2>10, <2>11
<1>4. ASSUME scheduling_type = RR, NEW t \in Threads
      PROVE  exec[t] + wait'[t] <= clock + twice'[t]
  <2>1. /\ exec[t] \in Nat /\ twice[t] \in Nat /\ start_time \in Nat
        /\ clock \in Nat /\ wait'[t] \in Nat /\ twice'[t] \in Nat
    BY <1>0, <1>1, ChargeProperties DEF AccountType
  <2> HIDE DEF delta
  <2> QED
    BY <1>1, <1>3, <1>4, <2>1
<1> QED
  BY <1>0, <1>1, <1>2, <1>3, <1>4 DEF ChargedOnce, WithinSlices

LEMMA ChargedOnceStep ==
  ASSUME ThreadsInv, AccountInv, RunningDequeued, ChargedOnce,
         [AccountNext]_<<vars, accounts>>, ~interrupted'
  PROVE  ChargedOnce'
<1>0. /\ TypeInv /\ AccountType /\ [Next]_vars
      /\ scheduling_type' = scheduling_type
  <2>1. TypeInv /\ AccountType /\ [Next]_vars
    BY AccountsWatch DEF ThreadsInv, AccountInv
  <2>2. scheduling_type' = scheduling_type
    BY <2>1
    DEF Next, Signal, Continue, vars, Timer, TimerTears, YieldCPU, Dispatch, Go, CleanUp, Tick, Call,
        CreateAllocate, CreateCount, CreateEnqueue, CreateRegister, SuspendRemove,
        ResumeEnqueue, ResumeMark, SleepUntil, SleepRemove, DeleteThread,
        SuspendThread, ResumeThread, SleepThread
  <2> QED
    BY <2>1, <2>2
<1>1. CASE Account(Timer) \/ Account(YieldCPU)
  <2>1. Timer \/ YieldCPU
    BY <1>1 DEF Account
  <2> QED
    BY <1>1, <2>1, DispatchChargesOnce
<1>2. CASE AccountGo
  <2>1. /\ current = 0 /\ start_time' = clock /\ clock' = clock /\ exec' = exec
        /\ wait' = wait /\ twice' = twice /\ handler' = handler
    BY <1>2 DEF AccountGo, Go, times
  <2>2. handler = "no"
    BY <2>1 DEF AccountInv, Balance
  <2> QED
    BY <1>0, <2>1, <2>2 DEF ChargedOnce, WithinSlices
<1>3. CASE Pass
  <2>1. /\ start_time' = start_time /\ clock' = clock + 1 /\ exec' = exec
        /\ wait' = wait /\ twice' = twice /\ mode' = mode /\ handler' = handler
        /\ time_delta' = time_delta /\ current' = current
    BY <1>3 DEF Pass, times
  <2>2. \A t \in Threads : WithinSlices(t)' = WithinSlices(t)
    BY <2>1 DEF WithinSlices
  <2>3. ASSUME scheduling_type = RR, NEW t \in Threads
        PROVE  exec'[t] + wait'[t] <= clock' + twice'[t]
    BY <1>0, <2>1, <2>3 DEF ChargedOnce, AccountType
  <2> QED
    BY <1>0, <2>1, <2>2, <2>3 DEF ChargedOnce
<1>4. CASE \/ AccountCreate \/ AccountSleep \/ Unaccounted \/ AccountTears
           \/ UNCHANGED <<vars, accounts>>
  <2>1. /\ start_time' = start_time /\ clock' = clock /\ exec' = exec
        /\ wait' = wait /\ twice' = twice /\ handler' = handler
        /\ time_delta' = time_delta
    BY <1>4
    DEF AccountCreate, AccountSleep, Unaccounted, AccountTears, accounts, times, ghosts
  <2>2. current' = current /\ (mode' = "running" => mode = "running")
    BY <1>4
    DEF AccountCreate, AccountSleep, Unaccounted, AccountTears, TimerTears, SleepUntil,
        CleanUp, CreateAllocate, CreateCount, CreateEnqueue, CreateRegister,
        SuspendRemove, ResumeEnqueue, ResumeMark, SleepRemove, DeleteThread,
        SuspendThread, ResumeThread, SleepThread, Call, vars
  <2>3. \A t \in Threads : WithinSlices(t)' = WithinSlices(t)
    BY <2>1, <2>2 DEF WithinSlices
  <2> QED
    BY <1>0, <2>1, <2>2, <2>3 DEF ChargedOnce
<1>5. CASE HandlerEntered
  <2>1. /\ current \in Threads /\ handler = "no" /\ handler' = "entered"
        /\ mode = "running"
        /\ time_delta' \in Nat /\ time_delta' = clock - start_time
        /\ \A t \in Threads :
             exec'[t] = IF t = current THEN exec[t] + time_delta' ELSE exec[t]
    BY <1>0, <1>5, EnteredProperties
  <2>2. /\ start_time' = start_time /\ clock' = clock /\ wait' = wait
        /\ twice' = twice /\ current' = current
    BY <1>5 DEF HandlerEntered, vars
  <2>3. ASSUME scheduling_type = RR, NEW t \in Threads
        PROVE  /\ exec'[t] + wait[t] <= clock + twice[t]
               /\ exec'[t] + wait[t] <= start_time + twice[t]
                    + (IF t = current THEN time_delta' ELSE 0)
    <3>1. exec[t] + wait[t] <= start_time + twice[t]
      BY <2>1, <2>3 DEF ChargedOnce, WithinSlices
    <3>2. /\ exec[t] \in Nat /\ wait[t] \in Nat /\ twice[t] \in Nat
          /\ start_time \in Nat /\ clock \in Nat /\ start_time <= clock
      BY <1>0 DEF AccountType
    <3> QED
      BY <2>1, <3>1, <3>2
  <2> QED
    BY <1>0, <2>1, <2>2, <2>3 DEF ChargedOnce, WithinSlices
<1>6. CASE HandlerLeft
  <2>1. /\ mode = "running" /\ handler' = "no" /\ start_time' = clock
        /\ clock' = clock /\ exec' = exec /\ wait' = wait /\ twice' = twice
    BY <1>6 DEF HandlerLeft, times, ghosts
  <2> QED
    BY <1>0, <2>1 DEF ChargedOnce, WithinSlices
<1> QED
  BY <1>1, <1>2, <1>3, <1>4, <1>5, <1>6 DEF AccountNext

(* In round robin, as long as SIGVTALRM arrives between calls only, no time is
   charged to a thread as execution and as waiting, nor as waiting twice, except
   by the dispatch of a thread that wakes itself. *)
THEOREM ChargedOnlyOnce == AccountSpec => []NeverChargedTwice
<1> DEFINE Inv == ~interrupted => RunningDequeued /\ ChargedOnce
<1>1. AccountInit => Inv
  <2> SUFFICES ASSUME AccountInit PROVE RunningDequeued /\ ChargedOnce
    OBVIOUS
  <2>1. /\ ready_list = <<>> /\ clock = 0 /\ start_time = 0 /\ handler = "no"
        /\ \A t \in Threads : exec[t] = 0 /\ wait[t] = 0 /\ twice[t] = 0
    BY DEF AccountInit, Init
  <2>2. \A x : ~Contains(<<>>, x)
    BY DEF Contains
  <2> QED
    BY <2>1, <2>2 DEF RunningDequeued, ChargedOnce, WithinSlices
<1>2. /\ TypeInv /\ (~interrupted => ThreadsInv) /\ AccountInv
      /\ Inv /\ [AccountNext]_<<vars, accounts>>
      => Inv'
  BY AccountsWatch, InterruptedStays, DequeuedStep, ChargedOnceStep
<1>3. Inv => NeverChargedTwice
  BY DEF ChargedOnce, NeverChargedTwice
<1>4. AccountSpec => [](~interrupted => ThreadsInv)
  BY AccountingImplementsThreads, ThreadsInvariance, PTL
<1> HIDE DEF Inv
<1> QED
  BY <1>1, <1>2, <1>3, <1>4, AccountInvariance, AccountTypes, PTL DEF AccountSpec

-----------------------------------------------------------------------------
(***************************************************************************)
(*                            TEST PROGRAMS                                *)
(*                                                                         *)
(* They call the package as its clients may, and a thread they delete      *)
(* stays deleted, wherever the timer fires.  As long as it does not cut a  *)
(* list operation in two, they lose at most the one thread they take off   *)
(* the ready list themselves.                                              *)
(***************************************************************************)
-----------------------------------------------------------------------------
(***************************************************************************)
(* The programs are clients of the package.                                *)
(***************************************************************************)
(* GetThread finds threads only. *)
LEMMA FoundIsThread ==
  ASSUME TypeOK, NEW t, IsThread(t)
  PROVE  t \in Threads /\ Contains(thread_list, t)
<1>1. thread_list \in Seq(Threads)
  BY DEF TypeOK
<1>2. Contains(thread_list, t)
  BY <1>1, ContainsElement DEF IsThread
<1> QED
  BY <1>1, <1>2, ElementsAreThreads

LEMMA TestStepIsStep ==
  ASSUME TypeOK, [TestNext]_testVars
  PROVE  [Next]_vars
<1>1. ASSUME NEW t, DeleteThread(t) \/ SuspendThread(t) \/ ResumeThread(t)
      PROVE  Next
  <2>1. t \in Threads
    BY <1>1, FoundIsThread DEF DeleteThread, SuspendThread, ResumeThread
  <2> QED
    BY <1>1, <2>1 DEF Next
<1>2. CASE MainCreates \/ MainGoes \/ Package
  BY <1>2 DEF MainCreates, MainGoes, Package, Next
<1>3. CASE simple_thread \/ sleep_test
  BY <1>3 DEF simple_thread, sleep_test, Next
<1>4. CASE delete_test \/ delete_other_test \/ suspend_test
  BY <1>1, <1>4 DEF delete_test, delete_other_test, suspend_test
<1>5. CASE UNCHANGED testVars
  BY <1>5 DEF testVars
<1> QED
  BY <1>2, <1>3, <1>4, <1>5 DEF TestNext

(* Every behaviour of a test program is one of the package, so what holds of
   the package whatever its clients do holds of them. *)
THEOREM ProgramsAreClients == TestSpec => Spec
<1>1. TestInit => Init /\ TypeInv
  BY TypeInit DEF TestInit
<1>2. TypeInv /\ [TestNext]_testVars => [Next]_vars
  BY TestStepIsStep DEF TypeInv
<1>3. TypeInv /\ [TestNext]_testVars => TypeInv'
  BY <1>2, TypeStep
<1> QED
  BY <1>1, <1>2, <1>3, PTL DEF TestSpec, Spec

-----------------------------------------------------------------------------
(***************************************************************************)
(* What the programs keep true.                                            *)
(***************************************************************************)
(* The threads that are taken off the ready list by a call. *)
Removable(t) == (program = 3 /\ t = 1) \/ (program = 4 /\ t = 3)

(* main() is the only one to create, and only before Go; the threads make the
   calls of their functions. *)
Calling ==
  /\ pc[0] \in {"idle", "create1", "create2", "create3"}
  /\ pc[0] # "idle" => current = 0 /\ allocated # 0 /\ arg[0] = allocated
  /\ \A t \in Threads :
       /\ pc[t] \in {"idle", "yield", "suspend", "resume1", "resume2",
                     "sleep1", "sleep2"}
       /\ pc[t] \in {"suspend", "resume1", "resume2"} =>
            program = 3 /\ arg[t] = 1
       /\ pc[t] \in {"sleep1", "sleep2"} => program = 4 /\ t = 3

(* The threads that exist are numbered in the order of main()'s list, and only
   they are in the lists. *)
Created ==
  /\ program \in 1..4 /\ allocated <= Len(Functions) /\ current <= allocated
  /\ next_thread = IF pc[0] = "create1" THEN allocated - 1 ELSE allocated
  /\ \A t \in 1..allocated : id[t] = t - 1
  /\ \A t \in Threads :
       t > allocated \/ (t = allocated /\ pc[0] = "create1") => state[t] = "NONE"
  /\ \A t \in Threads : Contains(thread_list, t) => t <= allocated
  /\ \A t \in Threads : Contains(ready_list, t) =>
       t <= allocated /\ (pc[0] \in {"create1", "create2"} => t < allocated)

(* A thread that no call takes off the ready list is there whenever it can be
   picked, also when the timer fires between two writes of a call. *)
Kept ==
  \A t \in Threads : ~Removable(t) =>
    /\ state[t] = "READY" =>
         Contains(ready_list, t) \/ (pc[0] = "create2" /\ t = allocated)
    /\ state[t] = "RUNNING" /\ scheduling_type # RR => Contains(ready_list, t)

(* Only thread 2 of TestFile1 is ever deleted.  Nobody in that program has two
   nodes in the ready list, so the one that Dispatch takes out is the last. *)
Deleted ==
  /\ \A t \in Threads : state[t] = "FINISHED" =>
       program = 1 /\ t = 2 /\ current # 0 /\ Contains(thread_list, t)
  /\ program = 1 =>
       /\ Once(ready_list)
       /\ \A t \in Threads : state[t] \notin {"SLEEPING", "SUSPENDED"}
       /\ scheduling_type = RR /\ current # 0 /\ state[current] = "RUNNING" =>
            ~Contains(ready_list, current)

TestInv == Calling /\ Created /\ Kept /\ Deleted

-----------------------------------------------------------------------------
(***************************************************************************)
(* Facts about the programs and the lists.                                 *)
(***************************************************************************)
(* Which function thread t of a program runs. *)
LEMMA FunctionsOfPrograms ==
  ASSUME program \in 1..4, NEW t \in 1..Len(Functions)
  PROVE  /\ Functions[t] = "delete_test" => program = 1 /\ t = 2
         /\ Functions[t] = "delete_other_test" => program = 1
         /\ Functions[t] = "suspend_test" => program = 3
         /\ Functions[t] = "sleep_test" => program = 4 /\ t = 3
<1>1. CASE program = 1
  <2>1. Functions = TestFile1
    BY <1>1 DEF Functions
  <2> QED
    BY <1>1, <2>1 DEF TestFile1
<1>2. CASE program = 2
  <2>1. Functions = TestFile2
    BY <1>2 DEF Functions
  <2> QED
    BY <1>2, <2>1 DEF TestFile2
<1>3. CASE program = 3
  <2>1. Functions = TestFile3
    BY <1>3 DEF Functions
  <2> QED
    BY <1>3, <2>1 DEF TestFile3
<1>4. CASE program = 4
  <2>1. Functions = TestFile4
    BY <1>4 DEF Functions
  <2> QED
    BY <1>4, <2>1 DEF TestFile4
<1> QED
  BY <1>1, <1>2, <1>3, <1>4

LEMMA FunctionsLength == ASSUME program \in 1..4 PROVE Len(Functions) \in Nat
<1>1. \/ Functions = TestFile1 \/ Functions = TestFile2
      \/ Functions = TestFile3 \/ Functions = TestFile4
  BY DEF Functions
<1> QED
  BY <1>1 DEF TestFile1, TestFile2, TestFile3, TestFile4

(* A turn of the running thread is one of a thread that main() created. *)
LEMMA TurnOf ==
  ASSUME TypeOK, Created, NEW f, NEW n, Turn(f, n)
  PROVE  /\ current \in Threads /\ current # 0
         /\ f = "delete_test" => program = 1 /\ current = 2
         /\ f = "delete_other_test" => program = 1
         /\ f = "suspend_test" => program = 3
         /\ f = "sleep_test" => program = 4 /\ current = 3
         /\ program' = program
<1>1. /\ current # 0 /\ Functions[current] = f /\ program' = program
      /\ current \in 0..MaxObjects /\ MaxObjects \in Nat /\ allocated \in Nat
      /\ program \in 1..4 /\ allocated <= Len(Functions)
      /\ current <= allocated
  BY BoundsAssumption DEF Turn, TypeOK, Created
<1>2. Len(Functions) \in Nat
  BY <1>1, FunctionsLength
<1>3. current \in 1..Len(Functions) /\ current \in Threads
  BY <1>1, <1>2 DEF Threads
<1> QED
  BY <1>1, <1>3, FunctionsOfPrograms

LEMMA CreatedIds ==
  ASSUME TypeOK, Created,
         NEW x \in Threads, NEW y \in Threads, x <= allocated, y <= allocated,
         id[x] = id[y]
  PROVE  x = y
<1>1. /\ x \in 1..allocated /\ y \in 1..allocated
      /\ x \in Int /\ y \in Int
  BY DEF TypeOK, Threads
<1>2. id[x] = x - 1 /\ id[y] = y - 1
  BY <1>1 DEF Created
<1>3. x - 1 = y - 1
  BY <1>2
<1> QED
  BY <1>1, <1>3

(* RemoveFromList takes out a node of the thread it is called for, and of
   nobody else. *)
LEMMA RemoveCreated ==
  ASSUME TypeOK, Created, NEW q \in Seq(Threads), NEW t \in Threads,
         t <= allocated, \A x \in Threads : Contains(q, x) => x <= allocated
  PROVE  /\ RemoveFromList(id[t], q) \in Seq(Threads)
         /\ \A x : Contains(RemoveFromList(id[t], q), x) => Contains(q, x)
         /\ \A x : Contains(q, x) /\ x # t => Contains(RemoveFromList(id[t], q), x)
         /\ Once(q) => /\ Once(RemoveFromList(id[t], q))
                       /\ ~Contains(RemoveFromList(id[t], q), t)
<1> DEFINE rest == RemoveFromList(id[t], q)
<1>1. /\ rest \in Seq(Threads)
      /\ \A x : id[x] # id[t] => (Contains(rest, x) <=> Contains(q, x))
      /\ \A x : Contains(rest, x) => Contains(q, x)
      /\ Once(q) => Once(rest)
  BY RemoveFromListProperties
<1>2. \/ rest = q /\ \A k \in DOMAIN q : id[q[k]] # id[t]
      \/ \E k \in DOMAIN q : id[q[k]] = id[t] /\ rest = RemoveAt(q, k)
  BY RemoveFromListCases
<1> HIDE DEF rest
<1>3. ASSUME NEW x, Contains(q, x), x # t PROVE Contains(rest, x)
  <2>1. x \in Threads /\ x <= allocated
    BY <1>3, ElementsAreThreads
  <2>2. id[x] # id[t]
    BY <1>3, <2>1, CreatedIds
  <2> QED
    BY <1>1, <1>3, <2>2
<1>4. ASSUME Once(q) PROVE ~Contains(rest, t)
  <2>1. CASE rest = q /\ \A k \in DOMAIN q : id[q[k]] # id[t]
    BY <2>1, ContainsElement
  <2>2. ASSUME NEW k \in DOMAIN q, id[q[k]] = id[t], rest = RemoveAt(q, k)
        PROVE  ~Contains(rest, t)
    <3>1. Contains(q, q[k])
      BY ContainsElement
    <3>2. q[k] = t
      BY <2>2, <3>1, CreatedIds, ElementsAreThreads
    <3> QED
      BY <1>4, <2>2, <3>2, RemoveProperties
  <2> QED
    BY <1>2, <2>1, <2>2
<1> QED
  BY <1>1, <1>3, <1>4 DEF rest

(* The thread picked is put back by the lottery, stays in first come first
   served, and leaves the list in round robin; the others stay. *)
LEMMA PickKeeps ==
  ASSUME TypeOK, NEW q \in Seq(Threads), NEW k \in Candidates(q)
  PROVE  /\ AfterPick(q, k) \in Seq(Threads)
         /\ q[k] \in Threads /\ Contains(q, q[k])
         /\ \A x : Contains(AfterPick(q, k), x) => Contains(q, x)
         /\ \A x : Contains(q, x) /\ x # q[k] => Contains(AfterPick(q, k), x)
         /\ scheduling_type # RR => Contains(AfterPick(q, k), q[k])
         /\ Once(q) => /\ Once(AfterPick(q, k))
                       /\ scheduling_type = RR => ~Contains(AfterPick(q, k), q[k])
<1> DEFINE new == AfterPick(q, k)
           rest == RemoveAt(q, k)
<1>1. k \in DOMAIN q /\ q[k] \in Threads /\ new \in Seq(Threads)
  BY PickProperties
<1>2. Contains(q, q[k])
  BY <1>1, ContainsElement
<1>3. /\ rest \in Seq(Threads)
      /\ \A x : x # q[k] => (Contains(rest, x) <=> Contains(q, x))
      /\ \A x : Contains(rest, x) => Contains(q, x)
      /\ Once(q) => Once(rest) /\ ~Contains(rest, q[k])
  BY <1>1, RemoveProperties
<1>4. CASE scheduling_type = RR
  <2>1. k = 1 /\ q # <<>>
    <3>1. DOMAIN q = 1..Len(q) /\ Len(q) \in Nat
      BY LenProperties
    <3> QED
      BY <1>1, <1>4, <3>1 DEF Candidates, RR, LOT
  <2>2. new = rest
    BY <1>4, <2>1, DequeueRemovesFirst DEF AfterPick, RR, LOT, FCFS
  <2> HIDE DEF new, rest
  <2> QED
    BY <1>1, <1>2, <1>3, <1>4, <2>2 DEF new
<1>5. CASE scheduling_type = LOT
  <2>1. new = thread_enqueue(q[k], rest)
    BY <1>5 DEF AfterPick, RR, LOT, FCFS
  <2> HIDE DEF new, rest
  <2>2. \A x : Contains(new, x) <=> Contains(rest, x) \/ x = q[k]
    BY <1>1, <1>3, <2>1, EnqueueProperties
  <2>3. Once(q) => Once(new)
    BY <1>1, <1>3, <2>1, EnqueueOnce
  <2> QED
    BY <1>1, <1>2, <1>3, <1>5, <2>2, <2>3 DEF new, RR, LOT
<1>6. CASE scheduling_type = FCFS
  <2>1. new = q
    BY <1>6 DEF AfterPick, RR, LOT, FCFS
  <2> HIDE DEF new
  <2> QED
    BY <1>1, <1>2, <1>6, <2>1 DEF new, RR, FCFS
<1> QED
  BY <1>4, <1>5, <1>6 DEF TypeOK

-----------------------------------------------------------------------------
(***************************************************************************)
(* Dispatch, at any moment.                                                *)
(***************************************************************************)
(* What the first k steps of the walk may have made of the ready list. *)
WalkedTo(k) ==
  {q \in Seq(Threads) :
     /\ \A x \in Threads : Contains(q, x) => x <= allocated
     /\ \A x \in Threads :
          Contains(ready_list, x) /\ state[x] # "FINISHED" => Contains(q, x)
     /\ \A j \in 1..k : Due(thread_list[j]) => Contains(q, thread_list[j])
     /\ program = 1 =>
          /\ Once(q)
          /\ \A x : Contains(q, x) => Contains(ready_list, x)
          /\ \A j \in 1..k :
               state[thread_list[j]] = "FINISHED" => ~Contains(q, thread_list[j])}

LEMMA WalkStepTo ==
  ASSUME TypeOK, Created, Deleted,
         NEW k \in 1..Len(thread_list), NEW q \in WalkedTo(k - 1)
  PROVE  WalkStep(k, q) \in WalkedTo(k)
<1> DEFINE t == thread_list[k]
<1>1. /\ thread_list \in Seq(Threads) /\ Len(thread_list) \in Nat
      /\ DOMAIN thread_list = 1..Len(thread_list)
  BY LenProperties DEF TypeOK
<1>2. t \in Threads /\ t <= allocated
  <2>1. t \in Threads /\ Contains(thread_list, t)
    BY <1>1, ElementOfSeq, ContainsElement
  <2> QED
    BY <2>1 DEF Created
<1>3. \A j \in 1..k : j \in 1..(k - 1) \/ j = k
  BY <1>1
<1>4. /\ q \in Seq(Threads)
      /\ \A x \in Threads : Contains(q, x) => x <= allocated
      /\ \A x \in Threads :
           Contains(ready_list, x) /\ state[x] # "FINISHED" => Contains(q, x)
      /\ \A j \in 1..(k - 1) : Due(thread_list[j]) => Contains(q, thread_list[j])
  BY DEF WalkedTo
<1>5. ASSUME program = 1
      PROVE  /\ Once(q) /\ ~Due(t)
             /\ \A x : Contains(q, x) => Contains(ready_list, x)
             /\ \A j \in 1..(k - 1) :
                  state[thread_list[j]] = "FINISHED" => ~Contains(q, thread_list[j])
  <2>1. ~Due(t)
    BY <1>2, <1>5 DEF Deleted, Due
  <2> QED
    BY <1>5, <2>1 DEF WalkedTo
<1>6. CASE Due(t)
  <2> DEFINE new == thread_enqueue(t, q)
  <2>1. new \in Seq(Threads) /\ \A x : Contains(new, x) <=> Contains(q, x) \/ x = t
    BY <1>2, <1>4, EnqueueProperties
  <2>2. WalkStep(k, q) = new
    BY <1>6 DEF WalkStep
  <2> HIDE DEF new, t
  <2>3. \A j \in 1..k : Due(thread_list[j]) => Contains(new, thread_list[j])
    BY <1>3, <1>4, <2>1 DEF t
  <2>4. /\ \A x \in Threads : Contains(new, x) => x <= allocated
        /\ \A x \in Threads :
             Contains(ready_list, x) /\ state[x] # "FINISHED" => Contains(new, x)
    BY <1>2, <1>4, <2>1
  <2> QED
    BY <1>5, <1>6, <2>1, <2>2, <2>3, <2>4 DEF WalkedTo
<1>7. CASE ~Due(t) /\ state[t] = "FINISHED"
  <2> DEFINE new == RemoveFromList(id[t], q)
  <2>1. /\ new \in Seq(Threads)
        /\ \A x : Contains(new, x) => Contains(q, x)
        /\ \A x : Contains(q, x) /\ x # t => Contains(new, x)
        /\ Once(q) => Once(new) /\ ~Contains(new, t)
    BY <1>2, <1>4, RemoveCreated
  <2>2. WalkStep(k, q) = new
    BY <1>7 DEF WalkStep
  <2>3. \A j \in 1..k : Due(thread_list[j]) => thread_list[j] # t
    BY <1>7
  <2> HIDE DEF new, t
  <2>4. \A j \in 1..k : Due(thread_list[j]) => Contains(new, thread_list[j])
    BY <1>3, <1>4, <2>1, <2>3 DEF t
  <2>5. /\ \A x \in Threads : Contains(new, x) => x <= allocated
        /\ \A x \in Threads :
             Contains(ready_list, x) /\ state[x] # "FINISHED" => Contains(new, x)
    BY <1>4, <1>7, <2>1
  <2>6. ASSUME program = 1
        PROVE  /\ Once(new)
               /\ \A x : Contains(new, x) => Contains(ready_list, x)
               /\ \A j \in 1..k : state[thread_list[j]] = "FINISHED" =>
                                    ~Contains(new, thread_list[j])
    BY <1>3, <1>5, <2>1, <2>6 DEF t
  <2> QED
    BY <2>1, <2>2, <2>4, <2>5, <2>6 DEF WalkedTo
<1>8. CASE ~Due(t) /\ state[t] # "FINISHED"
  <2>1. WalkStep(k, q) = q
    BY <1>8 DEF WalkStep
  <2> HIDE DEF t
  <2>2. \A j \in 1..k : Due(thread_list[j]) => Contains(q, thread_list[j])
    BY <1>3, <1>4, <1>8 DEF t
  <2>3. ASSUME program = 1
        PROVE  \A j \in 1..k :
                 state[thread_list[j]] = "FINISHED" => ~Contains(q, thread_list[j])
    BY <1>3, <1>5, <1>8, <2>3 DEF t
  <2> QED
    BY <1>4, <1>5, <2>1, <2>2, <2>3 DEF WalkedTo
<1> QED
  BY <1>6, <1>7, <1>8

LEMMA WalkKeeps ==
  ASSUME TypeOK, Created, Deleted
  PROVE  /\ AfterWalk \in Seq(Threads)
         /\ \A x \in Threads : Contains(AfterWalk, x) => x <= allocated
         /\ \A x \in Threads :
              \/ Contains(ready_list, x) /\ state[x] # "FINISHED"
              \/ Due(x) /\ Contains(thread_list, x)
              => Contains(AfterWalk, x)
         /\ program = 1 =>
              /\ Once(AfterWalk)
              /\ \A x \in Threads : Contains(AfterWalk, x) =>
                   Contains(ready_list, x) /\ state[x] # "FINISHED"
<1> DEFINE n == Len(thread_list)
           P == [k \in 0..n |-> WalkedTo(k)]
<1>1. /\ thread_list \in Seq(Threads) /\ ready_list \in Seq(Threads)
      /\ n \in Nat /\ DOMAIN thread_list = 1..n
  BY LenProperties DEF TypeOK
<1>2. ready_list \in WalkedTo(0)
  <2>1. \A x \in Threads : Contains(ready_list, x) => x <= allocated
    BY DEF Created
  <2>2. program = 1 => Once(ready_list)
    BY DEF Deleted
  <2>3. 1..0 = {}
    OBVIOUS
  <2> QED
    BY <1>1, <2>1, <2>2, <2>3 DEF WalkedTo
<1>3. \A k \in 0..n : WalkedTo(k) \in SUBSET Seq(Threads)
  BY DEF WalkedTo
<1>4. /\ P \in [0..n -> SUBSET Seq(Threads)] /\ ready_list \in P[0]
      /\ \A k \in 1..n : \A q \in P[k - 1] : WalkStep(k, q) \in P[k]
  <2>1. \A k \in 1..n : k \in 0..n /\ k - 1 \in 0..n
    BY <1>1
  <2>2. P[0] = WalkedTo(0) /\ \A k \in 1..n : P[k] = WalkedTo(k) /\ P[k - 1] = WalkedTo(k - 1)
    BY <1>1, <2>1
  <2>3. P \in [0..n -> SUBSET Seq(Threads)]
    BY <1>3
  <2> HIDE DEF P
  <2> QED
    BY <1>2, <2>2, <2>3, WalkStepTo
<1>5. P[n] = WalkedTo(n)
  BY <1>1
<1> HIDE DEF P
<1>6. AfterWalk \in WalkedTo(n)
  BY <1>1, <1>4, <1>5, WalkInduction
<1>7. \A x : Contains(thread_list, x) <=> \E j \in 1..n : thread_list[j] = x
  BY <1>1, ContainsElement
<1>8. \A x \in Threads : state[x] = "FINISHED" => Contains(thread_list, x)
  BY DEF Deleted
<1> HIDE DEF n
<1>9. ASSUME program = 1
      PROVE  /\ Once(AfterWalk)
             /\ \A x \in Threads : Contains(AfterWalk, x) =>
                  Contains(ready_list, x) /\ state[x] # "FINISHED"
  BY <1>6, <1>7, <1>8, <1>9 DEF WalkedTo
<1> QED
  BY <1>6, <1>7, <1>9 DEF WalkedTo

(* A list and states that scheduler() may be called with. *)
Schedulable(q, states) ==
  /\ q \in Seq(Threads) /\ states \in [Threads -> States]
  /\ \A x \in Threads : Contains(q, x) => x <= allocated
  /\ \A x \in Threads : ~Removable(x) /\ states[x] \in {"READY", "RUNNING"} =>
       Contains(q, x) \/ (states[x] = "RUNNING" /\ scheduling_type = RR)
  /\ \A x \in Threads : x > allocated => states[x] = "NONE"
  /\ \A x \in Threads : states[x] = "FINISHED" =>
       program = 1 /\ x = 2 /\ Contains(thread_list, x)
  /\ program = 1 =>
       /\ Once(q)
       /\ \A x \in Threads : states[x] \notin {"SLEEPING", "SUSPENDED"}
       /\ \A x \in Threads : states[x] = "FINISHED" => ~Contains(q, x)
       /\ current # 0 => states[current] # "RUNNING"
       /\ current = 0 => \A x \in Threads : states[x] # "FINISHED"

(* Whichever thread it picks, or if it finds none. *)
LEMMA SwitchKeeps ==
  ASSUME TypeInv, TestInv, pc[0] = "idle", NEW q, NEW states,
         Schedulable(q, states), Switch(q, states),
         program' = program, scheduling_type' = scheduling_type,
         thread_list' = thread_list, id' = id, next_thread' = next_thread,
         allocated' = allocated, arg' = arg, pc'[0] = "idle",
         \A t \in Threads : pc'[t] = pc[t] \/ pc'[t] = "idle"
  PROVE  /\ TestInv'
         /\ \A t \in Threads : states[t] = "FINISHED" => state'[t] = "FINISHED"
<1>1. /\ TypeOK /\ Calling /\ Created /\ Kept /\ Deleted
      /\ q \in Seq(Threads) /\ states \in [Threads -> States]
      /\ allocated \in Nat /\ current \in Nat
  BY DEF TypeInv, TestInv, Schedulable, TypeOK
<1>2. Calling'
  BY <1>1 DEF Calling
<1>3. ASSUME NEW k \in Candidates(q), current' = q[k],
             ready_list' = AfterPick(q, k),
             state' = [states EXCEPT ![q[k]] = "RUNNING"]
      PROVE  /\ TestInv'
             /\ \A t \in Threads : states[t] = "FINISHED" => state'[t] = "FINISHED"
  <2> DEFINE c == q[k]
  <2>1. /\ c \in Threads /\ Contains(q, c) /\ current' = c
        /\ \A x : Contains(ready_list', x) => Contains(q, x)
        /\ \A x : Contains(q, x) /\ x # c => Contains(ready_list', x)
        /\ scheduling_type # RR => Contains(ready_list', c)
        /\ Once(q) => /\ Once(ready_list')
                      /\ scheduling_type = RR => ~Contains(ready_list', c)
    BY <1>1, <1>3, PickKeeps
  <2>2. c # 0 /\ c <= allocated
    BY <2>1 DEF Schedulable, Threads
  <2>3. \A x \in Threads : state'[x] = IF x = c THEN "RUNNING" ELSE states[x]
    BY <1>1, <1>3
  <2> HIDE DEF c
  <2>4. Created'
    <3>1. \A x \in Threads : x > allocated => state'[x] = "NONE"
      <4>1. \A x \in Threads : x > allocated => x # c
        BY <1>1, <2>1, <2>2 DEF Threads
      <4> QED
        BY <2>3, <4>1 DEF Schedulable
    <3>2. \A x \in Threads : Contains(ready_list', x) => x <= allocated
      BY <2>1 DEF Schedulable
    <3>3. Functions' = Functions
      BY DEF Functions, TestFile1, TestFile2, TestFile3, TestFile4
    <3> QED
      BY <1>1, <2>1, <2>2, <3>1, <3>2, <3>3 DEF Created
  <2>5. Kept'
    <3>1. ASSUME NEW x \in Threads, ~Removable(x)
          PROVE  /\ state'[x] = "READY" => Contains(ready_list', x)
                 /\ state'[x] = "RUNNING" /\ scheduling_type # RR =>
                      Contains(ready_list', x)
      BY <2>1, <2>3, <3>1 DEF Schedulable
    <3> QED
      BY <3>1 DEF Kept, Removable
  <2>6. \A x \in Threads : state'[x] = "FINISHED" <=> states[x] = "FINISHED"
    BY <2>1, <2>3 DEF Schedulable
  <2>7. Deleted'
    BY <2>1, <2>2, <2>3, <2>6 DEF Deleted, Schedulable
  <2> QED
    BY <1>2, <2>4, <2>5, <2>6, <2>7 DEF TestInv
<1>4. CASE ready_list' = q /\ state' = states /\ current' = current
  <2>1. Functions' = Functions
    BY DEF Functions, TestFile1, TestFile2, TestFile3, TestFile4
  <2>2. Created'
    BY <1>1, <1>4, <2>1 DEF Created, Schedulable
  <2>3. Kept'
    BY <1>4 DEF Kept, Removable, Schedulable
  <2>4. Deleted'
    BY <1>1, <1>4 DEF Deleted, Schedulable
  <2> QED
    BY <1>2, <1>4, <2>2, <2>3, <2>4 DEF TestInv
<1> QED
  BY <1>3, <1>4 DEF Switch

(* The process may also die for want of a thread: then nothing changes. *)
LEMMA DispatchKeeps ==
  ASSUME TypeInv, AtMostOneRunning, TestInv, Dispatch, program' = program,
         \/ pc' = pc
         \/ pc' = [pc EXCEPT ![current] = "idle"]
  PROVE  /\ TestInv'
         /\ \A t \in Threads : state[t] = "FINISHED" => state'[t] = "FINISHED"
<1>1. /\ TypeOK /\ Calling /\ Created /\ Kept /\ Deleted
      /\ current \in Threads /\ current # 0 /\ current <= allocated
      /\ state \in [Threads -> States] /\ allocated \in Nat
      /\ Requeued \in Seq(Threads)
  BY WalkType DEF TypeInv, TestInv, TypeOK, Dispatch, Created
<1>2. pc[0] = "idle"
  BY <1>1 DEF Calling
<1>3. /\ AfterWalk \in Seq(Threads)
      /\ \A x \in Threads : Contains(AfterWalk, x) => x <= allocated
      /\ \A x \in Threads :
           \/ Contains(ready_list, x) /\ state[x] # "FINISHED"
           \/ Due(x) /\ Contains(thread_list, x)
           => Contains(AfterWalk, x)
      /\ program = 1 =>
           /\ Once(AfterWalk)
           /\ \A x \in Threads : Contains(AfterWalk, x) =>
                Contains(ready_list, x) /\ state[x] # "FINISHED"
  BY <1>1, WalkKeeps
<1>4. /\ \A x : Contains(AfterWalk, x) => Contains(Requeued, x)
      /\ \A x : Contains(Requeued, x) =>
           \/ Contains(AfterWalk, x)
           \/ x = current /\ state[current] = "RUNNING"
      /\ state[current] = "RUNNING" /\ scheduling_type = RR =>
           Contains(Requeued, current)
  BY <1>1, <1>3, EnqueueProperties DEF Requeued
<1>5. \A x \in Threads :
        StateAfterWalk[x] = IF \/ Due(x) /\ Contains(thread_list, x)
                               \/ x = current /\ state[x] = "RUNNING"
                            THEN "READY" ELSE state[x]
  BY DEF StateAfterWalk
<1>6. StateAfterWalk \in [Threads -> States]
  BY <1>1 DEF StateAfterWalk, States
<1>7. program = 1 => Once(Requeued)
  <2> SUFFICES ASSUME program = 1 PROVE Once(Requeued)
    OBVIOUS
  <2>1. CASE state[current] = "RUNNING" /\ scheduling_type = RR
    <3>1. ~Contains(AfterWalk, current)
      BY <1>1, <1>3, <2>1 DEF Deleted
    <3> QED
      BY <1>1, <1>3, <2>1, <3>1, EnqueueOnce DEF Requeued
  <2>2. CASE ~(state[current] = "RUNNING" /\ scheduling_type = RR)
    BY <1>3, <2>2 DEF Requeued
  <2> QED
    BY <2>1, <2>2
<1>8. \A x \in Threads : StateAfterWalk[x] = "FINISHED" <=> state[x] = "FINISHED"
  BY <1>5 DEF Due
<1>9. ASSUME NEW x \in Threads, ~Removable(x),
             StateAfterWalk[x] \in {"READY", "RUNNING"}
      PROVE  \/ Contains(Requeued, x)
             \/ StateAfterWalk[x] = "RUNNING" /\ scheduling_type = RR
  <2>1. CASE Due(x) /\ Contains(thread_list, x)
    BY <1>3, <1>4, <2>1
  <2>2. CASE state[x] = "READY"
    <3>1. Contains(ready_list, x)
      BY <1>1, <1>2, <1>9, <2>2 DEF Kept
    <3> QED
      BY <1>3, <1>4, <2>2, <3>1
  <2>3. CASE state[x] = "RUNNING"
    <3>1. x = current
      BY <2>3 DEF AtMostOneRunning
    <3>2. CASE scheduling_type = RR
      BY <1>4, <2>3, <3>1, <3>2
    <3>3. CASE scheduling_type # RR
      <4>1. Contains(ready_list, x)
        BY <1>1, <1>9, <2>3, <3>3 DEF Kept
      <4> QED
        BY <1>3, <1>4, <2>3, <4>1
    <3> QED
      BY <3>2, <3>3
  <2> QED
    BY <1>5, <1>9, <2>1, <2>2, <2>3
<1>10. Schedulable(Requeued, StateAfterWalk)
  <2>1. \A x \in Threads : Contains(Requeued, x) => x <= allocated
    BY <1>1, <1>3, <1>4
  <2>2. \A x \in Threads : x > allocated => StateAfterWalk[x] = "NONE"
    <3>1. ASSUME NEW x \in Threads, x > allocated PROVE StateAfterWalk[x] = "NONE"
      <4>1. state[x] = "NONE"
        BY <1>1, <3>1 DEF Created
      <4> QED
        BY <1>5, <4>1 DEF Due
    <3> QED
      BY <3>1
  <2>3. \A x \in Threads : StateAfterWalk[x] = "FINISHED" =>
          program = 1 /\ x = 2 /\ Contains(thread_list, x)
    BY <1>1, <1>8 DEF Deleted
  <2>4. ASSUME program = 1
        PROVE  /\ Once(Requeued)
               /\ \A x \in Threads : StateAfterWalk[x] \notin {"SLEEPING", "SUSPENDED"}
               /\ \A x \in Threads :
                    StateAfterWalk[x] = "FINISHED" => ~Contains(Requeued, x)
               /\ StateAfterWalk[current] # "RUNNING"
    <3>1. \A x \in Threads : StateAfterWalk[x] \notin {"SLEEPING", "SUSPENDED"}
      BY <1>1, <1>5, <2>4 DEF Deleted
    <3>2. \A x \in Threads :
            StateAfterWalk[x] = "FINISHED" => ~Contains(Requeued, x)
      BY <1>3, <1>4, <1>8, <2>4
    <3>3. StateAfterWalk[current] # "RUNNING"
      BY <1>1, <1>5
    <3> QED
      BY <1>7, <2>4, <3>1, <3>2, <3>3
  <2> QED
    BY <1>1, <1>6, <1>9, <2>1, <2>2, <2>3, <2>4 DEF Schedulable
<1>11. /\ Switch(Requeued, StateAfterWalk)
       /\ scheduling_type' = scheduling_type /\ thread_list' = thread_list
       /\ id' = id /\ next_thread' = next_thread /\ allocated' = allocated
       /\ arg' = arg
  BY DEF Dispatch, names
<1>12. pc'[0] = "idle" /\ \A t \in Threads : pc'[t] = pc[t] \/ pc'[t] = "idle"
  <2>1. pc \in [0..MaxObjects -> Pcs] /\ 0 \in 0..MaxObjects /\ Threads \subseteq 0..MaxObjects
    BY <1>1, BoundsAssumption DEF TypeOK, Threads
  <2> QED
    BY <1>2, <2>1
<1>13. /\ TestInv'
       /\ \A t \in Threads : StateAfterWalk[t] = "FINISHED" => state'[t] = "FINISHED"
  BY <1>2, <1>10, <1>11, <1>12, SwitchKeeps
<1> QED
  BY <1>8, <1>13

-----------------------------------------------------------------------------
(***************************************************************************)
(* The steps.                                                              *)
(***************************************************************************)
StaysDeleted ==
  \A t \in Threads : state[t] = "FINISHED" => state'[t] = "FINISHED"

LEMMA SameFunctions == ASSUME program' = program PROVE Functions' = Functions
BY DEF Functions, TestFile1, TestFile2, TestFile3, TestFile4

LEMMA GoKeeps ==
  ASSUME TypeInv, AtMostOneRunning, TestInv, Go, program' = program
  PROVE  TestInv' /\ StaysDeleted
<1>1. /\ TypeOK /\ Created /\ Kept /\ Deleted /\ current = 0 /\ pc[0] = "idle"
      /\ ready_list \in Seq(Threads) /\ state \in [Threads -> States]
      /\ Switch(ready_list, state)
  BY DEF TypeInv, TestInv, TypeOK, Go
<1>2. \A x \in Threads : state[x] # "RUNNING" /\ state[x] # "FINISHED"
  BY <1>1 DEF AtMostOneRunning, Deleted, Threads
<1>3. Schedulable(ready_list, state)
  BY <1>1, <1>2 DEF Schedulable, Created, Kept, Deleted
<1>4. /\ scheduling_type' = scheduling_type /\ thread_list' = thread_list
      /\ id' = id /\ next_thread' = next_thread /\ allocated' = allocated
      /\ arg' = arg /\ pc' = pc
  BY DEF Go, names
<1> QED
  BY <1>1, <1>3, <1>4, SwitchKeeps DEF StaysDeleted

(* CreateThread, by main() and before Go. *)
LEMMA CreateKeeps ==
  ASSUME TypeInv, TestInv, program' = program,
         \/ CreateAllocate /\ current = 0 /\ allocated < Len(Functions)
         \/ CreateCount \/ CreateEnqueue \/ CreateRegister
  PROVE  TestInv' /\ StaysDeleted
<1>0. /\ TypeOK /\ Calling /\ Created /\ Kept /\ Deleted
      /\ ready_list \in Seq(Threads) /\ thread_list \in Seq(Threads)
      /\ state \in [Threads -> States] /\ id \in [0..MaxObjects -> Int]
      /\ pc \in [0..MaxObjects -> Pcs] /\ arg \in [0..MaxObjects -> Nat]
      /\ allocated \in 0..MaxObjects /\ current \in 0..MaxObjects
      /\ MaxObjects \in Nat /\ 0 \in 0..MaxObjects
      /\ Threads \subseteq 0..MaxObjects /\ 0 \notin Threads
      /\ next_thread \in Nat
  <2>1. /\ MaxObjects \in Nat /\ 0 \in 0..MaxObjects
        /\ Threads \subseteq 0..MaxObjects /\ 0 \notin Threads
    BY BoundsAssumption DEF Threads
  <2>2. TypeOK /\ Calling /\ Created /\ Kept /\ Deleted
    BY DEF TypeInv, TestInv
  <2> QED
    BY <2>1, <2>2 DEF TypeOK
<1>1. Functions' = Functions
  BY SameFunctions
<1>2. \A t \in Threads : t \in Nat
  BY DEF Threads
<1>3. ASSUME CreateAllocate, current = 0, allocated < Len(Functions)
      PROVE  TestInv' /\ StaysDeleted
  <2>1. /\ pc[0] = "idle" /\ pc' = [pc EXCEPT ![0] = "create1"]
        /\ arg' = [arg EXCEPT ![0] = allocated + 1]
        /\ id' = [id EXCEPT ![allocated + 1] = next_thread]
        /\ allocated' = allocated + 1 /\ allocated + 1 \in 0..MaxObjects
        /\ current' = 0 /\ current = 0
        /\ thread_list' = thread_list /\ ready_list' = ready_list
        /\ state' = state /\ next_thread' = next_thread
        /\ scheduling_type' = scheduling_type
    BY <1>0, <1>3 DEF CreateAllocate, Call
  <2>2. Calling'
    BY <1>0, <2>1 DEF Calling
  <2>3. next_thread = allocated
    BY <2>1, <1>0 DEF Created
  <2>4. Created'
    <3>1. \A t \in 1..(allocated + 1) : id'[t] = t - 1
      <4>1. ASSUME NEW t \in 1..(allocated + 1) PROVE id'[t] = t - 1
        <5>1. t \in 0..MaxObjects /\ (t = allocated + 1 \/ t \in 1..allocated)
          BY <1>0, <2>1
        <5>2. CASE t = allocated + 1
          BY <1>0, <2>1, <2>3, <5>1, <5>2
        <5>3. CASE t \in 1..allocated /\ t # allocated + 1
          BY <1>0, <2>1, <5>1, <5>3 DEF Created
        <5> QED
          BY <5>1, <5>2, <5>3
      <4> QED
        BY <4>1
    <3>2. \A t \in Threads : t >= allocated + 1 => state[t] = "NONE"
      BY <1>0, <1>2 DEF Created
    <3>3. \A t \in Threads : Contains(ready_list, t) \/ Contains(thread_list, t) =>
            t < allocated + 1
      BY <1>0, <1>2 DEF Created
    <3>4. /\ allocated + 1 <= Len(Functions) /\ 0 <= allocated + 1
          /\ next_thread = (allocated + 1) - 1
      <4>1. Len(Functions) \in Nat
        BY <1>0, FunctionsLength DEF Created
      <4> QED
        BY <1>0, <1>3, <2>3, <4>1
    <3>5. program' \in 1..4
      BY <1>0 DEF Created
    <3>6. pc'[0] = "create1"
      BY <1>0, <2>1
    <3> QED
      BY <1>0, <1>1, <1>2, <2>1, <3>1, <3>2, <3>3, <3>4, <3>5, <3>6 DEF Created
  <2>5. Kept'
    BY <1>0, <2>1 DEF Kept, Removable
  <2>6. Deleted' /\ StaysDeleted
    BY <1>0, <2>1 DEF Deleted, StaysDeleted
  <2> QED
    BY <2>2, <2>4, <2>5, <2>6 DEF TestInv
<1>4. ASSUME pc[current] \in {"create1", "create2", "create3"}
      PROVE  /\ current = 0 /\ arg[0] = allocated /\ allocated \in Threads
             /\ \A t \in Threads : state[t] # "FINISHED"
  <2>1. current = 0
    <3>1. current \in Threads \/ current = 0
      BY <1>0 DEF Threads
    <3> QED
      BY <1>0, <1>4, <3>1 DEF Calling
  <2>2. arg[0] = allocated /\ allocated # 0
    BY <1>0, <1>4, <2>1 DEF Calling
  <2>3. allocated \in Threads
    BY <1>0, <2>2 DEF Threads
  <2> QED
    BY <1>0, <2>1, <2>2, <2>3 DEF Deleted
<1>5. ASSUME CreateCount PROVE TestInv' /\ StaysDeleted
  <2>1. /\ pc[0] = "create1" /\ pc' = [pc EXCEPT ![0] = "create2"]
        /\ arg' = arg /\ id' = id /\ allocated' = allocated
        /\ arg[0] = allocated /\ allocated \in Threads
        /\ current' = 0 /\ current = 0
        /\ thread_list' = thread_list /\ ready_list' = ready_list
        /\ state' = [state EXCEPT ![allocated] = "READY"]
        /\ next_thread' = next_thread + 1
        /\ scheduling_type' = scheduling_type
        /\ \A t \in Threads : state[t] # "FINISHED"
    BY <1>0, <1>4, <1>5 DEF CreateCount, Call
  <2>2. Calling'
    BY <1>0, <2>1 DEF Calling
  <2>3. pc'[0] = "create2" /\ next_thread = allocated - 1
    BY <1>0, <2>1 DEF Created
  <2>4. \A t \in Threads : state'[t] = IF t = allocated THEN "READY" ELSE state[t]
    BY <1>0, <2>1
  <2>5. Created'
    BY <1>0, <1>1, <1>2, <2>1, <2>3, <2>4 DEF Created
  <2>6. Kept'
    BY <1>0, <2>1, <2>3, <2>4 DEF Kept, Removable
  <2>7. Deleted' /\ StaysDeleted
    BY <1>0, <2>1, <2>4 DEF Deleted, StaysDeleted
  <2> QED
    BY <2>2, <2>5, <2>6, <2>7 DEF TestInv
<1>6. ASSUME CreateEnqueue PROVE TestInv' /\ StaysDeleted
  <2>1. /\ pc[0] = "create2" /\ pc' = [pc EXCEPT ![0] = "create3"]
        /\ arg' = arg /\ id' = id /\ allocated' = allocated
        /\ arg[0] = allocated /\ allocated \in Threads
        /\ current' = 0 /\ current = 0
        /\ thread_list' = thread_list
        /\ ready_list' = thread_enqueue(allocated, ready_list)
        /\ state' = state /\ next_thread' = next_thread
        /\ scheduling_type' = scheduling_type
        /\ \A t \in Threads : state[t] # "FINISHED"
    BY <1>0, <1>4, <1>6 DEF CreateEnqueue, Call, names
  <2>2. Calling'
    BY <1>0, <2>1 DEF Calling
  <2>3. pc'[0] = "create3"
    BY <1>0, <2>1
  <2>4. \A x : Contains(ready_list', x) <=> Contains(ready_list, x) \/ x = allocated
    BY <1>0, <2>1, EnqueueProperties
  <2>5. Created'
    BY <1>0, <1>1, <1>2, <2>1, <2>3, <2>4 DEF Created
  <2>6. Kept'
    BY <1>0, <2>1, <2>3, <2>4 DEF Kept, Removable
  <2>7. program = 1 => Once(ready_list')
    <3>1. ~Contains(ready_list, allocated)
      BY <1>0, <1>2, <2>1 DEF Created
    <3> QED
      BY <1>0, <2>1, <3>1, EnqueueOnce DEF Deleted
  <2>8. Deleted' /\ StaysDeleted
    BY <1>0, <2>1, <2>7 DEF Deleted, StaysDeleted
  <2> QED
    BY <2>2, <2>5, <2>6, <2>8 DEF TestInv
<1>7. ASSUME CreateRegister PROVE TestInv' /\ StaysDeleted
  <2>1. /\ pc[0] = "create3" /\ pc' = [pc EXCEPT ![0] = "idle"]
        /\ arg' = [arg EXCEPT ![0] = 0] /\ id' = id /\ allocated' = allocated
        /\ arg[0] = allocated /\ allocated \in Threads
        /\ current' = 0 /\ current = 0
        /\ thread_list' = thread_enqueue(allocated, thread_list)
        /\ ready_list' = ready_list
        /\ state' = state /\ next_thread' = next_thread
        /\ scheduling_type' = scheduling_type
        /\ \A t \in Threads : state[t] # "FINISHED"
    BY <1>0, <1>4, <1>7 DEF CreateRegister, ArgDone, names
  <2>2. Calling'
    BY <1>0, <2>1 DEF Calling
  <2>3. pc'[0] = "idle"
    BY <1>0, <2>1
  <2>4. \A x : Contains(thread_list', x) <=> Contains(thread_list, x) \/ x = allocated
    BY <1>0, <2>1, EnqueueProperties
  <2>5. Created'
    BY <1>0, <1>1, <1>2, <2>1, <2>3, <2>4 DEF Created
  <2>6. Kept'
    BY <1>0, <2>1, <2>3 DEF Kept, Removable
  <2>7. Deleted' /\ StaysDeleted
    BY <1>0, <2>1 DEF Deleted, StaysDeleted
  <2> QED
    BY <2>2, <2>5, <2>6, <2>7 DEF TestInv
<1> QED
  BY <1>3, <1>5, <1>6, <1>7

(* The calls of delete_test and delete_other_test. *)
LEMMA DeleteKeeps ==
  ASSUME TypeInv, TestInv, program' = program, program = 1, DeleteThread(2)
  PROVE  TestInv' /\ StaysDeleted
<1>0. /\ TypeOK /\ Calling /\ Created /\ Kept /\ Deleted
      /\ state \in [Threads -> States] /\ pc \in [0..MaxObjects -> Pcs]
      /\ 2 \in Threads /\ Contains(thread_list, 2)
      /\ allocated \in Nat /\ current \in 0..MaxObjects
  BY FoundIsThread DEF TypeInv, TestInv, TypeOK, DeleteThread
<1>1. /\ current # 0 /\ pc[current] = "idle"
      /\ pc' = [pc EXCEPT ![current] = IF IsSelf(2) THEN "yield" ELSE "idle"]
      /\ state' = [state EXCEPT ![2] = "FINISHED"]
      /\ current' = current /\ ready_list' = ready_list
      /\ thread_list' = thread_list /\ scheduling_type' = scheduling_type
      /\ id' = id /\ next_thread' = next_thread /\ allocated' = allocated
      /\ arg' = arg
  BY DEF DeleteThread, Call, names
<1>2. pc[0] = "idle" /\ pc'[0] = "idle"
  BY <1>0, <1>1 DEF Calling
<1>3. \A t \in Threads : pc'[t] = pc[t] \/ pc'[t] \in {"idle", "yield"}
  BY <1>0, <1>1
<1>4. \A t \in Threads : state'[t] = IF t = 2 THEN "FINISHED" ELSE state[t]
  BY <1>0, <1>1
<1>5. Functions' = Functions
  BY SameFunctions
<1>6. Calling'
  BY <1>0, <1>1, <1>2, <1>3 DEF Calling
<1>7. Created'
  <2>1. \A t \in Threads : t > allocated => state'[t] = "NONE"
    BY <1>0, <1>4 DEF Created
  <2> QED
    BY <1>0, <1>1, <1>2, <1>5, <2>1 DEF Created
<1>8. Kept'
  BY <1>0, <1>1, <1>2, <1>4 DEF Kept, Removable
<1>9. Deleted'
  BY <1>0, <1>1, <1>4 DEF Deleted
<1>10. StaysDeleted
  BY <1>4 DEF StaysDeleted
<1> QED
  BY <1>6, <1>7, <1>8, <1>9, <1>10 DEF TestInv

(* A call, or a part of one, that only changes the state of a removable
   thread, or nothing that a list or the scheduler depends on. *)
LEMMA CallKeeps ==
  ASSUME TypeInv, TestInv, program' = program, program \in {3, 4},
         NEW to, pc' = [pc EXCEPT ![current] = to], current # 0,
         to \in {"idle", "yield", "suspend", "resume1", "resume2",
                 "sleep1", "sleep2"},
         to \in {"suspend", "resume1", "resume2"} =>
            program = 3 /\ arg'[current] = 1,
         to \in {"sleep1", "sleep2"} => program = 4 /\ current = 3,
         \A t \in 0..MaxObjects : t # current => arg'[t] = arg[t],
         scheduling_type' = scheduling_type, thread_list' = thread_list,
         current' = current,
         id' = id, next_thread' = next_thread, allocated' = allocated,
         NEW r \in Threads, Removable(r), r <= allocated,
         \A t \in Threads : t # r => state'[t] = state[t],
         state'[r] # "FINISHED",
         \A t \in Threads : t # r =>
           (Contains(ready_list', t) <=> Contains(ready_list, t))
  PROVE  TestInv' /\ StaysDeleted
<1>0. /\ TypeOK /\ Calling /\ Created /\ Kept /\ Deleted
      /\ pc \in [0..MaxObjects -> Pcs]
      /\ allocated \in Nat /\ current \in 0..MaxObjects
      /\ Threads \subseteq 0..MaxObjects /\ 0 \in 0..MaxObjects
      /\ \A t \in Threads : t \in Nat /\ t # 0
  BY BoundsAssumption DEF TypeInv, TestInv, TypeOK, Threads
<1>1. pc[0] = "idle" /\ pc'[0] = "idle"
  BY <1>0 DEF Calling
<1>2. \A t \in Threads : pc'[t] = IF t = current THEN to ELSE pc[t]
  BY <1>0
<1>3. Functions' = Functions
  BY SameFunctions
<1>4. Calling'
  BY <1>0, <1>1, <1>2 DEF Calling
<1>5. Created'
  <2>1. \A t \in Threads : t > allocated => state'[t] = "NONE"
    BY <1>0 DEF Created
  <2>2. \A t \in Threads : Contains(ready_list', t) => t <= allocated
    BY <1>0 DEF Created
  <2> QED
    BY <1>0, <1>1, <1>3, <2>1, <2>2 DEF Created
<1>6. Kept'
  <2>1. ASSUME NEW t \in Threads, ~Removable(t)
        PROVE  /\ state'[t] = "READY" => Contains(ready_list', t)
               /\ state'[t] = "RUNNING" /\ scheduling_type # RR =>
                    Contains(ready_list', t)
    <3>1. t # r
      BY <2>1
    <3> QED
      BY <1>0, <1>1, <2>1, <3>1 DEF Kept
  <2> QED
    BY <2>1 DEF Kept, Removable
<1>7. \A t \in Threads : state[t] # "FINISHED" /\ state'[t] # "FINISHED"
  BY <1>0 DEF Deleted
<1>8. Deleted'
  BY <1>7 DEF Deleted
<1> QED
  BY <1>4, <1>5, <1>6, <1>7, <1>8 DEF TestInv, StaysDeleted

(* suspend_test: thread 1 is suspended and resumed. *)
LEMMA SuspendKeeps ==
  ASSUME TypeInv, TestInv, program' = program,
         \/ program = 3 /\ (SuspendThread(1) \/ ResumeThread(1))
         \/ SuspendRemove \/ ResumeEnqueue \/ ResumeMark
  PROVE  TestInv' /\ StaysDeleted
<1>0. /\ TypeOK /\ Calling /\ Created /\ Kept /\ Deleted
      /\ state \in [Threads -> States] /\ arg \in [0..MaxObjects -> Nat]
      /\ ready_list \in Seq(Threads) /\ current \in 0..MaxObjects
      /\ allocated \in 0..MaxObjects /\ MaxObjects \in Nat
  BY BoundsAssumption DEF TypeInv, TestInv, TypeOK
<1>1. ASSUME pc[current] \in {"suspend", "resume1", "resume2"}
      PROVE  /\ current # 0 /\ program = 3 /\ arg[current] = 1
             /\ 1 \in Threads /\ 1 <= allocated
  <2>1. current # 0 /\ current \in Threads
    BY <1>0, <1>1 DEF Calling, Threads
  <2>2. program = 3 /\ arg[current] = 1
    BY <1>0, <1>1, <2>1 DEF Calling
  <2>3. 1 \in Threads /\ 1 <= allocated
    BY <1>0, <2>1 DEF Created, Threads
  <2> QED
    BY <2>1, <2>2, <2>3
<1>2. ASSUME program = 3, SuspendThread(1) \/ ResumeThread(1)
      PROVE  TestInv' /\ StaysDeleted
  <2>1. 1 \in Threads /\ Contains(thread_list, 1)
    BY <1>0, <1>2, FoundIsThread DEF SuspendThread, ResumeThread
  <2>2. 1 <= allocated /\ Removable(1)
    BY <1>0, <1>2, <2>1 DEF Created, Removable
  <2>3. CASE SuspendThread(1)
    <3> DEFINE to == "suspend"
    <3>1. /\ pc' = [pc EXCEPT ![current] = to] /\ current # 0
          /\ arg' = [arg EXCEPT ![current] = 1]
          /\ state' = [state EXCEPT ![1] = "SUSPENDED"]
          /\ ready_list' = ready_list
          /\ scheduling_type' = scheduling_type /\ thread_list' = thread_list
          /\ current' = current
          /\ id' = id /\ next_thread' = next_thread /\ allocated' = allocated
      BY <2>3 DEF SuspendThread, Call, names
    <3>2. /\ arg'[current] = 1
          /\ \A t \in 0..MaxObjects : t # current => arg'[t] = arg[t]
      BY <1>0, <3>1
    <3>3. /\ state'[1] # "FINISHED"
          /\ \A t \in Threads : t # 1 => state'[t] = state[t]
      BY <1>0, <2>1, <3>1
    <3>4. \A t \in Threads : t # 1 =>
            (Contains(ready_list', t) <=> Contains(ready_list, t))
      BY <3>1
    <3> QED
      BY <1>2, <2>1, <2>2, <3>1, <3>2, <3>3, <3>4, CallKeeps
  <2>4. CASE ResumeThread(1)
    <3> DEFINE to == "resume1"
    <3>1. /\ pc' = [pc EXCEPT ![current] = to] /\ current # 0
          /\ arg' = [arg EXCEPT ![current] = 1]
          /\ state' = state /\ state[1] = "SUSPENDED"
          /\ ready_list' = ready_list
          /\ scheduling_type' = scheduling_type /\ thread_list' = thread_list
          /\ current' = current
          /\ id' = id /\ next_thread' = next_thread /\ allocated' = allocated
      BY <2>4 DEF ResumeThread, Call, names
    <3>2. /\ arg'[current] = 1
          /\ \A t \in 0..MaxObjects : t # current => arg'[t] = arg[t]
      BY <1>0, <3>1
    <3>3. /\ state'[1] # "FINISHED"
          /\ \A t \in Threads : t # 1 => state'[t] = state[t]
      BY <3>1
    <3>4. \A t \in Threads : t # 1 =>
            (Contains(ready_list', t) <=> Contains(ready_list, t))
      BY <3>1
    <3> QED
      BY <1>2, <2>1, <2>2, <3>1, <3>2, <3>3, <3>4, CallKeeps
  <2> QED
    BY <1>2, <2>3, <2>4
<1>3. CASE SuspendRemove
  <2>0. pc[current] = "suspend"
    BY <1>3 DEF SuspendRemove, Call
  <2>1. /\ current # 0 /\ program = 3 /\ arg[current] = 1
        /\ 1 \in Threads /\ 1 <= allocated /\ Removable(1)
    BY <1>1, <2>0 DEF Removable
  <2>2. \E to \in {"idle", "yield"} : pc' = [pc EXCEPT ![current] = to]
    BY <1>3 DEF SuspendRemove, Call
  <2>3. PICK to \in {"idle", "yield"} : pc' = [pc EXCEPT ![current] = to]
    BY <2>2
  <2>4. /\ arg' = [arg EXCEPT ![current] = 0]
        /\ state' = state
        /\ ready_list' = RemoveFromList(id[1], ready_list)
        /\ scheduling_type' = scheduling_type /\ thread_list' = thread_list
        /\ current' = current
        /\ id' = id /\ next_thread' = next_thread /\ allocated' = allocated
    BY <1>3, <2>1 DEF SuspendRemove, Call, ArgDone, names
  <2>5. \A t \in 0..MaxObjects : t # current => arg'[t] = arg[t]
    BY <1>0, <2>4
  <2>6. \A x \in Threads : Contains(ready_list, x) => x <= allocated
    BY <1>0 DEF Created
  <2>7. \A t \in Threads : t # 1 =>
          (Contains(ready_list', t) <=> Contains(ready_list, t))
    BY <1>0, <2>1, <2>4, <2>6, RemoveCreated
  <2>8. state'[1] # "FINISHED" /\ \A t \in Threads : t # 1 => state'[t] = state[t]
    BY <1>0, <2>1, <2>4 DEF Deleted
  <2>9. /\ to \in {"idle", "yield", "suspend", "resume1", "resume2",
                   "sleep1", "sleep2"}
        /\ to \notin {"suspend", "resume1", "resume2"}
        /\ to \notin {"sleep1", "sleep2"}
        /\ program \in {3, 4}
    BY <2>1, <2>3
  <2> QED
    BY <2>1, <2>3, <2>4, <2>5, <2>7, <2>8, <2>9, CallKeeps
<1>4. CASE ResumeEnqueue
  <2>0. pc[current] = "resume1"
    BY <1>4 DEF ResumeEnqueue, Call
  <2>1. /\ current # 0 /\ program = 3 /\ arg[current] = 1
        /\ 1 \in Threads /\ 1 <= allocated /\ Removable(1)
    BY <1>1, <2>0 DEF Removable
  <2>2. /\ pc' = [pc EXCEPT ![current] = "resume2"]
        /\ arg' = arg /\ state' = state
        /\ ready_list' = thread_enqueue(1, ready_list)
        /\ scheduling_type' = scheduling_type /\ thread_list' = thread_list
        /\ current' = current
        /\ id' = id /\ next_thread' = next_thread /\ allocated' = allocated
    BY <1>4, <2>1 DEF ResumeEnqueue, Call, names
  <2>3. \A t \in Threads : t # 1 =>
          (Contains(ready_list', t) <=> Contains(ready_list, t))
    BY <1>0, <2>1, <2>2, EnqueueProperties
  <2>4. state'[1] # "FINISHED" /\ \A t \in Threads : t # 1 => state'[t] = state[t]
    BY <1>0, <2>1, <2>2 DEF Deleted
  <2> QED
    BY <2>1, <2>2, <2>3, <2>4, CallKeeps
<1>5. CASE ResumeMark
  <2>0. pc[current] = "resume2"
    BY <1>5 DEF ResumeMark, Call
  <2>1. /\ current # 0 /\ program = 3 /\ arg[current] = 1
        /\ 1 \in Threads /\ 1 <= allocated /\ Removable(1)
    BY <1>1, <2>0 DEF Removable
  <2>2. /\ pc' = [pc EXCEPT ![current] = "idle"]
        /\ arg' = [arg EXCEPT ![current] = 0]
        /\ state' = [state EXCEPT ![1] = "READY"]
        /\ ready_list' = ready_list
        /\ scheduling_type' = scheduling_type /\ thread_list' = thread_list
        /\ current' = current
        /\ id' = id /\ next_thread' = next_thread /\ allocated' = allocated
    BY <1>5, <2>1 DEF ResumeMark, Call, ArgDone, names
  <2>3. \A t \in 0..MaxObjects : t # current => arg'[t] = arg[t]
    BY <1>0, <2>2
  <2>4. state'[1] # "FINISHED" /\ \A t \in Threads : t # 1 => state'[t] = state[t]
    BY <1>0, <2>1, <2>2
  <2>5. \A t \in Threads : t # 1 =>
          (Contains(ready_list', t) <=> Contains(ready_list, t))
    BY <2>2
  <2> QED
    BY <2>1, <2>2, <2>3, <2>4, <2>5, CallKeeps
<1> QED
  BY <1>2, <1>3, <1>4, <1>5

(* sleep_test: thread 3 puts itself to sleep. *)
LEMMA SleepKeeps ==
  ASSUME TypeInv, TestInv, program' = program,
         \/ program = 4 /\ current = 3 /\ \E time \in SleepTimes : SleepThread(time)
         \/ SleepUntil \/ SleepRemove
  PROVE  TestInv' /\ StaysDeleted
<1>0. /\ TypeOK /\ Calling /\ Created /\ Kept /\ Deleted
      /\ state \in [Threads -> States] /\ arg \in [0..MaxObjects -> Nat]
      /\ ready_list \in Seq(Threads) /\ current \in 0..MaxObjects
      /\ allocated \in 0..MaxObjects /\ MaxObjects \in Nat
  BY BoundsAssumption DEF TypeInv, TestInv, TypeOK
<1>1. /\ current = 3 /\ program = 4 /\ Removable(3)
      /\ 3 \in Threads /\ 3 <= allocated
  <2>1. current = 3 /\ program = 4
    <3>1. CASE pc[current] \in {"sleep1", "sleep2"}
      <4>1. current \in Threads
        BY <1>0, <3>1 DEF Calling, Threads
      <4> QED
        BY <1>0, <3>1, <4>1 DEF Calling
    <3> QED
      BY <3>1 DEF SleepUntil, SleepRemove, Call
  <2> QED
    BY <1>0, <2>1 DEF Created, Threads, Removable
<1>2. /\ scheduling_type' = scheduling_type /\ thread_list' = thread_list
      /\ current' = current
      /\ id' = id /\ next_thread' = next_thread /\ allocated' = allocated
  BY DEF SleepThread, SleepUntil, SleepRemove, Call, names
<1>3. \A t \in 0..MaxObjects : t # current => arg'[t] = arg[t]
  BY <1>0 DEF SleepThread, SleepUntil, SleepRemove, ArgDone
<1>4. \E to \in {"sleep1", "sleep2", "yield"} : pc' = [pc EXCEPT ![current] = to]
  BY DEF SleepThread, SleepUntil, SleepRemove, Call
<1>5. PICK to \in {"sleep1", "sleep2", "yield"} : pc' = [pc EXCEPT ![current] = to]
  BY <1>4
<1>6. /\ to \in {"idle", "yield", "suspend", "resume1", "resume2",
                 "sleep1", "sleep2"}
      /\ to \notin {"suspend", "resume1", "resume2"}
      /\ program \in {3, 4} /\ current # 0
  BY <1>1, <1>5
<1>7. \A x \in Threads : Contains(ready_list, x) => x <= allocated
  BY <1>0 DEF Created
<1>8. \A t \in Threads : t # 3 =>
        (Contains(ready_list', t) <=> Contains(ready_list, t))
  <2>1. \/ ready_list' = ready_list
        \/ ready_list' = RemoveFromList(id[3], ready_list)
    BY <1>1 DEF SleepThread, SleepUntil, SleepRemove
  <2> QED
    BY <1>0, <1>1, <1>7, <2>1, RemoveCreated
<1>9. state'[3] # "FINISHED" /\ \A t \in Threads : t # 3 => state'[t] = state[t]
  <2>1. state' = state \/ state' = [state EXCEPT ![3] = "SLEEPING"]
    BY <1>1 DEF SleepThread, SleepUntil, SleepRemove
  <2> QED
    BY <1>0, <1>1, <2>1 DEF Deleted
<1> QED
  BY <1>1, <1>2, <1>3, <1>5, <1>6, <1>8, <1>9, CallKeeps

LEMMA TestStep ==
  ASSUME TypeInv, AtMostOneRunning, TestInv, [TestNext]_testVars
  PROVE  TestInv' /\ StaysDeleted
<1>0. TypeOK /\ Created
  BY DEF TypeInv, TestInv
<1>1. CASE MainCreates
  BY <1>1, CreateKeeps DEF MainCreates
<1>2. CASE MainGoes
  BY <1>2, GoKeeps DEF MainGoes
<1>3. CASE Timer /\ program' = program
  BY <1>3, DispatchKeeps DEF Timer, StaysDeleted
<1>4. CASE YieldCPU /\ program' = program
  BY <1>4, DispatchKeeps DEF YieldCPU, StaysDeleted
<1>5. CASE Continue /\ program' = program
  BY <1>5, CreateKeeps, SuspendKeeps, SleepKeeps DEF Continue
<1>6. ASSUME UNCHANGED <<scheduling_type, thread_list, ready_list, current, state,
                         names, pc, arg>>,
             program' = program
      PROVE  TestInv' /\ StaysDeleted
  <2>1. Functions' = Functions
    BY <1>6, SameFunctions
  <2>2. TestInv'
    BY <1>6, <2>1
    DEF TestInv, Calling, Created, Kept, Deleted, Removable, names
  <2>3. StaysDeleted
    BY <1>6 DEF StaysDeleted
  <2> QED
    BY <2>2, <2>3
<1>7. CASE (Tick \/ TimerTears) /\ program' = program
  BY <1>6, <1>7 DEF Tick, TimerTears
<1>8. CASE simple_thread
  BY <1>0, <1>6, <1>8, TurnOf DEF simple_thread, CleanUp
<1>9. CASE UNCHANGED testVars
  BY <1>6, <1>9 DEF testVars, vars, names
<1>10. CASE delete_test \/ delete_other_test
  BY <1>0, <1>10, TurnOf, DeleteKeeps DEF delete_test, delete_other_test, WithId
<1>11. CASE suspend_test
  <2>1. /\ program = 3 /\ program' = program
        /\ SuspendThread(1) \/ ResumeThread(1) \/ UNCHANGED vars
    BY <1>0, <1>11, TurnOf DEF suspend_test, WithId
  <2> QED
    BY <1>6, <2>1, SuspendKeeps DEF vars, names
<1>12. CASE sleep_test
  BY <1>0, <1>12, TurnOf, SleepKeeps DEF sleep_test
<1> QED
  BY <1>1, <1>2, <1>3, <1>4, <1>5, <1>7, <1>8, <1>9, <1>10, <1>11, <1>12
  DEF TestNext, Package, Signal

LEMMA TestInvInit == ASSUME TestInit PROVE TestInv
<1>1. /\ Init /\ program \in 1..4
      /\ 0 \in 0..MaxObjects /\ Threads \subseteq 0..MaxObjects
      /\ \A t \in Threads : t \in Nat /\ t > 0
  BY ProgramsAssumption, BoundsAssumption DEF TestInit, Threads
<1>2. \A t : ~Contains(<<>>, t)
  BY DEF Contains
<1>3. Len(Functions) \in Nat /\ 1..0 = {}
  BY <1>1, FunctionsLength
<1>4. Calling
  BY <1>1 DEF Init, Calling
<1>5. Created
  BY <1>1, <1>2, <1>3 DEF Init, Created
<1>6. Kept /\ Deleted
  BY <1>1 DEF Init, Kept, Deleted, Once
<1> QED
  BY <1>4, <1>5, <1>6 DEF TestInv

LEMMA TestInvariance ==
  TestSpec => [](TypeInv /\ AtMostOneRunning /\ TestInv)
<1>1. TestInit => TypeInv /\ AtMostOneRunning /\ TestInv
  BY TypeInit, TestInvInit DEF TestInit, Init, AtMostOneRunning
<1>2. TypeInv /\ AtMostOneRunning /\ TestInv /\ [TestNext]_testVars
      => (TypeInv /\ AtMostOneRunning /\ TestInv)'
  BY TestStepIsStep, TypeStep, RunningStep, TestStep DEF TypeInv
<1> QED
  BY <1>1, <1>2, PTL DEF TestSpec

-----------------------------------------------------------------------------
(***************************************************************************)
(* What the programs can count on, with the timer in the middle of a call. *)
(***************************************************************************)
(* As long as SIGVTALRM does not cut a thread_enqueue or a RemoveFromList in two
   (it may interrupt the calls anywhere else), the only thread that can become
   READY and not be in the ready list is the one that TestFile3 suspends, or
   the one that puts itself to sleep in TestFile4. *)
THEOREM OnlyTheRemovedLost == TestSpec => []LosesOnlyTheRemoved
<1>1. TypeInv /\ TestInv => LosesOnlyTheRemoved
  <2> SUFFICES ASSUME TypeInv, TestInv, Quiescent, NEW t \in Threads,
                      state[t] = "READY", ~Contains(ready_list, t)
               PROVE  \/ program = 3 /\ t = WithId(0)
                      \/ program = 4 /\ Functions[t] = "sleep_test"
    BY DEF LosesOnlyTheRemoved
  <2>1. pc[0] = "idle"
    BY BoundsAssumption DEF Quiescent
  <2>2. Removable(t)
    BY <2>1 DEF TestInv, Kept
  <2>3. program = 4 => Functions[3] = "sleep_test"
    BY DEF Functions, TestFile4
  <2> QED
    BY <2>2, <2>3 DEF Removable, WithId
<1> QED
  BY <1>1, TestInvariance, PTL

(* A thread that a test program deletes is never scheduled again, although its
   node stays in the ready list until the next dispatch. *)
THEOREM DeletedStayDeleted == TestSpec => DeletedForGood
<1>1. TypeInv /\ AtMostOneRunning /\ TestInv /\ [TestNext]_testVars
      => [\A t \in Threads : state[t] = "FINISHED" => state'[t] = "FINISHED"]_vars
  BY TestStep DEF StaysDeleted
<1> QED
  BY <1>1, TestInvariance, PTL DEF TestSpec, DeletedForGood
=============================================================================
