-------------------------- MODULE AllocatorPrograms --------------------------
(***************************************************************************)
(* The programs of prog2 that use the allocator: main.c, and the drivers   *)
(* {small,large}_{symmetric,asymmetric}_{best,worst}.c.  Each is a script  *)
(* of calls; only the sizes that the small drivers ask for are drawn with  *)
(* rand().  "any" is the program that makes any call at any time.          *)
(***************************************************************************)
EXTENDS Allocator

CONSTANTS
  Programs,        (* the programs that are run                            *)
  NUM,             (* the pointers of a symmetric driver's array (100)     *)
  PerBatch,        (* the pointers of an asymmetric driver's array (100)   *)
  Rounds,          (* the rounds of the symmetric drivers (10)             *)
  Batches,         (* the arrays of the asymmetric drivers (16)            *)
  SmallSizes,      (* rand()%248 + 8                                       *)
  LargeSizes       (* 64 and 64 * 1024                                     *)

(* sizeof(test): what a driver writes to each block. *)
SmallTest == 8
LargeTest == 16

ASSUME ProgramsAssumption ==
  Programs \subseteq {"any", "main", "small_symmetric", "small_asymmetric",
                      "large_symmetric", "large_asymmetric"}
ASSUME ArraysAssumption ==
  {NUM, PerBatch, Rounds} \subseteq Nat /\ Batches \in Nat \ {0}
(* The asymmetric drivers free by halves, down to one array: 16, 8, 4, 2, 1. *)
ASSUME HalvesAssumption ==
  \E Halving \in SUBSET (1..Batches) :
    /\ Batches \in Halving
    /\ \A half \in Halving :
         half = 1 \/ (half % 2 = 0 /\ half \div 2 \in Halving)
ASSUME SizesAssumption ==
  /\ SmallSizes \subseteq Nat /\ \A size \in SmallSizes : size >= SmallTest
  /\ LargeSizes \in Nat \X Nat /\ LargeSizes[1] >= LargeTest
                                /\ LargeSizes[2] >= LargeTest

VARIABLES
  program,         (* the program                                          *)
  at,              (* the number of its next call                          *)
  pointer_array,   (* the pointers it holds, of all arrays in one          *)
  served           (* ghost: of each round, how many calls returned a block *)

programVars == <<vars, program, at, pointer_array, served>>

NULL == -1
MainPointers == 7
Slots == 0..(MainPointers + NUM + PerBatch * Batches)

-----------------------------------------------------------------------------
(* The steps of a script. *)
Malloc(slot, sizes, used) ==
  [op |-> "malloc", slot |-> slot, sizes |-> sizes, used |-> used]
Release(slot) == [op |-> "free", slot |-> slot]
SetNull == [op |-> "null"]

(* The sizes the call number j asks for. *)
Calls == 0..(NUM + PerBatch)
Small == [j \in Calls |-> SmallSizes]
SmallFirst == [j \in Calls |-> {LargeSizes[(j % 2) + 1]}]
LargeFirst == [j \in Calls |-> {LargeSizes[((j + 1) % 2) + 1]}]

(* Mutant: the array is set to NULL once, not in each round. *)
SymmetricKeepsPointers(sizes, used) ==
  FlattenSeq([round \in 1..Rounds |->
                (IF round = 1 THEN <<SetNull>> ELSE <<>>)
                \o [k \in 1..NUM |-> Malloc(k - 1, sizes[k - 1], used)]
                \o [k \in 1..NUM |-> Release(k - 1)]])

(* Each round fills an array and then frees it in order. *)
Symmetric(sizes, used) ==
  FlattenSeq([round \in 1..Rounds |->
                <<SetNull>>
                \o [k \in 1..NUM |-> Malloc(k - 1, sizes[k - 1], used)]
                \o [k \in 1..NUM |-> Release(k - 1)]])

(* The arrays are freed by halves: the upper half first, then the upper half of
   what is left, and array 0 last. *)
FreeOrder ==
  LET From[half \in 0..Batches] ==
        IF half = 0 THEN <<0>>
        ELSE [k \in 1..half |-> half + k - 1] \o From[half \div 2]
  IN  From[Batches \div 2]

(* All arrays are filled, and then freed. *)
Asymmetric(sizes, used) ==
  <<SetNull>>
  \o [k \in 1..(Batches * PerBatch) |->
        Malloc(k - 1, sizes[(k - 1) % PerBatch], used)]
  \o FlattenSeq([i \in DOMAIN FreeOrder |->
                   [k \in 1..PerBatch |-> Release(FreeOrder[i] * PerBatch + k - 1)]])

(* main.c: banana, banana2, bigFuck, bigFuck1, bigFuck2; banana3; bigFuck3. *)
MainScript ==
  <<SetNull, Malloc(0, {4}, 4), Malloc(1, {4}, 4)>>
  \o [k \in 1..3 |-> Malloc(k + 1, {32}, 32)]
  \o <<Release(0), Release(1), Malloc(5, {4}, 4), Release(5),
       Release(2), Release(3), Release(4), Malloc(6, {32}, 0), Release(6)>>

SmallSymmetric  == Symmetric(Small, SmallTest)
SmallAsymmetric == Asymmetric(Small, SmallTest)
LargeSymmetric  == Symmetric(SmallFirst, LargeTest)
LargeUnwritten  == Symmetric(SmallFirst, 0)   (* with worst fit: no `test` *)
LargeAsymmetric == Asymmetric(LargeFirst, LargeTest)

Script ==
  CASE program = "any"              -> <<>>
    [] program = "main"             -> MainScript
    [] program = "small_symmetric"  -> SmallSymmetric
    [] program = "small_asymmetric" -> SmallAsymmetric
    [] program = "large_symmetric"  -> IF strat = BEST_FIT THEN LargeSymmetric
                                       ELSE LargeUnwritten
    [] program = "large_asymmetric" -> LargeAsymmetric

-----------------------------------------------------------------------------
Done == at > Len(Script)
Op == Script[at]

(* The program makes its next call, which is of this kind. *)
Step(op) ==
  /\ ~Done /\ Op.op = op
  /\ at' = at + 1
  /\ UNCHANGED program

NewArray ==
  /\ Runs /\ Step("null")
  /\ pointer_array' = [slot \in Slots |-> NULL]
  /\ served' = Append(served, 0)
  /\ UNCHANGED vars

(* A block is returned, and the program writes so much of it. *)
GetsBlock ==
  /\ Step("malloc")
  /\ \E size \in Op.sizes :
       /\ MallocSplit(size, Op.used) \/ MallocWhole(size, Op.used)
       /\ pointer_array' =
            [pointer_array EXCEPT ![Op.slot] = free[Fit(TotalSize(size))].addr]
  /\ served' = [served EXCEPT ![Len(served)] = @ + 1]

(* NULL is returned, and the array keeps what it had.  With an empty list the
   call reads through NULL instead. *)
GetsNull ==
  /\ Step("malloc")
  /\ \E size \in Op.sizes :
       IF free = <<>> THEN MallocOnEmptyList ELSE MallocNull(size)
  /\ UNCHANGED <<pointer_array, served>>

(* The pointer stays in the array.  Of a NULL psufree makes nothing. *)
FreesBlock ==
  /\ Step("free")
  /\ \E b \in live : b.addr = pointer_array[Op.slot] /\ Free(b)
  /\ UNCHANGED <<pointer_array, served>>

FreesNull ==
  /\ Runs /\ Step("free")
  /\ pointer_array[Op.slot] = NULL
  /\ UNCHANGED <<vars, pointer_array, served>>

ProgramInit ==
  /\ Init
  /\ program \in Programs
  /\ program = "main" => strat = WORST_FIT
  /\ at = 1
  /\ pointer_array = [slot \in Slots |-> NULL]
  /\ served = <<>>

ProgramNext ==
  \/ NewArray \/ GetsBlock \/ GetsNull \/ FreesBlock \/ FreesNull
  \/ /\ program = "any" /\ Next
     /\ UNCHANGED <<program, at, pointer_array, served>>

ProgramSpec == ProgramInit /\ [][ProgramNext]_programVars

-----------------------------------------------------------------------------
(***************************************************************************)
(* Properties                                                              *)
(***************************************************************************)
(* psufree trusts the magic number, which stays in the bytes of a freed block:
   no program frees a block twice, although failed calls leave old pointers
   in the arrays and the arrays are freed by halves; and each gives back all
   that it was given. *)
FreesEachBlockOnce ==
  /\ Runs /\ ~Done /\ Op.op = "free" =>
       pointer_array[Op.slot] \in {NULL} \union {b.addr : b \in live}
  /\ Done /\ program # "any" => live = {}

(* Nothing is coalesced, yet large_symmetric_best.c gets as many blocks in each
   round as in the first, as test_output3.txt records: the exact fits that psufree
   put back are found again, so that the pieces do not get smaller for good.
   (With worst fit later rounds get fewer, test_output4.txt.) *)
RoundsServedAlike ==
  program = "large_symmetric" /\ strat = BEST_FIT =>
    \A r \in DOMAIN served :
      r < Len(served) \/ Done => served[r] = served[1]
=============================================================================
