------------------------------ MODULE Reducer -------------------------------
(***************************************************************************)
(* reducer() of prog3/cmpsc473mr.c: main() runs it alone, once the adders  *)
(* are done, to sum the per-replica lists into finalList.                  *)
(*                                                                         *)
(* One action per iteration of its two loops.                              *)
(***************************************************************************)
EXTENDS WordList, SequencesExt

CONSTANTS
  replicas,      (* the number of lists                                    *)
  Words,         (* the words of the file                                  *)
  MapperOutput   (* the families of lists the mapper stage may leave       *)

Replicas == 1..replicas
Nodes    == [word : Words, count : Nat \ {0}]

ASSUME ReplicasAssumption == replicas \in Nat \ {0}
(* An adder has at most one node per word in its list. *)
ASSUME OutputAssumption ==
  \A lists \in MapperOutput : /\ lists \in [Replicas -> Seq(Nodes)]
                              /\ \A r \in Replicas : Distinct(lists[r])

VARIABLES
  pc,            (* "pick", "scan" or "done"                               *)
  i, j,          (* the list the word came from, the list to scan next     *)
  lists,         (* buffer_adder_array                                     *)
  size,          (* bw_size_array                                          *)
  finalList,     (* finalList, its head first                              *)
  flSize,        (* *flSize                                                *)
  given,         (* ghost: the lists the mapper stage left                 *)
  headMatched    (* ghost: some match was the head of its list             *)

vars == <<pc, i, j, lists, size, finalList, flSize, given, headMatched>>

-----------------------------------------------------------------------------
(* The outer loop: pop the head of the first non-empty list and push it on
   finalList, or stop when every list is empty. *)
NonEmpty == {r \in Replicas : lists[r] # <<>>}

PickWord ==
  /\ pc = "pick" /\ NonEmpty # {}
  /\ i' = Min(NonEmpty)
  /\ j' = i'
  /\ finalList' = PushHead(Head(lists[i']), finalList)
  /\ flSize' = flSize + 1
  /\ lists' = [lists EXCEPT ![i'] = PopHead(@)]
  /\ size' = [size EXCEPT ![i'] = @ - 1]
  /\ pc' = "scan"
  /\ UNCHANGED <<given, headMatched>>

ListsEmpty ==
  /\ pc = "pick" /\ NonEmpty = {}
  /\ pc' = "done"
  /\ UNCHANGED <<i, j, lists, size, finalList, flSize, given, headMatched>>

(* The inner loop, for j = i .. replicas: one list per iteration. *)
Match == FindMatch(lists[j], finalList[1].word, size[j])

ScanNext ==
  /\ pc = "scan"
  /\ j' = j + 1
  /\ pc' = IF j < replicas THEN "scan" ELSE "pick"
  /\ UNCHANGED <<i, flSize, given>>

ScanNoMatch ==
  /\ ScanNext
  /\ Match = 0
  /\ UNCHANGED <<lists, size, finalList, headMatched>>

(* Mutant: the matching node is freed and its count is forgotten. *)
ScanInsideForgets ==
  /\ ScanNext
  /\ Match > 1
  /\ lists' = [lists EXCEPT ![j] = RemoveAt(@, Match)]
  /\ size' = [size EXCEPT ![j] = @ - 1]
  /\ UNCHANGED <<finalList, headMatched>>

(* Mutant: the node is unlinked and the size is not decremented. *)
ScanInsideStaleSize ==
  /\ ScanNext
  /\ Match > 1
  /\ finalList' = [finalList EXCEPT ![1].count = @ + lists[j][Match].count]
  /\ lists' = [lists EXCEPT ![j] = RemoveAt(@, Match)]
  /\ UNCHANGED <<size, headMatched>>

(* The match has a predecessor: unlink it and add its count. *)
ScanInside ==
  /\ ScanNext
  /\ Match > 1
  /\ finalList' = [finalList EXCEPT ![1].count = @ + lists[j][Match].count]
  /\ lists' = [lists EXCEPT ![j] = RemoveAt(@, Match)]
  /\ size' = [size EXCEPT ![j] = @ - 1]
  /\ UNCHANGED headMatched

(* Mutant: list i is empty, and the iteration starts over instead of going
   to the next list. *)
ScanHeadRetries ==
  /\ pc = "scan"
  /\ Match = 1
  /\ headMatched' = TRUE
  /\ UNCHANGED <<pc, i, j, lists, size, finalList, flSize, given>>

(* The match is the head of list j: the code pops list i, whose head is
   another word's node, or nothing when list i has become empty.  popHead
   decrements the size of list i, and then the size of list j goes down too. *)
ScanHead ==
  /\ ScanNext
  /\ Match = 1
  /\ headMatched' = TRUE
  /\ \/ lists[i] = <<>> /\ UNCHANGED <<lists, size, finalList>>
     \/ /\ lists[i] # <<>>
        /\ finalList' = [finalList EXCEPT ![1].count =
                           @ + Head(lists[i]).count]
        /\ lists' = [lists EXCEPT ![i] = PopHead(@)]
        /\ size' = [[size EXCEPT ![i] = @ - 1] EXCEPT ![j] = @ - 1]

-----------------------------------------------------------------------------
Init ==
  /\ given \in MapperOutput
  /\ lists = given
  /\ size = [r \in Replicas |-> Len(lists[r])]
  /\ pc = "pick"
  /\ i = 1 /\ j = 1
  /\ finalList = <<>> /\ flSize = 0
  /\ headMatched = FALSE

Next == PickWord \/ ListsEmpty \/ ScanNoMatch \/ ScanInside \/ ScanHead

Spec == Init /\ [][Next]_vars

(* main() runs nothing else until reducer() returns. *)
FairSpec == Spec /\ WF_vars(Next)

-----------------------------------------------------------------------------
(***************************************************************************)
(* Properties                                                              *)
(***************************************************************************)
(* The count a list holds for a set of words, over all of its nodes. *)
Total(list, words) ==
  SumFunction([k \in DOMAIN list |->
                 IF list[k].word \in words THEN list[k].count ELSE 0])
TotalOf(family, words) == SumFunction([r \in Replicas |-> Total(family[r], words)])

(* The result is the sum of the buffers: one node per word, with the count of
   the word over all lists. *)
Exact ==
  /\ Distinct(finalList)
  /\ \A w \in Words : Total(finalList, {w}) = TotalOf(given, {w})

(* Whatever node is popped for whatever match, no occurrence disappears and
   none is counted twice: the sum over all words is what the mappers left.
   Each word's own sum is right as long as no match was at the head of its
   list: the branch for such a match is the only one that goes wrong. *)
OccurrencesConserved ==
  /\ TotalOf(lists, Words) + Total(finalList, Words) = TotalOf(given, Words)
  /\ pc = "done" /\ ~headMatched => Exact

(* The search for a match stays inside the lists: it indexes no list that is
   not there, and the size of a list, which bounds it, is never above its
   length, though the code counts nodes off the wrong list. *)
ScanStaysInside ==
  /\ pc = "scan" => j \in Replicas
  /\ \A r \in Replicas : size[r] <= Len(lists[r])

(* The reducer comes to its end whatever the lists are, even where nodes are
   popped from the wrong list or left where they were matched. *)
ReducerReturns == <>(pc = "done")

(* cmpsc473mr.c:193 "Search the remaining lists for nodes with that same word,
   and increment the head of the final list". *)
FinalListExact == pc = "done" => Exact
=============================================================================
