--------------------------- MODULE ReducerProofs ----------------------------
(***************************************************************************)
(* Theorems about the reducer, for every number of lists and whatever the  *)
(* mapper stage left in them.                                              *)
(***************************************************************************)
EXTENDS Reducer, CollectionLemmas

(* Nodes with any count: what the reducer does is the same for all. *)
Counted == [word : Words, count : Nat]

(* What a node adds to the total of a set of words. *)
Share(node, words) == IF node.word \in words THEN node.count ELSE 0

Shares(list, words) == [k \in DOMAIN list |-> Share(list[k], words)]

LEMMA SharesType ==
  ASSUME NEW list \in Seq(Counted), NEW W
  PROVE  /\ Len(list) \in Nat /\ DOMAIN list = 1..Len(list)
         /\ IsFiniteSet(1..Len(list))
         /\ \A k \in 1..Len(list) : /\ list[k] \in Counted
                                    /\ Share(list[k], W) \in Nat
                                    /\ Shares(list, W)[k] = Share(list[k], W)
         /\ Total(list, W) = SumFunctionOnSet(Shares(list, W), 1..Len(list))
         /\ Total(list, W) \in Int
<1>1. Len(list) \in Nat /\ DOMAIN list = 1..Len(list)
  BY LenProperties
<1>2. IsFiniteSet(1..Len(list))
  BY <1>1, FS_Interval
<1>3. \A k \in 1..Len(list) : list[k] \in Counted
  BY <1>1
<1>4. \A k \in 1..Len(list) : Share(list[k], W) \in Nat
  BY <1>3 DEF Share, Counted
<1>5. \A k \in 1..Len(list) : Shares(list, W)[k] = Share(list[k], W)
  BY <1>1 DEF Shares
<1>6. Total(list, W) = SumFunctionOnSet(Shares(list, W), 1..Len(list))
  BY <1>1 DEF Total, SumFunction, Shares, Share
<1>7. \A k \in 1..Len(list) : Shares(list, W)[k] \in Int
  BY <1>4, <1>5
<1>8. Total(list, W) \in Int
  BY <1>2, <1>6, <1>7, SumOnSet
<1> QED
  BY <1>1, <1>2, <1>3, <1>4, <1>5, <1>6, <1>8

(* A list without its k-th node has lost the node's share. *)
LEMMA TotalWithout ==
  ASSUME NEW list \in Seq(Counted), NEW k \in 1..Len(list), NEW W,
         NEW rest \in Seq(Counted), Len(rest) = Len(list) - 1,
         \A m \in 1..(Len(list) - 1) :
           rest[m] = IF m < k THEN list[m] ELSE list[m + 1]
  PROVE  Total(list, W) = Total(rest, W) + Share(list[k], W)
<1> DEFINE f == Shares(list, W)
           h == Shares(rest, W)
           n == Len(list)
<1>1. /\ n \in Nat /\ \A m \in 1..n : f[m] = Share(list[m], W) /\ f[m] \in Int
      /\ Total(list, W) = SumFunctionOnSet(f, 1..n)
  BY SharesType
<1>2. /\ \A m \in 1..(n - 1) : h[m] = Share(rest[m], W)
      /\ Total(rest, W) = SumFunctionOnSet(h, 1..(n - 1))
      /\ Total(rest, W) \in Int
  BY SharesType
<1>3. ASSUME NEW m \in 1..(n - 1)
      PROVE  h[m] = IF m < k THEN f[m] ELSE f[m + 1]
  <2>1. m \in 1..n /\ m + 1 \in 1..n
    BY <1>1
  <2>2. /\ f[m] = Share(list[m], W) /\ f[m + 1] = Share(list[m + 1], W)
        /\ h[m] = Share(rest[m], W)
    BY <1>1, <1>2, <2>1
  <2> QED
    BY <2>2
<1> HIDE DEF f, h
<1>4. SumFunctionOnSet(f, 1..n) = f[k] + SumFunctionOnSet(h, 1..(n - 1))
  BY <1>1, <1>3, SumRemoveAt
<1> QED
  BY <1>1, <1>2, <1>4

LEMMA TotalRemove ==
  ASSUME NEW list \in Seq(Counted), NEW k \in 1..Len(list), NEW W
  PROVE  Total(list, W) = Total(RemoveAt(list, k), W) + Share(list[k], W)
BY RemoveAtProperties, TotalWithout

LEMMA TotalPush ==
  ASSUME NEW list \in Seq(Counted), NEW node \in Counted, NEW W
  PROVE  Total(PushHead(node, list), W) = Total(list, W) + Share(node, W)
<1> DEFINE long == PushHead(node, list)
<1>1. /\ long \in Seq(Counted) /\ Len(long) = Len(list) + 1 /\ long[1] = node
      /\ Len(list) \in Nat /\ \A m \in 1..Len(list) : long[m + 1] = list[m]
  BY PushHeadProperties, PushHeadDomain
<1> HIDE DEF long
<1>2. /\ 1 \in 1..Len(long) /\ Len(list) = Len(long) - 1
      /\ \A m \in 1..(Len(long) - 1) :
           list[m] = IF m < 1 THEN long[m] ELSE long[m + 1]
  BY <1>1
<1>3. Total(long, W) = Total(list, W) + Share(long[1], W)
  BY <1>1, <1>2, TotalWithout
<1> QED
  BY <1>1, <1>3 DEF long

LEMMA TotalPop ==
  ASSUME NEW list \in Seq(Counted), list # <<>>, NEW W
  PROVE  Total(list, W) = Total(PopHead(list), W) + Share(Head(list), W)
<1>1. /\ Tail(list) \in Seq(Counted) /\ Head(list) \in Counted
      /\ PopHead(list) = Tail(list)
  BY DEF PopHead
<1>2. list = PushHead(Head(list), Tail(list))
  BY DEF PushHead
<1> DEFINE h == Head(list)
           t == Tail(list)
<1> HIDE DEF h, t
<1>3. Total(PushHead(h, t), W) = Total(t, W) + Share(h, W)
  BY <1>1, TotalPush DEF h, t
<1> QED
  BY <1>1, <1>2, <1>3 DEF h, t

(* Adding to the count of the head of finalList. *)
LEMMA TotalRaise ==
  ASSUME NEW list \in Seq(Counted), list # <<>>, NEW n \in Nat, NEW W,
         NEW new \in {[list EXCEPT ![1].count = @ + n]}
  PROVE  /\ new \in Seq(Counted) /\ Len(new) = Len(list)
         /\ \A k \in 1..Len(list) : new[k].word = list[k].word
         /\ Total(new, W)
              = Total(list, W) + (IF list[1].word \in W THEN n ELSE 0)
<1> DEFINE x == [list[1] EXCEPT !.count = @ + n]
<1>1. new = [list EXCEPT ![1] = x] /\ Len(list) \in Nat /\ 1 \in 1..Len(list)
  OBVIOUS
<1>2. list[1] \in Counted
  BY <1>1
<1>3. /\ x \in Counted /\ x.word = list[1].word
      /\ x.count = list[1].count + n /\ list[1].count \in Nat
  BY <1>2 DEF Counted
<1> HIDE DEF x
<1>4. /\ [list EXCEPT ![1] = x] \in Seq(Counted)
      /\ Len([list EXCEPT ![1] = x]) = Len(list)
      /\ \A m \in 1..Len(list) : [list EXCEPT ![1] = x][m]
                                   = IF m = 1 THEN x ELSE list[m]
  BY <1>1, <1>3, ExceptSeq
<1>5. /\ new \in Seq(Counted) /\ Len(new) = Len(list)
      /\ \A m \in 1..Len(list) : new[m] = IF m = 1 THEN x ELSE list[m]
  BY <1>1, <1>4
<1> DEFINE f == Shares(list, W)
           h == Shares(new, W)
           D == 1..Len(list)
<1>6. /\ IsFiniteSet(D) /\ 1 \in D
      /\ \A m \in D : f[m] = Share(list[m], W) /\ f[m] \in Int
      /\ Total(list, W) = SumFunctionOnSet(f, D) /\ Total(list, W) \in Int
  BY <1>1, SharesType
<1>7. /\ \A m \in D : h[m] = Share(new[m], W) /\ h[m] \in Int
      /\ Total(new, W) = SumFunctionOnSet(h, D)
  BY <1>5, SharesType
<1>8. \A m \in D : m # 1 => h[m] = f[m]
  BY <1>5, <1>6, <1>7
<1>9. h[1] = f[1] + (IF list[1].word \in W THEN n ELSE 0)
  BY <1>3, <1>5, <1>6, <1>7 DEF Share
<1> HIDE DEF f, h, D
<1>10. SumFunctionOnSet(h, D) = SumFunctionOnSet(f, D) - f[1] + h[1]
  BY <1>6, <1>7, <1>8, SumChanged
<1>11. Total(new, W) = Total(list, W) + (IF list[1].word \in W THEN n ELSE 0)
  BY <1>6, <1>7, <1>9, <1>10
<1>12. \A k \in 1..Len(list) : new[k].word = list[k].word
  BY <1>3, <1>5
<1> QED
  BY <1>5, <1>11, <1>12

(* The total of a family when one of its lists changes. *)
LEMMA TotalOfChanged ==
  ASSUME NEW family \in [Replicas -> Seq(Counted)],
         NEW new \in [Replicas -> Seq(Counted)], NEW r \in Replicas, NEW W,
         \A q \in Replicas : q # r => new[q] = family[q]
  PROVE  /\ TotalOf(family, W) \in Int /\ TotalOf(new, W) \in Int
         /\ TotalOf(new, W) = TotalOf(family, W) - Total(family[r], W)
                              + Total(new[r], W)
<1> DEFINE f == [q \in Replicas |-> Total(family[q], W)]
           h == [q \in Replicas |-> Total(new[q], W)]
           D == Replicas
<1>0. \A q \in Replicas : family[q] \in Seq(Counted) /\ new[q] \in Seq(Counted)
  OBVIOUS
<1>1. IsFiniteSet(D) /\ r \in D
  BY ReplicasAssumption, FS_Interval DEF Replicas
<1>2. \A q \in D : f[q] \in Int
  BY <1>0, SharesType
<1>3. \A q \in D : h[q] \in Int
  BY <1>0, SharesType
<1>4. /\ TotalOf(family, W) = SumFunctionOnSet(f, D)
      /\ TotalOf(new, W) = SumFunctionOnSet(h, D)
      /\ f[r] = Total(family[r], W) /\ h[r] = Total(new[r], W)
  BY DEF TotalOf, SumFunction
<1>5. \A q \in D : q # r => h[q] = f[q]
  OBVIOUS
<1> HIDE DEF f, h, D
<1>6. SumFunctionOnSet(h, D) = SumFunctionOnSet(f, D) - f[r] + h[r]
  BY ONLY <1>1, <1>2, <1>3, <1>5, SumChanged
<1>7. SumFunctionOnSet(f, D) \in Int /\ SumFunctionOnSet(h, D) \in Int
  BY <1>1, <1>2, <1>3, SumOnSet
<1> QED
  BY <1>4, <1>6, <1>7

(* Empty lists have no total. *)
LEMMA TotalOfEmpty ==
  ASSUME NEW family, \A r \in Replicas : family[r] = <<>>, NEW W
  PROVE  TotalOf(family, W) = 0 /\ Total(<<>>, W) = 0
<1> DEFINE f == [q \in Replicas |-> Total(family[q], W)]
<1>0. Total(<<>>, W) = 0
  <2>1. <<>> \in Seq(Counted) /\ Len(<<>>) = 0
    OBVIOUS
  <2>2. 1..Len(<<>>) = {}
    BY <2>1
  <2>3. Total(<<>>, W) = SumFunctionOnSet(Shares(<<>>, W), {})
    BY <2>1, <2>2, SharesType
  <2>4. IsFiniteSet({}) /\ \A x \in {} : Shares(<<>>, W)[x] \in Int
    BY FS_EmptySet
  <2> QED
    BY <2>3, <2>4, SumOnSet
<1>1. IsFiniteSet(Replicas)
  BY ReplicasAssumption, FS_Interval DEF Replicas
<1>2. \A q \in Replicas : f[q] = 0
  BY <1>0
<1>3. TotalOf(family, W) = SumFunctionOnSet(f, Replicas)
  BY DEF TotalOf, SumFunction
<1> HIDE DEF f
<1>4. SumFunctionOnSet(f, Replicas) = 0
  BY <1>1, <1>2, SumOfZeros
<1> QED
  BY <1>0, <1>3, <1>4

-----------------------------------------------------------------------------
(***************************************************************************)
(* The inductive invariant: the types and the bounds of the loops, and a   *)
(* size field that never exceeds the length of its list.                   *)
(***************************************************************************)
TypeInv ==
  /\ pc \in {"pick", "scan", "done"}
  /\ i \in Replicas /\ j \in 1..(replicas + 1)
  /\ pc = "scan" => j \in Replicas /\ finalList # <<>>
  /\ lists \in [Replicas -> Seq(Counted)]
  /\ size \in [Replicas -> Int]
  /\ finalList \in Seq(Counted)
  /\ given \in [Replicas -> Seq(Counted)]

BoundInv == \A r \in Replicas : size[r] <= Len(lists[r])

Balance(W) == TotalOf(lists, W) + Total(finalList, W) = TotalOf(given, W)

(* As long as no match was at the head of its list: the sizes are lengths, no
   word has two nodes in a list, every word keeps its own sum, and a word of
   finalList is in another list only while that list is still to be scanned
   for it. *)
ExactInv ==
  ~headMatched =>
    /\ \A r \in Replicas : size[r] = Len(lists[r]) /\ Distinct(lists[r])
    /\ Distinct(finalList)
    /\ \A w \in Words : Balance({w})
    /\ \A k \in DOMAIN finalList, r \in Replicas : \A m \in DOMAIN lists[r] :
         finalList[k].word = lists[r][m].word => pc = "scan" /\ k = 1 /\ r >= j

(* reducer() returns with empty lists. *)
EmptiedInv == pc = "done" => \A r \in Replicas : lists[r] = <<>>

IInv == TypeInv /\ BoundInv /\ Balance(Words) /\ ExactInv /\ EmptiedInv

(* Where reducer() starts, whatever handed it the lists. *)
Start ==
  /\ given \in [Replicas -> Seq(Counted)] /\ \A r \in Replicas : Distinct(given[r])
  /\ lists = given /\ size = [r \in Replicas |-> Len(lists[r])]
  /\ pc = "pick" /\ i = 1 /\ j = 1 /\ finalList = <<>>

LEMMA StartInv == Start => IInv
<1> SUFFICES ASSUME Start PROVE IInv
  OBVIOUS
<1>1. \A r \in Replicas : lists[r] \in Seq(Counted)
  BY DEF Start
<1>2. TypeInv
  <2>1. 1 \in Replicas /\ 1 \in 1..(replicas + 1) /\ <<>> \in Seq(Counted)
    BY ReplicasAssumption DEF Replicas
  <2>2. size \in [Replicas -> Int]
    BY <1>1, LenProperties DEF Start
  <2> QED
    BY <2>1, <2>2 DEF Start, TypeInv
<1>3. BoundInv
  BY <1>1, LenProperties DEF Start, BoundInv
<1>4. ASSUME NEW W PROVE Balance(W)
  <2>1. Total(<<>>, W) = 0
    <3> DEFINE empty == [r \in Replicas |-> <<>>]
    <3>1. \A r \in Replicas : empty[r] = <<>>
      OBVIOUS
    <3> QED
      BY <3>1, TotalOfEmpty
  <2>2. TotalOf(lists, W) \in Int
    <3>1. 1 \in Replicas /\ lists \in [Replicas -> Seq(Counted)]
      BY <1>2, ReplicasAssumption DEF Replicas, TypeInv
    <3> QED
      BY <3>1, TotalOfChanged
  <2> QED
    BY <2>1, <2>2 DEF Start, Balance
<1>5. ExactInv
  <2>1. /\ \A r \in Replicas : size[r] = Len(lists[r]) /\ Distinct(lists[r])
        /\ DOMAIN finalList = {}
    BY DEF Start
  <2> QED
    BY <1>4, <2>1 DEF ExactInv, Distinct
<1> QED
  BY <1>2, <1>3, <1>4, <1>5 DEF Start, IInv, EmptiedInv

LEMMA InitReducer == Init => IInv
<1> SUFFICES ASSUME Init PROVE Start
  BY StartInv
<1>1. given \in [Replicas -> Seq(Nodes)] /\ \A r \in Replicas : Distinct(given[r])
  BY OutputAssumption DEF Init
<1>2. given \in [Replicas -> Seq(Counted)]
  <2>1. Nodes \subseteq Counted
    BY DEF Nodes, Counted
  <2>2. Seq(Nodes) \subseteq Seq(Counted)
    BY <2>1
  <2> QED
    BY <1>1, <2>2
<1> QED
  BY <1>1, <1>2 DEF Init, Start

(* One list loses a node of some share, finalList gains as much. *)
LEMMA BalanceKept ==
  ASSUME TypeInv, NEW W, Balance(W), NEW r \in Replicas, NEW n \in Int,
         lists' \in [Replicas -> Seq(Counted)],
         \A q \in Replicas : q # r => lists'[q] = lists[q],
         finalList' \in Seq(Counted), given' = given,
         Total(lists[r], W) = Total(lists'[r], W) + n,
         Total(finalList', W) = Total(finalList, W) + n
  PROVE  Balance(W)'
<1>1. /\ \A q \in Replicas : lists[q] \in Seq(Counted) /\ lists'[q] \in Seq(Counted)
      /\ finalList \in Seq(Counted)
  BY DEF TypeInv
<1>2. /\ TotalOf(lists, W) \in Int /\ TotalOf(lists', W) \in Int
      /\ TotalOf(lists', W) = TotalOf(lists, W) - Total(lists[r], W)
                               + Total(lists'[r], W)
  <2> DEFINE old == lists
             new == lists'
  <2>1. /\ old \in [Replicas -> Seq(Counted)] /\ new \in [Replicas -> Seq(Counted)]
        /\ \A q \in Replicas : q # r => new[q] = old[q]
    BY DEF TypeInv
  <2> HIDE DEF old, new
  <2>2. /\ TotalOf(old, W) \in Int /\ TotalOf(new, W) \in Int
        /\ TotalOf(new, W) = TotalOf(old, W) - Total(old[r], W) + Total(new[r], W)
    BY ONLY <2>1, TotalOfChanged
  <2> QED
    BY <2>2 DEF old, new
<1>3. /\ Total(lists[r], W) \in Int /\ Total(lists'[r], W) \in Int
      /\ Total(finalList, W) \in Int /\ Total(finalList', W) \in Int
  BY <1>1, SharesType
<1>4. TotalOf(lists', W) + Total(finalList', W)
        = TotalOf(lists, W) + Total(finalList, W)
  <2> DEFINE a == Total(lists[r], W)
             b == Total(lists'[r], W)
             c == Total(finalList, W)
             d == Total(finalList', W)
             x == TotalOf(lists, W)
             y == TotalOf(lists', W)
  <2>1. a \in Int /\ b \in Int /\ c \in Int /\ d \in Int /\ x \in Int /\ y \in Int
    BY <1>2, <1>3
  <2>2. y = x - a + b /\ a = b + n /\ d = c + n
    BY <1>2
  <2> HIDE DEF a, b, c, d, x, y
  <2>3. y + d = x + c
    BY <2>1, <2>2
  <2> QED
    BY <2>3 DEF c, d, x, y
<1> QED
  BY <1>4 DEF Balance

LEMMA PickStep == IInv /\ PickWord => IInv'
<1> SUFFICES ASSUME IInv, PickWord PROVE IInv'
  OBVIOUS
<1> DEFINE list == lists[i']
           node == Head(list)
           rest == PopHead(list)
<1>1. /\ pc = "pick" /\ pc' = "scan" /\ j' = i' /\ given' = given
      /\ headMatched' = headMatched
      /\ finalList' = PushHead(node, finalList)
      /\ lists' = [lists EXCEPT ![i'] = rest]
      /\ size' = [size EXCEPT ![i'] = @ - 1]
  BY DEF PickWord
<1>2. /\ i' \in Replicas /\ list # <<>>
      /\ \A q \in Replicas : q < i' => lists[q] = <<>>
  <2>1. NonEmpty \in SUBSET Nat /\ NonEmpty # {} /\ i' = Min(NonEmpty)
    BY DEF PickWord, NonEmpty, Replicas
  <2>2. \E m \in NonEmpty : \A q \in NonEmpty : m <= q
    BY <2>1, LeastNatural
  <2>3. i' \in NonEmpty /\ \A q \in NonEmpty : i' <= q
    BY <2>1, <2>2 DEF Min
  <2> QED
    BY <2>3 DEF NonEmpty, Replicas
<1>3. /\ \A q \in Replicas : lists[q] \in Seq(Counted)
      /\ list \in Seq(Counted) /\ finalList \in Seq(Counted)
      /\ lists \in [Replicas -> Seq(Counted)] /\ size \in [Replicas -> Int]
  BY <1>2 DEF IInv, TypeInv
<1>4. /\ node \in Counted /\ rest \in Seq(Counted) /\ Len(rest) = Len(list) - 1
      /\ Len(list) \in Nat
  BY <1>2, <1>3, PopHeadProperties
<1>5. /\ finalList' \in Seq(Counted) /\ finalList'[1] = node
      /\ Len(finalList') = Len(finalList) + 1 /\ Len(finalList) \in Nat
      /\ \A k \in 1..Len(finalList) : finalList'[k + 1] = finalList[k]
      /\ DOMAIN finalList = 1..Len(finalList)
      /\ DOMAIN finalList' = 1..(Len(finalList) + 1)
  <2> HIDE DEF node
  <2>1. /\ finalList' \in Seq(Counted) /\ finalList'[1] = node
        /\ Len(finalList') = Len(finalList) + 1
        /\ \A k \in 1..Len(finalList) : finalList'[k + 1] = finalList[k]
    <3> DEFINE fl == finalList
               long == PushHead(node, fl)
    <3>1. fl \in Seq(Counted) /\ node \in Counted
      BY <1>3, <1>4
    <3> HIDE DEF fl
    <3>2. /\ long \in Seq(Counted) /\ long[1] = node /\ Len(long) = Len(fl) + 1
          /\ \A k \in 1..Len(fl) : long[k + 1] = fl[k]
      BY ONLY <3>1, PushHeadProperties
    <3> QED
      BY <1>1, <3>2 DEF fl
  <2>2. /\ DOMAIN finalList = 1..Len(finalList) /\ Len(finalList) \in Nat
        /\ DOMAIN finalList' = 1..(Len(finalList) + 1)
    BY ONLY <1>1, <1>3, <1>4, PushHeadDomain
  <2> QED
    BY <2>1, <2>2
<1>6. /\ lists'[i'] = rest /\ size'[i'] = size[i'] - 1
      /\ \A q \in Replicas : q # i' => lists'[q] = lists[q] /\ size'[q] = size[q]
      /\ \A q \in Replicas : lists'[q] \in Seq(Counted)
      /\ lists' \in [Replicas -> Seq(Counted)]
  BY <1>1, <1>2, <1>3, <1>4
<1>7. /\ DOMAIN list = 1..Len(list) /\ DOMAIN rest = 1..(Len(list) - 1)
      /\ node = list[1] /\ \A k \in 1..(Len(list) - 1) : rest[k] = list[k + 1]
  BY <1>2, <1>3 DEF PopHead
<1>8. \A W : /\ Total(list, W) = Total(rest, W) + Share(node, W)
             /\ Total(finalList', W) = Total(finalList, W) + Share(node, W)
             /\ Share(node, W) \in Int
  <2> SUFFICES ASSUME NEW W
               PROVE  /\ Total(list, W) = Total(rest, W) + Share(node, W)
                      /\ Total(finalList', W) = Total(finalList, W) + Share(node, W)
                      /\ Share(node, W) \in Int
    OBVIOUS
  <2>1. Total(list, W) = Total(rest, W) + Share(node, W)
    BY <1>2, <1>3, TotalPop
  <2>2. Total(finalList', W) = Total(finalList, W) + Share(node, W)
    BY <1>1, <1>3, <1>4, TotalPush
  <2>3. Share(node, W) \in Int
    BY <1>4 DEF Share, Counted
  <2> QED
    BY <2>1, <2>2, <2>3
<1> HIDE DEF list, node, rest
<1>9. \A W : Balance(W) => Balance(W)'
  <2> SUFFICES ASSUME NEW W, Balance(W) PROVE Balance(W)'
    OBVIOUS
  <2>1. lists[i'] = list
    BY DEF list
  <2>2. /\ Total(lists[i'], W) = Total(lists'[i'], W) + Share(node, W)
        /\ Total(finalList', W) = Total(finalList, W) + Share(node, W)
        /\ Share(node, W) \in Int
    BY <1>6, <1>8, <2>1
  <2> QED
    BY <1>1, <1>2, <1>5, <1>6, <2>2, BalanceKept DEF IInv
<1>10. TypeInv'
  <2>1. j' \in Replicas /\ j' \in 1..(replicas + 1)
    BY <1>1, <1>2, ReplicasAssumption DEF Replicas
  <2>2. finalList' # <<>>
    BY <1>5
  <2>3. /\ lists' \in [Replicas -> Seq(Counted)] /\ size' \in [Replicas -> Int]
        /\ given' \in [Replicas -> Seq(Counted)]
    BY <1>1, <1>2, <1>3, <1>4 DEF IInv, TypeInv
  <2> QED
    BY <1>1, <1>2, <1>5, <2>1, <2>2, <2>3 DEF TypeInv
<1>11. BoundInv'
  <2>1. size[i'] <= Len(list) /\ size[i'] \in Int
    BY <1>2, <1>3 DEF IInv, BoundInv, list
  <2>2. size'[i'] <= Len(lists'[i'])
    BY <1>4, <1>6, <2>1
  <2> QED
    BY <1>6, <2>2 DEF IInv, BoundInv
<1>12. ExactInv'
  <2> SUFFICES ASSUME ~headMatched PROVE ExactInv'
    BY <1>1 DEF ExactInv
  <2>1. /\ \A r \in Replicas : size[r] = Len(lists[r]) /\ Distinct(lists[r])
        /\ Distinct(finalList) /\ \A w \in Words : Balance({w})
        /\ \A k \in DOMAIN finalList, r \in Replicas : \A m \in DOMAIN lists[r] :
             finalList[k].word # lists[r][m].word
    BY <1>1 DEF IInv, ExactInv
  <2>2. /\ Distinct(rest) /\ \A m \in DOMAIN rest : rest[m].word # node.word
    <3>1. \A m \in 1..(Len(list) - 1) : m + 1 \in 1..Len(list) /\ m + 1 # 1
      BY <1>4
    <3>2. Distinct(list) /\ 1 \in DOMAIN list
      <4>1. Len(list) # 0
        BY <1>2, <1>3 DEF list
      <4> QED
        BY <1>2, <1>4, <1>7, <2>1, <4>1 DEF list
    <3>3. ASSUME NEW m \in DOMAIN rest PROVE rest[m].word # node.word
      BY <1>7, <3>1, <3>2 DEF Distinct
    <3>4. ASSUME NEW m \in DOMAIN rest, NEW k \in DOMAIN rest,
                 rest[m].word = rest[k].word
          PROVE  m = k
      <4>1. m + 1 = k + 1
        BY <1>7, <3>1, <3>2, <3>4 DEF Distinct
      <4>2. m \in Int /\ k \in Int
        BY <1>7
      <4> QED
        BY <4>1, <4>2
    <3> QED
      BY <3>3, <3>4 DEF Distinct
  <2>3. \A r \in Replicas : size'[r] = Len(lists'[r]) /\ Distinct(lists'[r])
    <3>1. size[i'] = Len(list)
      BY <1>2, <2>1 DEF list
    <3> QED
      BY <1>4, <1>6, <2>1, <2>2, <3>1
  <2>a. \A k \in 2..(Len(finalList) + 1) :
          k - 1 \in DOMAIN finalList /\ finalList'[k] = finalList[k - 1]
    <3> SUFFICES ASSUME NEW k \in 2..(Len(finalList) + 1)
                 PROVE  k - 1 \in DOMAIN finalList /\ finalList'[k] = finalList[k - 1]
      OBVIOUS
    <3>1. k - 1 \in 1..Len(finalList) /\ (k - 1) + 1 = k
      BY <1>5
    <3> QED
      BY <1>5, <3>1
  <2>b. \A k \in DOMAIN finalList : finalList[k].word # node.word
    <3>1. 1 \in DOMAIN list
      <4>1. Len(list) # 0
        BY <1>2, <1>3 DEF list
      <4> QED
        BY <1>4, <1>7, <4>1
    <3>2. 1 \in DOMAIN lists[i'] /\ node = lists[i'][1]
      BY <1>7, <3>1 DEF list
    <3> QED
      BY <1>2, <2>1, <3>2
  <2>4. Distinct(finalList')
    <3> SUFFICES ASSUME NEW k \in DOMAIN finalList', NEW m \in DOMAIN finalList',
                        finalList'[k].word = finalList'[m].word
                 PROVE  k = m
      BY DEF Distinct
    <3>0. \A x \in DOMAIN finalList' : x # 1 => x \in 2..(Len(finalList) + 1)
      BY <1>5
    <3>1. CASE k = 1 /\ m # 1
      BY <1>5, <2>a, <2>b, <3>0, <3>1
    <3>2. CASE k # 1 /\ m = 1
      BY <1>5, <2>a, <2>b, <3>0, <3>2
    <3>3. CASE k # 1 /\ m # 1
      <4>1. k - 1 = m - 1
        BY <2>1, <2>a, <3>0, <3>3 DEF Distinct
      <4> QED
        BY <1>5, <4>1
    <3> QED
      BY <3>1, <3>2, <3>3
  <2>5. ASSUME NEW k \in DOMAIN finalList', NEW r \in Replicas,
               NEW m \in DOMAIN lists'[r], finalList'[k].word = lists'[r][m].word
        PROVE  k = 1 /\ r >= j'
    <3>1. CASE k # 1
      <4>1. k \in 2..(Len(finalList) + 1)
        BY <1>5, <3>1
      <4>2. k - 1 \in DOMAIN finalList /\ finalList'[k] = finalList[k - 1]
        BY <2>a, <4>1
      <4>3. CASE r = i'
        <5>1. m \in 1..(Len(list) - 1) /\ lists'[r][m] = list[m + 1]
          BY <1>6, <1>7, <2>5, <4>3
        <5>2. m + 1 \in DOMAIN lists[i'] /\ lists[i'][m + 1] = list[m + 1]
          BY <1>4, <1>7, <5>1 DEF list
        <5> QED
          BY <1>2, <2>1, <2>5, <4>2, <5>1, <5>2
      <4>4. CASE r # i'
        BY <1>6, <2>1, <2>5, <4>2, <4>4
      <4> QED
        BY <4>3, <4>4
    <3>2. CASE ~(r >= j')
      <4>1. r < i'
        BY <1>1, <1>2, <3>2 DEF Replicas
      <4>2. lists'[r] = <<>>
        <5>1. r # i'
          BY <1>2, <4>1 DEF Replicas
        <5> QED
          BY <1>2, <1>6, <4>1, <5>1
      <4> QED
        BY <2>5, <4>2
    <3> QED
      BY <3>1, <3>2
  <2> QED
    BY <1>1, <1>9, <2>1, <2>3, <2>4, <2>5 DEF ExactInv
<1> QED
  BY <1>1, <1>9, <1>10, <1>11, <1>12 DEF IInv, EmptiedInv

LEMMA ListsEmptyStep == IInv /\ ListsEmpty => IInv'
<1> SUFFICES ASSUME IInv, ListsEmpty PROVE IInv'
  OBVIOUS
<1>1. /\ pc = "pick" /\ pc' = "done" /\ NonEmpty = {}
      /\ UNCHANGED <<i, j, lists, size, finalList, given, headMatched>>
  BY DEF ListsEmpty
<1>2. TypeInv' /\ BoundInv' /\ Balance(Words)' /\ \A W : Balance(W) => Balance(W)'
  BY <1>1 DEF IInv, TypeInv, BoundInv, Balance
<1>3. ExactInv'
  BY <1>1, <1>2 DEF IInv, ExactInv
<1>4. EmptiedInv'
  BY <1>1 DEF EmptiedInv, NonEmpty
<1> QED
  BY <1>2, <1>3, <1>4 DEF IInv

(* What findMatch tells the inner loop. *)
LEMMA MatchProperties ==
  ASSUME IInv, pc = "scan"
  PROVE  /\ j \in Replicas /\ lists[j] \in Seq(Counted) /\ finalList # <<>>
         /\ \/ /\ Match = 0
               /\ \A m \in DOMAIN lists[j] :
                    m <= size[j] => lists[j][m].word # finalList[1].word
            \/ /\ Match \in DOMAIN lists[j]
               /\ lists[j][Match].word = finalList[1].word
<1>1. /\ j \in Replicas /\ lists[j] \in Seq(Counted) /\ finalList # <<>>
      /\ size[j] \in Int
  BY DEF IInv, TypeInv
<1> DEFINE list == lists[j]
           word == finalList[1].word
           n    == size[j]
<1>2. list \in Seq(Counted) /\ n \in Int
  BY <1>1
<1> HIDE DEF list, word, n
<1>3. \/ /\ FindMatch(list, word, n) = 0
         /\ \A k \in DOMAIN list : k <= n => list[k].word # word
      \/ /\ FindMatch(list, word, n) \in DOMAIN list
         /\ list[FindMatch(list, word, n)].word = word
  BY <1>2, FindMatchProperties
<1>4. Match = FindMatch(list, word, n)
  BY DEF Match, list, word, n
<1> QED
  BY <1>1, <1>3, <1>4 DEF list, word, n

(* After an iteration in which list j keeps no node of the word. *)
LEMMA ScanNextType ==
  ASSUME IInv, ScanNext, finalList' # <<>>, finalList' \in Seq(Counted),
         lists' \in [Replicas -> Seq(Counted)], size' \in [Replicas -> Int]
  PROVE  TypeInv' /\ EmptiedInv'
<1>1. /\ pc = "scan" /\ j \in Replicas /\ i' = i /\ j' = j + 1 /\ given' = given
      /\ pc' = IF j < replicas THEN "scan" ELSE "pick"
  BY DEF ScanNext, IInv, TypeInv
<1>2. j' \in 1..(replicas + 1) /\ (pc' = "scan" => j' \in Replicas)
  BY <1>1, ReplicasAssumption DEF Replicas
<1> QED
  BY <1>1, <1>2 DEF IInv, TypeInv, EmptiedInv

LEMMA NoMatchStep == IInv /\ ScanNoMatch => IInv'
<1> SUFFICES ASSUME IInv, ScanNoMatch PROVE IInv'
  OBVIOUS
<1>1. /\ pc = "scan" /\ ScanNext /\ Match = 0 /\ j' = j + 1 /\ given' = given
      /\ pc' = IF j < replicas THEN "scan" ELSE "pick"
      /\ UNCHANGED <<lists, size, finalList, headMatched>>
  BY DEF ScanNoMatch, ScanNext
<1>2. TypeInv' /\ EmptiedInv'
  BY <1>1, ScanNextType DEF IInv, TypeInv
<1>3. BoundInv' /\ \A W : Balance(W) => Balance(W)'
  BY <1>1 DEF IInv, BoundInv, Balance
<1>4. ExactInv'
  <2> SUFFICES ASSUME ~headMatched PROVE ExactInv'
    BY <1>1 DEF ExactInv
  <2>1. /\ j \in Replicas /\ lists[j] \in Seq(Counted)
        /\ \A m \in DOMAIN lists[j] :
             m <= size[j] => lists[j][m].word # finalList[1].word
    <3>1. 0 \notin DOMAIN lists[j]
      BY <1>1, MatchProperties
    <3> QED
      BY <1>1, <3>1, MatchProperties
  <2>2. size[j] = Len(lists[j])
    BY <2>1 DEF IInv, ExactInv
  <2>3. \A m \in DOMAIN lists[j] : lists[j][m].word # finalList[1].word
    BY <2>1, <2>2, LenProperties
  <2>4. ASSUME NEW k \in DOMAIN finalList, NEW r \in Replicas,
               NEW m \in DOMAIN lists[r], finalList[k].word = lists[r][m].word
        PROVE  pc' = "scan" /\ k = 1 /\ r >= j'
    <3>1. k = 1 /\ r >= j
      BY <2>4 DEF IInv, ExactInv
    <3>2. r # j
      BY <2>3, <2>4, <3>1
    <3>3. r >= j + 1 /\ j < replicas
      BY <2>1, <3>1, <3>2, ReplicasAssumption DEF Replicas
    <3> QED
      BY <1>1, <3>1, <3>3
  <2> QED
    BY <1>1, <1>3, <2>4 DEF IInv, ExactInv
<1> QED
  BY <1>2, <1>3, <1>4 DEF IInv

(* A list without one of its nodes has no word twice if the list has none,
   and the word of that node is not in it. *)
LEMMA RemovedIsGone ==
  ASSUME NEW list \in Seq(Counted), NEW k \in 1..Len(list), Distinct(list)
  PROVE  /\ Distinct(RemoveAt(list, k))
         /\ \A m \in DOMAIN RemoveAt(list, k) :
              /\ RemoveAt(list, k)[m].word # list[k].word
              /\ \E n \in DOMAIN list :
                   n # k /\ RemoveAt(list, k)[m] = list[n]
<1> DEFINE rest == RemoveAt(list, k)
           At(m) == IF m < k THEN m ELSE m + 1
<1>1. /\ rest \in Seq(Counted) /\ Len(rest) = Len(list) - 1
      /\ \A m \in 1..(Len(list) - 1) :
           rest[m] = IF m < k THEN list[m] ELSE list[m + 1]
  BY RemoveAtProperties
<1> HIDE DEF rest
<1>2. /\ DOMAIN list = 1..Len(list) /\ Len(list) \in Nat
      /\ DOMAIN rest = 1..(Len(list) - 1)
  BY <1>1, LenProperties
<1>3. ASSUME NEW m \in DOMAIN rest
      PROVE  At(m) \in DOMAIN list /\ At(m) # k /\ rest[m] = list[At(m)]
  BY <1>1, <1>2
<1>4. ASSUME NEW m \in DOMAIN rest, NEW n \in DOMAIN rest, At(m) = At(n)
      PROVE  m = n
  BY <1>2, <1>4
<1> HIDE DEF At
<1>5. k \in DOMAIN list
  BY <1>2
<1>6. Distinct(rest)
  BY <1>3, <1>4 DEF Distinct
<1>7. \A m \in DOMAIN rest :
        rest[m].word # list[k].word /\ \E n \in DOMAIN list : n # k /\ rest[m] = list[n]
  BY <1>3, <1>5 DEF Distinct
<1> QED
  BY <1>6, <1>7 DEF rest

(* Raising the count of the head changes no word. *)
LEMMA RaiseKeepsWords ==
  ASSUME NEW list \in Seq(Counted), NEW new \in Seq(Counted), Len(new) = Len(list),
         \A k \in 1..Len(list) : new[k].word = list[k].word
  PROVE  /\ DOMAIN new = DOMAIN list
         /\ \A k \in DOMAIN list : new[k].word = list[k].word
         /\ Distinct(list) => Distinct(new)
<1>1. DOMAIN list = 1..Len(list) /\ DOMAIN new = 1..Len(list)
  BY LenProperties
<1> QED
  BY <1>1 DEF Distinct

LEMMA InsideStep == IInv /\ ScanInside => IInv'
<1> SUFFICES ASSUME IInv, ScanInside PROVE IInv'
  OBVIOUS
<1> DEFINE list == lists[j]
           k == Match
           n == list[k].count
           rest == RemoveAt(list, k)
<1>1. /\ pc = "scan" /\ ScanNext /\ k > 1 /\ j' = j + 1 /\ given' = given
      /\ pc' = IF j < replicas THEN "scan" ELSE "pick"
      /\ headMatched' = headMatched
      /\ finalList' = [finalList EXCEPT ![1].count = @ + n]
      /\ lists' = [lists EXCEPT ![j] = rest]
      /\ size' = [size EXCEPT ![j] = @ - 1]
  BY DEF ScanInside, ScanNext
<1>2. /\ j \in Replicas /\ list \in Seq(Counted)
      /\ finalList \in Seq(Counted) /\ finalList # <<>>
      /\ lists \in [Replicas -> Seq(Counted)] /\ size \in [Replicas -> Int]
  BY <1>1, MatchProperties DEF IInv, TypeInv
<1>3. k \in DOMAIN list /\ list[k].word = finalList[1].word
  BY <1>1, MatchProperties
<1>4. DOMAIN list = 1..Len(list) /\ Len(list) \in Nat /\ k \in 1..Len(list)
  BY <1>2, <1>3, LenProperties
<1>5. list[k] \in Counted /\ n \in Nat
  <2>1. list[k] \in Counted
    BY <1>2, <1>4, ElementOfSeq
  <2> QED
    BY <2>1 DEF Counted
<1> HIDE DEF list, k
<1>6. rest \in Seq(Counted) /\ Len(rest) = Len(list) - 1
  BY <1>2, <1>4, RemoveAtProperties
<1> HIDE DEF rest
<1>7. /\ lists'[j] = rest /\ size'[j] = size[j] - 1
      /\ \A q \in Replicas : q # j => lists'[q] = lists[q] /\ size'[q] = size[q]
      /\ lists' \in [Replicas -> Seq(Counted)] /\ size' \in [Replicas -> Int]
  BY <1>1, <1>2, <1>6
<1>8. \A W : Total(list, W) = Total(rest, W) + Share(list[k], W)
  BY <1>2, <1>4, TotalRemove DEF rest
<1> HIDE DEF n
<1>9. /\ finalList' \in Seq(Counted) /\ Len(finalList') = Len(finalList)
      /\ \A m \in 1..Len(finalList) : finalList'[m].word = finalList[m].word
      /\ \A W : Total(finalList', W)
                  = Total(finalList, W) + (IF finalList[1].word \in W THEN n ELSE 0)
  <2> DEFINE fl == finalList
             new == [fl EXCEPT ![1].count = @ + n]
  <2>1. fl \in Seq(Counted) /\ fl # <<>> /\ n \in Nat
    BY <1>2, <1>5
  <2>2. finalList' = new
    BY <1>1
  <2> HIDE DEF fl
  <2>3. /\ new \in Seq(Counted) /\ Len(new) = Len(fl)
        /\ \A m \in 1..Len(fl) : new[m].word = fl[m].word
        /\ \A W : Total(new, W) = Total(fl, W) + (IF fl[1].word \in W THEN n ELSE 0)
    BY <2>1, TotalRaise
  <2> QED
    BY <2>2, <2>3 DEF fl
<1>10. \A W : /\ Total(finalList', W) = Total(finalList, W) + Share(list[k], W)
              /\ Share(list[k], W) \in Int
  BY <1>3, <1>5, <1>9 DEF Share, n
<1>11. \A W : Balance(W) => Balance(W)'
  <2> SUFFICES ASSUME NEW W, Balance(W) PROVE Balance(W)'
    OBVIOUS
  <2> DEFINE x == Share(list[k], W)
  <2>1. /\ Total(lists[j], W) = Total(lists'[j], W) + x
        /\ Total(finalList', W) = Total(finalList, W) + x /\ x \in Int
    BY <1>7, <1>8, <1>10 DEF list
  <2> HIDE DEF x
  <2> QED
    BY <1>1, <1>2, <1>7, <1>9, <2>1, BalanceKept DEF IInv
<1>12. /\ DOMAIN finalList' = DOMAIN finalList
       /\ \A m \in DOMAIN finalList : finalList'[m].word = finalList[m].word
       /\ Distinct(finalList) => Distinct(finalList')
  BY <1>2, <1>9, RaiseKeepsWords
<1>13. TypeInv' /\ EmptiedInv'
  <2>1. finalList' # <<>>
    BY <1>2, <1>9
  <2> QED
    BY <1>1, <1>7, <1>9, <2>1, ScanNextType
<1>14. BoundInv'
  <2>1. size[j] <= Len(list) /\ size[j] \in Int
    BY <1>2 DEF IInv, BoundInv, list
  <2>2. size'[j] <= Len(lists'[j])
    BY <1>4, <1>6, <1>7, <2>1
  <2> QED
    BY <1>7, <2>2 DEF IInv, BoundInv
<1>15. ExactInv'
  <2> SUFFICES ASSUME ~headMatched PROVE ExactInv'
    BY <1>1 DEF ExactInv
  <2>1. /\ \A r \in Replicas : size[r] = Len(lists[r]) /\ Distinct(lists[r])
        /\ Distinct(finalList) /\ \A w \in Words : Balance({w})
        /\ \A a \in DOMAIN finalList, r \in Replicas : \A m \in DOMAIN lists[r] :
             finalList[a].word = lists[r][m].word => a = 1 /\ r >= j
    BY DEF IInv, ExactInv
  <2>2. /\ Distinct(rest)
        /\ \A m \in DOMAIN rest : /\ rest[m].word # list[k].word
                                  /\ \E q \in DOMAIN list : rest[m] = list[q]
    <3>1. Distinct(list)
      BY <1>2, <2>1 DEF list
    <3> QED
      <4>1. list \in Seq(Counted) /\ k \in 1..Len(list)
        BY <1>2, <1>4
      <4>2. /\ Distinct(RemoveAt(list, k))
            /\ \A m \in DOMAIN RemoveAt(list, k) :
                 /\ RemoveAt(list, k)[m].word # list[k].word
                 /\ \E q \in DOMAIN list :
                      q # k /\ RemoveAt(list, k)[m] = list[q]
        BY ONLY <3>1, <4>1, RemovedIsGone
      <4> QED
        BY <4>2 DEF rest
  <2>3. \A r \in Replicas : size'[r] = Len(lists'[r]) /\ Distinct(lists'[r])
    <3>1. size[j] = Len(list)
      BY <1>2, <2>1 DEF list
    <3> QED
      BY <1>6, <1>7, <2>1, <2>2, <3>1
  <2>4. ASSUME NEW a \in DOMAIN finalList', NEW r \in Replicas,
               NEW m \in DOMAIN lists'[r], finalList'[a].word = lists'[r][m].word
        PROVE  pc' = "scan" /\ a = 1 /\ r >= j'
    <3>0. a \in DOMAIN finalList
      BY <1>12
    <3>1. a \in DOMAIN finalList /\ finalList[a].word = lists'[r][m].word
      <4>1. finalList'[a].word = finalList[a].word
        BY ONLY <1>12, <3>0
      <4> QED
        BY <2>4, <3>0, <4>1
    <3>2. CASE r = j
      <4>1. m \in DOMAIN rest /\ lists'[r][m] = rest[m]
        BY <1>7, <3>2
      <4>2. PICK q \in DOMAIN list : rest[m] = list[q]
        BY <2>2, <4>1
      <4>3. a = 1
        BY <1>2, <2>1, <3>1, <4>1, <4>2 DEF list
      <4> QED
        BY <1>3, <2>2, <3>1, <4>1, <4>3
    <3>3. CASE r # j
      <4>1. a = 1 /\ r >= j
        BY <1>7, <2>1, <3>1, <3>3
      <4>2. r >= j + 1 /\ j < replicas
        BY <1>2, <3>3, <4>1, ReplicasAssumption DEF Replicas
      <4> QED
        BY <1>1, <4>1, <4>2
    <3> QED
      BY <3>2, <3>3
  <2> QED
    <3>1. Distinct(finalList') /\ \A w \in Words : Balance({w})'
      BY <1>11, <1>12, <2>1
    <3> QED
      BY <2>3, <2>4, <3>1 DEF ExactInv
<1> QED
  BY <1>11, <1>13, <1>14, <1>15 DEF IInv

LEMMA HeadStep == IInv /\ ScanHead => IInv'
<1> SUFFICES ASSUME IInv, ScanHead PROVE IInv'
  OBVIOUS
<1>1. /\ pc = "scan" /\ ScanNext /\ headMatched' = TRUE /\ given' = given
  BY DEF ScanHead, ScanNext
<1>2. /\ i \in Replicas /\ j \in Replicas
      /\ finalList \in Seq(Counted) /\ finalList # <<>>
      /\ lists \in [Replicas -> Seq(Counted)] /\ size \in [Replicas -> Int]
  BY <1>1 DEF IInv, TypeInv
<1>3. ExactInv'
  BY <1>1 DEF ExactInv
<1>4. CASE lists[i] = <<>>
  <2>1. UNCHANGED <<lists, size, finalList>>
    BY <1>4 DEF ScanHead
  <2>2. TypeInv' /\ EmptiedInv'
    BY <1>1, <1>2, <2>1, ScanNextType
  <2>3. BoundInv' /\ Balance(Words)'
    BY <1>1, <2>1 DEF IInv, BoundInv, Balance
  <2> QED
    BY <1>3, <2>2, <2>3 DEF IInv
<1>5. CASE lists[i] # <<>>
  <2> DEFINE list == lists[i]
             node == Head(list)
             n    == node.count
             rest == PopHead(list)
  <2>1. /\ finalList' = [finalList EXCEPT ![1].count = @ + n]
        /\ lists' = [lists EXCEPT ![i] = rest]
        /\ size' = [[size EXCEPT ![i] = @ - 1] EXCEPT ![j] = @ - 1]
    BY <1>5 DEF ScanHead
  <2>2. list \in Seq(Counted) /\ list # <<>>
    BY <1>2, <1>5
  <2>3. /\ node \in Counted /\ rest \in Seq(Counted) /\ Len(rest) = Len(list) - 1
        /\ Len(list) \in Nat
    BY <2>2, PopHeadProperties
  <2>4. n \in Nat /\ Share(node, Words) = n
    BY <2>3 DEF Counted, Share
  <2>5. Total(list, Words) = Total(rest, Words) + n
    BY <2>2, <2>4, TotalPop
  <2> HIDE DEF list, node, rest
  <2>6. /\ lists'[i] = rest /\ \A q \in Replicas : q # i => lists'[q] = lists[q]
        /\ lists' \in [Replicas -> Seq(Counted)]
    BY <1>2, <2>1, <2>3
  <2>7. /\ size' \in [Replicas -> Int]
        /\ size'[i] <= size[i] - 1 /\ \A q \in Replicas : size'[q] <= size[q]
    BY <1>2, <2>1
  <2> HIDE DEF n
  <2>8. /\ finalList' \in Seq(Counted) /\ Len(finalList') = Len(finalList)
        /\ Total(finalList', Words) = Total(finalList, Words) + n
    <3> DEFINE fl == finalList
               new == [fl EXCEPT ![1].count = @ + n]
    <3>1. fl \in Seq(Counted) /\ fl # <<>> /\ n \in Nat
      BY <1>2, <2>4
    <3>2. fl[1].word \in Words
      <4>1. 1 \in 1..Len(fl)
        BY <3>1
      <4>2. fl[1] \in Counted
        BY <3>1, <4>1, ElementOfSeq
      <4> QED
        BY <4>2 DEF Counted
    <3>3. finalList' = new
      BY <2>1
    <3> HIDE DEF fl
    <3>4. /\ new \in Seq(Counted) /\ Len(new) = Len(fl)
          /\ Total(new, Words)
               = Total(fl, Words) + (IF fl[1].word \in Words THEN n ELSE 0)
      BY <3>1, TotalRaise
    <3> QED
      BY <3>2, <3>3, <3>4 DEF fl
  <2>9. Balance(Words)'
    <3>1. /\ Total(lists[i], Words) = Total(lists'[i], Words) + n
          /\ n \in Int
      BY <2>4, <2>5, <2>6 DEF list
    <3> QED
      BY <1>1, <1>2, <2>6, <2>8, <3>1, BalanceKept DEF IInv
  <2>10. TypeInv' /\ EmptiedInv'
    <3>1. finalList' # <<>>
      BY <1>2, <2>8
    <3> QED
      BY <1>1, <2>6, <2>7, <2>8, <3>1, ScanNextType
  <2>11. BoundInv'
    <3> SUFFICES ASSUME NEW q \in Replicas PROVE size'[q] <= Len(lists'[q])
      BY DEF BoundInv
    <3>1. size[q] <= Len(lists[q]) /\ size[q] \in Int /\ size'[q] \in Int
      BY <1>2, <2>7 DEF IInv, BoundInv
    <3>2. Len(lists[q]) \in Int
      BY <1>2, LenProperties
    <3>3. CASE q # i
      <4>1. size'[q] <= size[q] /\ lists'[q] = lists[q]
        BY <2>6, <2>7, <3>3
      <4> QED
        BY <3>1, <3>2, <4>1
    <3>4. CASE q = i
      <4>1. size'[q] <= size[q] - 1 /\ Len(lists'[q]) = Len(lists[q]) - 1
        BY <2>3, <2>6, <2>7, <3>4 DEF list
      <4> QED
        BY <3>1, <3>2, <4>1
    <3> QED
      BY <3>3, <3>4
  <2> QED
    BY <1>3, <2>9, <2>10, <2>11 DEF IInv
<1> QED
  BY <1>4, <1>5

LEMMA StepReducer == IInv /\ [Next]_vars => IInv'
<1> SUFFICES ASSUME IInv, [Next]_vars PROVE IInv'
  OBVIOUS
<1>1. CASE UNCHANGED vars
  BY <1>1 DEF vars, IInv, TypeInv, BoundInv, Balance, ExactInv, EmptiedInv
<1> QED
  BY <1>1, PickStep, ListsEmptyStep, NoMatchStep, InsideStep, HeadStep DEF Next

LEMMA Invariance == Spec => []IInv
BY InitReducer, StepReducer, PTL DEF Spec

(* The reducer stays inside the lists: it scans no list beyond the last, and
   no size field, which bounds the search, exceeds its list, though ScanHead
   decrements the sizes of two lists for one node. *)
THEOREM NeverOutside == Spec => []ScanStaysInside
<1>1. IInv => ScanStaysInside
  BY DEF IInv, TypeInv, BoundInv, ScanStaysInside
<1> QED
  BY <1>1, Invariance, PTL

(* The reducer moves occurrences from the lists to finalList and loses none;
   and where no match was at the head of a list, it returns the exact sum of
   the buffers: the branch for such a match is the only one that goes wrong. *)
THEOREM NoOccurrenceLost == Spec => []OccurrencesConserved
<1>1. ASSUME IInv PROVE OccurrencesConserved
  <2>1. TotalOf(lists, Words) + Total(finalList, Words) = TotalOf(given, Words)
    BY <1>1 DEF IInv, Balance
  <2>2. ASSUME pc = "done", ~headMatched PROVE Exact
    <3>1. Distinct(finalList) /\ \A w \in Words : Balance({w})
      BY <1>1, <2>2 DEF IInv, ExactInv
    <3>2. \A r \in Replicas : lists[r] = <<>>
      BY <1>1, <2>2 DEF IInv, EmptiedInv
    <3>3. ASSUME NEW w \in Words
          PROVE  Total(finalList, {w}) = TotalOf(given, {w})
      <4>1. TotalOf(lists, {w}) = 0
        BY <3>2, TotalOfEmpty
      <4>2. Total(finalList, {w}) \in Int
        BY <1>1, SharesType DEF IInv, TypeInv
      <4>3. 0 + Total(finalList, {w}) = TotalOf(given, {w})
        BY <3>1, <4>1 DEF Balance
      <4> QED
        BY <4>2, <4>3
    <3> QED
      BY <3>1, <3>3 DEF Exact
  <2> QED
    BY <2>1, <2>2 DEF OccurrencesConserved
<1> QED
  BY <1>1, Invariance, PTL

-----------------------------------------------------------------------------
(***************************************************************************)
(* What the totals of single words say of the totals of all words, for the *)
(* program that the reducer is a part of.                                  *)
(***************************************************************************)
LEMMA TotalNatural ==
  ASSUME NEW list \in Seq(Counted), NEW W
  PROVE  Total(list, W) \in Nat
<1>1. /\ IsFiniteSet(1..Len(list))
      /\ Total(list, W) = SumFunctionOnSet(Shares(list, W), 1..Len(list))
      /\ \A k \in 1..Len(list) : Shares(list, W)[k] \in Nat
  BY SharesType
<1> QED
  BY ONLY <1>1, SumNotNegative

(* In a list without duplicates the total of a word is its count. *)
LEMMA TotalIsCount ==
  ASSUME NEW list \in Seq(Counted), Distinct(list), NEW w
  PROVE  Total(list, {w}) = CountOf(list, w)
<1> DEFINE f == Shares(list, {w})
           D == 1..Len(list)
           k == FindMatch(list, w, Len(list))
<1>1. /\ IsFiniteSet(D) /\ DOMAIN list = D /\ Len(list) \in Nat
      /\ Total(list, {w}) = SumFunctionOnSet(f, D)
      /\ \A m \in D : f[m] = Share(list[m], {w}) /\ f[m] \in Int
  BY SharesType
<1>2. \/ k = 0 /\ \A m \in D : m <= Len(list) => list[m].word # w
      \/ k \in D /\ list[k].word = w
  <2>1. Len(list) \in Int
    BY <1>1
  <2> QED
    BY <1>1, <2>1, FindMatchProperties
<1>3. CountOf(list, w) = IF k = 0 THEN 0 ELSE list[k].count
  BY DEF CountOf
<1>4. CASE k = 0
  <2>1. \A m \in D : f[m] = 0
    <3> SUFFICES ASSUME NEW m \in D PROVE f[m] = 0
      OBVIOUS
    <3>1. m <= Len(list) /\ m # 0
      BY <1>1
    <3>2. \A q \in D : q <= Len(list) => list[q].word # w
      BY <1>1, <1>2, <1>4
    <3>3. list[m].word # w
      BY <3>1, <3>2
    <3> QED
      BY <1>1, <3>3 DEF Share
  <2> HIDE DEF f, D
  <2>2. SumFunctionOnSet(f, D) = 0
    BY <1>1, <2>1, SumOfZeros
  <2> QED
    BY <1>1, <1>3, <1>4, <2>2
<1>5. CASE k # 0
  <2>1. k \in D /\ list[k].word = w
    BY <1>2, <1>5
  <2> HIDE DEF k
  <2>2. f[k] = list[k].count
    BY <1>1, <2>1 DEF Share
  <2>3. \A m \in D \ {k} : f[m] = 0
    <3> SUFFICES ASSUME NEW m \in D, m # k PROVE f[m] = 0
      OBVIOUS
    <3>1. list[m].word # w
      BY <1>1, <2>1 DEF Distinct
    <3> QED
      BY <1>1, <3>1 DEF Share
  <2> HIDE DEF f, D
  <2>4. SumFunctionOnSet(f, D) = f[k] + SumFunctionOnSet(f, D \ {k})
    BY <1>1, <2>1, SumOnSet
  <2>5. SumFunctionOnSet(f, D \ {k}) = 0
    <3>1. IsFiniteSet(D \ {k})
      BY <1>1, FS_Subset
    <3> QED
      BY <2>3, <3>1, SumOfZeros
  <2>6. f[k] \in Int
    BY <1>1, <2>1
  <2> QED
    BY <1>1, <1>3, <1>5, <2>2, <2>4, <2>5, <2>6
<1> QED
  BY <1>4, <1>5

(* One more word. *)
LEMMA TotalAdded ==
  ASSUME NEW list \in Seq(Counted), NEW W, NEW w \in W
  PROVE  Total(list, W) = Total(list, {w}) + Total(list, W \ {w})
<1> DEFINE f == Shares(list, {w})
           g == Shares(list, W \ {w})
           h == Shares(list, W)
           D == 1..Len(list)
<1>1. /\ IsFiniteSet(D)
      /\ Total(list, W) = SumFunctionOnSet(h, D)
      /\ \A m \in D : h[m] = Share(list[m], W)
  BY SharesType
<1>2. /\ Total(list, {w}) = SumFunctionOnSet(f, D)
      /\ \A m \in D : f[m] = Share(list[m], {w}) /\ f[m] \in Int
  BY SharesType
<1>3. /\ Total(list, W \ {w}) = SumFunctionOnSet(g, D)
      /\ \A m \in D : g[m] = Share(list[m], W \ {w}) /\ g[m] \in Int
  BY SharesType
<1>4. \A m \in D : list[m] \in Counted
  BY SharesType
<1>5. \A m \in D : f[m] \in Int /\ g[m] \in Int /\ h[m] = f[m] + g[m]
  <2> SUFFICES ASSUME NEW m \in D PROVE h[m] = f[m] + g[m]
    BY <1>2, <1>3
  <2>1. Share(list[m], W) = Share(list[m], {w}) + Share(list[m], W \ {w})
    BY <1>4 DEF Share, Counted
  <2> QED
    BY <1>1, <1>2, <1>3, <2>1
<1> HIDE DEF f, g, h, D
<1>6. SumFunctionOnSet(h, D) = SumFunctionOnSet(f, D) + SumFunctionOnSet(g, D)
  BY <1>1, <1>5, SumAdded
<1> QED
  BY <1>1, <1>2, <1>3, <1>6

LEMMA TotalOfAdded ==
  ASSUME NEW family \in [Replicas -> Seq(Counted)], NEW W, NEW w \in W
  PROVE  /\ TotalOf(family, W) = TotalOf(family, {w}) + TotalOf(family, W \ {w})
         /\ TotalOf(family, {w}) \in Int
<1> DEFINE f == [r \in Replicas |-> Total(family[r], {w})]
           g == [r \in Replicas |-> Total(family[r], W \ {w})]
           h == [r \in Replicas |-> Total(family[r], W)]
<1>1. /\ TotalOf(family, {w}) = SumFunctionOnSet(f, Replicas)
      /\ TotalOf(family, W \ {w}) = SumFunctionOnSet(g, Replicas)
      /\ TotalOf(family, W) = SumFunctionOnSet(h, Replicas)
  BY DEF TotalOf, SumFunction
<1>2. \A r \in Replicas : f[r] \in Int /\ g[r] \in Int /\ h[r] = f[r] + g[r]
  <2> SUFFICES ASSUME NEW r \in Replicas
               PROVE  f[r] \in Int /\ g[r] \in Int /\ h[r] = f[r] + g[r]
    OBVIOUS
  <2>1. family[r] \in Seq(Counted)
    OBVIOUS
  <2>2. Total(family[r], {w}) \in Int /\ Total(family[r], W \ {w}) \in Int
    BY <2>1, SharesType
  <2>3. Total(family[r], W) = Total(family[r], {w}) + Total(family[r], W \ {w})
    BY <2>1, TotalAdded
  <2> QED
    BY <2>2, <2>3
<1>3. IsFiniteSet(Replicas)
  BY ReplicasAssumption, FS_Interval DEF Replicas
<1> HIDE DEF f, g, h
<1>4. SumFunctionOnSet(h, Replicas)
        = SumFunctionOnSet(f, Replicas) + SumFunctionOnSet(g, Replicas)
  BY <1>2, <1>3, SumAdded
<1>5. SumFunctionOnSet(f, Replicas) \in Int
  BY <1>2, <1>3, SumOnSet
<1> QED
  BY <1>1, <1>4, <1>5

(* No word, no total. *)
LEMMA TotalOfNoWord ==
  ASSUME NEW list \in Seq(Counted)
  PROVE  Total(list, {}) = 0
<1> DEFINE g == Shares(list, {})
           D == 1..Len(list)
<1>1. /\ IsFiniteSet(D) /\ Total(list, {}) = SumFunctionOnSet(g, D)
      /\ \A m \in D : g[m] = Share(list[m], {})
  BY SharesType
<1>2. \A m \in D : g[m] = 0
  BY <1>1 DEF Share
<1> HIDE DEF g, D
<1> QED
  BY <1>1, <1>2, SumOfZeros

(* The totals of the words of a list, or of a family, add up to its total. *)
LEMMA WordTotals ==
  ASSUME IsFiniteSet(Words), NEW list \in Seq(Counted)
  PROVE  SumFunctionOnSet([w \in Words |-> Total(list, {w})], Words)
           = Total(list, Words)
<1> DEFINE f == [w \in Words |-> Total(list, {w})]
           P == {s \in SUBSET Words : SumFunctionOnSet(f, s) = Total(list, s)}
<1>1. \A w \in Words : f[w] = Total(list, {w}) /\ f[w] \in Int
  BY SharesType
<1> HIDE DEF f
<1>2. {} \in P
  <2>1. SumFunctionOnSet(f, {}) = 0
    BY SumOnSet, FS_EmptySet
  <2>2. Total(list, {}) = 0
    BY TotalOfNoWord
  <2> QED
    BY <2>1, <2>2
<1>3. ASSUME NEW s \in SUBSET Words, NEW x \in s, s \ {x} \in P
      PROVE  s \in P
  <2>1. IsFiniteSet(s) /\ \A y \in s : f[y] \in Int
    BY <1>1, FS_Subset
  <2>2. SumFunctionOnSet(f, s) = f[x] + SumFunctionOnSet(f, s \ {x})
    BY <2>1, SumOnSet
  <2>3. Total(list, s) = Total(list, {x}) + Total(list, s \ {x})
    BY TotalAdded
  <2> QED
    BY <1>1, <1>3, <2>2, <2>3
<1> HIDE DEF P
<1>4. \A s \in SUBSET Words : s \in P
  BY <1>2, <1>3, SubsetInduction
<1> QED
  BY <1>4 DEF P, f

LEMMA FamilyWordTotals ==
  ASSUME IsFiniteSet(Words), NEW family \in [Replicas -> Seq(Counted)]
  PROVE  SumFunctionOnSet([w \in Words |-> TotalOf(family, {w})], Words)
           = TotalOf(family, Words)
<1> DEFINE f == [w \in Words |-> TotalOf(family, {w})]
           P == {s \in SUBSET Words : SumFunctionOnSet(f, s) = TotalOf(family, s)}
<1>1. \A w \in Words : f[w] = TotalOf(family, {w}) /\ f[w] \in Int
  BY TotalOfAdded
<1> HIDE DEF f
<1>2. {} \in P
  <2>1. SumFunctionOnSet(f, {}) = 0
    BY SumOnSet, FS_EmptySet
  <2>2. TotalOf(family, {}) = 0
    <3> DEFINE g == [r \in Replicas |-> Total(family[r], {})]
    <3>1. TotalOf(family, {}) = SumFunctionOnSet(g, Replicas)
      BY DEF TotalOf, SumFunction
    <3>2. \A r \in Replicas : g[r] = 0
      <4> SUFFICES ASSUME NEW r \in Replicas PROVE Total(family[r], {}) = 0
        OBVIOUS
      <4>1. family[r] \in Seq(Counted)
        OBVIOUS
      <4> QED
        BY <4>1, TotalOfNoWord
    <3>3. IsFiniteSet(Replicas)
      BY ReplicasAssumption, FS_Interval DEF Replicas
    <3> HIDE DEF g
    <3> QED
      BY <3>1, <3>2, <3>3, SumOfZeros
  <2> QED
    BY <2>1, <2>2
<1>3. ASSUME NEW s \in SUBSET Words, NEW x \in s, s \ {x} \in P
      PROVE  s \in P
  <2>1. IsFiniteSet(s) /\ \A y \in s : f[y] \in Int
    BY <1>1, FS_Subset
  <2>2. SumFunctionOnSet(f, s) = f[x] + SumFunctionOnSet(f, s \ {x})
    BY <2>1, SumOnSet
  <2>3. TotalOf(family, s) = TotalOf(family, {x}) + TotalOf(family, s \ {x})
    BY TotalOfAdded
  <2> QED
    BY <1>1, <1>3, <2>2, <2>3
<1> HIDE DEF P
<1>4. \A s \in SUBSET Words : s \in P
  BY <1>2, <1>3, SubsetInduction
<1> QED
  BY <1>4 DEF P, f
=============================================================================
