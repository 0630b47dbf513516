------------------------- MODULE FileSegmentsProofs -------------------------
(***************************************************************************)
(* The segments that the readers of prog3 cut a file into, and the words   *)
(* that they find in them, for every file, every number of readers and     *)
(* every width of an int.                                                  *)
(***************************************************************************)
EXTENDS FileSegments, CollectionLemmas

-----------------------------------------------------------------------------
(***************************************************************************)
(* int arithmetic, where nothing overflows.                                *)
(***************************************************************************)
LEMMA DivBounds ==
  ASSUME NEW a \in Nat, NEW n \in Nat \ {0}
  PROVE  /\ a \div n \in Nat
         /\ n * (a \div n) <= a
         /\ a < n * ((a \div n) + 1)
OBVIOUS

(* A quotient is found by its bounds. *)
LEMMA DivUnique ==
  ASSUME NEW a \in Nat, NEW n \in Nat \ {0}, NEW q \in Nat,
         n * q <= a, a < n * (q + 1)
  PROVE  a \div n = q
<1> DEFINE d == a \div n
<1>1. d \in Nat /\ n * d <= a /\ a < n * (d + 1)
  BY DivBounds
<1> HIDE DEF d
<1>2. ~(d + 1 <= q)
  <2> SUFFICES ASSUME d + 1 <= q PROVE FALSE
    OBVIOUS
  <2>1. n * (d + 1) <= n * q
    BY <1>1, ProductMonotone
  <2>2. n * (d + 1) \in Int /\ n * q \in Int
    BY <1>1
  <2> QED
    BY <1>1, <2>1, <2>2
<1>3. ~(q + 1 <= d)
  <2> SUFFICES ASSUME q + 1 <= d PROVE FALSE
    OBVIOUS
  <2>1. n * (q + 1) <= n * d
    BY <1>1, ProductMonotone
  <2>2. n * (q + 1) \in Int /\ n * d \in Int
    BY <1>1
  <2> QED
    BY <1>1, <2>1, <2>2
<1> QED
  BY <1>1, <1>2, <1>3 DEF d

LEMMA DivMonotone ==
  ASSUME NEW a \in Nat, NEW b \in Nat, NEW n \in Nat \ {0}, a <= b
  PROVE  a \div n <= b \div n
<1> DEFINE c == a \div n
           d == b \div n
<1>1. c \in Nat /\ d \in Nat /\ n * c <= a /\ b < n * (d + 1)
  BY DivBounds
<1> HIDE DEF c, d
<1>2. ~(d + 1 <= c)
  <2> SUFFICES ASSUME d + 1 <= c PROVE FALSE
    OBVIOUS
  <2>1. n * (d + 1) <= n * c
    BY <1>1, ProductMonotone
  <2>2. n * (d + 1) \in Int /\ n * c \in Int
    BY <1>1
  <2> QED
    BY <1>1, <2>1, <2>2
<1> QED
  BY <1>1, <1>2 DEF c, d

(* What fits is left as it is. *)
LEMMA WrapFits ==
  ASSUME NEW n \in Nat, n <= MaxInt
  PROVE  Wrap(n) = n
<1> DEFINE h == 2^(Width - 1)
<1>1. h \in Nat \ {0} /\ 2^Width = 2 * h /\ n < h /\ n + h \in Nat
  BY PowerAssumption DEF MaxInt
<1> HIDE DEF h
<1>2. (n + h) % (2 * h) = n + h
  BY <1>1
<1>3. Wrap(n) = ((n + h) % (2 * h)) - h
  BY <1>1 DEF Wrap, h
<1> QED
  BY <1>1, <1>2, <1>3

-----------------------------------------------------------------------------
(***************************************************************************)
(* The byte ranges.                                                        *)
(***************************************************************************)
Reading == file \in Seq(STRING) /\ replicas \in Nat \ {0} /\ NoOverflow

(* A product that fits has factors that fit. *)
LEMMA FileSizeFits ==
  ASSUME Reading
  PROVE  fileSize = Len(file) /\ fileSize \in Nat
<1> DEFINE n == Len(file)
<1>1. n \in Nat /\ replicas \in Nat \ {0} /\ replicas * n <= MaxInt
  BY LenProperties DEF Reading, NoOverflow
<1>2. MaxInt \in Int
  BY PowerAssumption DEF MaxInt
<1> HIDE DEF n
<1>3. n <= replicas * n
  <2>1. 1 <= replicas
    BY <1>1
  <2>2. n * 1 <= n * replicas
    BY <1>1, <2>1, ProductMonotone
  <2>3. n * 1 = n /\ n * replicas = replicas * n
    BY <1>1
  <2> QED
    BY <2>2, <2>3
<1>4. n <= MaxInt
  <2>1. replicas * n \in Nat
    BY <1>1
  <2> QED
    BY <1>1, <1>2, <1>3, <2>1
<1>5. Wrap(n) = n
  BY <1>1, <1>4, WrapFits
<1> QED
  BY <1>1, <1>5 DEF fileSize, n

(* No product overflows for any of the readers. *)
LEMMA ShareFits ==
  ASSUME Reading, NEW r \in 0..replicas
  PROVE  /\ r * fileSize \in Nat /\ r * fileSize <= replicas * fileSize
         /\ endByte(r) = (r * fileSize) \div replicas
<1> DEFINE n == fileSize
<1>1. n \in Nat /\ r \in Nat /\ r <= replicas /\ replicas \in Nat \ {0}
      /\ replicas * n <= MaxInt
  BY FileSizeFits DEF Reading, NoOverflow
<1> HIDE DEF n
<1>2. r * n \in Nat /\ replicas * n \in Nat
  BY <1>1
<1>3. r * n <= replicas * n
  <2>1. n * r <= n * replicas
    BY <1>1, ProductMonotone
  <2>2. n * r = r * n /\ n * replicas = replicas * n
    BY <1>1
  <2> QED
    BY <2>1, <2>2
<1>4. MaxInt \in Int
  BY PowerAssumption DEF MaxInt
<1>5. r * n <= MaxInt
  BY <1>1, <1>2, <1>3, <1>4
<1>6. Wrap(r * n) = r * n
  BY <1>2, <1>5, WrapFits
<1>7. endByte(r) = Quotient(r * n, replicas)
  BY <1>6 DEF endByte, n
<1>8. endByte(r) = (r * n) \div replicas
  BY <1>2, <1>7 DEF Quotient
<1> QED
  BY <1>2, <1>3, <1>8 DEF n

(* The ranges follow each other from the first byte to the last, however the
   divisions round. *)
LEMMA RangesMeet ==
  ASSUME Reading
  PROVE  /\ endByte(0) = 0 /\ endByte(replicas) = fileSize
         /\ \A r \in 0..replicas : endByte(r) \in 0..fileSize
         /\ \A r \in 1..replicas :
              startByte(r) = endByte(r - 1) /\ endByte(r - 1) <= endByte(r)
         /\ \A r, s \in 0..replicas : r <= s => endByte(r) <= endByte(s)
<1> DEFINE n == fileSize
<1>1. n \in Nat /\ replicas \in Nat \ {0}
  BY FileSizeFits DEF Reading
<1>2. endByte(0) = 0
  <2>1. 0 \in 0..replicas /\ 0 * n = 0
    BY <1>1
  <2>2. endByte(0) = (0 * n) \div replicas
    BY <2>1, ShareFits DEF n
  <2>3. 0 \div replicas = 0
    BY <1>1
  <2> QED
    BY <2>1, <2>2, <2>3
<1>3. endByte(replicas) = n
  <2>1. replicas \in 0..replicas
    BY <1>1
  <2>2. endByte(replicas) = (replicas * n) \div replicas
    BY <2>1, ShareFits DEF n
  <2> HIDE DEF n
  <2>3. /\ replicas * n \in Nat /\ replicas * n <= replicas * n
        /\ replicas * n < replicas * (n + 1)
    BY <1>1
  <2>4. (replicas * n) \div replicas = n
    BY <1>1, <2>3, DivUnique
  <2> QED
    BY <2>2, <2>4
<1>4. ASSUME NEW r \in 0..replicas, NEW s \in 0..replicas, r <= s
      PROVE  endByte(r) <= endByte(s) /\ endByte(r) \in Nat
  <2>1. /\ endByte(r) = (r * n) \div replicas /\ r * n \in Nat
        /\ endByte(s) = (s * n) \div replicas /\ s * n \in Nat
    BY ShareFits DEF n
  <2> HIDE DEF n
  <2>2. r * n <= s * n
    <3>1. n * r <= n * s
      BY <1>1, <1>4, ProductMonotone
    <3>2. n * r = r * n /\ n * s = s * n
      BY <1>1
    <3> QED
      BY <3>1, <3>2
  <2> QED
    BY <1>1, <2>1, <2>2, DivMonotone, DivBounds
<1>5. \A r \in 0..replicas : endByte(r) \in 0..n
  <2> SUFFICES ASSUME NEW r \in 0..replicas PROVE endByte(r) \in 0..n
    OBVIOUS
  <2>1. replicas \in 0..replicas /\ r <= replicas
    BY <1>1
  <2>2. endByte(r) <= n /\ endByte(r) \in Nat
    BY <1>3, <1>4, <2>1
  <2> HIDE DEF n
  <2> QED
    BY <1>1, <2>2
<1>6. ASSUME NEW r \in 1..replicas
      PROVE  startByte(r) = endByte(r - 1) /\ endByte(r - 1) <= endByte(r)
  <2>1. r - 1 \in 0..replicas /\ r \in 0..replicas /\ r - 1 <= r
    BY <1>1
  <2> QED
    BY <1>4, <2>1 DEF startByte, endByte
<1> QED
  BY <1>2, <1>3, <1>4, <1>5, <1>6 DEF n

(* No reader's assertions fail, and it reads its range. *)
LEMMA ReadsRange ==
  ASSUME Reading, replica \in 1..replicas
  PROVE  /\ Readable
         /\ startByte(replica) = endByte(replica - 1)
         /\ startByte(replica) + readBytes = endByte(replica)
<1> DEFINE n == fileSize
           a == endByte(replica - 1)
           b == endByte(replica)
<1>1. n \in Nat /\ replicas \in Nat \ {0} /\ replicas * n <= MaxInt
  BY FileSizeFits DEF Reading, NoOverflow
<1>2. replica - 1 \in 0..replicas /\ replica \in 0..replicas
  BY <1>1
<1>3. startByte(replica) = a /\ a <= b /\ a \in 0..n /\ b \in 0..n
  BY <1>2, RangesMeet
<1>4. n <= replicas * n
  <2> HIDE DEF n
  <2>1. 1 <= replicas
    BY <1>1
  <2>2. n * 1 <= n * replicas
    BY <1>1, <2>1, ProductMonotone
  <2>3. n * 1 = n /\ n * replicas = replicas * n
    BY <1>1
  <2> QED
    BY <2>2, <2>3
<1>5. readBytes = Wrap(b - a)
  BY <1>3 DEF readBytes
<1> HIDE DEF n, a, b
<1>6. b - a \in Nat /\ b - a <= MaxInt
  <2>1. replicas * n \in Nat /\ MaxInt \in Int
    BY <1>1, PowerAssumption DEF MaxInt
  <2>2. b - a \in Nat /\ b - a <= n
    BY <1>1, <1>3
  <2> QED
    BY <1>1, <1>4, <2>1, <2>2
<1>7. readBytes = b - a
  BY <1>5, <1>6, WrapFits
<1>8. startByte(replica) + readBytes = b /\ b <= n
      /\ startByte(replica) >= 0 /\ readBytes >= 0
  BY <1>1, <1>3, <1>7
<1>9. n = Len(file)
  BY FileSizeFits DEF n
<1> QED
  BY <1>3, <1>8, <1>9 DEF Readable, a, b

-----------------------------------------------------------------------------
(***************************************************************************)
(* The inductive invariant: what each reader has read is its range.        *)
(***************************************************************************)
(* The readers that have opened their segment. *)
Opened == IF pc = "open" THEN replica - 1 ELSE replica

(* The bytes of the file in the range of reader r. *)
Bytes(r) == SubSeq(file, endByte(r - 1) + 1, endByte(r))

TypeInv ==
  /\ file \in Seq(STRING)
  /\ replicas \in Nat \ {0} /\ replica \in 1..replicas
  /\ pc \in {"open", "strtok", "done", "died"}

ReadInv ==
  NoOverflow =>
    /\ pc # "died"
    /\ pc = "done" => replica = replicas
    /\ read \in Seq(Seq(STRING)) /\ Len(read) = Opened
    /\ \A r \in 1..Len(read) : read[r] = Bytes(r)

SegInv == TypeInv /\ ReadInv

LEMMA RangeType ==
  ASSUME Reading, NEW r \in 1..replicas
  PROVE  Bytes(r) \in Seq(STRING)
<1> DEFINE a == endByte(r - 1)
           b == endByte(r)
<1>1. Len(file) \in Nat /\ \A k \in 1..Len(file) : file[k] \in STRING
  BY LenProperties, ElementOfSeq DEF Reading
<1>2. r - 1 \in 0..replicas /\ r \in 0..replicas
  BY DEF Reading
<1>3. a \in 0..Len(file) /\ b \in 0..Len(file)
  BY <1>2, RangesMeet, FileSizeFits
<1> HIDE DEF a, b
<1>4. \A k \in (a + 1)..b : file[k] \in STRING
  BY <1>1, <1>3
<1>5. a + 1 \in Int /\ b \in Int
  BY <1>3
<1>6. SubSeq(file, a + 1, b) \in Seq(STRING)
  BY <1>4, <1>5, SubSeqProperties
<1> QED
  BY <1>6 DEF Bytes, a, b

LEMMA SegInvInit == Init => SegInv
<1> SUFFICES ASSUME Init PROVE SegInv
  OBVIOUS
<1>1. TypeInv
  BY FilesAssumption, ReplicasAssumption DEF Init, TypeInv
<1>2. read = <<>> /\ read \in Seq(Seq(STRING)) /\ Len(read) = 0
  BY EmptySeq DEF Init
<1>3. pc = "open" /\ Opened = 0
  BY DEF Init, Opened
<1>4. ReadInv
  BY <1>2, <1>3 DEF ReadInv
<1> QED
  BY <1>1, <1>4 DEF SegInv

LEMMA SegInvNext == SegInv /\ [Next]_vars => SegInv'
<1> SUFFICES ASSUME SegInv, [Next]_vars PROVE SegInv'
  OBVIOUS
<1> USE DEF SegInv
<1>1. CASE Open
  <2>1. TypeInv'
    BY <1>1 DEF Open, TypeInv
  <2>2. ASSUME NoOverflow PROVE ReadInv'
    <3>1. Reading /\ replica \in 1..replicas
      BY <2>2 DEF TypeInv, Reading
    <3>2. /\ replica - 1 \in Nat /\ read \in Seq(Seq(STRING))
          /\ Len(read) = replica - 1
          /\ \A r \in 1..Len(read) : read[r] = Bytes(r)
      BY <1>1, <2>2, <3>1 DEF ReadInv, TypeInv, Opened, Open
    <3>3. segment' = Bytes(replica) /\ segment' \in Seq(STRING)
      <4>1. segment' = SubSeq(file, startByte(replica) + 1,
                              startByte(replica) + readBytes)
        BY <1>1 DEF Open
      <4>2. segment' = Bytes(replica)
        BY <3>1, <4>1, ReadsRange DEF Bytes
      <4> QED
        BY <3>1, <4>2, RangeType
    <3>4. read' = Append(read, segment')
      BY <1>1 DEF Open
    <3>5. /\ read' \in Seq(Seq(STRING)) /\ Len(read') = Len(read) + 1
          /\ \A r \in 1..Len(read) : read'[r] = read[r]
          /\ read'[Len(read) + 1] = segment'
      <4> DEFINE T == Seq(STRING)
                 e == segment'
      <4>1. e \in T /\ read \in Seq(T)
        BY <3>2, <3>3
      <4> HIDE DEF T, e
      <4>2. /\ Append(read, e) \in Seq(T) /\ Len(Append(read, e)) = Len(read) + 1
            /\ \A r \in 1..Len(read) : Append(read, e)[r] = read[r]
            /\ Append(read, e)[Len(read) + 1] = e
        BY <4>1, AppendProperties
      <4> QED
        BY <3>4, <4>2 DEF T, e
    <3>6. \A r \in 1..Len(read') : read'[r] = Bytes(r)
      <4> SUFFICES ASSUME NEW r \in 1..Len(read') PROVE read'[r] = Bytes(r)
        OBVIOUS
      <4>1. r \in 1..Len(read) \/ (r = Len(read) + 1 /\ r = replica)
        <5>1. replica \in Int
          BY <3>1 DEF Reading
        <5> QED
          BY <3>2, <3>5, <5>1
      <4> QED
        BY <3>2, <3>3, <3>5, <4>1
    <3>7. /\ pc' = "strtok" /\ file' = file /\ replica' = replica
          /\ replicas' = replicas
      BY <1>1 DEF Open
    <3>8. Opened' = replica /\ Len(read') = replica
      BY <3>1, <3>2, <3>5, <3>7 DEF Opened
    <3>9. \A r : Bytes(r)' = Bytes(r)
      BY <3>7 DEF Bytes, endByte, fileSize
    <3> QED
      BY <3>5, <3>6, <3>7, <3>8, <3>9 DEF ReadInv
  <2>3. NoOverflow' = NoOverflow
    BY <1>1 DEF Open, NoOverflow, fileSize
  <2> QED
    BY <2>1, <2>2, <2>3 DEF ReadInv
<1>2. CASE OpenFails
  <2>1. ~NoOverflow
    <3> SUFFICES ASSUME NoOverflow PROVE FALSE
      OBVIOUS
    <3>1. Reading /\ replica \in 1..replicas
      BY DEF TypeInv, Reading
    <3> QED
      BY <1>2, <3>1, ReadsRange DEF OpenFails
  <2>2. NoOverflow' = NoOverflow
    BY <1>2 DEF OpenFails, NoOverflow, fileSize
  <2>3. TypeInv'
    BY <1>2 DEF OpenFails, TypeInv
  <2> QED
    BY <2>1, <2>2, <2>3 DEF ReadInv
<1>3. CASE NextWord
  <2>1. UNCHANGED <<file, replicas, replica, pc, read>>
    BY <1>3 DEF NextWord
  <2> QED
    BY <2>1 DEF TypeInv, ReadInv, Opened, Bytes, endByte, NoOverflow, fileSize
<1>4. CASE NoWord
  <2>1. UNCHANGED <<file, replicas, read>> /\ pc = "strtok"
    BY <1>4 DEF NoWord
  <2>2. /\ NoOverflow' = NoOverflow
        /\ \A r : Bytes(r)' = Bytes(r)
    BY <2>1 DEF Bytes, endByte, NoOverflow, fileSize
  <2>3. Opened' = Opened /\ replica' \in 1..replicas
        /\ pc' \in {"open", "done"} /\ (pc' = "done" => replica' = replicas)
    BY <1>4 DEF NoWord, Opened, TypeInv
  <2> QED
    BY <2>1, <2>2, <2>3 DEF TypeInv, ReadInv
<1>5. CASE UNCHANGED vars
  BY <1>5 DEF vars, TypeInv, ReadInv, Opened, Bytes, endByte, NoOverflow, fileSize
<1> QED
  BY <1>1, <1>2, <1>3, <1>4, <1>5 DEF Next

(* The ranges, put together, are the file. *)
LEMMA SegInvImplies == SegInv => SegmentsAreTheFile
<1> SUFFICES ASSUME SegInv, NoOverflow, pc = "done" PROVE FlattenSeq(read) = file
  BY DEF SegInv, ReadInv, SegmentsAreTheFile
<1> DEFINE n == replicas
<1>1. /\ Reading /\ n \in Nat \ {0}
      /\ read \in Seq(Seq(STRING)) /\ Len(read) = n
      /\ \A r \in 1..n : read[r] = Bytes(r)
  BY DEF SegInv, TypeInv, ReadInv, Reading, Opened
<1>2. /\ file \in Seq(STRING) /\ Len(file) \in Nat
      /\ endByte(0) = 0 /\ endByte(n) = Len(file)
      /\ \A r \in 0..n : endByte(r) \in 0..Len(file)
      /\ \A r \in 1..n : endByte(r - 1) <= endByte(r)
  BY <1>1, RangesMeet, FileSizeFits DEF Reading
<1>3. PICK fl : /\ fl[1] = read[1]
                /\ \A k \in 1..(n - 1) : fl[k + 1] = fl[k] \o read[k + 1]
                /\ FlattenSeq(read) = fl[n]
  BY <1>1, FlattenSteps
<1> HIDE DEF n
<1> DEFINE S == {k \in Nat : k + 1 <= n => fl[k + 1] = SubSeq(file, 1, endByte(k + 1))}
<1>4. 0 \in S
  <2>1. 1 \in 1..n /\ 0 + 1 = 1 /\ 1 - 1 = 0
    BY <1>1
  <2>2. fl[1] = SubSeq(file, 0 + 1, endByte(1))
    BY <1>1, <1>2, <1>3, <2>1 DEF Bytes
  <2> QED
    BY <2>1, <2>2
<1>5. ASSUME NEW k \in Nat, k \in S PROVE k + 1 \in S
  <2> SUFFICES ASSUME (k + 1) + 1 <= n
               PROVE  fl[(k + 1) + 1] = SubSeq(file, 1, endByte((k + 1) + 1))
    OBVIOUS
  <2> DEFINE a == endByte(k + 1)
             b == endByte((k + 1) + 1)
  <2>1. /\ k + 1 \in 1..(n - 1) /\ k + 1 <= n /\ k + 1 \in 0..n
        /\ (k + 1) + 1 \in 1..n /\ (k + 1) + 1 \in 0..n
        /\ ((k + 1) + 1) - 1 = k + 1
    BY <1>1
  <2>2. fl[k + 1] = SubSeq(file, 1, a)
    BY <1>5, <2>1
  <2>3. read[(k + 1) + 1] = SubSeq(file, a + 1, b)
    BY <1>1, <2>1 DEF Bytes
  <2>4. fl[(k + 1) + 1] = fl[k + 1] \o read[(k + 1) + 1]
    BY <1>3, <2>1
  <2>5. a \in 0..Len(file) /\ b \in 0..Len(file) /\ a <= b
    BY <1>2, <2>1
  <2> HIDE DEF a, b
  <2>6. 1 \in 1..(Len(file) + 1) /\ a \in (1 - 1)..Len(file) /\ b \in a..Len(file)
    BY <1>2, <2>5
  <2>7. SubSeq(file, 1, a) \o SubSeq(file, a + 1, b) = SubSeq(file, 1, b)
    BY <1>2, <2>6, ConcatAdjacentSubSeq
  <2> QED
    BY <2>2, <2>3, <2>4, <2>7 DEF b
<1>6. n - 1 \in Nat /\ (n - 1) + 1 = n
  BY <1>1
<1>7. n - 1 \in S
  <2> HIDE DEF S
  <2> QED
    BY <1>4, <1>5, <1>6, Induction
<1>8. fl[n] = SubSeq(file, 1, Len(file))
  BY <1>1, <1>2, <1>6, <1>7
<1> QED
  BY <1>2, <1>3, <1>8, SubSeqFull

(* cmpsc473mr.c:287-304: as long as no product overflows, no assertion of a
   reader fails, and the segments of all readers together are the file, for
   every file, every number of readers and every width of an int. *)
THEOREM ReadersReadTheFile == Spec => []SegmentsAreTheFile
<1>1. SegInv => SegmentsAreTheFile
  BY SegInvImplies
<1> QED
  BY <1>1, SegInvInit, SegInvNext, PTL DEF Spec
-----------------------------------------------------------------------------
(***************************************************************************)
(* The words of a text: each begins at a place of its own, and its number  *)
(* is the rank of that place.                                              *)
(***************************************************************************)
Boundary(t, k) == k \in {0, Len(t) + 1} \/ t[k] \in Blanks
Begins(t) == {k \in DOMAIN t : ~Boundary(t, k) /\ Boundary(t, k - 1)}
EndOf(t, k) == Min({h \in k..Len(t) : Boundary(t, h + 1)})
WordAt(t, k) == SubSeq(t, k, EndOf(t, k))

LEMMA MinProperties ==
  ASSUME NEW S \in SUBSET Nat, S # {}
  PROVE  Min(S) \in S /\ \A x \in S : Min(S) <= x
<1>1. \E x \in S : \A y \in S : x <= y
  BY LeastNatural
<1> QED
  BY <1>1 DEF Min

LEMMA MinIs ==
  ASSUME NEW S \in SUBSET Nat, NEW m \in S, \A x \in S : m <= x
  PROVE  Min(S) = m
<1>1. Min(S) \in S /\ \A x \in S : Min(S) <= x
  BY MinProperties
<1>2. Min(S) \in Nat /\ m \in Nat /\ Min(S) <= m /\ m <= Min(S)
  BY <1>1
<1> QED
  BY <1>2

LEMMA BeginsType ==
  ASSUME NEW T, NEW t \in Seq(T)
  PROVE  /\ Len(t) \in Nat /\ DOMAIN t = 1..Len(t)
         /\ Begins(t) \in SUBSET (1..Len(t)) /\ Begins(t) \in SUBSET Nat
         /\ IsFiniteSet(Begins(t))
<1>1. Len(t) \in Nat /\ DOMAIN t = 1..Len(t)
  BY LenProperties
<1>2. Begins(t) \in SUBSET (1..Len(t))
  BY <1>1 DEF Begins
<1>3. IsFiniteSet(1..Len(t))
  BY <1>1, FS_Interval
<1>4. IsFiniteSet(Begins(t))
  BY <1>2, <1>3, FS_Subset
<1>5. 1..Len(t) \in SUBSET Nat
  BY <1>1
<1> QED
  BY <1>1, <1>2, <1>4, <1>5

(* Word number n is the one that begins at the place of rank n. *)
LEMMA WordsOfIs ==
  ASSUME NEW T, NEW t \in Seq(T)
  PROVE  /\ Len(WordsOf(t)) = Cardinality(Begins(t))
         /\ DOMAIN WordsOf(t) = 1..Cardinality(Begins(t))
         /\ \A k \in Begins(t) : WordsOf(t)[Rank(Begins(t), k)] = WordAt(t, k)
<1> DEFINE B == Begins(t)
           c == Cardinality(B)
           At(n) == CHOOSE k \in B : Cardinality({h \in B : h <= k}) = n
<1>1. B \in SUBSET Nat /\ IsFiniteSet(B)
  BY BeginsType
<1>2. /\ c \in Nat
      /\ \A k \in B : Rank(B, k) \in 1..c
      /\ \A j, k \in B : Rank(B, j) = Rank(B, k) => j = k
  <2> HIDE DEF B
  <2> QED
    BY <1>1, RankProperties
<1>3. WordsOf(t) = [n \in 1..c |-> SubSeq(t, At(n), EndOf(t, At(n)))]
  BY DEF WordsOf, Begins, EndOf, Boundary
<1>4. ASSUME NEW k \in B PROVE WordsOf(t)[Rank(B, k)] = WordAt(t, k)
  <2>1. At(Rank(B, k)) = k
    <3>1. At(Rank(B, k)) = CHOOSE j \in B : Rank(B, j) = Rank(B, k)
      BY DEF Rank
    <3> HIDE DEF B
    <3> QED
      BY <1>2, <3>1
  <2> HIDE DEF B, At, c
  <2> QED
    BY <1>2, <1>3, <2>1 DEF WordAt
<1>5. Len(WordsOf(t)) = c /\ DOMAIN WordsOf(t) = 1..c
  <2> HIDE DEF B, At, c
  <2> QED
    BY <1>2, <1>3
<1> QED
  BY <1>4, <1>5

LEMMA EndOfProperties ==
  ASSUME NEW T, NEW t \in Seq(T), NEW k \in 1..Len(t)
  PROVE  /\ EndOf(t, k) \in k..Len(t) /\ Boundary(t, EndOf(t, k) + 1)
         /\ \A h \in k..Len(t) : Boundary(t, h + 1) => EndOf(t, k) <= h
<1> DEFINE S == {h \in k..Len(t) : Boundary(t, h + 1)}
<1>1. Len(t) \in Nat
  BY LenProperties
<1>2. Len(t) \in S
  BY <1>1 DEF Boundary
<1>3. S \in SUBSET Nat
  BY <1>1
<1>4. Min(S) \in S /\ \A x \in S : Min(S) <= x
  <2> HIDE DEF S
  <2> QED
    BY <1>2, <1>3, MinProperties
<1>5. EndOf(t, k) = Min(S)
  BY DEF EndOf
<1> QED
  BY <1>4, <1>5

(* The end of a word is known by what follows it. *)
LEMMA EndOfIs ==
  ASSUME NEW T, NEW t \in Seq(T), NEW k \in 1..Len(t), NEW e \in k..Len(t),
         Boundary(t, e + 1), \A h \in k..Len(t) : h < e => ~Boundary(t, h + 1)
  PROVE  EndOf(t, k) = e
<1>1. /\ EndOf(t, k) \in k..Len(t) /\ Boundary(t, EndOf(t, k) + 1)
      /\ \A h \in k..Len(t) : Boundary(t, h + 1) => EndOf(t, k) <= h
  BY EndOfProperties
<1>2. EndOf(t, k) <= e /\ ~(EndOf(t, k) < e)
  BY <1>1
<1>3. EndOf(t, k) \in Int /\ e \in Int
  BY <1>1
<1> QED
  BY <1>2, <1>3

LEMMA WordAtType ==
  ASSUME NEW T, NEW t \in Seq(T), NEW k \in 1..Len(t)
  PROVE  /\ WordAt(t, k) \in Seq(T)
         /\ Len(WordAt(t, k)) = (EndOf(t, k) - k) + 1
         /\ \A i \in 1..((EndOf(t, k) - k) + 1) : WordAt(t, k)[i] = t[k + i - 1]
<1>1. Len(t) \in Nat /\ EndOf(t, k) \in k..Len(t)
  BY LenProperties, EndOfProperties
<1>2. \A i \in k..EndOf(t, k) : t[i] \in T
  BY <1>1, ElementOfSeq
<1> DEFINE e == EndOf(t, k)
<1>3. k \in Int /\ e \in Int /\ k <= e
  BY <1>1
<1> HIDE DEF e
<1>4. /\ SubSeq(t, k, e) \in Seq(T)
      /\ Len(SubSeq(t, k, e)) = IF k <= e THEN e - k + 1 ELSE 0
      /\ \A i \in 1..(e - k + 1) : SubSeq(t, k, e)[i] = t[k + i - 1]
  BY <1>2, <1>3, SubSeqProperties DEF e
<1> QED
  BY <1>3, <1>4 DEF WordAt, e

-----------------------------------------------------------------------------
(***************************************************************************)
(* A call of strtok_r on text t, from place a, with the delimiters D.      *)
(***************************************************************************)
StartsIn(t, a, D) == {k \in a..Len(t) : t[k] \notin D}
FirstIn(t, a, D)  == Min(StartsIn(t, a, D))
EndIn(t, a, D) ==
  Min({k \in FirstIn(t, a, D)..Len(t) : t[k] \in D} \union {Len(t) + 1})

LEMMA TokenRange ==
  ASSUME NEW t \in Seq(STRING), NEW a \in Nat \ {0}, NEW D,
         StartsIn(t, a, D) # {}
  PROVE  LET first == FirstIn(t, a, D)
             end   == EndIn(t, a, D)
         IN  /\ first \in a..Len(t) /\ end \in (first + 1)..(Len(t) + 1)
             /\ \A k \in a..(first - 1) : t[k] \in D
             /\ \A k \in first..(end - 1) : t[k] \notin D
             /\ end <= Len(t) => t[end] \in D
             /\ SubSeq(t, first, end - 1) \in Seq(STRING)
<1> DEFINE first == FirstIn(t, a, D)
           end   == EndIn(t, a, D)
           n     == Len(t)
           S     == StartsIn(t, a, D)
           E     == {k \in first..n : t[k] \in D} \union {n + 1}
<1>1. n \in Nat /\ \A k \in 1..n : t[k] \in STRING
  BY LenProperties, ElementOfSeq
<1>2. S \in SUBSET Nat
  BY <1>1 DEF StartsIn
<1>3. first \in S /\ \A k \in S : first <= k
  <2> HIDE DEF S
  <2>1. Min(S) \in S /\ \A k \in S : Min(S) <= k
    BY <1>2, MinProperties DEF S
  <2> QED
    BY <2>1 DEF FirstIn, S
<1>4. first \in a..n /\ t[first] \notin D
  BY <1>3 DEF StartsIn
<1>5. \A k \in a..(first - 1) : t[k] \in D
  <2> SUFFICES ASSUME NEW k \in a..(first - 1), t[k] \notin D PROVE FALSE
    OBVIOUS
  <2> HIDE DEF first
  <2>1. k \in a..n /\ ~(first <= k)
    BY <1>1, <1>4
  <2>2. k \in S
    BY <2>1 DEF StartsIn, n
  <2> QED
    BY <1>3, <2>1, <2>2
<1> HIDE DEF first, n
<1>6. E \in SUBSET Nat /\ n + 1 \in E
  BY <1>1, <1>4
<1>7. end \in E /\ \A k \in E : end <= k
  <2> HIDE DEF E
  <2>1. Min(E) \in E /\ \A k \in E : Min(E) <= k
    BY <1>6, MinProperties
  <2> QED
    BY <2>1 DEF EndIn, E, first, n
<1> HIDE DEF end
<1>8. end \in (first + 1)..(n + 1) /\ (end <= n => t[end] \in D)
  <2>1. CASE end = n + 1
    BY <1>1, <1>4, <2>1
  <2>2. CASE end # n + 1
    <3>1. end \in first..n /\ t[end] \in D
      BY <1>7, <2>2
    <3>2. end # first
      BY <1>4, <3>1
    <3> QED
      BY <1>1, <1>4, <3>1, <3>2
  <2> QED
    BY <2>1, <2>2
<1>9. \A k \in first..(end - 1) : t[k] \notin D
  <2> SUFFICES ASSUME NEW k \in first..(end - 1), t[k] \in D PROVE FALSE
    OBVIOUS
  <2>1. k \in first..n /\ ~(end <= k)
    BY <1>1, <1>4, <1>8
  <2> QED
    BY <1>7, <2>1
<1>10. SubSeq(t, first, end - 1) \in Seq(STRING)
  <2>1. first \in Int /\ end - 1 \in Int /\ \A k \in first..(end - 1) : k \in 1..n
    BY <1>1, <1>4, <1>8
  <2>2. \A k \in first..(end - 1) : t[k] \in STRING
    BY <1>1, <2>1
  <2> QED
    BY <2>1, <2>2, SubSeqProperties
<1> QED
  BY <1>4, <1>5, <1>8, <1>9, <1>10 DEF first, end, n

(* The places before a that can begin a word; strtok_r goes on behind the
   delimiter that ends one. *)
Scanned(a) == IF a = 1 THEN 0 ELSE a - 2
Edge(t, a) ==
  a = 1 \/ (a - 1 \in 2..(Len(t) + 1) /\ Boundary(t, a - 1))

LEMMA ScannedType ==
  ASSUME NEW t \in Seq(STRING), NEW a \in Nat \ {0}, Edge(t, a)
  PROVE  Scanned(a) \in 0..Len(t)
BY LenProperties DEF Scanned, Edge

(* With blanks for delimiters, it finds the next word. *)
LEMMA TokenIsWord ==
  ASSUME NEW t \in Seq(STRING), NEW a \in Nat \ {0}, Edge(t, a),
         StartsIn(t, a, Blanks) # {}
  PROVE  LET first == FirstIn(t, a, Blanks)
             end   == EndIn(t, a, Blanks)
         IN  /\ first \in Begins(t) /\ Scanned(a) < first
             /\ \A h \in Begins(t) : ~(Scanned(a) < h /\ h < first)
             /\ EndOf(t, first) = end - 1 /\ Scanned(end + 1) = end - 1
             /\ \A h \in Begins(t) : ~(first < h /\ h <= end - 1)
             /\ end + 1 \in Nat \ {0} /\ Edge(t, end + 1)
             /\ SubSeq(t, first, end - 1) = WordAt(t, first)
<1> DEFINE first == FirstIn(t, a, Blanks)
           end   == EndIn(t, a, Blanks)
           n     == Len(t)
<1>1. /\ first \in a..n /\ end \in (first + 1)..(n + 1)
      /\ \A k \in a..(first - 1) : t[k] \in Blanks
      /\ \A k \in first..(end - 1) : t[k] \notin Blanks
      /\ end <= n => t[end] \in Blanks
  BY TokenRange
<1>2. n \in Nat /\ DOMAIN t = 1..n
  BY LenProperties
<1>3. /\ a \in Nat \ {0}
      /\ a = 1 \/ (a - 1 \in 2..(n + 1) /\ Boundary(t, a - 1))
  BY DEF Edge
<1> HIDE DEF first, end, n
<1>4. /\ first \in 1..n /\ end \in Nat /\ first \in Nat /\ first < end
      /\ end - 1 \in first..n /\ end + 1 \in Nat \ {0}
  BY <1>1, <1>2, <1>3
<1>5. \A k : Boundary(t, k) <=> (k \in {0, n + 1} \/ t[k] \in Blanks)
  BY DEF Boundary, n
<1>6. \A h \in Begins(t) : /\ h \in 1..n /\ t[h] \notin Blanks
                           /\ Boundary(t, h - 1)
  BY <1>2, <1>5 DEF Begins
<1>7. first \in Begins(t)
  <2>1. ~Boundary(t, first)
    <3>1. t[first] \notin Blanks
      BY <1>1, <1>4
    <3>2. first # 0 /\ first # n + 1
      BY <1>2, <1>4
    <3> QED
      BY <1>5, <3>1, <3>2
  <2>2. Boundary(t, first - 1)
    <3>1. CASE first = a
      BY <1>3, <1>5, <3>1
    <3>2. CASE first # a
      <4>1. first - 1 \in a..(first - 1)
        BY <1>1, <1>2, <1>3, <3>2
      <4> QED
        BY <1>1, <1>5, <4>1
    <3> QED
      BY <3>1, <3>2
  <2> QED
    BY <1>2, <1>4, <2>1, <2>2 DEF Begins
<1>8. Scanned(a) < first
  BY <1>1, <1>2, <1>3 DEF Scanned
<1>9. ASSUME NEW h \in Begins(t), Scanned(a) < h, h < first PROVE FALSE
  <2>1. h \in Nat /\ h \in 1..n /\ t[h] \notin Blanks
    BY <1>2, <1>6
  <2>2. h \notin a..(first - 1)
    BY <1>1, <2>1
  <2>3. a # 1 /\ h = a - 1
    BY <1>1, <1>2, <1>3, <1>9, <2>1, <2>2 DEF Scanned
  <2>4. h \in {0, n + 1}
    BY <1>3, <1>5, <2>1, <2>3
  <2> QED
    BY <1>2, <2>1, <2>4
<1>10. EndOf(t, first) = end - 1
  <2>1. Boundary(t, (end - 1) + 1)
    <3>1. (end - 1) + 1 = end /\ (end = n + 1 \/ end <= n)
      BY <1>1, <1>2, <1>4
    <3> QED
      BY <1>1, <1>5, <3>1
  <2>2. ASSUME NEW h \in first..n, h < end - 1 PROVE ~Boundary(t, h + 1)
    <3>1. h + 1 \in first..(end - 1) /\ h + 1 # 0 /\ h + 1 # n + 1
      BY <1>2, <1>4, <2>2
    <3> QED
      BY <1>1, <1>5, <3>1
  <2> QED
    BY <1>4, <2>1, <2>2, EndOfIs DEF n
<1>11. Scanned(end + 1) = end - 1
  BY <1>4 DEF Scanned
<1>12. ASSUME NEW h \in Begins(t), first < h, h <= end - 1 PROVE FALSE
  <2>1. h - 1 \in first..(end - 1) /\ h - 1 # 0 /\ h - 1 # n + 1
    BY <1>2, <1>4, <1>6, <1>12
  <2> QED
    BY <1>1, <1>5, <1>6, <2>1
<1>13. Edge(t, end + 1)
  <2>1. (end + 1) - 1 = end /\ end \in 2..(n + 1)
    BY <1>1, <1>2, <1>4
  <2>2. Boundary(t, end)
    BY <1>1, <1>2, <1>4, <1>5
  <2> QED
    BY <2>1, <2>2 DEF Edge, n
<1>14. SubSeq(t, first, end - 1) = WordAt(t, first)
  BY <1>10 DEF WordAt
<1> QED
  BY <1>4, <1>7, <1>8, <1>9, <1>10, <1>11, <1>12, <1>13, <1>14 DEF first, end

(* When it finds none, there is none left. *)
LEMMA NoTokenNoWord ==
  ASSUME NEW t \in Seq(STRING), NEW a \in Nat \ {0}, Edge(t, a),
         StartsIn(t, a, Blanks) = {}
  PROVE  \A h \in Begins(t) : h <= Scanned(a)
<1> SUFFICES ASSUME NEW h \in Begins(t), ~(h <= Scanned(a)) PROVE FALSE
  OBVIOUS
<1>1. Len(t) \in Nat /\ h \in 1..Len(t)
  BY BeginsType
<1>2. ~Boundary(t, h)
  BY DEF Begins
<1>3. t[h] \notin Blanks
  BY <1>2 DEF Boundary
<1>4. ~(a <= h)
  BY <1>1, <1>3 DEF StartsIn
<1>5. a # 1 /\ h = a - 1
  BY <1>1, <1>4 DEF Scanned
<1> QED
  BY <1>2, <1>5 DEF Edge

-----------------------------------------------------------------------------
(***************************************************************************)
(* What a node keeps of a word, and the words found up to a place.         *)
(***************************************************************************)
LEMMA FieldProperties ==
  ASSUME NEW word \in Seq(STRING), NEW w \in Field(word)
  PROVE  /\ w \in Seq(STRING)
         /\ Len(word) < STRMAX => w = word
         /\ \A i \in 1..Len(word) : i <= STRMAX => i <= Len(w) /\ w[i] = word[i]
<1>1. /\ Len(word) \in Nat /\ STRMAX \in Nat \ {0}
      /\ \A i \in 1..Len(word) : word[i] \in STRING
  BY WidthAssumption, LenProperties, ElementOfSeq
<1>2. CASE Len(word) < STRMAX
  BY <1>1, <1>2 DEF Field
<1>3. CASE ~(Len(word) < STRMAX)
  <2> DEFINE head == SubSeq(word, 1, STRMAX)
  <2>1. PICK padding \in Paddings : w = head \o padding
    BY <1>3 DEF Field
  <2>2. /\ head \in Seq(STRING) /\ Len(head) = STRMAX
        /\ \A i \in 1..STRMAX : head[i] = word[i]
    <3>1. 1 \in Int /\ STRMAX \in Int /\ 1 <= STRMAX
          /\ \A i \in 1..STRMAX : word[i] \in STRING
      BY <1>1, <1>3
    <3>2. /\ head \in Seq(STRING)
          /\ Len(head) = IF 1 <= STRMAX THEN STRMAX - 1 + 1 ELSE 0
          /\ \A i \in 1..(STRMAX - 1 + 1) : head[i] = word[1 + i - 1]
      BY <3>1, SubSeqProperties
    <3> QED
      BY <1>1, <3>2
  <2>3. padding \in Seq(STRING) /\ Len(padding) \in Nat
    BY BehindAssumption, LenProperties
  <2> HIDE DEF head
  <2>4. /\ w \in Seq(STRING) /\ Len(w) = STRMAX + Len(padding)
        /\ \A i \in 1..(STRMAX + Len(padding)) :
             w[i] = IF i <= STRMAX THEN head[i] ELSE padding[i - STRMAX]
    BY <2>1, <2>2, <2>3, ConcatProperties
  <2>5. ASSUME NEW i \in 1..Len(word), i <= STRMAX
        PROVE  i <= Len(w) /\ w[i] = word[i]
    BY <1>1, <2>2, <2>3, <2>4, <2>5
  <2> QED
    BY <1>3, <2>4, <2>5
<1> QED
  BY <1>2, <1>3

(* A node's word begins like the word. *)
LEMMA FieldPrefix ==
  ASSUME NEW word \in Seq(STRING), NEW w \in Field(word), NEW other \in Seq(STRING),
         NEW kept \in Nat, kept <= STRMAX, kept <= Len(word), kept <= Len(other),
         \A i \in 1..kept : other[i] = word[i]
  PROVE  SubSeq(w, 1, kept) = SubSeq(other, 1, kept)
<1>1. /\ Len(word) \in Nat /\ STRMAX \in Nat \ {0} /\ Len(other) \in Nat
      /\ w \in Seq(STRING) /\ Len(w) \in Nat
      /\ \A i \in 1..Len(w) : w[i] \in STRING
      /\ \A i \in 1..Len(other) : other[i] \in STRING
  BY WidthAssumption, LenProperties, ElementOfSeq, FieldProperties
<1>2. \A i \in 1..kept : i <= Len(w) /\ w[i] = other[i]
  <2> SUFFICES ASSUME NEW i \in 1..kept PROVE i <= Len(w) /\ w[i] = other[i]
    OBVIOUS
  <2>1. i \in 1..Len(word) /\ i <= STRMAX
    BY <1>1
  <2> QED
    BY <2>1, FieldProperties
<1>3. /\ \A i \in 1..kept : w[i] \in STRING
      /\ \A i \in 1..kept : other[i] \in STRING
  BY <1>1, <1>2
<1>4. 1 \in Int /\ kept \in Int
  OBVIOUS
<1>5. /\ SubSeq(w, 1, kept) \in Seq(STRING)
      /\ Len(SubSeq(w, 1, kept)) = IF 1 <= kept THEN kept - 1 + 1 ELSE 0
      /\ \A i \in 1..(kept - 1 + 1) : SubSeq(w, 1, kept)[i] = w[1 + i - 1]
  BY <1>3, <1>4, SubSeqProperties
<1>6. /\ SubSeq(other, 1, kept) \in Seq(STRING)
      /\ Len(SubSeq(other, 1, kept)) = IF 1 <= kept THEN kept - 1 + 1 ELSE 0
      /\ \A i \in 1..(kept - 1 + 1) : SubSeq(other, 1, kept)[i] = other[1 + i - 1]
  BY <1>3, <1>4, SubSeqProperties
<1> DEFINE p == SubSeq(w, 1, kept)
           q == SubSeq(other, 1, kept)
<1>7. /\ p \in Seq(STRING) /\ q \in Seq(STRING)
      /\ Len(p) = kept /\ Len(q) = kept
      /\ \A i \in 1..kept : p[i] = w[i] /\ q[i] = other[i]
  <2> HIDE DEF p, q
  <2> QED
    BY <1>5, <1>6 DEF p, q
<1> HIDE DEF p, q
<1>8. p = q
  BY <1>2, <1>7, SeqEqual
<1> QED
  BY <1>8 DEF p, q

(* What a node holds of a word. *)
Holds(w, word) ==
  \/ w = word
  \/ Len(word) >= STRMAX /\ SubSeq(w, 1, STRMAX) = SubSeq(word, 1, STRMAX)

LEMMA FieldHolds ==
  ASSUME NEW word \in Seq(STRING), NEW w \in Field(word)
  PROVE  Holds(w, word)
<1>1. Len(word) \in Nat /\ STRMAX \in Nat \ {0}
  BY LenProperties, WidthAssumption
<1>2. CASE Len(word) < STRMAX
  BY <1>2, FieldProperties DEF Holds
<1>3. CASE ~(Len(word) < STRMAX)
  <2>1. STRMAX \in Nat /\ STRMAX <= STRMAX /\ STRMAX <= Len(word)
    BY <1>1, <1>3
  <2>2. SubSeq(w, 1, STRMAX) = SubSeq(word, 1, STRMAX)
    BY <2>1, FieldPrefix
  <2> QED
    BY <1>1, <2>1, <2>2 DEF Holds
<1> QED
  BY <1>2, <1>3

(* W are the words that begin at the places of B up to x, as nodes keep them. *)
Collected(W, B, word, x) ==
  /\ W \in Seq(Seq(STRING)) /\ Len(W) = Rank(B, x)
  /\ \A k \in B : k <= x => W[Rank(B, k)] \in Field(word[k])

LEMMA CollectedNone ==
  ASSUME NEW W, NEW B \in SUBSET Nat, NEW word, NEW x \in Nat, NEW y \in Nat,
         Collected(W, B, word, x), x <= y, \A h \in B : ~(x < h /\ h <= y)
  PROVE  Collected(W, B, word, y)
<1>1. Rank(B, y) = Rank(B, x)
  BY RankStays
<1>2. \A k \in B : k <= y => k <= x
  <2> SUFFICES ASSUME NEW k \in B, k <= y PROVE k <= x
    OBVIOUS
  <2>1. k \in Nat
    OBVIOUS
  <2> QED
    BY <2>1
<1> QED
  BY <1>1, <1>2 DEF Collected

LEMMA CollectedOne ==
  ASSUME NEW W, NEW B \in SUBSET Nat, IsFiniteSet(B), NEW word,
         NEW x \in Nat, NEW k \in B, NEW y \in Nat, NEW w,
         Collected(W, B, word, x), x < k, k <= y,
         \A h \in B : ~(x < h /\ h < k), \A h \in B : ~(k < h /\ h <= y),
         word[k] \in Seq(STRING), w \in Field(word[k])
  PROVE  Collected(Append(W, w), B, word, y)
<1> DEFINE Q == Seq(STRING)
           V == Append(W, w)
<1>1. k \in Nat /\ w \in Q /\ W \in Seq(Q)
  BY FieldProperties DEF Collected
<1>2. Rank(B, k) = Rank(B, x) + 1 /\ Rank(B, y) = Rank(B, k)
  <2>1. Rank(B, k) = Rank(B, x) + 1
    BY RankGrows
  <2>2. Rank(B, y) = Rank(B, k)
    BY <1>1, RankStays
  <2> QED
    BY <2>1, <2>2
<1>3. Len(W) = Rank(B, x) /\ Len(W) \in Nat
  BY <1>1, LenProperties DEF Collected
<1> HIDE DEF Q
<1>4. /\ V \in Seq(Q) /\ Len(V) = Len(W) + 1
      /\ \A i \in 1..Len(W) : V[i] = W[i]
      /\ V[Len(W) + 1] = w
  BY <1>1, AppendProperties
<1> HIDE DEF V
<1>5. ASSUME NEW j \in B, j <= y PROVE V[Rank(B, j)] \in Field(word[j])
  <2>1. j \in Nat
    OBVIOUS
  <2>2. j = k \/ j < k
    BY <1>1, <1>5, <2>1
  <2>3. CASE j = k
    BY <1>2, <1>3, <1>4, <2>3
  <2>4. CASE j < k
    <3>1. j <= x
      BY <2>1, <2>4
    <3>2. W[Rank(B, j)] \in Field(word[j])
      BY <3>1 DEF Collected
    <3> DEFINE r == Rank(B, j)
    <3>3. r \in Nat /\ r # 0 /\ r < Rank(B, k)
      <4>1. r \in 1..Cardinality(B) /\ Cardinality(B) \in Nat /\ r < Rank(B, k)
        BY <2>4, RankProperties
      <4> HIDE DEF r
      <4> QED
        BY <4>1
    <3> HIDE DEF r
    <3>4. r \in 1..Len(W)
      BY <1>2, <1>3, <3>3
    <3> QED
      BY <1>4, <3>2, <3>4 DEF r
  <2> QED
    BY <2>2, <2>3, <2>4
<1> QED
  BY <1>2, <1>3, <1>4, <1>5 DEF Collected, V, Q

(* Nothing is found before the first byte. *)
LEMMA CollectedFirst ==
  ASSUME NEW B \in SUBSET Nat, NEW word, 0 \notin B
  PROVE  Collected(<<>>, B, word, 0)
<1>1. \A h \in B : ~(h <= 0)
  <2> SUFFICES ASSUME NEW h \in B, h <= 0 PROVE FALSE
    OBVIOUS
  <2>1. h \in Nat
    OBVIOUS
  <2> QED
    BY <2>1
<1>2. {h \in B : h <= 0} = {}
  BY <1>1
<1>3. Rank(B, 0) = 0
  BY <1>2, FS_EmptySet DEF Rank
<1>4. <<>> \in Seq(Seq(STRING)) /\ Len(<<>>) = 0
  BY EmptySeq
<1> QED
  BY <1>1, <1>3, <1>4 DEF Collected

(* All of them, when none is left. *)
LEMMA CollectedAll ==
  ASSUME NEW W, NEW B \in SUBSET Nat, IsFiniteSet(B), NEW word, NEW x,
         Collected(W, B, word, x), \A h \in B : h <= x
  PROVE  /\ Len(W) = Cardinality(B)
         /\ \A k \in B : W[Rank(B, k)] \in Field(word[k])
<1>1. {h \in B : h <= x} = B
  OBVIOUS
<1> QED
  BY <1>1 DEF Collected, Rank

-----------------------------------------------------------------------------
(***************************************************************************)
(* What stands behind a text changes its last word only.                   *)
(***************************************************************************)
LEMMA TextWithTail ==
  ASSUME NEW s \in Seq(STRING), NEW b \in Seq(STRING)
  PROVE  /\ s \o b \in Seq(STRING) /\ Len(s \o b) \in Nat /\ Len(s) <= Len(s \o b)
         /\ \A k \in 1..Len(s) : (s \o b)[k] = s[k]
         /\ \A k \in 0..Len(s) : Boundary(s \o b, k) <=> Boundary(s, k)
<1> DEFINE t == s \o b
<1>1. /\ t \in Seq(STRING) /\ Len(t) = Len(s) + Len(b)
      /\ \A i \in 1..(Len(s) + Len(b)) : t[i] = IF i <= Len(s) THEN s[i] ELSE b[i - Len(s)]
  BY ConcatProperties
<1>2. Len(s) \in Nat /\ Len(b) \in Nat
  BY LenProperties
<1> HIDE DEF t
<1>3. Len(t) \in Nat /\ Len(s) <= Len(t)
  BY <1>1, <1>2
<1>4. \A k \in 1..Len(s) : t[k] = s[k]
  BY <1>1, <1>2
<1>5. ASSUME NEW k \in 0..Len(s) PROVE Boundary(t, k) <=> Boundary(s, k)
  <2>1. CASE k = 0
    BY <2>1 DEF Boundary
  <2>2. CASE k # 0
    <3>1. k \in 1..Len(s) /\ k # Len(s) + 1 /\ k # Len(t) + 1
      BY <1>2, <1>3, <2>2
    <3> QED
      BY <1>4, <2>2, <3>1 DEF Boundary
  <2> QED
    BY <2>1, <2>2
<1> QED
  BY <1>1, <1>3, <1>4, <1>5 DEF t

LEMMA BeginsWithTail ==
  ASSUME NEW s \in Seq(STRING), NEW b \in Seq(STRING)
  PROVE  LET t == s \o b
         IN  /\ Begins(s) = {k \in Begins(t) : k <= Len(s)}
             /\ Cardinality(Begins(s)) <= Cardinality(Begins(t))
             /\ \A k \in Begins(s) : /\ Rank(Begins(t), k) = Rank(Begins(s), k)
                                     /\ EndOf(s, k) <= EndOf(t, k)
             /\ \A j, k \in Begins(s) : j < k => EndOf(s, j) = EndOf(t, j)
<1> DEFINE t == s \o b
<1>1. /\ t \in Seq(STRING) /\ Len(t) \in Nat /\ Len(s) <= Len(t)
      /\ \A k \in 0..Len(s) : Boundary(t, k) <=> Boundary(s, k)
  BY TextWithTail
<1> HIDE DEF t
<1>2. Len(s) \in Nat /\ DOMAIN s = 1..Len(s) /\ DOMAIN t = 1..Len(t)
  BY <1>1, LenProperties
<1>3. Begins(s) = {k \in Begins(t) : k <= Len(s)}
  <2>1. ASSUME NEW k \in 1..Len(s) PROVE k \in Begins(s) <=> k \in Begins(t)
    <3>1. k \in 0..Len(s) /\ k - 1 \in 0..Len(s) /\ k \in 1..Len(t)
      BY <1>1, <1>2
    <3> QED
      BY <1>1, <1>2, <3>1 DEF Begins
  <2>2. Begins(s) \subseteq 1..Len(s)
    BY BeginsType
  <2>3. \A k \in Begins(t) : k <= Len(s) => k \in 1..Len(s)
    <3>1. Begins(t) \subseteq 1..Len(t)
      BY <1>1, BeginsType
    <3> QED
      BY <1>1, <1>2, <3>1
  <2>4. \A k \in 1..Len(s) : k <= Len(s)
    BY <1>2
  <2> QED
    BY <2>1, <2>2, <2>3, <2>4
<1>4. Cardinality(Begins(s)) <= Cardinality(Begins(t))
  <2>1. Begins(s) \in SUBSET Begins(t) /\ IsFiniteSet(Begins(t))
    BY <1>1, <1>3, BeginsType
  <2> QED
    BY <2>1, FS_Subset
<1>5. ASSUME NEW k \in Begins(s) PROVE Rank(Begins(t), k) = Rank(Begins(s), k)
  <2>1. {h \in Begins(t) : h <= k} = {h \in Begins(s) : h <= k}
    <3>1. k \in 1..Len(s) /\ \A h \in Begins(t) : h \in Nat
      BY <1>1, BeginsType
    <3>2. \A h \in Begins(t) : h <= k => h <= Len(s)
      BY <1>2, <3>1
    <3> QED
      BY <1>3, <3>2
  <2> QED
    BY <2>1 DEF Rank
<1>6. ASSUME NEW k \in Begins(s) PROVE EndOf(s, k) <= EndOf(t, k)
  <2>1. k \in 1..Len(s) /\ k \in 1..Len(t)
    BY <1>1, <1>3, BeginsType
  <2>2. /\ EndOf(s, k) \in k..Len(s)
        /\ \A h \in k..Len(s) : Boundary(s, h + 1) => EndOf(s, k) <= h
    BY <2>1, EndOfProperties
  <2>3. EndOf(t, k) \in k..Len(t) /\ Boundary(t, EndOf(t, k) + 1)
    BY <1>1, <2>1, EndOfProperties
  <2> SUFFICES ASSUME ~(EndOf(s, k) <= EndOf(t, k)) PROVE FALSE
    OBVIOUS
  <2>4. EndOf(t, k) \in k..Len(s) /\ EndOf(t, k) + 1 \in 0..Len(s)
    BY <1>1, <1>2, <2>1, <2>2, <2>3
  <2> QED
    BY <1>1, <2>2, <2>3, <2>4
<1>7. ASSUME NEW j \in Begins(s), NEW k \in Begins(s), j < k
      PROVE  EndOf(s, j) = EndOf(t, j)
  <2>1. j \in 1..Len(s) /\ k \in 1..Len(s) /\ j \in 1..Len(t)
    BY <1>1, <1>3, BeginsType
  <2>2. ~Boundary(s, j) /\ Boundary(s, k - 1)
    BY DEF Begins
  <2>3. j < k - 1
    <3>1. j # k - 1
      BY <2>2
    <3> QED
      BY <1>7, <2>1, <3>1
  <2>4. /\ EndOf(s, j) \in j..Len(s) /\ Boundary(s, EndOf(s, j) + 1)
        /\ \A h \in j..Len(s) : Boundary(s, h + 1) => EndOf(s, j) <= h
    BY <2>1, EndOfProperties
  <2> DEFINE h == k - 2
             e == EndOf(s, j)
             f == EndOf(t, j)
  <2>5. h \in j..Len(s) /\ h + 1 = k - 1
    BY <1>2, <2>1, <2>3
  <2>6. e <= h
    BY <2>2, <2>4, <2>5
  <2>7. e + 1 \in 0..Len(s) /\ e \in j..Len(t)
    BY <1>1, <1>2, <2>1, <2>4, <2>5, <2>6
  <2>8. Boundary(t, e + 1)
    BY <1>1, <2>4, <2>7
  <2>9. \A i \in j..Len(t) : Boundary(t, i + 1) => f <= i
    BY <1>1, <2>1, EndOfProperties
  <2>10. f <= e /\ f \in j..Len(t)
    BY <1>1, <2>1, <2>7, <2>8, <2>9, EndOfProperties
  <2>11. e <= f
    BY <1>6
  <2> HIDE DEF e, f, h
  <2>12. e = f
    BY <2>7, <2>10, <2>11
  <2> QED
    BY <2>12 DEF e, f
<1> QED
  BY <1>3, <1>4, <1>5, <1>6, <1>7 DEF t

WordsAt(t) == [k \in Begins(t) |-> WordAt(t, k)]

(* All words of a text, as nodes keep them. *)
LEMMA CollectedKeeps ==
  ASSUME NEW t \in Seq(STRING), NEW W, NEW x,
         Collected(W, Begins(t), WordsAt(t), x), \A h \in Begins(t) : h <= x
  PROVE  Keeps(W, t)
<1> DEFINE B == Begins(t)
           there == WordsOf(t)
<1>1. B \in SUBSET Nat /\ IsFiniteSet(B) /\ B \subseteq 1..Len(t)
  BY BeginsType
<1>2. Len(there) = Cardinality(B) /\ \A k \in B : there[Rank(B, k)] = WordAt(t, k)
  BY WordsOfIs
<1>3. /\ Len(W) = Cardinality(B) /\ W \in Seq(Seq(STRING))
      /\ \A k \in B : W[Rank(B, k)] \in Field(WordsAt(t)[k])
  <2>1. Collected(W, B, WordsAt(t), x) /\ \A h \in B : h <= x
    OBVIOUS
  <2> HIDE DEF B
  <2> QED
    BY <1>1, <2>1, CollectedAll DEF Collected
<1>4. DOMAIN W = 1..Cardinality(B)
  <2> DEFINE Q == Seq(STRING)
  <2>1. W \in Seq(Q)
    BY <1>3
  <2> HIDE DEF Q, B
  <2> QED
    BY <1>3, <2>1, LenProperties
<1>5. ASSUME NEW n \in DOMAIN W PROVE Holds(W[n], there[n])
  <2>1. n \in 1..Cardinality(B)
    BY <1>4
  <2>2. PICK k \in B : Rank(B, k) = n
    <3> HIDE DEF B
    <3> QED
      BY <1>1, <2>1, RankProperties
  <2>3. WordAt(t, k) \in Seq(STRING)
    <3>1. k \in 1..Len(t)
      BY <1>1
    <3> QED
      BY <3>1, WordAtType
  <2>4. there[n] = WordAt(t, k) /\ W[n] \in Field(WordAt(t, k))
    BY <1>2, <1>3, <2>2 DEF WordsAt
  <2> QED
    BY <2>3, <2>4, FieldHolds
<1> HIDE DEF B, there
<1> QED
  BY <1>2, <1>3, <1>5 DEF there, Keeps, Holds

(* The words of s \o b begin where those of s do, or where those of b do. *)
LEMMA TailAddsItsWords ==
  ASSUME NEW s \in Seq(STRING), NEW b \in Seq(STRING)
  PROVE  Cardinality(Begins(s \o b)) <= Cardinality(Begins(s)) + Cardinality(Begins(b))
<1> DEFINE t == s \o b
           l == Len(s)
           A == Begins(s)
           B == Begins(b)
           C == Begins(t)
           D == {k \in C : k > l}
<1>1. /\ t \in Seq(STRING) /\ Len(t) = l + Len(b) /\ l \in Nat /\ Len(b) \in Nat
      /\ \A k \in 1..(l + Len(b)) : k > l => t[k] = b[k - l]
  BY ConcatProperties, LenProperties
<1>2. A = {k \in C : k <= l}
  BY BeginsWithTail
<1>3. /\ IsFiniteSet(A) /\ IsFiniteSet(B) /\ IsFiniteSet(C)
      /\ C \subseteq 1..Len(t) /\ DOMAIN t = 1..Len(t) /\ DOMAIN b = 1..Len(b)
  BY <1>1, BeginsType
<1> HIDE DEF t, l
<1>4. ASSUME NEW k \in D PROVE k - l \in B
  <2>1. k \in 1..(l + Len(b)) /\ k > l /\ k - l \in 1..Len(b)
    BY <1>1, <1>3
  <2>2. ~Boundary(t, k) /\ Boundary(t, k - 1)
    BY DEF Begins
  <2>3. ~Boundary(b, k - l)
    <3>1. t[k] \notin Blanks /\ k - l # 0 /\ k - l # Len(b) + 1
      BY <1>1, <2>1, <2>2 DEF Boundary
    <3> QED
      BY <1>1, <2>1, <3>1 DEF Boundary
  <2>4. Boundary(b, (k - l) - 1)
    <3>1. CASE (k - l) - 1 = 0
      BY <3>1 DEF Boundary
    <3>2. CASE (k - l) - 1 # 0
      <4>1. /\ k - 1 \in 1..(l + Len(b)) /\ k - 1 > l
            /\ (k - 1) - l = (k - l) - 1 /\ k - 1 # 0 /\ k - 1 # Len(t) + 1
        BY <1>1, <2>1, <3>2
      <4>2. t[k - 1] \in Blanks
        BY <2>2, <4>1 DEF Boundary
      <4>3. b[(k - l) - 1] \in Blanks
        BY <1>1, <4>1, <4>2
      <4> QED
        BY <4>3 DEF Boundary
    <3> QED
      BY <3>1, <3>2
  <2> QED
    BY <1>3, <2>1, <2>3, <2>4 DEF Begins
<1>5. C = A \union D
  <2>1. \A k \in C : k <= l \/ k > l
    BY <1>1, <1>3
  <2> QED
    BY <1>2, <2>1
<1>6. IsFiniteSet(D) /\ Cardinality(D) <= Cardinality(B)
  <2> DEFINE place == [k \in D |-> k - l]
  <2>1. place \in [D -> B]
    BY <1>4
  <2>2. \A j, k \in D : place[j] = place[k] => j = k
    BY <1>1, <1>3
  <2>3. place \in Injection(D, B)
    BY <2>1, <2>2 DEF Injection, IsInjective
  <2> HIDE DEF place, D, B
  <2> QED
    BY <1>3, <2>3, FS_Injection
<1> HIDE DEF A, B, C, D
<1>7. Cardinality(A \union D) = Cardinality(A) + Cardinality(D) - Cardinality(A \cap D)
  BY <1>3, <1>6, FS_Union
<1>8. IsFiniteSet(A \cap D)
  BY <1>3, FS_Intersection
<1>9. /\ Cardinality(A) \in Nat /\ Cardinality(B) \in Nat /\ Cardinality(D) \in Nat
      /\ Cardinality(A \cap D) \in Nat
  BY <1>3, <1>6, <1>8, FS_CardinalityType
<1>10. Cardinality(C) <= Cardinality(A) + Cardinality(B)
  BY <1>5, <1>6, <1>7, <1>9
<1> QED
  BY <1>10 DEF A, B, C, t

(* All words of s \o b, as nodes keep them, against the words of s. *)
LEMMA TailSpoilsLast ==
  ASSUME NEW s \in Seq(STRING), NEW b \in Seq(STRING), NEW W, NEW x,
         Collected(W, Begins(s \o b), WordsAt(s \o b), x),
         \A h \in Begins(s \o b) : h <= x
  PROVE  /\ Keeps(W, s \o b)
         /\ Len(WordsOf(s)) <= Len(W)
         /\ Len(W) <= Len(WordsOf(s)) + Len(WordsOf(b))
         /\ \A n \in DOMAIN WordsOf(s) :
              LET there == WordsOf(s)
                  kept == Min({Len(there[n]), STRMAX})
              IN  /\ n < Len(there) /\ kept < STRMAX => W[n] = there[n]
                  /\ SubSeq(W[n], 1, kept) = SubSeq(there[n], 1, kept)
<1> DEFINE t == s \o b
           A == Begins(s)
           B == Begins(t)
           there == WordsOf(s)
<1>1. /\ t \in Seq(STRING) /\ Len(t) \in Nat /\ Len(s) <= Len(t)
      /\ \A k \in 1..Len(s) : t[k] = s[k]
  BY TextWithTail
<1>2. /\ A = {k \in B : k <= Len(s)}
      /\ Cardinality(A) <= Cardinality(B)
      /\ \A k \in A : Rank(B, k) = Rank(A, k) /\ EndOf(s, k) <= EndOf(t, k)
      /\ \A j, k \in A : j < k => EndOf(s, j) = EndOf(t, j)
  BY BeginsWithTail
<1>3. Collected(W, B, WordsAt(t), x) /\ \A h \in B : h <= x
  OBVIOUS
<1> HIDE DEF t
<1>4. /\ B \in SUBSET Nat /\ IsFiniteSet(B) /\ A \in SUBSET Nat /\ IsFiniteSet(A)
      /\ A \subseteq 1..Len(s) /\ B \subseteq 1..Len(t)
  BY <1>1, BeginsType
<1>5. /\ Len(W) = Cardinality(B)
      /\ \A k \in B : W[Rank(B, k)] \in Field(WordsAt(t)[k])
  <2> HIDE DEF B
  <2> QED
    BY <1>3, <1>4, CollectedAll
<1>6. /\ Len(there) = Cardinality(A) /\ DOMAIN there = 1..Cardinality(A)
      /\ \A k \in A : there[Rank(A, k)] = WordAt(s, k)
  BY WordsOfIs
<1> HIDE DEF A, B, there
<1>7. /\ Cardinality(A) \in Nat
      /\ \A n \in 1..Cardinality(A) : \E k \in A : Rank(A, k) = n
      /\ \A j, k \in A : j < k => Rank(A, j) < Rank(A, k)
  BY <1>4, RankProperties
<1>8. ASSUME NEW n \in DOMAIN there
      PROVE  LET kept == Min({Len(there[n]), STRMAX})
             IN  /\ n < Len(there) /\ kept < STRMAX => W[n] = there[n]
                 /\ SubSeq(W[n], 1, kept) = SubSeq(there[n], 1, kept)
  <2>1. PICK k \in A : Rank(A, k) = n
    BY <1>6, <1>7
  <2> DEFINE here == WordAt(s, k)
             word == WordAt(t, k)
             kept == Min({Len(here), STRMAX})
  <2>2. k \in B /\ Rank(B, k) = n /\ k \in 1..Len(s) /\ k \in 1..Len(t)
    BY <1>2, <1>4, <2>1
  <2>3. there[n] = here /\ W[n] \in Field(word)
    BY <1>5, <1>6, <2>1, <2>2 DEF WordsAt, B
  <2> DEFINE e == EndOf(s, k)
             f == EndOf(t, k)
  <2>4. /\ here \in Seq(STRING) /\ Len(here) = (e - k) + 1
        /\ \A i \in 1..((e - k) + 1) : here[i] = s[k + i - 1]
    BY <2>2, WordAtType
  <2>5. /\ word \in Seq(STRING) /\ Len(word) = (f - k) + 1
        /\ \A i \in 1..((f - k) + 1) : word[i] = t[k + i - 1]
    BY <1>1, <2>2, WordAtType
  <2>6. e \in k..Len(s) /\ f \in k..Len(t)
    BY <1>1, <2>2, EndOfProperties
  <2>7. e <= f
    BY <1>2, <2>1
  <2>8. Len(s) \in Nat /\ k \in Nat
    BY <2>2, LenProperties
  <2>9. Len(here) \in Nat /\ STRMAX \in Nat \ {0}
    BY <2>4, LenProperties, WidthAssumption
  <2> HIDE DEF here, word, e, f
  <2>10. /\ kept \in {Len(here), STRMAX} /\ kept <= Len(here) /\ kept <= STRMAX
    <3> DEFINE S == {Len(here), STRMAX}
    <3>1. S \in SUBSET Nat /\ S # {}
      BY <2>9
    <3>2. Min(S) \in S /\ \A y \in S : Min(S) <= y
      <4> HIDE DEF S
      <4> QED
        BY <3>1, MinProperties
    <3> QED
      BY <3>2
  <2> HIDE DEF kept
  <2>11. kept \in Nat
    BY <2>9, <2>10
  <2>12. kept <= Len(word) /\ \A i \in 1..kept : here[i] = word[i]
    <3>1. kept <= Len(word)
      BY <2>4, <2>5, <2>6, <2>7, <2>8, <2>10, <2>11
    <3>2. ASSUME NEW i \in 1..kept PROVE here[i] = word[i]
      <4>1. /\ i \in 1..((e - k) + 1) /\ i \in 1..((f - k) + 1)
            /\ k + i - 1 \in 1..Len(s)
        BY <2>2, <2>4, <2>6, <2>7, <2>8, <2>10, <2>11
      <4> QED
        BY <1>1, <2>4, <2>5, <4>1
    <3> QED
      BY <3>1, <3>2
  <2>13. SubSeq(W[n], 1, kept) = SubSeq(here, 1, kept)
    BY <2>3, <2>4, <2>5, <2>10, <2>11, <2>12, FieldPrefix
  <2>14. ASSUME n < Len(there), kept < STRMAX PROVE W[n] = here
    <3>1. n + 1 \in 1..Cardinality(A)
      <4>1. n \in Nat
        BY <1>6, <1>7
      <4> QED
        BY <1>6, <1>7, <2>14, <4>1
    <3>2. PICK j \in A : Rank(A, j) = n + 1
      BY <1>7, <3>1
    <3>3. k < j
      <4>1. n \in Nat /\ j \in Nat
        BY <1>4, <1>6, <1>7
      <4>2. k # j
        BY <2>1, <3>2, <4>1
      <4>3. j < k => Rank(A, j) < Rank(A, k)
        BY <1>7
      <4>4. ~(j < k)
        BY <2>1, <3>2, <4>1, <4>3
      <4> QED
        BY <2>8, <4>1, <4>2, <4>4
    <3>4. e = f
      BY <1>2, <2>1, <3>3 DEF e, f
    <3>5. here = word
      <4>1. Len(here) = Len(word)
        BY <2>4, <2>5, <3>4
      <4>2. \A i \in 1..Len(here) : here[i] = word[i]
        <5>1. ASSUME NEW i \in 1..((e - k) + 1) PROVE here[i] = word[i]
          <6>1. i \in 1..((f - k) + 1) /\ k + i - 1 \in 1..Len(s)
            BY <2>2, <2>6, <2>8, <3>4
          <6> QED
            BY <1>1, <2>4, <2>5, <6>1
        <5> QED
          BY <2>4, <5>1
      <4> QED
        BY <2>4, <2>5, <4>1, <4>2, SeqEqual
    <3>6. Len(word) < STRMAX
      BY <2>9, <2>10, <2>14, <3>5
    <3> QED
      BY <2>3, <2>5, <3>5, <3>6, FieldProperties
  <2> QED
    BY <2>3, <2>13, <2>14 DEF kept
<1>9. Len(there) <= Len(W)
  <2>1. Cardinality(B) \in Nat
    BY <1>4, FS_CardinalityType
  <2> QED
    BY <1>2, <1>5, <1>6, <1>7, <2>1
<1>10. Len(W) <= Len(there) + Len(WordsOf(b))
  <2>1. Cardinality(B) <= Cardinality(A) + Cardinality(Begins(b))
    BY TailAddsItsWords DEF A, B, t
  <2>2. Len(WordsOf(b)) = Cardinality(Begins(b))
    BY WordsOfIs
  <2> QED
    BY <1>5, <1>6, <2>1, <2>2
<1>11. Keeps(W, s \o b)
  BY <1>1, <1>3, CollectedKeeps DEF t, B
<1> QED
  BY <1>8, <1>9, <1>10, <1>11 DEF there

-----------------------------------------------------------------------------
(***************************************************************************)
(* The invariant of the loop over strtok_r: the nodes are the words up to  *)
(* where it is.                                                            *)
(***************************************************************************)
LEMMA ArithmeticType ==
  /\ \A n \in Int : Wrap(n) \in Int
  /\ \A m \in Int, n \in Nat \ {0} : Quotient(m, n) \in Int
<1> DEFINE h == 2^(Width - 1)
<1>1. h \in Nat \ {0} /\ 2^Width = 2 * h
  BY PowerAssumption
<1> HIDE DEF h
<1>2. ASSUME NEW n \in Int PROVE Wrap(n) \in Int
  <2>1. (n + h) % (2 * h) \in Int
    BY <1>1
  <2>2. Wrap(n) = ((n + h) % (2 * h)) - h
    BY <1>1 DEF Wrap, h
  <2> QED
    BY <1>1, <2>1, <2>2
<1>3. ASSUME NEW m \in Int, NEW n \in Nat \ {0} PROVE Quotient(m, n) \in Int
  <2>1. m \div n \in Int /\ (-m) \div n \in Int
    OBVIOUS
  <2> QED
    BY <2>1 DEF Quotient
<1> QED
  BY <1>2, <1>3

LEMMA ReadableType ==
  ASSUME TypeInv, Readable
  PROVE  SubSeq(file, startByte(replica) + 1, startByte(replica) + readBytes)
           \in Seq(STRING)
<1>1. /\ Len(file) \in Nat /\ \A k \in 1..Len(file) : file[k] \in STRING
      /\ replicas \in Nat \ {0} /\ replica \in Int
  BY LenProperties, ElementOfSeq DEF TypeInv
<1> DEFINE a == startByte(replica)
           b == endByte(replica)
           c == readBytes
<1>2. (replica - 1) * fileSize \in Int /\ replica * fileSize \in Int
  <2>1. fileSize \in Int
    BY <1>1, ArithmeticType DEF fileSize
  <2> QED
    BY <1>1, <2>1
<1>3. a \in Int /\ b \in Int
  BY <1>1, <1>2, ArithmeticType DEF startByte, endByte
<1>4. c \in Int
  BY <1>3, ArithmeticType DEF readBytes
<1>5. a >= 0 /\ c >= 0 /\ (c > 0 => a + c <= Len(file))
  BY DEF Readable
<1> HIDE DEF a, b, c
<1>6. a + 1 \in Int /\ a + c \in Int /\ \A k \in (a + 1)..(a + c) : k \in 1..Len(file)
  BY <1>1, <1>3, <1>4, <1>5
<1>7. \A k \in (a + 1)..(a + c) : file[k] \in STRING
  BY <1>1, <1>6
<1>8. SubSeq(file, a + 1, a + c) \in Seq(STRING)
  BY <1>6, <1>7, SubSeqProperties
<1> QED
  BY <1>8 DEF a, c

Lists == Seq(Seq(STRING))

LoopInv ==
  /\ segment \in Seq(STRING) /\ behind \in Seq(STRING) /\ at \in Nat \ {0}
  /\ words \in Seq(Lists)
  /\ pc # "died" => Len(words) = Opened
  /\ pc = "done" => replica = replicas
  /\ (pc = "strtok" /\ delimiters = Blanks) =>
       /\ Edge(Text, at)
       /\ Collected(words[replica], Begins(Text), WordsAt(Text), Scanned(at))

TextInv == TypeInv /\ LoopInv

LEMMA TextType == LoopInv => Text \in Seq(STRING)
  BY ConcatProperties DEF LoopInv, Text

LEMMA TextInvInit == Init => TextInv
<1> SUFFICES ASSUME Init PROVE TextInv
  OBVIOUS
<1>1. TypeInv
  BY FilesAssumption, ReplicasAssumption DEF Init, TypeInv
<1>2. /\ <<>> \in Seq(STRING) /\ <<>> \in Seq(Lists) /\ Len(<<>>) = 0
  BY EmptySeq
<1>3. pc = "open" /\ Opened = 0
  BY DEF Init, Opened
<1>4. LoopInv
  BY <1>2, <1>3 DEF Init, LoopInv
<1> QED
  BY <1>1, <1>4 DEF TextInv

LEMMA OpenKeepsText == TextInv /\ Open => TextInv'
<1> SUFFICES ASSUME TextInv, Open PROVE TextInv'
  OBVIOUS
<1>1. /\ pc = "open" /\ pc' = "strtok" /\ at' = 1 /\ words' = Append(words, <<>>)
      /\ UNCHANGED <<file, replicas, replica>> /\ Readable
      /\ segment' = SubSeq(file, startByte(replica) + 1, startByte(replica) + readBytes)
      /\ behind' \in Tails
  BY DEF Open
<1>2. TypeInv'
  BY <1>1 DEF TextInv, TypeInv
<1>3. segment' \in Seq(STRING) /\ behind' \in Seq(STRING)
  BY <1>1, ReadableType, BehindAssumption DEF TextInv
<1>4. /\ replica \in Nat \ {0} /\ words \in Seq(Lists) /\ Len(words) = replica - 1
  BY <1>1 DEF TextInv, TypeInv, LoopInv, Opened
<1>5. /\ words' \in Seq(Lists) /\ Len(words') = replica /\ words'[replica] = <<>>
  <2> DEFINE T == Lists
  <2>1. <<>> \in T
    BY EmptySeq DEF Lists
  <2>2. words \in Seq(T)
    BY <1>4
  <2> HIDE DEF T
  <2>3. /\ words' \in Seq(T) /\ Len(words') = Len(words) + 1
        /\ words'[Len(words) + 1] = <<>>
    BY <1>1, <2>1, <2>2, AppendProperties
  <2> QED
    BY <1>4, <2>3 DEF T
<1>6. Text' \in Seq(STRING)
  BY <1>3, ConcatProperties DEF Text
<1>7. Edge(Text', 1) /\ Scanned(1) = 0
  BY DEF Edge, Scanned
<1>8. Collected(<<>>, Begins(Text'), WordsAt(Text'), 0)
  <2>1. Begins(Text') \in SUBSET Nat /\ Begins(Text') \subseteq 1..Len(Text') /\ Len(Text') \in Nat
    BY <1>6, BeginsType
  <2>2. 0 \notin Begins(Text')
    BY <2>1
  <2> QED
    BY <2>1, <2>2, CollectedFirst
<1>9. Opened' = replica
  BY <1>1 DEF Opened
<1>10. LoopInv'
  BY <1>1, <1>3, <1>5, <1>7, <1>8, <1>9 DEF LoopInv
<1> QED
  BY <1>2, <1>10 DEF TextInv

LEMMA NextWordIs ==
  ASSUME NextWord
  PROVE  LET first == FirstIn(Text, at, delimiters)
             end   == EndIn(Text, at, delimiters)
         IN  /\ pc = "strtok" /\ StartsIn(Text, at, delimiters) # {}
             /\ \E w \in Field(SubSeq(Text, first, end - 1)) :
                  words' = [words EXCEPT ![replica] = Append(@, w)]
             /\ at' = end + 1
             /\ UNCHANGED <<file, replicas, replica, pc, segment, behind,
                            delimiters, read, benign>>
BY DEF NextWord, Starts, Ends, StartsIn, FirstIn, EndIn

LEMMA NextWordKeepsText == TextInv /\ NextWord => TextInv'
<1> SUFFICES ASSUME TextInv, NextWord PROVE TextInv'
  OBVIOUS
<1> DEFINE first == FirstIn(Text, at, delimiters)
           end   == EndIn(Text, at, delimiters)
           piece == SubSeq(Text, first, end - 1)
           W == words[replica]
<1>1. /\ pc = "strtok" /\ StartsIn(Text, at, delimiters) # {} /\ at' = end + 1
      /\ UNCHANGED <<file, replicas, replica, pc, segment, behind, delimiters>>
  BY NextWordIs
<1>2. PICK w \in Field(piece) : words' = [words EXCEPT ![replica] = Append(@, w)]
  BY NextWordIs
<1>3. TypeInv'
  BY <1>1 DEF TextInv, TypeInv
<1>4. /\ Text \in Seq(STRING) /\ at \in Nat \ {0} /\ Text' = Text
      /\ segment \in Seq(STRING) /\ behind \in Seq(STRING)
  BY <1>1, TextType DEF TextInv, LoopInv, Text
<1>5. /\ first \in at..Len(Text) /\ end \in (first + 1)..(Len(Text) + 1)
      /\ piece \in Seq(STRING)
  BY <1>1, <1>4, TokenRange
<1>6. at' \in Nat \ {0}
  BY <1>1, <1>4, <1>5
<1>7. /\ replica \in Nat \ {0} /\ words \in Seq(Lists) /\ Len(words) = replica
  BY <1>1 DEF TextInv, TypeInv, LoopInv, Opened
<1>8. /\ words' \in Seq(Lists) /\ Len(words') = replica
      /\ words'[replica] = Append(W, w)
  <2> DEFINE T == Lists
             Q == Seq(STRING)
  <2>1. w \in Q
    BY <1>5, FieldProperties
  <2>2. replica \in 1..Len(words)
    BY <1>7
  <2>3. W \in Seq(Q)
    <3>1. words \in Seq(T)
      BY <1>7
    <3> HIDE DEF T
    <3>2. W \in T
      BY <2>2, <3>1, ElementOfSeq
    <3> QED
      BY <3>2 DEF T, Lists
  <2> HIDE DEF Q
  <2>4. Append(W, w) \in Seq(Q)
    BY <2>1, <2>3, AppendProperties
  <2>5. Append(W, w) \in T
    BY <2>4 DEF Q, Lists
  <2>6. words' = [words EXCEPT ![replica] = Append(W, w)]
    BY <1>2
  <2> DEFINE e == Append(W, w)
  <2>7. words \in Seq(T) /\ e \in T /\ words' = [words EXCEPT ![replica] = e]
    BY <1>7, <2>5, <2>6
  <2> HIDE DEF T, e
  <2>8. /\ words' \in Seq(T) /\ Len(words') = Len(words) /\ words'[replica] = e
    BY <2>2, <2>7, ExceptSeq
  <2> QED
    BY <1>7, <2>8 DEF T, e
<1>9. Opened' = replica
  BY <1>1 DEF Opened
<1>10. ASSUME delimiters = Blanks
       PROVE  /\ Edge(Text, at')
              /\ Collected(Append(W, w), Begins(Text), WordsAt(Text), Scanned(at'))
  <2>1. /\ Edge(Text, at)
        /\ Collected(W, Begins(Text), WordsAt(Text), Scanned(at))
    BY <1>1, <1>10 DEF TextInv, LoopInv
  <2>2. /\ first \in Begins(Text) /\ Scanned(at) < first
        /\ \A h \in Begins(Text) : ~(Scanned(at) < h /\ h < first)
        /\ EndOf(Text, first) = end - 1 /\ Scanned(end + 1) = end - 1
        /\ \A h \in Begins(Text) : ~(first < h /\ h <= end - 1)
        /\ Edge(Text, end + 1) /\ piece = WordAt(Text, first)
    BY <1>1, <1>4, <1>10, <2>1, TokenIsWord
  <2>3. /\ Begins(Text) \in SUBSET Nat /\ IsFiniteSet(Begins(Text))
        /\ Len(Text) \in Nat
    BY <1>4, BeginsType
  <2>4. Scanned(at) \in Nat
    BY <1>4, <2>1, <2>3, ScannedType
  <2>5. WordsAt(Text)[first] = piece
    BY <2>2 DEF WordsAt
  <2> HIDE DEF first, end, piece, W
  <2>6. end - 1 \in Nat /\ first <= end - 1
    BY <1>4, <1>5, <2>3
  <2>7. Collected(Append(W, w), Begins(Text), WordsAt(Text), end - 1)
    BY <1>2, <1>5, <2>1, <2>2, <2>3, <2>4, <2>5, <2>6, CollectedOne
  <2> QED
    BY <1>1, <2>2, <2>7
<1>11. LoopInv'
  <2> HIDE DEF first, end, piece, W
  <2> QED
    BY <1>1, <1>4, <1>6, <1>8, <1>9, <1>10 DEF LoopInv
<1> QED
  BY <1>3, <1>11 DEF TextInv

LEMMA TextInvNext == TextInv /\ [Next]_vars => TextInv'
<1> SUFFICES ASSUME TextInv, [Next]_vars PROVE TextInv'
  OBVIOUS
<1>1. CASE OpenFails
  BY <1>1 DEF OpenFails, TextInv, TypeInv, LoopInv
<1>2. CASE NoWord
  <2>1. /\ pc = "strtok" /\ UNCHANGED <<file, replicas, segment, behind, at, words>>
        /\ \/ pc' = "open" /\ replica' = replica + 1 /\ replica < replicas
           \/ pc' = "done" /\ replica' = replica /\ ~(replica < replicas)
    BY <1>2 DEF NoWord
  <2>2. /\ replicas \in Nat \ {0} /\ replica \in 1..replicas
    BY DEF TextInv, TypeInv
  <2>3. Opened = replica /\ Opened' = replica
    BY <2>1, <2>2 DEF Opened
  <2>4. replica' \in 1..replicas /\ (pc' = "done" => replica' = replicas)
    BY <2>1, <2>2
  <2> QED
    BY <2>1, <2>3, <2>4 DEF TextInv, TypeInv, LoopInv
<1>3. CASE UNCHANGED vars
  BY <1>3 DEF vars, TextInv, TypeInv, LoopInv, Opened, Text
<1> QED
  BY <1>1, <1>2, <1>3, OpenKeepsText, NextWordKeepsText DEF Next

(* cmpsc473mr.c:304-332: strtok_r runs over an array without a NUL.  Whatever
   stands behind it in memory up to the first NUL, of any file and for any number
   of readers, the nodes are the words of the segment, of which the last may be
   longer, and then no more than the words that the memory behind contains. *)
THEOREM OnlyLastWordSpoilt == Spec => []TailSpoilsLastWordOnly
<1>1. TextInv => TailSpoilsLastWordOnly
  <2> SUFFICES ASSUME TextInv, pc = "strtok", Starts = {}, delimiters = Blanks
               PROVE  LET found == words[replica]
                          there == WordsOf(segment)
                      IN  /\ Keeps(found, segment \o behind)
                          /\ Len(there) <= Len(found)
                          /\ Len(found) <= Len(there) + Len(WordsOf(behind))
                          /\ \A n \in DOMAIN there :
                               LET kept == Min({Len(there[n]), STRMAX})
                               IN  /\ n < Len(there) /\ kept < STRMAX =>
                                        found[n] = there[n]
                                   /\ SubSeq(found[n], 1, kept) =
                                        SubSeq(there[n], 1, kept)
    BY DEF TailSpoilsLastWordOnly
  <2>1. /\ segment \in Seq(STRING) /\ behind \in Seq(STRING) /\ at \in Nat \ {0}
        /\ Edge(Text, at) /\ Text \in Seq(STRING)
        /\ Collected(words[replica], Begins(Text), WordsAt(Text), Scanned(at))
    BY TextType DEF TextInv, LoopInv
  <2>2. StartsIn(Text, at, Blanks) = {}
    BY DEF Starts, StartsIn
  <2>3. \A h \in Begins(Text) : h <= Scanned(at)
    BY <2>1, <2>2, NoTokenNoWord
  <2> QED
    BY <2>1, <2>3, TailSpoilsLast DEF Text
<1> QED
  BY <1>1, TextInvInit, TextInvNext, PTL DEF Spec

-----------------------------------------------------------------------------
(***************************************************************************)
(* The pieces of the file: its words, cut where two segments meet.         *)
(***************************************************************************)
Edges == {endByte(r) : r \in 0..replicas}
PieceBegins ==
  {k \in 1..fileSize : /\ file[k] \notin Blanks
                       /\ k - 1 \in Edges \/ file[k - 1] \in Blanks}
PieceEnd(k) == Min({h \in k..fileSize : h \in Edges \/ file[h + 1] \in Blanks})
Pieces == [k \in PieceBegins |-> SubSeq(file, k, PieceEnd(k))]

LEMMA FileType ==
  ASSUME Reading
  PROVE  /\ file \in Seq(STRING) /\ fileSize \in Nat /\ fileSize = Len(file)
         /\ \A k \in 1..fileSize : file[k] \in STRING
         /\ 0 \in Edges /\ fileSize \in Edges
         /\ PieceBegins \in SUBSET Nat /\ PieceBegins \in SUBSET (1..fileSize)
         /\ IsFiniteSet(PieceBegins)
<1>1. /\ file \in Seq(STRING) /\ fileSize \in Nat /\ fileSize = Len(file)
      /\ \A k \in 1..fileSize : file[k] \in STRING
  BY LenProperties, ElementOfSeq, FileSizeFits DEF Reading
<1>2. 0 \in Edges /\ fileSize \in Edges
  <2>1. 0 \in 0..replicas /\ replicas \in 0..replicas
    BY DEF Reading
  <2> QED
    BY <2>1, RangesMeet DEF Edges
<1>3. PieceBegins \in SUBSET (1..fileSize)
  BY DEF PieceBegins
<1>4. IsFiniteSet(1..fileSize) /\ 1..fileSize \in SUBSET Nat
  <2> DEFINE n == fileSize
  <2>1. n \in Nat
    BY <1>1
  <2> HIDE DEF n
  <2>2. IsFiniteSet(1..n)
    BY <2>1, FS_Interval
  <2>3. 1..n \in SUBSET Nat
    BY <2>1
  <2> QED
    BY <2>2, <2>3 DEF n
<1>5. IsFiniteSet(PieceBegins)
  BY <1>3, <1>4, FS_Subset
<1> QED
  BY <1>1, <1>2, <1>3, <1>4, <1>5

LEMMA PieceEndProperties ==
  ASSUME Reading, NEW k \in 1..fileSize
  PROVE  LET e == PieceEnd(k)
         IN  /\ e \in k..fileSize /\ (e \in Edges \/ file[e + 1] \in Blanks)
             /\ \A h \in k..fileSize : h < e => h \notin Edges /\ file[h + 1] \notin Blanks
<1> DEFINE S == {h \in k..fileSize : h \in Edges \/ file[h + 1] \in Blanks}
           e == PieceEnd(k)
<1>1. fileSize \in Nat /\ fileSize \in Edges
  BY FileType
<1>2. fileSize \in S /\ S \in SUBSET Nat
  BY <1>1
<1>3. e = Min(S)
  BY DEF PieceEnd
<1>4. e \in S /\ \A h \in S : e <= h
  <2> HIDE DEF S, e
  <2> QED
    BY <1>2, <1>3, MinProperties
<1>5. ASSUME NEW h \in k..fileSize, h < e
      PROVE  h \notin Edges /\ file[h + 1] \notin Blanks
  <2> SUFFICES ASSUME h \in Edges \/ file[h + 1] \in Blanks PROVE FALSE
    OBVIOUS
  <2>1. h \in S
    OBVIOUS
  <2>2. e <= h /\ e \in Int /\ h \in Int
    BY <1>1, <1>4, <2>1
  <2> HIDE DEF e, S
  <2> QED
    BY <1>5, <2>2
<1> QED
  BY <1>4, <1>5

LEMMA PieceEndIs ==
  ASSUME Reading, NEW k \in 1..fileSize, NEW e \in k..fileSize,
         e \in Edges \/ file[e + 1] \in Blanks,
         \A h \in k..fileSize : h < e => h \notin Edges /\ file[h + 1] \notin Blanks
  PROVE  PieceEnd(k) = e
<1> DEFINE d == PieceEnd(k)
<1>1. /\ d \in k..fileSize /\ (d \in Edges \/ file[d + 1] \in Blanks)
      /\ \A h \in k..fileSize : h < d => h \notin Edges /\ file[h + 1] \notin Blanks
  BY PieceEndProperties
<1> HIDE DEF d
<1>2. ~(d < e) /\ ~(e < d)
  BY <1>1
<1>3. d \in Int /\ e \in Int
  BY <1>1
<1> QED
  BY <1>2, <1>3 DEF d

(* The words of a segment are the pieces in its range. *)
LEMMA SegmentPieces ==
  ASSUME Reading, NEW r \in 1..replicas
  PROVE  LET s == endByte(r - 1)
             seg == Bytes(r)
         IN  /\ seg \in Seq(STRING) /\ s \in Nat /\ s + Len(seg) = endByte(r)
             /\ s + Len(seg) <= fileSize
             /\ \A k \in 1..Len(seg) : s + k \in PieceBegins <=> k \in Begins(seg)
             /\ \A k \in Begins(seg) : Pieces[s + k] = WordAt(seg, k)
<1> DEFINE s == endByte(r - 1)
           e == endByte(r)
           seg == Bytes(r)
           n == Len(seg)
<1>1. r \in 0..replicas /\ r - 1 \in 0..replicas /\ r \in Nat \ {0}
  BY DEF Reading
<1>2. s \in 0..fileSize /\ e \in 0..fileSize /\ s <= e /\ fileSize \in Nat
  BY <1>1, RangesMeet, FileType
<1>3. s \in Edges /\ e \in Edges
  BY <1>1 DEF Edges
<1>4. ASSUME NEW x \in Edges, s < x, x < e PROVE FALSE
  <2>1. PICK q \in 0..replicas : x = endByte(q)
    BY DEF Edges
  <2>2. q <= r - 1 \/ r <= q
    BY <1>1
  <2>3. x <= s \/ e <= x
    BY <1>1, <2>1, <2>2, RangesMeet
  <2>4. x \in Int
    BY <2>1, RangesMeet
  <2> HIDE DEF s, e
  <2> QED
    BY <1>2, <1>4, <2>3, <2>4
<1>5. seg \in Seq(STRING)
  BY RangeType
<1>6. n = e - s /\ \A k \in 1..n : seg[k] = file[s + k]
  <2>1. seg = SubSeq(file, s + 1, e)
    BY DEF Bytes
  <2> HIDE DEF s, e, seg
  <2>2. s + 1 \in Int /\ e \in Int /\ \A i \in (s + 1)..e : i \in 1..fileSize
    BY <1>2
  <2>3. \A i \in (s + 1)..e : file[i] \in STRING
    BY <2>2, FileType
  <2>4. /\ Len(seg) = IF s + 1 <= e THEN e - (s + 1) + 1 ELSE 0
        /\ \A i \in 1..(e - (s + 1) + 1) : seg[i] = file[(s + 1) + i - 1]
    BY <2>1, <2>2, <2>3, SubSeqProperties
  <2>5. n = e - s
    BY <1>2, <2>4
  <2>6. ASSUME NEW k \in 1..n PROVE seg[k] = file[s + k]
    <3>1. k \in 1..(e - (s + 1) + 1) /\ (s + 1) + k - 1 = s + k
      BY <1>2, <2>5
    <3> QED
      BY <2>4, <3>1
  <2> QED
    BY <2>5, <2>6
<1> HIDE DEF s, e, seg, n
<1>7. n \in Nat /\ DOMAIN seg = 1..n /\ s + n = e
  BY <1>2, <1>5, <1>6, LenProperties DEF n
<1>8. \A k : Boundary(seg, k) <=> (k \in {0, n + 1} \/ seg[k] \in Blanks)
  BY DEF Boundary, n
<1>9. ASSUME NEW k \in 1..n
      PROVE  /\ ~Boundary(seg, k) <=> file[s + k] \notin Blanks
             /\ Boundary(seg, k - 1) <=>
                  ((s + k) - 1 \in Edges \/ file[(s + k) - 1] \in Blanks)
             /\ Boundary(seg, k + 1) <=>
                  (s + k \in Edges \/ file[(s + k) + 1] \in Blanks)
  <2>1. ~Boundary(seg, k) <=> file[s + k] \notin Blanks
    <3>1. k # 0 /\ k # n + 1
      BY <1>7
    <3> QED
      BY <1>6, <1>8, <3>1
  <2>2. Boundary(seg, k - 1) <=>
          ((s + k) - 1 \in Edges \/ file[(s + k) - 1] \in Blanks)
    <3>1. CASE k = 1
      <4>1. k - 1 = 0 /\ (s + k) - 1 = s
        BY <1>2, <3>1
      <4> QED
        BY <1>3, <1>8, <4>1
    <3>2. CASE k # 1
      <4>1. /\ k - 1 \in 1..n /\ k - 1 # 0 /\ k - 1 # n + 1
            /\ s + (k - 1) = (s + k) - 1 /\ s < (s + k) - 1 /\ (s + k) - 1 < e
        BY <1>2, <1>7, <3>2
      <4>2. (s + k) - 1 \notin Edges
        BY <1>4, <4>1
      <4>3. seg[k - 1] = file[(s + k) - 1]
        BY <1>6, <4>1
      <4> QED
        BY <1>8, <4>1, <4>2, <4>3
    <3> QED
      BY <3>1, <3>2
  <2>3. Boundary(seg, k + 1) <=> (s + k \in Edges \/ file[(s + k) + 1] \in Blanks)
    <3>1. CASE k = n
      BY <1>3, <1>7, <1>8, <3>1
    <3>2. CASE k # n
      <4>1. /\ k + 1 \in 1..n /\ k + 1 # 0 /\ k + 1 # n + 1
            /\ s + (k + 1) = (s + k) + 1 /\ s < s + k /\ s + k < e
        BY <1>2, <1>7, <3>2
      <4>2. s + k \notin Edges
        BY <1>4, <4>1
      <4>3. seg[k + 1] = file[(s + k) + 1]
        BY <1>6, <4>1
      <4> QED
        BY <1>8, <4>1, <4>2, <4>3
    <3> QED
      BY <3>1, <3>2
  <2> QED
    BY <2>1, <2>2, <2>3
<1>10. ASSUME NEW k \in 1..n PROVE s + k \in PieceBegins <=> k \in Begins(seg)
  <2>1. s + k \in 1..fileSize
    BY <1>2, <1>7
  <2> QED
    BY <1>7, <1>9, <2>1 DEF PieceBegins, Begins
<1>11. ASSUME NEW k \in Begins(seg) PROVE Pieces[s + k] = WordAt(seg, k)
  <2>1. k \in 1..n /\ s + k \in PieceBegins
    BY <1>7, <1>10 DEF Begins
  <2> DEFINE d == EndOf(seg, k)
  <2>2. /\ d \in k..n /\ Boundary(seg, d + 1)
        /\ \A h \in k..n : Boundary(seg, h + 1) => d <= h
    BY <1>5, <2>1, EndOfProperties DEF n
  <2> HIDE DEF d
  <2>3. /\ s + k \in 1..fileSize /\ s + d \in (s + k)..fileSize /\ d \in 1..n /\ k \in Nat
    BY <1>2, <1>7, <2>1, <2>2
  <2>4. s + d \in Edges \/ file[(s + d) + 1] \in Blanks
    BY <1>9, <2>2, <2>3
  <2>5. ASSUME NEW h \in (s + k)..fileSize, h < s + d
        PROVE  h \notin Edges /\ file[h + 1] \notin Blanks
    <3> DEFINE i == h - s
    <3>1. i \in k..n /\ i \in 1..n /\ s + i = h /\ ~(d <= i)
      BY <1>2, <1>7, <2>1, <2>3, <2>5
    <3> HIDE DEF i
    <3>2. ~Boundary(seg, i + 1)
      BY <2>2, <3>1
    <3> QED
      BY <1>9, <3>1, <3>2
  <2>6. PieceEnd(s + k) = s + d
    BY <2>3, <2>4, <2>5, PieceEndIs
  <2>7. Pieces[s + k] = SubSeq(file, s + k, s + d)
    BY <2>1, <2>6 DEF Pieces
  <2>8. SubSeq(file, s + k, s + d) = SubSeq(seg, k, d)
    <3> DEFINE u == SubSeq(file, s + k, s + d)
               v == SubSeq(seg, k, d)
    <3>1. /\ s + k \in Int /\ s + d \in Int /\ k \in Int /\ d \in Int
          /\ k <= d /\ s + k <= s + d
          /\ \A i \in (s + k)..(s + d) : i \in 1..fileSize
          /\ \A i \in k..d : i \in 1..n
      BY <1>2, <1>7, <2>1, <2>2, <2>3
    <3>2. /\ \A i \in (s + k)..(s + d) : file[i] \in STRING
          /\ \A i \in k..d : seg[i] \in STRING
      BY <1>5, <3>1, FileType, ElementOfSeq DEF n
    <3>3. /\ u \in Seq(STRING)
          /\ Len(u) = IF s + k <= s + d THEN (s + d) - (s + k) + 1 ELSE 0
          /\ \A i \in 1..((s + d) - (s + k) + 1) : u[i] = file[(s + k) + i - 1]
      BY <3>1, <3>2, SubSeqProperties
    <3>4. /\ v \in Seq(STRING)
          /\ Len(v) = IF k <= d THEN d - k + 1 ELSE 0
          /\ \A i \in 1..(d - k + 1) : v[i] = seg[k + i - 1]
      BY <3>1, <3>2, SubSeqProperties
    <3> HIDE DEF u, v
    <3>5. Len(u) = d - k + 1 /\ Len(v) = d - k + 1
      BY <1>2, <3>1, <3>3, <3>4
    <3>6. ASSUME NEW i \in 1..(d - k + 1) PROVE u[i] = v[i]
      <4>1. /\ i \in 1..((s + d) - (s + k) + 1)
            /\ k + i - 1 \in 1..n /\ s + (k + i - 1) = (s + k) + i - 1
        BY <1>2, <2>1, <2>2, <3>1
      <4>2. seg[k + i - 1] = file[s + (k + i - 1)]
        BY <1>6, <4>1
      <4> QED
        BY <3>3, <3>4, <4>1, <4>2
    <3>7. u = v
      BY <3>3, <3>4, <3>5, <3>6, SeqEqual
    <3> QED
      BY <3>7 DEF u, v
  <2> QED
    BY <2>7, <2>8 DEF WordAt, d
<1>12. s + n <= fileSize
  BY <1>2, <1>7
<1> QED
  BY <1>2, <1>5, <1>7, <1>10, <1>11, <1>12 DEF s, e, seg, n

-----------------------------------------------------------------------------
(***************************************************************************)
(* CutText, which has a blank at each cut, has the pieces for its words.   *)
(***************************************************************************)
(* The provers do not know that a string is in STRING. *)
Characters == STRING \union {" "}

(* Byte k of the file is character p[k] of CutText. *)
Placed(p) ==
  /\ \A k \in 1..fileSize : p[k] \in 1..Len(CutText) /\ CutText[p[k]] = file[k]
  /\ fileSize # 0 => p[1] = 1 /\ p[fileSize] = Len(CutText)
  /\ \A k \in 1..(fileSize - 1) :
       p[k + 1] = IF k \in Cuts THEN p[k] + 2 ELSE p[k] + 1
  /\ \A k \in Cuts : CutText[p[k] + 1] = " "
  /\ \A h \in 1..Len(CutText) : \E k \in 1..fileSize :
       h = p[k] \/ (k \in Cuts /\ h = p[k] + 1)
  /\ \A j, k \in 1..fileSize : j < k => p[j] < p[k]

LEMMA CutsAre ==
  ASSUME Reading
  PROVE  \A k \in 1..(fileSize - 1) :
           k \in Cuts <=> (k \in Edges /\ file[k] \notin Blanks /\ file[k + 1] \notin Blanks)
<1> SUFFICES ASSUME NEW k \in 1..(fileSize - 1)
             PROVE  k \in Cuts <=>
               (k \in Edges /\ file[k] \notin Blanks /\ file[k + 1] \notin Blanks)
  OBVIOUS
<1>1. k # 0 /\ k \in Nat
  BY FileType
<1>2. endByte(0) = 0 /\ replicas \in Nat
  BY RangesMeet DEF Reading
<1>3. k \in Edges <=> k \in {endByte(r) : r \in 1..replicas}
  <2>1. ASSUME NEW r \in 0..replicas, k = endByte(r) PROVE r \in 1..replicas
    BY <1>1, <1>2, <2>1
  <2>2. 1..replicas \subseteq 0..replicas
    BY <1>2
  <2> QED
    BY <2>1, <2>2 DEF Edges
<1> QED
  BY <1>3, FileType DEF Cuts

LEMMA CutPlaces ==
  ASSUME Reading
  PROVE  CutText \in Seq(Characters) /\ \E p \in [1..fileSize -> Nat] : Placed(p)
<1> DEFINE n == fileSize
           seqs == [k \in 1..n |-> IF k \in Cuts THEN <<file[k], " ">> ELSE <<file[k]>>]
<1>1. n \in Nat /\ \A k \in 1..n : file[k] \in STRING
  BY FileType
<1>2. Cuts \subseteq 1..(n - 1)
  BY FileType DEF Cuts
<1>3. CutText = FlattenSeq(seqs)
  BY FileType DEF CutText
<1> HIDE DEF n
<1>4. \A k \in 1..n : seqs[k] \in Seq(Characters)
  <2> SUFFICES ASSUME NEW k \in 1..n PROVE seqs[k] \in Seq(Characters)
    OBVIOUS
  <2> DEFINE T == Characters
             c == file[k]
             d == " "
  <2>1. c \in T /\ d \in T
    BY <1>1 DEF Characters
  <2> HIDE DEF c, d, T
  <2>2. <<c, d>> \in Seq(T) /\ <<c>> \in Seq(T)
    BY <2>1
  <2> QED
    BY <2>2 DEF c, d, T
<1>5. \A k \in 1..n : Len(seqs[k]) = (IF k \in Cuts THEN 2 ELSE 1)
                      /\ seqs[k][1] = file[k] /\ (k \in Cuts => seqs[k][2] = " ")
  OBVIOUS
<1>6. seqs \in Seq(Seq(Characters)) /\ Len(seqs) = n
  <2> DEFINE Q == Seq(Characters)
  <2>1. seqs = [k \in 1..n |-> seqs[k]] /\ \A k \in 1..n : seqs[k] \in Q
    BY <1>4
  <2> HIDE DEF Q, seqs
  <2>2. seqs \in [1..n -> Q]
    BY <2>1
  <2>3. seqs \in Seq(Q) /\ Len(seqs) = n
    BY <1>1, <2>2
  <2> QED
    BY <2>3 DEF Q
<1> HIDE DEF seqs
<1> DEFINE C == CutText
<1>7. C \in Seq(Characters)
  BY <1>3, <1>6, FlattenType
<1> HIDE DEF C
<1>8. PICK off \in [0..n -> Nat] :
        /\ off[0] = 0
        /\ \A k \in 1..n : off[k] = off[k - 1] + Len(seqs[k])
        /\ Len(C) = off[n]
        /\ \A k \in 1..n : \A i \in 1..Len(seqs[k]) : C[off[k - 1] + i] = seqs[k][i]
        /\ \A h \in 1..off[n] : \E k \in 1..n : off[k - 1] < h /\ h <= off[k]
  <2>1. PICK off \in [0..Len(seqs) -> Nat] :
          /\ off[0] = 0
          /\ \A k \in 1..Len(seqs) : off[k] = off[k - 1] + Len(seqs[k])
          /\ Len(FlattenSeq(seqs)) = off[Len(seqs)]
          /\ \A k \in 1..Len(seqs) : \A i \in 1..Len(seqs[k]) :
               FlattenSeq(seqs)[off[k - 1] + i] = seqs[k][i]
          /\ \A h \in 1..off[Len(seqs)] : \E k \in 1..Len(seqs) :
               off[k - 1] < h /\ h <= off[k]
    BY <1>6, FlattenPlaces
  <2>2. Len(seqs) = n /\ FlattenSeq(seqs) = C
    BY <1>3, <1>6 DEF C
  <2> QED
    BY <2>1, <2>2
<1> DEFINE p == [k \in 1..n |-> off[k - 1] + 1]
<1>9. /\ p \in [1..n -> Nat] /\ \A k \in 1..n : p[k] = off[k - 1] + 1
      /\ \A k \in 0..n : off[k] \in Nat
  <2>1. \A k \in 1..n : k - 1 \in 0..n
    BY <1>1
  <2>2. \A k \in 1..n : off[k - 1] + 1 \in Nat
    BY <2>1
  <2> QED
    BY <2>2
<1> HIDE DEF p
<1>10. \A k \in 1..n : /\ off[k] = IF k \in Cuts THEN p[k] + 1 ELSE p[k]
                       /\ C[p[k]] = file[k] /\ (k \in Cuts => C[p[k] + 1] = " ")
  <2> SUFFICES ASSUME NEW k \in 1..n
               PROVE  /\ off[k] = IF k \in Cuts THEN p[k] + 1 ELSE p[k]
                      /\ C[p[k]] = file[k] /\ (k \in Cuts => C[p[k] + 1] = " ")
    OBVIOUS
  <2> DEFINE o == off[k - 1]
  <2>1. o \in Nat /\ p[k] = o + 1
    <3>1. k - 1 \in 0..n
      BY <1>1
    <3> QED
      BY <1>9, <3>1
  <2>2. off[k] = o + Len(seqs[k]) /\ \A i \in 1..Len(seqs[k]) : C[o + i] = seqs[k][i]
    BY <1>8
  <2> HIDE DEF o
  <2>3. CASE k \in Cuts
    <3>1. Len(seqs[k]) = 2 /\ seqs[k][1] = file[k] /\ seqs[k][2] = " "
      BY <1>5, <2>3
    <3>2. 1 \in 1..2 /\ 2 \in 1..2 /\ o + 2 = (o + 1) + 1
      BY <2>1
    <3>3. off[k] = p[k] + 1 /\ C[o + 1] = file[k] /\ C[o + 2] = " "
      BY <2>1, <2>2, <3>1, <3>2
    <3> QED
      BY <2>1, <2>3, <3>2, <3>3
  <2>4. CASE k \notin Cuts
    <3>1. Len(seqs[k]) = 1 /\ seqs[k][1] = file[k]
      BY <1>5, <2>4
    <3>2. off[k] = p[k] /\ C[o + 1] = file[k]
      BY <2>1, <2>2, <3>1
    <3> QED
      BY <2>1, <2>4, <3>2
  <2> QED
    BY <2>3, <2>4
<1>11. \A k \in 1..(n - 1) : p[k + 1] = IF k \in Cuts THEN p[k] + 2 ELSE p[k] + 1
  <2> SUFFICES ASSUME NEW k \in 1..(n - 1)
               PROVE  p[k + 1] = IF k \in Cuts THEN p[k] + 2 ELSE p[k] + 1
    OBVIOUS
  <2>1. k + 1 \in 1..n /\ k \in 1..n /\ (k + 1) - 1 = k
    BY <1>1
  <2>2. p[k + 1] = off[k] + 1 /\ p[k] \in Nat
    BY <1>9, <2>1
  <2>3. off[k] = IF k \in Cuts THEN p[k] + 1 ELSE p[k]
    BY <1>10, <2>1
  <2> QED
    BY <2>2, <2>3
<1>12. \A k \in 1..n : k < n => k \in 1..(n - 1)
  BY <1>1
<1>13. n # 0 => p[1] = 1 /\ p[n] = Len(C)
  <2> SUFFICES ASSUME n # 0 PROVE p[1] = 1 /\ p[n] = Len(C)
    OBVIOUS
  <2>1. 1 \in 1..n /\ n \in 1..n /\ n \notin Cuts /\ 1 - 1 = 0
    BY <1>1, <1>2
  <2>2. p[1] = 1
    BY <1>8, <1>9, <2>1
  <2>3. off[n] = p[n]
    BY <1>10, <2>1
  <2>4. Len(C) = off[n]
    BY <1>8
  <2> QED
    BY <2>2, <2>3, <2>4
<1>14. \A j, k \in 1..n : j < k => p[j] < p[k]
  <2>1. \A k \in 1..n : p[k] \in Int
    BY <1>9
  <2>2. \A k \in 1..(n - 1) : p[k] < p[k + 1]
    <3> SUFFICES ASSUME NEW k \in 1..(n - 1) PROVE p[k] < p[k + 1]
      OBVIOUS
    <3>1. k \in 1..n /\ p[k] \in Nat
      BY <1>1, <1>9
    <3> QED
      BY <1>11, <3>1
  <2> QED
    BY <1>1, <2>1, <2>2, StepsGrow
<1>15. \A k \in 1..n : p[k] \in 1..Len(C)
  <2> SUFFICES ASSUME NEW k \in 1..n PROVE p[k] \in 1..Len(C)
    OBVIOUS
  <2>1. n \in 1..n /\ p[n] = Len(C) /\ k - 1 \in 0..n
    BY <1>1, <1>13
  <2>2. p[k] \in Nat /\ p[k] # 0 /\ p[n] \in Nat
    <3>1. off[k - 1] \in Nat
      BY <1>9, <2>1
    <3> QED
      BY <1>9, <2>1, <3>1
  <2>3. k = n \/ k < n
    BY <1>1
  <2>4. p[k] = p[n] \/ p[k] < p[n]
    BY <1>14, <2>1, <2>3
  <2> QED
    BY <2>1, <2>2, <2>4
<1>16. ASSUME NEW h \in 1..Len(C)
       PROVE  \E k \in 1..n : h = p[k] \/ (k \in Cuts /\ h = p[k] + 1)
  <2>1. PICK k \in 1..n : off[k - 1] < h /\ h <= off[k]
    BY <1>8
  <2>2. k - 1 \in 0..n /\ off[n] \in Nat /\ n \in 0..n
    BY <1>1, <1>9
  <2>3. off[k - 1] \in Nat /\ h \in Nat /\ p[k] = off[k - 1] + 1
    BY <1>8, <1>9, <2>2
  <2>4. off[k] = IF k \in Cuts THEN p[k] + 1 ELSE p[k]
    BY <1>10
  <2>5. h = p[k] \/ (k \in Cuts /\ h = p[k] + 1)
    BY <2>1, <2>3, <2>4
  <2> QED
    BY <2>5
<1>17. Placed(p)
  <2>1. \A k \in Cuts : k \in 1..n
    BY <1>1, <1>2
  <2>2. \A k \in Cuts : C[p[k] + 1] = " "
    BY <1>10, <2>1
  <2> QED
    BY <1>10, <1>11, <1>13, <1>14, <1>15, <1>16, <2>2 DEF Placed, C, n
<1> QED
  BY <1>7, <1>9, <1>17 DEF C, n

LEMMA CutBegins ==
  ASSUME Reading, CutText \in Seq(Characters), NEW p \in [1..fileSize -> Nat],
         Placed(p)
  PROVE  /\ \A k \in 1..fileSize : p[k] \in Begins(CutText) <=> k \in PieceBegins
         /\ \A h \in Begins(CutText) : \E k \in PieceBegins : p[k] = h
<1> DEFINE n == fileSize
           C == CutText
<1>1. n \in Nat /\ 0 \in Edges /\ n \in Edges
  BY FileType
<1>2. Len(C) \in Nat /\ DOMAIN C = 1..Len(C) /\ C \in Seq(Characters)
  BY LenProperties
<1>3. /\ \A k \in 1..n : p[k] \in 1..Len(C) /\ C[p[k]] = file[k]
      /\ n # 0 => p[1] = 1
      /\ \A k \in 1..(n - 1) : p[k + 1] = IF k \in Cuts THEN p[k] + 2 ELSE p[k] + 1
      /\ \A k \in Cuts : C[p[k] + 1] = " "
      /\ \A h \in 1..Len(C) : \E k \in 1..n : h = p[k] \/ (k \in Cuts /\ h = p[k] + 1)
  BY DEF Placed
<1>4. \A k \in 1..(n - 1) :
        k \in Cuts <=> (k \in Edges /\ file[k] \notin Blanks /\ file[k + 1] \notin Blanks)
  BY CutsAre
<1>5. Cuts \subseteq 1..(n - 1) /\ " " \in Blanks
  BY FileType DEF Cuts, Blanks
<1> HIDE DEF n, C
<1>6. \A j : Boundary(C, j) <=> (j \in {0, Len(C) + 1} \/ C[j] \in Blanks)
  BY DEF Boundary
<1>7. ASSUME NEW k \in 1..n PROVE p[k] \in Begins(C) <=> k \in PieceBegins
  <2>1. p[k] \in 1..Len(C) /\ C[p[k]] = file[k] /\ p[k] \in Nat
    BY <1>3 DEF n
  <2>2. ~Boundary(C, p[k]) <=> file[k] \notin Blanks
    BY <1>2, <1>6, <2>1
  <2>3. ASSUME file[k] \notin Blanks
        PROVE  Boundary(C, p[k] - 1) <=> (k - 1 \in Edges \/ file[k - 1] \in Blanks)
    <3>1. CASE k = 1
      <4>1. p[k] - 1 = 0 /\ k - 1 = 0
        <5>1. n # 0
          BY <1>1
        <5>2. p[k] = 1
          BY <1>3, <3>1, <5>1
        <5> QED
          BY <3>1, <5>2
      <4> QED
        BY <1>1, <1>6, <4>1
    <3>2. CASE k # 1
      <4> DEFINE j == k - 1
      <4>1. j \in 1..(n - 1) /\ j \in 1..n /\ j + 1 = k
        BY <1>1, <3>2
      <4> HIDE DEF j
      <4>2. p[j] \in 1..Len(C) /\ C[p[j]] = file[j] /\ p[j] \in Nat
        BY <1>3, <4>1 DEF n
      <4>3. CASE j \in Cuts
        <5>0. p[k] = p[j] + 2 /\ j \in Edges
          BY <1>3, <1>4, <4>1, <4>3
        <5>1. p[k] - 1 = p[j] + 1 /\ j \in Edges
          BY <4>2, <5>0
        <5>2. C[p[k] - 1] \in Blanks
          BY <1>3, <1>5, <4>3, <5>1
        <5> QED
          BY <1>6, <5>1, <5>2 DEF j
      <4>4. CASE j \notin Cuts
        <5>0. p[k] = p[j] + 1
          BY <1>3, <4>1, <4>4
        <5>1. p[k] - 1 = p[j]
          BY <4>2, <5>0
        <5>2. Boundary(C, p[k] - 1) <=> file[j] \in Blanks
          BY <1>2, <1>6, <4>2, <5>1
        <5>3. j \in Edges => file[j] \in Blanks
          BY <1>4, <2>3, <4>1, <4>4
        <5> QED
          BY <5>2, <5>3 DEF j
      <4> QED
        BY <4>3, <4>4
    <3> QED
      BY <3>1, <3>2
  <2> QED
    BY <1>2, <2>1, <2>2, <2>3 DEF Begins, PieceBegins, n
<1>8. ASSUME NEW h \in Begins(C) PROVE \E k \in PieceBegins : p[k] = h
  <2>1. h \in 1..Len(C) /\ ~Boundary(C, h)
    BY <1>2 DEF Begins
  <2>2. C[h] \notin Blanks
    BY <1>6, <2>1
  <2>3. PICK k \in 1..n : h = p[k] \/ (k \in Cuts /\ h = p[k] + 1)
    BY <1>3, <2>1
  <2>4. h = p[k]
    BY <1>3, <1>5, <2>2, <2>3
  <2> QED
    BY <1>7, <2>4
<1> QED
  BY <1>7, <1>8 DEF n, C

LEMMA CutWord ==
  ASSUME Reading, CutText \in Seq(Characters), NEW p \in [1..fileSize -> Nat],
         Placed(p), NEW k \in PieceBegins
  PROVE  /\ WordAt(CutText, p[k]) = Pieces[k] /\ Pieces[k] \in Seq(STRING)
<1> DEFINE n == fileSize
           C == CutText
           e == PieceEnd(k)
<1>1. /\ n \in Nat /\ k \in 1..n /\ file[k] \notin Blanks
      /\ \A h \in 1..n : file[h] \in STRING
  BY FileType DEF PieceBegins
<1>2. Len(C) \in Nat /\ C \in Seq(Characters)
  BY LenProperties
<1>3. /\ \A h \in 1..n : p[h] \in 1..Len(C) /\ C[p[h]] = file[h]
      /\ n # 0 => p[n] = Len(C)
      /\ \A h \in 1..(n - 1) : p[h + 1] = IF h \in Cuts THEN p[h] + 2 ELSE p[h] + 1
      /\ \A h \in Cuts : C[p[h] + 1] = " "
  BY DEF Placed
<1>4. /\ \A h \in 1..(n - 1) :
           h \in Cuts <=> (h \in Edges /\ file[h] \notin Blanks /\ file[h + 1] \notin Blanks)
      /\ " " \in Blanks
  BY CutsAre DEF Blanks
<1>5. /\ e \in k..n /\ (e \in Edges \/ file[e + 1] \in Blanks)
      /\ \A h \in k..n : h < e => h \notin Edges /\ file[h + 1] \notin Blanks
  BY <1>1, PieceEndProperties
<1>6. Pieces[k] = SubSeq(file, k, e)
  BY DEF Pieces
<1> HIDE DEF n, C, e
<1>7. /\ k \in Nat /\ e \in Nat /\ k <= e /\ e <= n /\ e \in 1..n
  BY <1>1, <1>5
<1>8. \A j : Boundary(C, j) <=> (j \in {0, Len(C) + 1} \/ C[j] \in Blanks)
  BY DEF Boundary
(* The piece stands in CutText in one piece. *)
<1> DEFINE S == {i \in Nat : k + i <= e => /\ p[k + i] = p[k] + i
                                           /\ file[k + i] \notin Blanks}
<1>9. \A i \in Nat : i \in S
  <2>1. 0 \in S
    <3>1. k + 0 = k /\ p[k] + 0 = p[k]
      <4>1. p[k] \in Nat /\ k \in Nat
        BY <1>1, <1>7 DEF n
      <4> QED
        BY <4>1
    <3> QED
      BY <1>1, <3>1
  <2>2. ASSUME NEW i \in Nat, i \in S PROVE i + 1 \in S
    <3> SUFFICES ASSUME k + (i + 1) <= e
                 PROVE  /\ p[k + (i + 1)] = p[k] + (i + 1)
                        /\ file[k + (i + 1)] \notin Blanks
      OBVIOUS
    <3> DEFINE h == k + i
    <3>1. /\ h \in 1..(n - 1) /\ h \in k..n /\ h < e /\ h <= e
          /\ h + 1 = k + (i + 1)
      BY <1>1, <1>7
    <3>2. p[h] = p[k] + i
      BY <2>2, <3>1
    <3> HIDE DEF h
    <3>3. h \notin Edges /\ file[h + 1] \notin Blanks
      BY <1>5, <3>1
    <3>4. h \notin Cuts
      BY <1>4, <3>1, <3>3
    <3>5. p[h + 1] = p[h] + 1
      BY <1>3, <3>1, <3>4
    <3>6. p[k] \in Nat
      BY <1>1 DEF n
    <3>7. p[h + 1] = p[k] + (i + 1)
      BY <3>2, <3>5, <3>6
    <3> QED
      BY <3>1, <3>3, <3>7
  <2> HIDE DEF S
  <2> QED
    BY <2>1, <2>2, Induction
<1>10. \A i \in Nat : k + i <= e => p[k + i] = p[k] + i /\ file[k + i] \notin Blanks
  BY <1>9
<1> HIDE DEF S
<1> DEFINE l == e - k
<1>11. l \in Nat /\ k + l = e
  BY <1>7
<1>12. p[e] = p[k] + l /\ file[e] \notin Blanks
  BY <1>7, <1>10, <1>11
<1>13. /\ p[k] \in 1..Len(C) /\ p[e] \in 1..Len(C) /\ p[k] \in Nat /\ p[e] \in Nat
       /\ p[e] \in p[k]..Len(C)
  <2>1. p[k] \in 1..Len(C) /\ p[e] \in 1..Len(C)
    BY <1>1, <1>3, <1>7
  <2> HIDE DEF l
  <2> QED
    BY <1>2, <1>11, <1>12, <2>1
<1> HIDE DEF l
<1>14. Boundary(C, p[e] + 1)
  <2>1. CASE e = n
    <3>1. n # 0
      BY <1>1
    <3>2. p[e] = Len(C)
      BY <1>3, <2>1, <3>1
    <3> QED
      BY <1>8, <3>2
  <2>2. CASE e # n
    <3>1. e \in 1..(n - 1) /\ e + 1 \in 1..n
      BY <1>1, <1>7, <2>2
    <3>2. CASE e \in Cuts
      BY <1>3, <1>4, <1>8, <3>2
    <3>3. CASE e \notin Cuts
      <4>1. file[e + 1] \in Blanks
        BY <1>4, <1>5, <1>12, <3>1, <3>3
      <4>2. p[e + 1] = p[e] + 1 /\ C[p[e + 1]] = file[e + 1]
        BY <1>3, <3>1, <3>3
      <4> QED
        BY <1>8, <4>1, <4>2
    <3> QED
      BY <3>2, <3>3
  <2> QED
    BY <2>1, <2>2
<1>15. ASSUME NEW h \in p[k]..Len(C), h < p[e] PROVE ~Boundary(C, h + 1)
  <2> DEFINE i == (h - p[k]) + 1
  <2>1. i \in Nat /\ k + i <= e /\ h + 1 = p[k] + i
    BY <1>2, <1>7, <1>11, <1>12, <1>13, <1>15
  <2> HIDE DEF i
  <2>2. p[k + i] = h + 1 /\ file[k + i] \notin Blanks
    BY <1>10, <2>1
  <2>3. k + i \in 1..n
    BY <1>1, <1>7, <2>1
  <2>4. h + 1 \in 1..Len(C) /\ C[h + 1] = file[k + i]
    BY <1>3, <2>2, <2>3
  <2>5. h + 1 # 0 /\ h + 1 # Len(C) + 1
    BY <1>2, <2>4
  <2> QED
    BY <1>8, <2>2, <2>4, <2>5
<1>16. EndOf(C, p[k]) = p[e]
  BY <1>2, <1>13, <1>14, <1>15, EndOfIs
<1> DEFINE u == SubSeq(C, p[k], p[e])
           v == SubSeq(file, k, e)
<1>17. /\ v \in Seq(STRING) /\ Len(v) = l + 1
       /\ \A i \in 1..(l + 1) : v[i] = file[k + (i - 1)]
  <2>1. k \in Int /\ e \in Int /\ \A i \in k..e : file[i] \in STRING
    BY <1>1, <1>7
  <2>2. /\ v \in Seq(STRING) /\ Len(v) = IF k <= e THEN e - k + 1 ELSE 0
        /\ \A i \in 1..(e - k + 1) : v[i] = file[k + i - 1]
    BY <2>1, SubSeqProperties
  <2> HIDE DEF v
  <2>3. e - k + 1 = l + 1 /\ \A i \in 1..(l + 1) : k + i - 1 = k + (i - 1)
    BY <1>7, <1>11
  <2> QED
    BY <1>7, <2>2, <2>3
<1>18. /\ u \in Seq(Characters) /\ Len(u) = l + 1
       /\ \A i \in 1..(l + 1) : u[i] = C[p[k] + (i - 1)]
  <2> DEFINE a == p[k]
             b == p[e]
  <2>0. a \in Nat /\ b \in Nat /\ b = a + l /\ a \in 1..Len(C) /\ b \in 1..Len(C)
    BY <1>12, <1>13
  <2> HIDE DEF a, b
  <2>1. a \in Int /\ b \in Int /\ \A i \in a..b : i \in 1..Len(C)
    BY <1>2, <2>0
  <2>2. \A i \in a..b : C[i] \in Characters
    BY <1>2, <2>1, ElementOfSeq
  <2> DEFINE w == SubSeq(C, a, b)
  <2>3. /\ w \in Seq(Characters) /\ Len(w) = IF a <= b THEN b - a + 1 ELSE 0
        /\ \A i \in 1..(b - a + 1) : w[i] = C[a + i - 1]
    BY <2>1, <2>2, SubSeqProperties
  <2> HIDE DEF w
  <2>4. b - a + 1 = l + 1 /\ a <= b /\ \A i \in 1..(l + 1) : a + i - 1 = a + (i - 1)
    BY <1>11, <2>0
  <2>5. /\ w \in Seq(Characters) /\ Len(w) = l + 1
        /\ \A i \in 1..(l + 1) : w[i] = C[a + (i - 1)]
    BY <2>3, <2>4
  <2> QED
    BY <2>5 DEF w, a, b
<1>19. \A i \in 1..(l + 1) : u[i] = v[i]
  <2> SUFFICES ASSUME NEW i \in 1..(l + 1) PROVE u[i] = v[i]
    OBVIOUS
  <2> HIDE DEF u, v
  <2> DEFINE j == i - 1
  <2>1. j \in Nat /\ k + j <= e /\ k + j \in 1..n
    BY <1>1, <1>7, <1>11
  <2>2. u[i] = C[p[k] + j] /\ v[i] = file[k + j]
    BY <1>17, <1>18
  <2> HIDE DEF j
  <2>3. p[k + j] = p[k] + j
    BY <1>10, <2>1
  <2>4. C[p[k + j]] = file[k + j]
    BY <1>3, <2>1
  <2> QED
    BY <2>2, <2>3, <2>4
<1>20. u = v
  <2>1. v \in Seq(Characters)
    <3>1. STRING \subseteq Characters
      BY DEF Characters
    <3> HIDE DEF v
    <3> QED
      BY <1>17, <3>1, SeqMonotonic
  <2> HIDE DEF u, v
  <2> QED
    BY <1>17, <1>18, <1>19, <2>1, SeqEqual
<1> QED
  BY <1>6, <1>16, <1>17, <1>20 DEF WordAt, C

LEMMA PiecesAreCutWords ==
  ASSUME Reading, NEW W, Collected(W, PieceBegins, Pieces, fileSize)
  PROVE  Keeps(W, CutText)
<1> DEFINE B == PieceBegins
           C == Begins(CutText)
           there == WordsOf(CutText)
<1>1. /\ B \in SUBSET Nat /\ IsFiniteSet(B) /\ B \subseteq 1..fileSize
      /\ fileSize \in Nat
  BY FileType
<1>2. CutText \in Seq(Characters)
  BY CutPlaces
<1>3. PICK p \in [1..fileSize -> Nat] : Placed(p)
  BY CutPlaces
<1>4. /\ \A k \in 1..fileSize : p[k] \in C <=> k \in B
      /\ \A h \in C : \E k \in B : p[k] = h
  BY <1>2, <1>3, CutBegins
<1>5. \A k \in B : WordAt(CutText, p[k]) = Pieces[k] /\ Pieces[k] \in Seq(STRING)
  BY <1>2, <1>3, CutWord
<1>6. \A j, k \in 1..fileSize : j < k => p[j] < p[k]
  BY <1>3 DEF Placed
<1>7. /\ Len(there) = Cardinality(C)
      /\ \A h \in C : there[Rank(C, h)] = WordAt(CutText, h)
  BY <1>2, WordsOfIs
<1>8. C \in SUBSET Nat
  BY <1>2, BeginsType
<1>9. /\ Len(W) = Cardinality(B) /\ W \in Seq(Seq(STRING))
      /\ \A k \in B : W[Rank(B, k)] \in Field(Pieces[k])
  <2>1. \A h \in B : h <= fileSize
    BY <1>1
  <2>2. Collected(W, B, Pieces, fileSize)
    OBVIOUS
  <2> HIDE DEF B
  <2>3. /\ Len(W) = Cardinality(B)
        /\ \A k \in B : W[Rank(B, k)] \in Field(Pieces[k])
    BY <1>1, <2>1, <2>2, CollectedAll
  <2> QED
    BY <2>2, <2>3 DEF Collected
<1> HIDE DEF B, C, there
<1>10. /\ Cardinality(C) = Cardinality(B)
       /\ \A k \in B : Rank(C, p[k]) = Rank(B, k)
  <2> DEFINE q == [k \in B |-> p[k]]
  <2>1. q \in [B -> C] /\ \A k \in B : q[k] = p[k]
    BY <1>1, <1>4
  <2> HIDE DEF q
  <2>2. \A h \in C : \E k \in B : q[k] = h
    BY <1>4, <2>1
  <2>3. \A j, k \in B : j < k => q[j] < q[k]
    BY <1>1, <1>6, <2>1
  <2>4. /\ Cardinality(C) = Cardinality(B)
        /\ \A k \in B : Rank(C, q[k]) = Rank(B, k)
    BY <1>1, <1>8, <2>1, <2>2, <2>3, RankMapped
  <2> QED
    BY <2>1, <2>4
<1>11. Len(W) = Len(there)
  BY <1>7, <1>9, <1>10
<1>12. ASSUME NEW n \in DOMAIN W PROVE Holds(W[n], there[n])
  <2>1. n \in 1..Cardinality(B)
    <3> DEFINE Q == Seq(STRING)
    <3>1. W \in Seq(Q)
      BY <1>9
    <3> HIDE DEF Q
    <3>2. DOMAIN W = 1..Len(W)
      BY <3>1, LenProperties
    <3> QED
      BY <1>9, <3>2
  <2>2. PICK k \in B : Rank(B, k) = n
    BY <1>1, <2>1, RankProperties
  <2> DEFINE word == Pieces[k]
  <2>3. word \in Seq(STRING) /\ W[n] \in Field(word)
    BY <1>5, <1>9, <2>2
  <2>4. there[n] = word
    <3>1. k \in 1..fileSize /\ p[k] \in C
      BY <1>1, <1>4
    <3>2. there[Rank(C, p[k])] = WordAt(CutText, p[k])
      BY <1>7, <3>1
    <3> QED
      BY <1>5, <1>10, <2>2, <3>2
  <2> HIDE DEF word
  <2> QED
    BY <2>3, <2>4, FieldHolds
<1> QED
  BY <1>11, <1>12 DEF there, Keeps, Holds

-----------------------------------------------------------------------------
(***************************************************************************)
(* The invariant of all readers together: the nodes so far are the pieces  *)
(* so far.                                                                 *)
(***************************************************************************)
Found(x) == Collected(FlattenSeq(words), PieceBegins, Pieces, x)

PiecesInv ==
  (NoOverflow /\ benign) =>
    /\ pc = "open" => Found(endByte(replica - 1))
    /\ pc = "strtok" =>
         /\ segment = Bytes(replica) /\ behind = <<>> /\ delimiters = Blanks
         /\ Found(endByte(replica - 1) + Scanned(at))
    /\ pc = "done" => Found(fileSize)

AllInv == TextInv /\ PiecesInv

LEMMA AllInvInit == Init => AllInv
<1> SUFFICES ASSUME Init PROVE AllInv
  OBVIOUS
<1>1. TextInv
  BY TextInvInit
<1>2. ASSUME NoOverflow PROVE Found(endByte(replica - 1))
  <2>1. Reading
    BY <1>1, <1>2 DEF Reading, TextInv, TypeInv
  <2>2. endByte(replica - 1) = 0
    <3>1. replica - 1 = 0
      BY DEF Init
    <3> QED
      BY <2>1, <3>1, RangesMeet
  <2>3. FlattenSeq(words) = <<>>
    <3>1. words = <<>> /\ Len(<<>>) = 0
      BY EmptySeq DEF Init
    <3> QED
      BY <3>1 DEF FlattenSeq
  <2>4. PieceBegins \in SUBSET Nat /\ 0 \notin PieceBegins
    <3>1. PieceBegins \in SUBSET Nat /\ PieceBegins \subseteq 1..fileSize /\ fileSize \in Nat
      BY <2>1, FileType
    <3> QED
      BY <3>1
  <2> QED
    BY <2>2, <2>3, <2>4, CollectedFirst DEF Found
<1>3. pc = "open"
  BY DEF Init
<1> QED
  BY <1>1, <1>2, <1>3 DEF AllInv, PiecesInv

(* What only depends on the file stays. *)
LEMMA FileStays ==
  ASSUME UNCHANGED <<file, replicas>>
  PROVE  /\ NoOverflow' = NoOverflow /\ fileSize' = fileSize
         /\ PieceBegins' = PieceBegins /\ Pieces' = Pieces
         /\ \A r : endByte(r)' = endByte(r) /\ Bytes(r)' = Bytes(r)
BY DEF NoOverflow, fileSize, PieceBegins, Pieces, PieceEnd, Edges, endByte, Bytes

LEMMA OpenKeepsPieces == AllInv /\ Open => PiecesInv'
<1> SUFFICES ASSUME AllInv, Open, NoOverflow', benign' PROVE PiecesInv'
  BY DEF PiecesInv
<1>1. /\ pc = "open" /\ pc' = "strtok" /\ at' = 1 /\ words' = Append(words, <<>>)
      /\ UNCHANGED <<file, replicas, replica>>
      /\ segment' = SubSeq(file, startByte(replica) + 1, startByte(replica) + readBytes)
      /\ behind' = <<>> /\ delimiters' = Blanks /\ benign
  BY DEF Open
<1>2. /\ NoOverflow /\ PieceBegins' = PieceBegins /\ Pieces' = Pieces
      /\ \A r : endByte(r)' = endByte(r) /\ Bytes(r)' = Bytes(r)
  BY <1>1, FileStays
<1>3. Reading /\ replica \in 1..replicas /\ words \in Seq(Lists)
  BY <1>2 DEF AllInv, TextInv, TypeInv, LoopInv, Reading
<1>4. segment' = Bytes(replica)
  BY <1>1, <1>3, ReadsRange DEF Bytes
<1>5. Found(endByte(replica - 1))
  BY <1>1, <1>2 DEF AllInv, PiecesInv
<1>6. FlattenSeq(words') = FlattenSeq(words)
  <2> DEFINE Q == Seq(STRING)
             e == <<>>
  <2>1. words \in Seq(Seq(Q)) /\ e \in Seq(Q)
    BY <1>3, EmptySeq DEF Lists
  <2> HIDE DEF Q, e
  <2>2. FlattenSeq(Append(words, e)) = FlattenSeq(words) \o e
    BY <2>1, FlattenAppend
  <2>3. FlattenSeq(words) \in Seq(Q)
    BY <2>1, FlattenType
  <2>4. FlattenSeq(words) \o <<>> = FlattenSeq(words)
    BY <2>3, ConcatEmptySeq
  <2> QED
    BY <1>1, <2>2, <2>4 DEF e
<1>7. endByte(replica - 1) + Scanned(1) = endByte(replica - 1)
  <2>1. endByte(replica - 1) \in Int
    <3>1. replica - 1 \in 0..replicas
      BY <1>3 DEF Reading
    <3>2. endByte(replica - 1) \in 0..fileSize
      BY <1>3, <3>1, RangesMeet
    <3> QED
      BY <3>2
  <2>2. Scanned(1) = 0
    BY DEF Scanned
  <2> QED
    BY <2>1, <2>2
<1>8. /\ replica' = replica
      /\ Collected(FlattenSeq(words'), PieceBegins', Pieces', endByte(replica - 1)')
  BY <1>1, <1>2, <1>5, <1>6 DEF Found
<1>9. /\ (endByte(replica - 1) + Scanned(at))' = endByte(replica - 1)
      /\ Found(endByte(replica - 1) + Scanned(at))'
  <2>1. (endByte(replica - 1))' = endByte(replica - 1)
    BY <1>1 DEF endByte, fileSize
  <2>2. Scanned(at)' = Scanned(1)
    BY <1>1 DEF Scanned
  <2>3. (endByte(replica - 1) + Scanned(at))' = endByte(replica - 1)
    BY <1>7, <2>1, <2>2
  <2>4. Collected(FlattenSeq(words), PieceBegins, Pieces, endByte(replica - 1))
    BY <1>5 DEF Found
  <2> QED
    BY <1>2, <1>6, <2>3, <2>4 DEF Found
<1>10. segment' = Bytes(replica)'
  BY <1>1, <1>4 DEF Bytes, endByte, fileSize
<1> QED
  BY <1>1, <1>9, <1>10 DEF PiecesInv

LEMMA NextWordKeepsPieces == AllInv /\ NextWord => PiecesInv'
<1> SUFFICES ASSUME AllInv, NextWord, NoOverflow', benign' PROVE PiecesInv'
  BY DEF PiecesInv
<1> DEFINE first == FirstIn(Text, at, delimiters)
           end   == EndIn(Text, at, delimiters)
           piece == SubSeq(Text, first, end - 1)
           s     == endByte(replica - 1)
           flat  == FlattenSeq(words)
<1>1. /\ pc = "strtok" /\ StartsIn(Text, at, delimiters) # {} /\ at' = end + 1
      /\ UNCHANGED <<file, replicas, replica, pc, segment, behind, delimiters, benign>>
  BY NextWordIs
<1>2. PICK w \in Field(piece) : words' = [words EXCEPT ![replica] = Append(@, w)]
  BY NextWordIs
<1>3. /\ NoOverflow /\ PieceBegins' = PieceBegins /\ Pieces' = Pieces
      /\ \A r : endByte(r)' = endByte(r) /\ Bytes(r)' = Bytes(r)
  BY <1>1, FileStays
<1>4. /\ Reading /\ replica \in 1..replicas /\ words \in Seq(Lists)
      /\ Len(words) = replica /\ replica \in Nat \ {0} /\ at \in Nat \ {0}
  BY <1>1, <1>3 DEF AllInv, TextInv, TypeInv, LoopInv, Reading, Opened
<1>5. /\ segment = Bytes(replica) /\ behind = <<>> /\ delimiters = Blanks
      /\ Found(s + Scanned(at))
  BY <1>1, <1>3 DEF AllInv, PiecesInv
<1>6. /\ segment \in Seq(STRING) /\ s \in Nat /\ s + Len(segment) <= fileSize
      /\ \A k \in 1..Len(segment) : s + k \in PieceBegins <=> k \in Begins(segment)
      /\ \A k \in Begins(segment) : Pieces[s + k] = WordAt(segment, k)
  BY <1>4, <1>5, SegmentPieces
<1>7. Text = segment
  BY <1>5, <1>6, ConcatEmptySeq DEF Text
<1>8. Edge(segment, at)
  BY <1>1, <1>5, <1>7 DEF AllInv, TextInv, LoopInv
<1>9. /\ first \in Begins(segment) /\ Scanned(at) < first
      /\ \A h \in Begins(segment) : ~(Scanned(at) < h /\ h < first)
      /\ Scanned(end + 1) = end - 1
      /\ \A h \in Begins(segment) : ~(first < h /\ h <= end - 1)
      /\ piece = WordAt(segment, first)
  BY <1>1, <1>4, <1>5, <1>6, <1>7, <1>8, TokenIsWord
<1>10. /\ first \in 1..Len(segment) /\ end \in (first + 1)..(Len(segment) + 1)
       /\ piece \in Seq(STRING)
  <2>1. /\ first \in at..Len(segment) /\ end \in (first + 1)..(Len(segment) + 1)
        /\ piece \in Seq(STRING)
    BY <1>1, <1>4, <1>6, <1>7, TokenRange
  <2>2. first \in 1..Len(segment)
    BY <1>6, <1>9, BeginsType
  <2> QED
    BY <2>1, <2>2
<1>11. Scanned(at) \in 0..Len(segment)
  BY <1>4, <1>6, <1>8, ScannedType
<1>12. Len(segment) \in Nat
  BY <1>6, LenProperties
<1>13. /\ PieceBegins \in SUBSET Nat /\ IsFiniteSet(PieceBegins) /\ fileSize \in Nat
  BY <1>4, FileType
<1> HIDE DEF first, end, piece, s, flat
<1> DEFINE x == s + Scanned(at)
           y == s + (end - 1)
           k == s + first
<1>14. /\ x \in Nat /\ y \in Nat /\ k \in PieceBegins /\ x < k /\ k <= y
  <2>1. Scanned(at) \in Nat
    BY <1>11, <1>12
  <2>2. k \in PieceBegins
    BY <1>6, <1>9, <1>10
  <2> QED
    BY <1>6, <1>9, <1>10, <1>12, <2>1, <2>2
<1>15. ASSUME NEW h \in PieceBegins, x < h, h <= y
       PROVE  h - s \in Begins(segment) /\ Scanned(at) < h - s /\ h - s <= end - 1
              /\ h \in Nat
  <2>1. h \in Nat /\ Scanned(at) \in Nat
    BY <1>11, <1>12, <1>13
  <2> DEFINE j == h - s
  <2>2. s + j = h /\ j \in 1..Len(segment) /\ Scanned(at) < j /\ j <= end - 1
    BY <1>6, <1>10, <1>12, <1>15, <2>1
  <2> HIDE DEF j
  <2>3. j \in Begins(segment)
    BY <1>6, <2>2
  <2> QED
    BY <2>1, <2>2, <2>3 DEF j
<1>16. ASSUME NEW h \in PieceBegins, x < h, h < k PROVE FALSE
  <2>1. h \in Nat
    BY <1>13
  <2>2. h <= y
    <3>1. k \in Nat
      BY <1>13, <1>14
    <3> QED
      BY <1>14, <1>16, <2>1, <3>1
  <2>3. h - s \in Begins(segment) /\ Scanned(at) < h - s
    BY <1>15, <1>16, <2>2
  <2>4. h - s < first
    BY <1>6, <1>10, <1>12, <1>16, <2>1
  <2> QED
    BY <1>9, <2>3, <2>4
<1>17. ASSUME NEW h \in PieceBegins, k < h, h <= y PROVE FALSE
  <2>1. h \in Nat /\ k \in Nat
    BY <1>13, <1>14
  <2>2. x < h
    BY <1>14, <1>17, <2>1
  <2>3. h - s \in Begins(segment) /\ h - s <= end - 1
    BY <1>15, <1>17, <2>2
  <2>4. first < h - s
    BY <1>6, <1>10, <1>12, <1>17, <2>1
  <2> QED
    BY <1>9, <2>3, <2>4
<1>18. Pieces[k] = piece
  BY <1>6, <1>9
<1>19. Collected(flat, PieceBegins, Pieces, x)
  BY <1>5 DEF Found, flat
<1> HIDE DEF x, y, k
<1>20. Collected(Append(flat, w), PieceBegins, Pieces, y)
  BY <1>2, <1>10, <1>13, <1>14, <1>16, <1>17, <1>18, <1>19, CollectedOne
<1>21. FlattenSeq(words') = Append(flat, w)
  <2> DEFINE Q == Seq(STRING)
  <2>1. w \in Q
    BY <1>2, <1>10, FieldProperties
  <2>2. words \in Seq(Seq(Q)) /\ Len(words) # 0
    BY <1>4 DEF Lists
  <2> HIDE DEF Q
  <2>3. FlattenSeq([words EXCEPT ![Len(words)] = Append(@, w)])
          = Append(FlattenSeq(words), w)
    BY <2>1, <2>2, FlattenGrows
  <2>4. words' = [words EXCEPT ![Len(words)] = Append(@, w)]
    BY <1>2, <1>4
  <2> QED
    BY <2>3, <2>4 DEF flat
<1>22. Found(endByte(replica - 1) + Scanned(at))'
  <2>1. (endByte(replica - 1))' = s
    BY <1>1 DEF endByte, fileSize, s
  <2>2. Scanned(at)' = end - 1
    BY <1>1, <1>9 DEF Scanned
  <2>3. (endByte(replica - 1) + Scanned(at))' = y
    BY <2>1, <2>2 DEF y
  <2> QED
    BY <1>3, <1>20, <1>21, <2>3 DEF Found
<1>23. segment' = Bytes(replica)'
  BY <1>1, <1>5 DEF Bytes, endByte, fileSize
<1> QED
  BY <1>1, <1>5, <1>22, <1>23 DEF PiecesInv

LEMMA NoWordKeepsPieces == AllInv /\ NoWord => PiecesInv'
<1> SUFFICES ASSUME AllInv, NoWord, NoOverflow', benign' PROVE PiecesInv'
  BY DEF PiecesInv
<1> DEFINE s == endByte(replica - 1)
           e == endByte(replica)
           flat == FlattenSeq(words)
<1>1. /\ pc = "strtok" /\ StartsIn(Text, at, delimiters) = {}
      /\ UNCHANGED <<file, replicas, words, benign>>
      /\ \/ pc' = "open" /\ replica' = replica + 1
         \/ pc' = "done" /\ replica' = replica /\ ~(replica < replicas)
  BY DEF NoWord, Starts, StartsIn
<1>2. /\ NoOverflow /\ PieceBegins' = PieceBegins /\ Pieces' = Pieces
      /\ fileSize' = fileSize
  BY <1>1, FileStays
<1>3. /\ Reading /\ replica \in 1..replicas /\ replica \in Nat \ {0}
      /\ at \in Nat \ {0} /\ replicas \in Nat
  BY <1>2 DEF AllInv, TextInv, TypeInv, LoopInv, Reading
<1>4. /\ segment = Bytes(replica) /\ behind = <<>> /\ delimiters = Blanks
      /\ Found(s + Scanned(at))
  BY <1>1, <1>2 DEF AllInv, PiecesInv
<1>5. /\ segment \in Seq(STRING) /\ s \in Nat /\ s + Len(segment) = e
      /\ \A k \in 1..Len(segment) : s + k \in PieceBegins <=> k \in Begins(segment)
  BY <1>3, <1>4, SegmentPieces
<1>6. Text = segment
  BY <1>4, <1>5, ConcatEmptySeq DEF Text
<1>7. Edge(segment, at)
  BY <1>1, <1>4, <1>6 DEF AllInv, TextInv, LoopInv
<1>8. \A h \in Begins(segment) : h <= Scanned(at)
  BY <1>1, <1>3, <1>4, <1>5, <1>6, <1>7, NoTokenNoWord
<1>9. Scanned(at) \in 0..Len(segment) /\ Len(segment) \in Nat
  BY <1>3, <1>5, <1>7, ScannedType, LenProperties
<1>10. PieceBegins \in SUBSET Nat /\ fileSize \in Nat
  BY <1>3, FileType
<1> HIDE DEF s, e, flat
<1> DEFINE x == s + Scanned(at)
<1>11. x \in Nat /\ e \in Nat /\ x <= e
  BY <1>5, <1>9
<1>12. ASSUME NEW h \in PieceBegins, x < h, h <= e PROVE FALSE
  <2>1. h \in Nat /\ Scanned(at) \in Nat
    BY <1>9, <1>10
  <2> DEFINE j == h - s
  <2>2. s + j = h /\ j \in 1..Len(segment) /\ ~(j <= Scanned(at))
    BY <1>5, <1>9, <1>12, <2>1
  <2> HIDE DEF j
  <2>3. j \in Begins(segment)
    BY <1>5, <2>2
  <2> QED
    BY <1>8, <2>2, <2>3
<1>13. Collected(flat, PieceBegins, Pieces, x)
  BY <1>4 DEF Found, flat
<1> HIDE DEF x
<1>14. Collected(flat, PieceBegins, Pieces, e)
  BY <1>10, <1>11, <1>12, <1>13, CollectedNone
<1>15. CASE pc' = "open" /\ replica' = replica + 1
  <2>1. replica' - 1 = replica
    BY <1>3, <1>15
  <2>2. (endByte(replica - 1))' = e
    BY <1>1, <2>1 DEF endByte, fileSize, e
  <2>3. Found(endByte(replica - 1))'
    BY <1>1, <1>2, <1>14, <2>2 DEF Found, flat
  <2> QED
    BY <1>15, <2>3 DEF PiecesInv
<1>16. CASE pc' = "done" /\ ~(replica < replicas)
  <2>1. replica = replicas
    BY <1>3, <1>16
  <2>2. e = fileSize
    BY <1>3, <2>1, RangesMeet DEF e
  <2>3. Found(fileSize)'
    BY <1>1, <1>2, <1>14, <2>2 DEF Found, flat
  <2> QED
    BY <1>16, <2>3 DEF PiecesInv
<1> QED
  BY <1>1, <1>15, <1>16

LEMMA AllInvNext == AllInv /\ [Next]_vars => AllInv'
<1> SUFFICES ASSUME AllInv, [Next]_vars PROVE AllInv'
  OBVIOUS
<1>1. TextInv'
  BY TextInvNext DEF AllInv
<1>2. ASSUME UNCHANGED vars PROVE PiecesInv'
  <2>1. UNCHANGED <<file, replicas, replica, pc, segment, behind, delimiters, at,
                    words, benign>>
    BY <1>2 DEF vars
  <2>2. /\ NoOverflow' = NoOverflow /\ fileSize' = fileSize
        /\ PieceBegins' = PieceBegins /\ Pieces' = Pieces
        /\ endByte(replica - 1)' = endByte(replica - 1)
        /\ Bytes(replica)' = Bytes(replica)
    BY <2>1 DEF NoOverflow, fileSize, PieceBegins, Pieces, PieceEnd, Edges,
                endByte, Bytes
  <2> QED
    BY <2>1, <2>2 DEF AllInv, PiecesInv, Found, Scanned
<1>3. PiecesInv'
  <2>1. CASE OpenFails
    BY <2>1 DEF OpenFails, PiecesInv
  <2> QED
    BY <1>2, <2>1, OpenKeepsPieces, NextWordKeepsPieces, NoWordKeepsPieces
    DEF Next, AllInv
<1> QED
  BY <1>1, <1>3 DEF AllInv

(* cmpsc473mr.c:287-332: the nodes of all readers, put together, are the words
   of the file in their order, two for a word that a boundary cuts, up to the
   bytes that a node has room for, for every file, every number of readers and
   every width of an int, as long as no product overflows and a NUL follows
   what has none. *)
THEOREM NodesAreCutWords == Spec => []WordsAreCutWords
<1>1. AllInv => WordsAreCutWords
  <2> SUFFICES ASSUME AllInv, pc = "done", NoOverflow, benign
               PROVE  Keeps(FlattenSeq(words), CutText)
    BY DEF WordsAreCutWords
  <2>1. Reading
    BY DEF AllInv, TextInv, TypeInv, Reading
  <2>2. Collected(FlattenSeq(words), PieceBegins, Pieces, fileSize)
    BY DEF AllInv, PiecesInv, Found
  <2> QED
    BY <2>1, <2>2, PiecesAreCutWords
<1> QED
  BY <1>1, AllInvInit, AllInvNext, PTL DEF Spec
=============================================================================
