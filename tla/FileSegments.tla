---------------------------- MODULE FileSegments ----------------------------
(***************************************************************************)
(* How map_reader of prog3/cmpsc473mr.c gets its words: the byte range of  *)
(* a replica, computed in int, fread, strtok_r over a readArray that has   *)
(* no NUL at its end, and strncpy into the node.                           *)
(*                                                                         *)
(* The readers share nothing here, so they run one after the other.  A     *)
(* file and a word are sequences of characters.                            *)
(***************************************************************************)
EXTENDS Integers, FiniteSets, SequencesExt

CONSTANTS
  Files,        (* the files that are read                                 *)
  MaxReplicas,  (* bound: argv[2]                                          *)
  Width,        (* the bits of an int                                      *)
  STRMAX,       (* the bytes of a node's word                              *)
  Tails,        (* what may stand behind readArray, up to the first NUL    *)
  Strays,       (* the sets of bytes that may follow delimiters[2]         *)
  Paddings      (* what may stand behind a node's word, up to the first NUL *)

Blanks == {" ", "\n"}

ASSUME FilesAssumption    == Files \subseteq Seq(STRING)
ASSUME ReplicasAssumption == MaxReplicas \in Nat \ {0}
ASSUME WidthAssumption    == Width \in Nat \ {0} /\ STRMAX \in Nat \ {0}
(* Arithmetic that the provers do not know. *)
ASSUME PowerAssumption    ==
  2^(Width - 1) \in Nat \ {0} /\ 2^Width = 2 * 2^(Width - 1)
ASSUME BehindAssumption   ==
  /\ <<>> \in Tails /\ {} \in Strays /\ <<>> \in Paddings
  /\ Tails \union Paddings \subseteq Seq(STRING)

VARIABLES
  file,         (* the bytes of the file                                   *)
  replicas,     (* how many readers there are                              *)
  replica,      (* the reader at work                                      *)
  pc,           (* "open", "strtok", "done", "died"                        *)
  segment,      (* readArray, as fread left it                             *)
  behind,       (* the bytes that follow it                                *)
  delimiters,   (* what strtok_r takes for a delimiter                     *)
  at,           (* the next byte strtok_r looks at                         *)
  read,         (* the segments of the replicas so far                     *)
  words,        (* the words each has put in its nodes                     *)
  benign        (* ghost: a NUL happened to follow what has none           *)

vars == <<file, replicas, replica, pc, segment, behind, delimiters, at, read,
          words, benign>>

-----------------------------------------------------------------------------
(* int arithmetic: what is too large wraps, and a division truncates. *)
MaxInt == 2^(Width - 1) - 1
Wrap(n) == ((n + 2^(Width - 1)) % 2^Width) - 2^(Width - 1)
Quotient(m, n) == IF m >= 0 THEN m \div n ELSE -((-m) \div n)

(* ftell returns a long. *)
fileSize == Wrap(Len(file))

(* Mutant: the share is computed first, and the remainder is forgotten. *)
endByteRounded(r) == r * Quotient(fileSize, replicas)

startByte(r) == Quotient(Wrap((r - 1) * fileSize), replicas)
endByte(r)   == Quotient(Wrap(r * fileSize), replicas)
readBytes    == Wrap(endByte(replica) - startByte(replica))

(* fseek to startByte succeeds, and fread delivers readBytes bytes; both are
   asserted. *)
Readable ==
  /\ startByte(replica) >= 0
  /\ readBytes >= 0
  /\ readBytes > 0 => startByte(replica) + readBytes <= Len(file)

Open ==
  /\ pc = "open" /\ Readable
  /\ segment' = SubSeq(file, startByte(replica) + 1,
                       startByte(replica) + readBytes)
  /\ read' = Append(read, segment')
  /\ words' = Append(words, <<>>)
  /\ \E tail \in Tails, stray \in Strays :
       /\ behind' = tail
       /\ delimiters' = Blanks \union stray
       /\ benign' = (benign /\ tail = <<>> /\ stray = {})
  /\ at' = 1
  /\ pc' = "strtok"
  /\ UNCHANGED <<file, replicas, replica>>

(* An assertion fails, or fread is given the NULL that malloc returned for a
   negative size. *)
OpenFails ==
  /\ pc = "open" /\ ~Readable
  /\ pc' = "died"
  /\ UNCHANGED <<file, replicas, replica, segment, behind, delimiters, at,
                 read, words, benign>>

(* The string that strtok_r sees: it ends at the first NUL. *)
Text == segment \o behind

Starts == {k \in at..Len(Text) : Text[k] \notin delimiters}
Ends(first) == {k \in first..Len(Text) : Text[k] \in delimiters}

(* strncpy into newNode->word, and what a later strcmp finds there: a word of
   STRMAX bytes or more has no NUL, and what follows the field belongs to it. *)
Field(word) ==
  IF Len(word) < STRMAX THEN {word}
  ELSE {SubSeq(word, 1, STRMAX) \o padding : padding \in Paddings}

(* Mutant: the byte behind a delimiter is skipped too. *)
NextWordSkips ==
  /\ pc = "strtok" /\ Starts # {}
  /\ LET first == Min(Starts)
         end   == Min(Ends(first) \union {Len(Text) + 1})
     IN  /\ \E w \in Field(SubSeq(Text, first, end - 1)) :
              words' = [words EXCEPT ![replica] = Append(@, w)]
         /\ at' = end + 2
  /\ UNCHANGED <<file, replicas, replica, pc, segment, behind, delimiters, read,
                 benign>>

(* strtok_r returns a word: it skips the delimiters before it, and goes on
   behind the one that ends it. *)
NextWord ==
  /\ pc = "strtok" /\ Starts # {}
  /\ LET first == Min(Starts)
         end   == Min(Ends(first) \union {Len(Text) + 1})
     IN  /\ \E w \in Field(SubSeq(Text, first, end - 1)) :
              words' = [words EXCEPT ![replica] = Append(@, w)]
         /\ at' = end + 1
  /\ UNCHANGED <<file, replicas, replica, pc, segment, behind, delimiters, read,
                 benign>>

(* strtok_r returns NULL: the reader is done. *)
NoWord ==
  /\ pc = "strtok" /\ Starts = {}
  /\ IF replica < replicas
     THEN pc' = "open" /\ replica' = replica + 1
     ELSE pc' = "done" /\ UNCHANGED replica
  /\ UNCHANGED <<file, replicas, segment, behind, delimiters, at, read, words,
                 benign>>

Init ==
  /\ file \in Files /\ replicas \in 1..MaxReplicas
  /\ replica = 1 /\ pc = "open"
  /\ segment = <<>> /\ behind = <<>> /\ delimiters = Blanks /\ at = 1
  /\ read = <<>> /\ words = <<>>
  /\ benign = TRUE

Next == Open \/ OpenFails \/ NextWord \/ NoWord

Spec == Init /\ [][Next]_vars

-----------------------------------------------------------------------------
(***************************************************************************)
(* Properties                                                              *)
(***************************************************************************)
(* cmpsc473mr.c:287: no product leaves the range of an int. *)
NoOverflow == replicas * Len(file) <= MaxInt

(* Without overflow no assertion fails, whatever the division rounds, and the
   segments together are the file, each byte in one of them. *)
SegmentsAreTheFile ==
  NoOverflow =>
    /\ pc # "died"
    /\ pc = "done" => FlattenSeq(read) = file

(* The words of a text: its maximal runs of characters that are no blanks. *)
WordsOf(text) ==
  LET Boundary(k) == k \in {0, Len(text) + 1} \/ text[k] \in Blanks
      Begin == {k \in DOMAIN text : ~Boundary(k) /\ Boundary(k - 1)}
      End(k) == Min({h \in k..Len(text) : Boundary(h + 1)})
  IN  [n \in 1..Cardinality(Begin) |->
         LET k == CHOOSE k \in Begin :
                    Cardinality({h \in Begin : h <= k}) = n
         IN  SubSeq(text, k, End(k))]

(* The nodes hold these words, up to the characters that they have room for. *)
Keeps(nodes, text) ==
  LET there == WordsOf(text)
  IN  /\ Len(nodes) = Len(there)
      /\ \A n \in DOMAIN nodes :
           \/ nodes[n] = there[n]
           \/ /\ Len(there[n]) >= STRMAX
              /\ SubSeq(nodes[n], 1, STRMAX) = SubSeq(there[n], 1, STRMAX)

(* The segment boundaries that fall inside a word of the file. *)
Cuts ==
  {k \in {endByte(r) : r \in 1..replicas} :
     /\ k \in 1..(Len(file) - 1)
     /\ file[k] \notin Blanks /\ file[k + 1] \notin Blanks}

(* The pieces of a word that is cut at k are counted as two words; each other
   word is found once, in the order of the file, up to its first STRMAX
   characters, provided that the arrays without a NUL are followed by one. *)
CutText == FlattenSeq([k \in 1..Len(file) |->
                         IF k \in Cuts THEN <<file[k], " ">> ELSE <<file[k]>>])

WordsAreCutWords ==
  pc = "done" /\ NoOverflow /\ benign => Keeps(FlattenSeq(words), CutText)

(* Bytes behind readArray, up to the first NUL, make the last word of the segment
   longer at most, and add the words that they contain themselves: the nodes
   hold the words of the segment and these bytes and no others; all words of the
   segment but the last are there unchanged, and the last begins like its
   node. *)
TailSpoilsLastWordOnly ==
  pc = "strtok" /\ Starts = {} /\ delimiters = Blanks =>
    LET found == words[replica]
        there == WordsOf(segment)
    IN  /\ Keeps(found, segment \o behind)
        /\ Len(there) <= Len(found)
        /\ Len(found) <= Len(there) + Len(WordsOf(behind))
        /\ \A n \in DOMAIN there :
             LET kept == Min({Len(there[n]), STRMAX})
             IN  /\ n < Len(there) /\ kept < STRMAX => found[n] = there[n]
                 /\ SubSeq(found[n], 1, kept) = SubSeq(there[n], 1, kept)
=============================================================================
