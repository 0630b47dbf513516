------------------------------ MODULE WordList ------------------------------
(***************************************************************************)
(* The singly linked lists of prog3/cmpsc473mr.c (node_t: a word, a count  *)
(* and a next pointer), as sequences whose first element is the head.  The *)
(* C lists carry their length in a separate int, which the callers pass:   *)
(* the size is therefore an argument here and never Len of the list.       *)
(***************************************************************************)
EXTENDS Integers, Sequences, FiniteSets

(* push: the node becomes the head.  The caller increments its size. *)
PushHead(node, list) == <<node>> \o list

(* popHead on a non-empty list leaves the tail; on an empty one it does
   nothing and returns NULL, which callers test as  list = <<>>. *)
PopHead(list) == IF list = <<>> THEN <<>> ELSE Tail(list)

(* The positions findMatch compares: it follows next at most `size` times
   and stops at the end of the list. *)
Hits(list, word, size) ==
  {k \in DOMAIN list : k <= size /\ list[k].word = word}

(* findMatch: the first matching position, or 0 for NULL.  The C function
   also hands back the predecessor, which exists exactly when the position
   is greater than 1. *)
FindMatch(list, word, size) ==
  LET hits == Hits(list, word, size)
  IN  IF hits = {} THEN 0 ELSE CHOOSE k \in hits : \A h \in hits : k <= h

(* A list in which no word has two nodes. *)
Distinct(list) ==
  \A j, k \in DOMAIN list : list[j].word = list[k].word => j = k

(* The count a list holds for a word. *)
CountOf(list, word) ==
  LET k == FindMatch(list, word, Len(list))
  IN  IF k = 0 THEN 0 ELSE list[k].count

(* The number of times a word occurs in a sequence of words. *)
Occurrences(words, w) == Cardinality({k \in DOMAIN words : words[k] = w})
=============================================================================
