--------------------------- MODULE MCFileSegments ---------------------------
(* Instances of FileSegments for TLC: the short files over two letters and a
   blank, longer ones over one letter and a blank, and two whose length is no
   int. *)
EXTENDS FileSegments

CONSTANTS Short, Long, TooLong

AllFiles ==
  UNION ({[1..n -> {"a", "b", " "}] : n \in 0..Short}
         \union {[1..n -> {"a", "\n"}] : n \in 0..Long})
  \union {[k \in 1..n |-> "a"] : n \in TooLong}
Behind  == {<<>>, <<"a", "b">>, <<" ", "a">>}
StrayBs == {{}, {"b"}}
Padded  == {<<>>, <<"b">>}
=============================================================================
