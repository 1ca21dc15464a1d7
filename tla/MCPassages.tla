----------------------------- MODULE MCPassages -----------------------------
(* Two headings, a short sentence and a long one; limits that a few of them *)
(* exceed.                                                                  *)
EXTENDS Passages

CONSTANTS h, g, s, l

MCSize == [x \in Sentence |-> IF x = l THEN 3 ELSE 1]
MCSlug == [x \in Sentence |-> x]
MCBm25 == -2..0

\* A line in ASCII and one with a character of three bytes.
MCLine == {[chars |-> 2, bytes |-> 2], [chars |-> 2, bytes |-> 4]}
=============================================================================
