---------------------------- MODULE MCProseMerge ----------------------------
(* A small vocabulary: `p` is `a` with other punctuation, `b` a rewrite of  *)
(* `a`, `c` a sentence of its own.                                          *)
EXTENDS ProseMerge

CONSTANTS a, p, b, c

MCHash == [s \in Sentence |-> IF s = p THEN a ELSE s]

MCRatio ==
    LET near == {<<{a, p}, 9>>, <<{a, b}, 8>>, <<{p, b}, 7>>} IN
    [pair \in Sentence \X Sentence |->
        IF pair[1] = pair[2] THEN 10
        ELSE IF \E n \in near : n[1] = {pair[1], pair[2]}
        THEN (CHOOSE n \in near : n[1] = {pair[1], pair[2]})[2] ELSE 1]
=============================================================================
