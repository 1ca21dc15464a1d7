---------------------------- MODULE MCIngestion ----------------------------
(* An export of two conversations, one of none, a note that repeats a claim  *)
(* and a file that does not parse.                                           *)
EXTENDS Ingestion, TLC

CONSTANTS chats, empty, note, torn, x

Parsed ==
    chats :> [k \in 1..2 |-> [claims |-> <<>>, stored |-> {}]]
    @@ empty :> <<>>
    @@ note :> <<[claims |-> <<x, x>>, stored |-> {x}]>>
    @@ torn :> <<>>

MCUnits == [f \in File |-> Parsed[f]]
MCName == [f \in File |-> IF f = note THEN <<"note">> ELSE <<"file">>]
MCPath == {<<"file">>, <<"note">>, <<"note", "file">>}

Symmetry == Permutations(Thread)
=============================================================================
