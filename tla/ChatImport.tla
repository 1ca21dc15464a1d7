----------------------------- MODULE ChatImport -----------------------------
(***************************************************************************)
(* ingestion/parsers/chat_common.py: how an exported ChatGPT conversation, *)
(* a tree with alternative replies, becomes a list of messages.  Nodes are *)
(* numbered in the order they were written: nodes[n].parent is an earlier  *)
(* node, or 0 for a root, and the children array of a node lists them in   *)
(* that order.  `keys` is the order of the JSON object's keys.  A node is  *)
(* said (a kept role and some text), empty (a kept role, no text) or tool  *)
(* (a dropped role).                                                       *)
(***************************************************************************)
EXTENDS Naturals, Sequences, FiniteSets, SequencesExt

NodeKind == {"said", "empty", "tool"}

\* Of a sequence of nodes, those in S.
Among(path, S) ==
    FlattenSeq([k \in DOMAIN path |-> IF path[k] \in S THEN <<path[k]>> ELSE <<>>])

Children(nodes, n) ==
    Among([m \in DOMAIN nodes |-> m], {m \in DOMAIN nodes : nodes[m].parent = n})

\* The first child, its first child, and so on.
Thread(nodes, n) ==
    LET down[m \in DOMAIN nodes] ==
            <<m>> \o LET kids == Children(nodes, m) IN
                     IF kids = <<>> THEN <<>> ELSE down[kids[1]]
    IN down[n]

Said(nodes, path) == Among(path, {n \in DOMAIN nodes : nodes[n].kind = "said"})

\* subtree_text of every reply but the first.
Branches(nodes, n) ==
    LET kids == Children(nodes, n) IN
    [k \in 1..(IF Len(kids) > 1 THEN Len(kids) - 1 ELSE 0) |->
        Said(nodes, Thread(nodes, kids[k + 1]))]

\* walk: down the first children, stopping at a node already seen.
Walk(nodes, path, n) ==
    LET thread == Thread(nodes, n)
        seen(k) == thread[k] \in ToSet(path) IN
    path \o SubSeq(thread, 1, Cardinality({k \in DOMAIN thread : \A j \in 1..k : ~seen(j)}))

\* The nodes without a parent, in key order.
Roots(nodes, keys) == Among(keys, {n \in DOMAIN nodes : nodes[n].parent = 0})

\* Mutant of Visited: the replies off the main thread are left to `branches`.
VisitedOnce(nodes, keys) ==
    LET walk(path, n) == Walk(nodes, path, n) IN FoldLeft(walk, <<>>, Roots(nodes, keys))

\* The roots in key order; then what is left, again in key order.
Visited(nodes, keys) ==
    LET starts == Among(keys, {n \in DOMAIN nodes : nodes[n].kind # "tool"})
        walk(path, n) == Walk(nodes, path, n)
    IN FoldLeft(walk, <<>>, Roots(nodes, keys) \o starts)

\* chatgpt_messages: the visited nodes that say something, numbered in order.
ChatgptMessages(nodes, keys) ==
    LET said == Said(nodes, Visited(nodes, keys)) IN
    [k \in DOMAIN said |->
        [ord |-> k, role |-> "msg", text |-> said[k], branches |-> Branches(nodes, said[k])]]
=============================================================================
