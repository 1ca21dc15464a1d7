--------------------------- MODULE VersionedRefs ---------------------------
(***************************************************************************)
(* What the version store promises its callers: a history of immutable     *)
(* commits that only grows and is closed under parents, and branch heads   *)
(* that only move forward, from a commit to a child of it.                 *)
(***************************************************************************)
CONSTANTS
    Commit(_),      \* is this a commit id?
    Ref,            \* branch references
    NoCommit,       \* the head of a reference that does not exist
    Parents(_),     \* parents of a commit
    Home(_, _)      \* may this reference point at this commit?

VARIABLES
    history,   \* commits the store will never lose
    heads      \* the commit each reference points at

Closed(h) == \A c \in h : Commit(c) /\ Parents(c) \subseteq h

Resolves(h, hd) ==
    \A r \in Ref : hd[r] # NoCommit => hd[r] \in h /\ Home(r, hd[r])

Init ==
    /\ Closed(history)
    /\ Resolves(history, heads)

\* One transaction takes effect: any number of commits appear and any number
\* of references move, each of them from its head to a child of its head.
Publish ==
    /\ history \subseteq history'
    /\ Closed(history')
    /\ Resolves(history', heads')
    /\ \A r \in Ref :
          heads[r] \notin {NoCommit, heads'[r]} => heads[r] \in Parents(heads'[r])

Spec == Init /\ [][Publish]_<<history, heads>>
=============================================================================
