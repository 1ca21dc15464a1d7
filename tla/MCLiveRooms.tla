---------------------------- MODULE MCLiveRooms ----------------------------
(* Small instances of LiveRooms for TLC. *)
EXTENDS LiveRooms, TLC

Symmetry == {p \in Permutations(Client) : \A c \in Erasers : p[c] \in Erasers}
                \cup Permutations(Slot) \cup Permutations(Room)
=============================================================================
