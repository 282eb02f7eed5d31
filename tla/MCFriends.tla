------------------------------ MODULE MCFriends ------------------------------
(* Small instances of Friends for TLC. *)
EXTENDS Friends, TLC

\* Rows, request slots and registered users are interchangeable.
Symmetry ==
    Permutations(Friendship) \cup Permutations(Req) \cup Permutations(Registered)
=============================================================================
