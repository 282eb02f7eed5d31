----------------------------- MODULE MCMessages -----------------------------
(* Small instances of Messages for TLC. *)
EXTENDS Messages, TLC

\* Connections, messages and registered users are interchangeable.
Symmetry == Permutations(Socket) \cup Permutations(Msg) \cup Permutations(Registered)
=============================================================================
