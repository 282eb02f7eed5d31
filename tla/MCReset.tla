------------------------------ MODULE MCReset ------------------------------
(* Small instances of Reset for TLC. *)
EXTENDS Reset, TLC

\* Request slots and uuids are interchangeable.
Symmetry == Permutations(Req) \cup Permutations(Uuid)
=============================================================================
