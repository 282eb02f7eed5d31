--------------------------- MODULE MCTransmission ---------------------------
(* Small instances of Transmission for TLC. *)
EXTENDS Transmission, TLC

\* Connections, call slots and room ids are interchangeable.
Symmetry == Permutations(Socket) \cup Permutations(Call) \cup Permutations(Room)
=============================================================================
