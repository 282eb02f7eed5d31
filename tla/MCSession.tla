------------------------------ MODULE MCSession ------------------------------
(* Small instances of Session for TLC. *)
EXTENDS Session, TLC

\* Request slots are interchangeable.
Symmetry == Permutations(Req)
=============================================================================
