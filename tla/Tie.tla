---------------------------------- MODULE Tie ----------------------------------
(***************************************************************************)
(* What the friends module promises a pair of users, seen from outside:    *)
(* they become friends when one of them asks and the other accepts, either *)
(* of them ends it, and it begins again only with a new request.  The      *)
(* promise ends for a pair that is contended: two of its requests          *)
(* overlapped.                                                             *)
(***************************************************************************)

CONSTANT Pair   \* the two users

VARIABLES
    agreed,     \* who of them agreed: nobody, the one who asked, or both
    contended

vars == <<agreed, contended>>

Init ==
    /\ agreed = {}
    /\ contended = FALSE

Ask(u) ==
    /\ ~contended
    /\ agreed = {}
    /\ agreed' = {u}
    /\ UNCHANGED contended

\* The user who did not ask accepts.
Accept(u) ==
    /\ ~contended
    /\ agreed # {} /\ u \notin agreed
    /\ agreed' = agreed \cup {u}
    /\ UNCHANGED contended

\* The request is rejected, or either of them ends it.
Drop ==
    /\ ~contended
    /\ agreed' = {}
    /\ UNCHANGED contended

Contend ==
    /\ contended' = TRUE
    /\ agreed' = {}

Next ==
    \/ \E u \in Pair : Ask(u) \/ Accept(u)
    \/ Drop
    \/ Contend

Spec == Init /\ [][Next]_vars
=============================================================================
