------------------------------ MODULE OneTimeKey ------------------------------
(***************************************************************************)
(* What a key under `refresh_token:`, `signup:` or `reset:` in Redis       *)
(* promises, seen from outside: it is found by one request at a time,      *)
(* which uses it up or gives it back, and once used up it is never found   *)
(* again.  The promise ends for a key that becomes void: Redis or the      *)
(* process failed while it mattered, or requests overlapped on it.         *)
(***************************************************************************)

CONSTANT Worker

VARIABLES
    status,   \* of the key
    holders   \* the workers that found it and may still use it

vars == <<status, holders>>

TypeOK ==
    /\ status \in {"new", "good", "spent", "void"}
    /\ holders \subseteq Worker

Init ==
    /\ status = "new"
    /\ holders = {}

\* The key is given out.
Issue ==
    /\ status = "new"
    /\ status' = "good"
    /\ UNCHANGED holders

\* A worker finds the key, good and held by nobody else.
Take(w) ==
    /\ status = "good" /\ holders = {}
    /\ holders' = {w}
    /\ UNCHANGED status

\* The one worker that holds the key uses it up.
Use(w) ==
    /\ status = "good" /\ holders = {w}
    /\ status' = "spent"
    /\ holders' = {}

GiveBack ==
    /\ holders' = {}
    /\ UNCHANGED status

Void ==
    /\ status' = "void"
    /\ holders' = {}

Next ==
    \/ Issue
    \/ \E w \in Worker : Take(w) \/ Use(w)
    \/ GiveBack
    \/ Void

Spec == Init /\ [][Next]_vars

-----------------------------------------------------------------------------
\* One worker at a time holds a key, and nobody one that was not given out, was
\* used up or is void.
OneHolder ==
    /\ holders # {} => status = "good"
    /\ \A v, w \in holders : v = w

\* A key that was used up is held and used by nobody again.
SpentStays ==
    [][status = "spent" => status' \in {"spent", "void"} /\ holders' = {}]_vars
=============================================================================
