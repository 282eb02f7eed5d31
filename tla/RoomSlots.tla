------------------------------ MODULE RoomSlots ------------------------------
(***************************************************************************)
(* What the transmission service promises of a room, seen from outside:    *)
(* a room has one slot, which only its host takes, which nobody takes over *)
(* while it is taken, and which is freed alone, with everything else its   *)
(* host holds, or with everything there is.  Who may free a slot alone is  *)
(* not part of the promise: Release has no actor.                          *)
(***************************************************************************)
EXTENDS Naturals

CONSTANTS User, Room, NoUser

VARIABLES host, slot

vars == <<host, slot>>

Free == [ownerId |-> NoUser, startedAt |-> 0]

Init ==
    /\ host = [r \in Room |-> NoUser]
    /\ slot = [r \in Room |-> Free]

\* A room gets its host, for good.
Create(u, r) ==
    /\ host[r] = NoUser
    /\ host' = [host EXCEPT ![r] = u]
    /\ UNCHANGED slot

\* The host takes the free slot of the room.
Take(r) ==
    /\ slot[r] = Free
    /\ host[r] # NoUser
    /\ slot'[r] \in [ownerId : {host[r]}, startedAt : Nat]
    /\ slot' = [slot EXCEPT ![r] = slot'[r]]
    /\ UNCHANGED host

Release(r) ==
    /\ slot' = [slot EXCEPT ![r] = Free]
    /\ UNCHANGED host

ReleaseAllOf(u) ==
    /\ slot' = [r \in Room |-> IF slot[r].ownerId = u THEN Free ELSE slot[r]]
    /\ UNCHANGED host

Reset ==
    /\ slot' = [r \in Room |-> Free]
    /\ UNCHANGED host

Next ==
    \/ \E u \in User, r \in Room : Create(u, r)
    \/ \E r \in Room : Take(r) \/ Release(r)
    \/ \E u \in User : ReleaseAllOf(u)
    \/ Reset

Spec == Init /\ [][Next]_vars
=============================================================================
