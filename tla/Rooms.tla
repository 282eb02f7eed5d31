-------------------------------- MODULE Rooms --------------------------------
(***************************************************************************)
(* RoomsController, RoomsService, RoomsRepository and POST /upload/room,   *)
(* beside the requests of Profile on the same server.                      *)
(*                                                                         *)
(* A room's id and its invite token are both fresh uuids that belong to    *)
(* one row for good, so one value stands for both.  Rooms are never        *)
(* deleted, and joining one leaves no trace on the server.                 *)
(***************************************************************************)
EXTENDS Profile

CONSTANT Room

\* Both are uuids the database drew, each for one row.
ASSUME RoomAssumption == Room \cap User = {}

VARIABLES
    room,     \* the Room table
    drawn,    \* uuids drawn so far
    shared    \* history: rooms, with their invites, answered to their host

vars == <<account, asset, req, behind, answered, room, drawn, shared>>
roomVars == <<room, drawn, shared>>

Row == [host : User, poster : Photo \cup {None}]
NoRoom == [host |-> None]

CreateReq == [op : {"create"}, pc : {"guard"}, by : User \cup {None}]
        \cup [op : {"create"}, pc : {"insert", "answer"}, by : User, room : Room]
OpenReq == [op : {"find", "join"}, pc : {"guard"}, by : User \cup {None}, room : Room,
            known : BOOLEAN]     \* the host had been answered it at the start
      \cup [op : {"find", "join"}, pc : {"find", "answer", "refused"}, by : User,
            room : Room, known : BOOLEAN]
ListReq == [op : {"list"}, pc : {"guard"}, by : User \cup {None}]
      \cup [op : {"list"}, pc : {"find"}, by : User]
      \cup [op : {"list"}, pc : {"answer"}, by : User, rooms : SUBSET Room]
PosterReq == [op : {"poster"}, pc : {"guard"}, by : User \cup {None}]
        \cup [op : {"poster"}, pc : {"store"}, by : User]
        \cup [op : {"poster"}, pc : {"write", "answer"}, by : User, photo : Photo]

TypeOK ==
    /\ account \in [User -> Account]
    /\ EmailsDiffer
    /\ asset \subseteq Photo
    /\ req \in [Req -> UpdateReq \cup UploadReq \cup CreateReq \cup OpenReq
                          \cup ListReq \cup PosterReq \cup {Idle}]
    /\ behind \subseteq Req
    /\ answered \subseteq Photo
    /\ room \in [Room -> Row \cup {NoRoom}]
    /\ drawn \subseteq Room
    /\ shared \subseteq Room

Init ==
    /\ ProfileInit
    /\ room = [r \in Room |-> NoRoom]
    /\ drawn = {}
    /\ shared = {}

Exists(r) == room[r] # NoRoom
RoomsOf(u) == {r \in Room : Exists(r) /\ room[r].host = u}

-----------------------------------------------------------------------------
(* POST /rooms *)

HandleCreate(q, u) ==
    /\ req[q] = Idle
    /\ Become(q, [op |-> "create", pc |-> "guard", by |-> u])
    /\ UNCHANGED <<profileVars, roomVars>>

\* The repository draws the uuid before it calls the database.
DrawInvite(q, r) ==
    /\ At(q, "create", "guard")
    /\ r \notin drawn
    /\ drawn' = drawn \cup {r}
    /\ Guard(q, [op |-> "create", pc |-> "insert", by |-> req[q].by, room |-> r])
    /\ UNCHANGED <<profileVars, room, shared>>

InsertRoom(q) ==
    /\ At(q, "create", "insert")
    /\ room' = [room EXCEPT ![req[q].room] = [host |-> req[q].by, poster |-> None]]
    /\ Become(q, [req[q] EXCEPT !.pc = "answer"])
    /\ UNCHANGED <<profileVars, drawn, shared>>

\* Variant: the repository answers the error as an object, as that of the
\* uploads does.
Swallow(q) == [req[q] EXCEPT !.pc = "answer"]

\* Repository, service and controller all throw on.
Rethrow(q) == Idle

InsertFails(q) ==
    /\ At(q, "create", "insert")
    /\ Become(q, Rethrow(q))
    /\ UNCHANGED <<profileVars, roomVars>>

AnswerCreate(q) ==
    /\ At(q, "create", "answer")
    /\ shared' = shared \cup {req[q].room}
    /\ Become(q, Idle)
    /\ UNCHANGED <<profileVars, room, drawn>>

-----------------------------------------------------------------------------
(* GET /rooms/invite/:token and POST /rooms/join/:token *)

HandleOpen(q, op, u, r) ==
    /\ req[q] = Idle
    /\ Become(q, [op |-> op, pc |-> "guard", by |-> u, room |-> r,
                  known |-> r \in shared])
    /\ UNCHANGED <<profileVars, roomVars>>

GuardOpen(q) ==
    /\ At(q, "find", "guard") \/ At(q, "join", "guard")
    /\ Guard(q, [req[q] EXCEPT !.pc = "find"])
    /\ UNCHANGED <<profileVars, roomVars>>

\* Anybody may look at a room; its host may not join it.
MayFind(q) == Exists(req[q].room)
MayJoin(q) == Exists(req[q].room) /\ room[req[q].room].host # req[q].by
MayOpen(q) == IF req[q].op = "join" THEN MayJoin(q) ELSE MayFind(q)

FindByInvite(q) ==
    /\ At(q, "find", "find") \/ At(q, "join", "find")
    /\ Become(q, [req[q] EXCEPT !.pc = IF MayOpen(q) THEN "answer" ELSE "refused"])
    /\ UNCHANGED <<profileVars, roomVars>>

AnswerOpen(q) ==
    /\ \E op \in {"find", "join"}, pc \in {"answer", "refused"} : At(q, op, pc)
    /\ Become(q, Idle)
    /\ UNCHANGED <<profileVars, roomVars>>

-----------------------------------------------------------------------------
(* GET /rooms/myrooms *)

HandleList(q, u) ==
    /\ req[q] = Idle
    /\ Become(q, [op |-> "list", pc |-> "guard", by |-> u])
    /\ UNCHANGED <<profileVars, roomVars>>

GuardList(q) ==
    /\ At(q, "list", "guard")
    /\ Guard(q, [op |-> "list", pc |-> "find", by |-> req[q].by])
    /\ UNCHANGED <<profileVars, roomVars>>

FindByHost(q) ==
    /\ At(q, "list", "find")
    /\ Become(q, [op |-> "list", pc |-> "answer", by |-> req[q].by,
                  rooms |-> RoomsOf(req[q].by)])
    /\ UNCHANGED <<profileVars, roomVars>>

AnswerList(q) ==
    /\ At(q, "list", "answer")
    /\ shared' = shared \cup req[q].rooms
    /\ Become(q, Idle)
    /\ UNCHANGED <<profileVars, room, drawn>>

-----------------------------------------------------------------------------
(* POST /upload/room *)

HandlePoster(q, u) ==
    /\ req[q] = Idle
    /\ Become(q, [op |-> "poster", pc |-> "guard", by |-> u])
    /\ UNCHANGED <<profileVars, roomVars>>

GuardPoster(q) ==
    /\ At(q, "poster", "guard")
    /\ Guard(q, [op |-> "poster", pc |-> "store", by |-> req[q].by])
    /\ UNCHANGED <<profileVars, roomVars>>

StorePoster(q, p) ==
    /\ At(q, "poster", "store")
    /\ FreshName(p)
    /\ asset' = asset \cup {p}
    /\ Become(q, [op |-> "poster", pc |-> "write", by |-> req[q].by, photo |-> p])
    /\ UNCHANGED <<account, behind, answered, roomVars>>

\* The controller passes user.id where the repository asks for a roomId, so
\* where: { id } is the id of the caller.
RoomsById(q) == {r \in Room : Exists(r) /\ r = req[q].by}

\* As in WritePhoto, an update that finds no row is answered like one that did.
WritePoster(q) ==
    /\ At(q, "poster", "write")
    /\ room' = [r \in Room |-> IF r \in RoomsById(q)
                               THEN [room[r] EXCEPT !.poster = req[q].photo] ELSE room[r]]
    /\ Become(q, [req[q] EXCEPT !.pc = "answer"])
    /\ UNCHANGED <<profileVars, drawn, shared>>

AnswerPoster(q) ==
    /\ At(q, "poster", "answer")
    /\ answered' = answered \cup {req[q].photo}
    /\ Become(q, Idle)
    /\ UNCHANGED <<account, asset, behind, roomVars>>

-----------------------------------------------------------------------------
RoomsNext(q) ==
    \/ \E u \in User \cup {None} :
          HandleCreate(q, u) \/ HandleList(q, u) \/ HandlePoster(q, u)
    \/ \E r \in Room : DrawInvite(q, r)
    \/ InsertRoom(q) \/ InsertFails(q) \/ AnswerCreate(q)
    \/ \E op \in {"find", "join"}, u \in User \cup {None}, r \in Room :
          HandleOpen(q, op, u, r)
    \/ GuardOpen(q) \/ FindByInvite(q) \/ AnswerOpen(q)
    \/ GuardList(q) \/ FindByHost(q) \/ AnswerList(q)
    \/ GuardPoster(q) \/ \E p \in Photo : StorePoster(q, p)
    \/ WritePoster(q) \/ AnswerPoster(q)

Next == \E q \in Req : RoomsNext(q) \/ (ProfileNext(q) /\ UNCHANGED roomVars)

Spec == Init /\ [][Next]_vars

-----------------------------------------------------------------------------
(* Properties. *)

\* A profile update or a new password is written to the account that asked for
\* it, or to none, although the account is found by an email read long before:
\* only after the account changed its email in between, or when a reset was
\* begun for an email that nobody had, can the row be another's.
WritesOwnRow ==
    [][\A u \in User : account'[u] # account[u] =>
          \E q \in Req : /\ req[q] # Idle /\ req[q].pc = "write" /\ req'[q] # req[q]
                         /\ req[q].by \in {u, None} \/ q \in behind]_vars

\* Of the uploads of a user the photo never goes back to one that was answered
\* before, however the uploads overlap; only a profile update that names the
\* old url brings it back.
NoOldPhoto ==
    [][\A u \in User : account'[u].photo # account[u].photo =>
          \/ account'[u].photo \notin answered
          \/ \E q \in Req : /\ At(q, "update", "write")
                            /\ req[q].patch.photo = account'[u].photo]_vars

\* An invite its host was answered opens the room from then on: no lookup of it
\* that begins later is refused, and no join but the host's own.
InviteOpens ==
    \A q \in Req :
        /\ At(q, "find", "refused") => ~req[q].known
        /\ At(q, "join", "refused") /\ req[q].known => room[req[q].room].host = req[q].by

\* What the documentation at update.controller.ts:48-54 says, "Upload a file to
\* room" and "File uploaded successfully": when the write of an upload is over
\* and the answer is 201, a caller who hosts rooms has one with that poster.
\* The code looks for the room whose id is the caller's.
PosterIsSet ==
    [][\A q \in Req :
          At(q, "poster", "write") /\ At(q, "poster", "answer")' /\ RoomsOf(req[q].by) # {} =>
              \E r \in RoomsOf(req[q].by) : room'[r].poster = req[q].photo]_vars
=============================================================================
