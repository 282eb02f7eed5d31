---------------------------- MODULE Transmission ----------------------------
(***************************************************************************)
(* The screen-sharing coordinator: TransmissionGateway over                *)
(* TransmissionService, on the socket.io server it shares with the chat    *)
(* and direct-message gateways.                                            *)
(*                                                                         *)
(* startTransmission awaits one database read, and everything else on the  *)
(* event loop may run before it resumes; that read is a call of its own    *)
(* here.  The other handlers touch the Map and emit with nothing awaited   *)
(* but an already settled promise, so each is one step.  A handler that    *)
(* rejects its request only answers "error" to its caller and is no step.  *)
(*                                                                         *)
(* Emissions are abstracted to the last word each socket was sent about a  *)
(* room: socket.io delivers in order to a socket that stays connected, so  *)
(* this is what the client believes once its queue is drained.             *)
(***************************************************************************)
EXTENDS Naturals, FiniteSets

CONSTANTS
    User,       \* user ids
    Room,       \* ids a client may name, whether or not a room has that id
    Socket,     \* connection slots
    Call,       \* slots for start-transmission calls that await the database
    NoUser,     \* "no user": an anonymous socket, or the host of an id with no room
    MaxStarts   \* bound: how many start calls may reach the Map

ASSUME NoUserAssumption == NoUser \notin User
ASSUME MaxStartsAssumption == MaxStarts \in Nat

VARIABLES
    host,       \* the Room table: host[r] is hostId, NoUser when r has no row
    online,     \* connected sockets
    user,       \* client.data.userId
    joined,     \* rooms a socket joined with join-room
    casting,    \* rooms r whose `transmission:r` channel a socket is in
    active,     \* activeTransmissions
    clock,      \* stands for new Date(): the ordinal of the last start
    call,       \* start-transmission calls in flight
    told,       \* the last word sent to a socket about a room
    outside,    \* history: rooms whose last word reached a socket outside them
    control,    \* the last broadcast-control sent to a socket for a room since
                \* it heard the start; "missed" until it hears either
    late        \* history: rooms whose live transmission was entered in the
                \* Map after the socket that asked for it had closed

vars == <<host, online, user, joined, casting, active, clock, call, told,
          outside, control, late>>

Action == {"play", "pause", "seek"}
Word == {"nothing", "started", "stopped"}
NotLive == [ownerId |-> NoUser, startedAt |-> 0]
Idle == [pc |-> "idle"]

Live(r) == active[r] # NotLive
Members(r) == {s \in online : r \in joined[s]}
InFlight(c) == call[c] # Idle

Transmission == [ownerId : User, startedAt : Nat]
CallInFlight == [pc : {"lookup"}, socket : Socket, userId : User, roomId : Room]
           \cup [pc : {"resume"}, socket : Socket, userId : User, roomId : Room,
                 hostId : User \cup {NoUser}]

TypeOK ==
    /\ host \in [Room -> User \cup {NoUser}]
    /\ online \subseteq Socket
    /\ user \in [Socket -> User \cup {NoUser}]
    /\ joined \in [Socket -> SUBSET Room]
    /\ casting \in [Socket -> SUBSET Room]
    /\ active \in [Room -> Transmission \cup {NotLive}]
    /\ clock \in Nat
    /\ call \in [Call -> CallInFlight \cup {Idle}]
    /\ told \in [Socket -> [Room -> Word]]
    /\ outside \in [Socket -> SUBSET Room]
    /\ control \in [Socket -> [Room -> Action \cup {"missed", "none"}]]
    /\ late \subseteq Room

Init ==
    /\ host = [r \in Room |-> NoUser]
    /\ online = {}
    /\ user = [s \in Socket |-> NoUser]
    /\ joined = [s \in Socket |-> {}]
    /\ casting = [s \in Socket |-> {}]
    /\ active = [r \in Room |-> NotLive]
    /\ clock = 0
    /\ call = [c \in Call |-> Idle]
    /\ told = [s \in Socket |-> [r \in Room |-> "nothing"]]
    /\ outside = [s \in Socket |-> {}]
    /\ control = [s \in Socket |-> [r \in Room |-> "missed"]]
    /\ late = {}

-----------------------------------------------------------------------------
(* Emissions. *)

\* Variant: emit to the room's `transmission:r` channel.
ChannelAudience(r) == {s \in online : r \in casting[s]}

\* server.to(r): the connected sockets that joined room r.
RoomAudience(r) == Members(r)

\* Variant: client.to(r), which leaves the sender out.
OthersAudience(s, r) == Members(r) \ {s}

\* Who hears a control that s sends to r: the whole room, s included.
ControlAudience(s, r) == Members(r)

\* server.to(r).emit and client.emit of one handler: every socket of S is
\* told word w about r, those in the room as members and the others outside it.
Tell(S, r, w) ==
    /\ told' = [s \in Socket |->
                   IF s \in S THEN [told[s] EXCEPT ![r] = w] ELSE told[s]]
    /\ outside' = [s \in Socket |->
                      IF s \in S \cap Members(r) THEN outside[s] \ {r}
                      ELSE IF s \in S THEN outside[s] \cup {r} ELSE outside[s]]

\* The same for a playback control.
SendControl(S, r, a) ==
    control' = [s \in Socket |->
                   IF s \in S THEN [control[s] EXCEPT ![r] = a] ELSE control[s]]

-----------------------------------------------------------------------------
(* Rooms and connections. *)

\* POST /rooms by u: a row whose id nobody used before.
CreateRoom(u, r) ==
    /\ host[r] = NoUser
    /\ host' = [host EXCEPT ![r] = u]
    /\ UNCHANGED <<online, user, joined, casting, active, clock, call, told,
                   outside, control, late>>

\* A client connects and the socket authentication middleware, which is not
\* part of the repository, sets client.data.userId, or leaves it unset.  A
\* slot is taken again only when no call refers to its earlier connection.
Connect(s, u) ==
    /\ s \notin online
    /\ \A c \in Call : InFlight(c) => call[c].socket # s
    /\ online' = online \cup {s}
    /\ user' = [user EXCEPT ![s] = u]
    /\ casting' = [casting EXCEPT ![s] = {}]
    /\ UNCHANGED <<host, joined, active, clock, call, told,
                   outside, control, late>>

\* join-room: any id may be joined.  The joiner is sent nothing, and keeps
\* what it was told about the room before.
HandleJoinRoom(s, r) ==
    /\ s \in online
    /\ r \notin joined[s]
    /\ joined' = [joined EXCEPT ![s] = @ \cup {r}]
    /\ UNCHANGED <<host, online, user, casting, active, clock, call, told,
                   outside, control, late>>

-----------------------------------------------------------------------------
(* start-transmission: call, database read, continuation. *)

\* Variant: no check that the middleware set a user.
AnyoneAuthenticated(s) == TRUE

\* The gateway's check of client.data.userId.
Authenticated(s) == user[s] # NoUser

\* The gateway checks the socket's user and calls the service, which issues
\* the room query.
HandleStartTransmission(c, s, r) ==
    /\ ~InFlight(c)
    /\ s \in online
    /\ Authenticated(s)
    /\ clock + Cardinality({d \in Call : InFlight(d)}) < MaxStarts
    /\ call' = [call EXCEPT ![c] = [pc |-> "lookup", socket |-> s,
                                    userId |-> user[s], roomId |-> r]]
    /\ UNCHANGED <<host, online, user, joined, casting, active, clock, told,
                   outside, control, late>>

\* The database evaluates room.findUnique.
FindRoom(c) ==
    /\ InFlight(c)
    /\ call[c].pc = "lookup"
    /\ call' = [call EXCEPT ![c] =
                    [pc |-> "resume", socket |-> @.socket, userId |-> @.userId,
                     roomId |-> @.roomId, hostId |-> host[@.roomId]]]
    /\ UNCHANGED <<host, online, user, joined, casting, active, clock, told,
                   outside, control, late>>

\* The query throws: the service turns it into a BadRequestException.
FindRoomFails(c) ==
    /\ InFlight(c)
    /\ call[c].pc = "lookup"
    /\ call' = [call EXCEPT ![c] = Idle]
    /\ UNCHANGED <<host, online, user, joined, casting, active, clock, told,
                   outside, control, late>>

\* Variant: the Map is not looked up again after the await.
MayStartTwice(c) ==
    /\ call[c].hostId # NoUser
    /\ call[c].hostId = call[c].userId

\* Variant: any authenticated user may start.
MayStartAnyUser(c) ==
    /\ call[c].hostId # NoUser
    /\ ~Live(call[c].roomId)

\* What the service checks when its await resumes: the room exists, the
\* caller is its host, and the Map has no entry for it.
MayStart(c) ==
    /\ call[c].hostId # NoUser
    /\ call[c].hostId = call[c].userId
    /\ ~Live(call[c].roomId)

\* What the service enters in the Map.
NewTransmission(u) == [ownerId |-> u, startedAt |-> clock + 1]

\* The continuation succeeds: the Map entry, the `transmission:r` channel
\* (socket.io adds a closed socket to it as well), transmission-started to
\* the room and transmission-status to the caller.
StartTransmission(c) ==
    /\ InFlight(c)
    /\ call[c].pc = "resume"
    /\ MayStart(c)
    /\ LET s == call[c].socket
           r == call[c].roomId
       IN  /\ active' = [active EXCEPT ![r] = NewTransmission(call[c].userId)]
           /\ clock' = clock + 1
           /\ casting' = [casting EXCEPT ![s] = @ \cup {r}]
           /\ Tell(RoomAudience(r) \cup ({s} \cap online), r, "started")
           /\ SendControl(RoomAudience(r), r, "none")
           /\ late' = IF s \in online THEN late \ {r} ELSE late \cup {r}
    /\ call' = [call EXCEPT ![c] = Idle]
    /\ UNCHANGED <<host, online, user, joined>>

\* Variant: only "room not found" is answered.
RejectUnknownRoom(c) ==
    /\ InFlight(c)
    /\ call[c].pc = "resume"
    /\ call[c].hostId = NoUser
    /\ call' = [call EXCEPT ![c] = Idle]
    /\ UNCHANGED <<host, online, user, joined, casting, active, clock, told,
                   outside, control, late>>

\* The continuation throws: the caller gets an error event.
RejectStart(c) ==
    /\ InFlight(c)
    /\ call[c].pc = "resume"
    /\ ~MayStart(c)
    /\ call' = [call EXCEPT ![c] = Idle]
    /\ UNCHANGED <<host, online, user, joined, casting, active, clock, told,
                   outside, control, late>>

-----------------------------------------------------------------------------
(* Handlers that run in one step. *)

\* What stopTransmission and validateBroadcastControl ask of the caller.
IsTransmissionOwner(s, r) ==
    /\ Live(r)
    /\ active[r].ownerId = user[s]

\* stop-transmission: the Map entry goes, the room and the caller are told,
\* and the caller (only) leaves the `transmission:r` channel.
HandleStopTransmission(s, r) ==
    /\ s \in online
    /\ Authenticated(s)
    /\ IsTransmissionOwner(s, r)
    /\ active' = [active EXCEPT ![r] = NotLive]
    /\ Tell(RoomAudience(r) \cup {s}, r, "stopped")
    /\ casting' = [casting EXCEPT ![s] = @ \ {r}]
    /\ late' = late \ {r}
    /\ UNCHANGED <<host, online, user, joined, clock, call, control>>

\* A seek without a timestamp is refused.
ValidControl(a, hasTimestamp) == a = "seek" => hasTimestamp

\* broadcast-control: every member of the room, the sender included.
HandleBroadcastControl(s, r, a, hasTimestamp) ==
    /\ s \in online
    /\ Authenticated(s)
    /\ IsTransmissionOwner(s, r)
    /\ ValidControl(a, hasTimestamp)
    /\ SendControl(ControlAudience(s, r), r, a)
    /\ UNCHANGED <<host, online, user, joined, casting, active, clock, call,
                   told, outside, late>>

\* get-transmission-status: answered to the caller, whoever it is.
HandleGetTransmissionStatus(s, r) ==
    /\ s \in online
    /\ Tell({s}, r, IF Live(r) THEN "started" ELSE "stopped")
    /\ UNCHANGED <<host, online, user, joined, casting, active, clock, call,
                   control, late>>

\* Variant: nothing is cleaned up while the user has another connection.
OwnedByLastSocket(u) ==
    {r \in Room : /\ u # NoUser /\ Live(r) /\ active[r].ownerId = u
                  /\ Cardinality({s \in online : user[s] = u}) = 1}

\* The rooms handleDisconnect cleans up for user u: every transmission u owns,
\* from whichever socket it was started.
Owned(u) == {r \in Room : u # NoUser /\ Live(r) /\ active[r].ownerId = u}

\* cleanupTransmission of the rooms of R.
CleanupTransmissions(R) == active' = [r \in Room |-> IF r \in R THEN NotLive ELSE active[r]]

\* A socket closes: socket.io takes it out of its rooms, then
\* handleDisconnect ends what its user owns and tells the rooms.  The slot
\* forgets what was sent to the closed connection.
HandleDisconnect(s) ==
    /\ s \in online
    /\ online' = online \ {s}
    /\ user' = [user EXCEPT ![s] = NoUser]
    /\ joined' = [joined EXCEPT ![s] = {}]
    /\ casting' = [casting EXCEPT ![s] = {}]
    /\ CleanupTransmissions(Owned(user[s]))
    /\ told' = [t \in Socket |-> [r \in Room |->
                   IF t = s THEN "nothing"
                   ELSE IF r \in Owned(user[s]) /\ t \in RoomAudience(r)
                   THEN "stopped" ELSE told[t][r]]]
    /\ outside' = [t \in Socket |->
                      IF t = s THEN {}
                      ELSE outside[t] \ {r \in Owned(user[s]) : t \in RoomAudience(r)}]
    /\ control' = [control EXCEPT ![s] = [r \in Room |-> "missed"]]
    /\ late' = late \ Owned(user[s])
    /\ UNCHANGED <<host, clock, call>>

\* The server process restarts: memory and connections are gone, the
\* database stays.
Restart ==
    /\ online' = {}
    /\ user' = [s \in Socket |-> NoUser]
    /\ joined' = [s \in Socket |-> {}]
    /\ casting' = [s \in Socket |-> {}]
    /\ active' = [r \in Room |-> NotLive]
    /\ call' = [c \in Call |-> Idle]
    /\ told' = [s \in Socket |-> [r \in Room |-> "nothing"]]
    /\ outside' = [s \in Socket |-> {}]
    /\ control' = [s \in Socket |-> [r \in Room |-> "missed"]]
    /\ late' = {}
    /\ UNCHANGED <<host, clock>>

-----------------------------------------------------------------------------
Next ==
    \/ \E u \in User, r \in Room : CreateRoom(u, r)
    \/ \E s \in Socket, u \in User \cup {NoUser} : Connect(s, u)
    \/ \E s \in Socket, r \in Room : HandleJoinRoom(s, r)
    \/ \E c \in Call, s \in Socket, r \in Room : HandleStartTransmission(c, s, r)
    \/ \E c \in Call : FindRoom(c)
    \/ \E c \in Call : FindRoomFails(c)
    \/ \E c \in Call : StartTransmission(c)
    \/ \E c \in Call : RejectStart(c)
    \/ \E s \in Socket, r \in Room : HandleStopTransmission(s, r)
    \/ \E s \in Socket, r \in Room, a \in Action, ts \in BOOLEAN :
           HandleBroadcastControl(s, r, a, ts)
    \/ \E s \in Socket, r \in Room : HandleGetTransmissionStatus(s, r)
    \/ \E s \in Socket : HandleDisconnect(s)
    \/ Restart

Spec == Init /\ [][Next]_vars

\* A query is answered or fails, and its continuation runs.
Fairness ==
    \A c \in Call : /\ WF_vars(FindRoom(c) \/ FindRoomFails(c))
                    /\ WF_vars(StartTransmission(c) \/ RejectStart(c))

FairSpec == Spec /\ Fairness

-----------------------------------------------------------------------------
(* Properties. *)

\* The abstract room slots, with the Map as the slots.
Slots == INSTANCE RoomSlots WITH slot <- active

\* The service implements the room slots: a slot is taken by the room's host
\* and only when it is free, whatever waits on the database meanwhile, and a
\* disconnect frees all slots of its user at once.
ImplementsSlots == Slots!Spec

\* A live transmission is never replaced: of two starts for one room that both
\* wait on the database, the second to resume is refused, because the Map is
\* looked up after the await (transmission.service.ts:50) and not before it.
NeverReplaced ==
    [][\A r \in Room : Live(r) /\ Live(r)' => active'[r] = active[r]]_vars

\* Whoever owns a live transmission is the room's host, even though the row
\* was read before the Map was written and by another step.
OwnerIsHost == \A r \in Room : Live(r) => active[r].ownerId = host[r]

\* A member of a room whose last word about its transmission was sent while it
\* was a member has a true one: "started" only while the Map has the entry and
\* "stopped" only while it has not, through starts, stops, owner disconnects and
\* status answers.  Nothing is said of a word heard before joining, a status
\* answer or a host's own transmission-status: join-room sends no correction, so
\* that word may be false and stays so until the next one.
WordIsTrue ==
    \A r \in Room : \A s \in Members(r) : r \notin outside[s] =>
        /\ told[s][r] = "started" => Live(r)
        /\ told[s][r] = "stopped" => ~Live(r)

\* Members of a room that have heard the start or any control since agree on
\* the last control: the broadcast includes its sender and leaves nobody out.
SameControls ==
    \A r \in Room : \A s, t \in Members(r) :
        "missed" \notin {control[s][r], control[t][r]} =>
            control[s][r] = control[t][r]

\* A live transmission has a connected socket of its owner in its
\* `transmission:r` channel, unless the socket that asked for it closed while
\* the start call waited on the database.
LiveHasCaster ==
    \A r \in Room : Live(r) /\ r \notin late =>
        \E s \in online : user[s] = active[r].ownerId /\ r \in casting[s]

\* Every start call is answered, or dropped by a restart, once the database
\* answers or fails (handleStartTransmission has no other way to hang).
StartAnswered == \A c \in Call : InFlight(c) ~> ~InFlight(c)

\* What README.md:13 says: a transmission ends when its owner disconnects, so a
\* live one has its owner connected.  A start that resumes after the disconnect
\* handler ran enters the Map for an owner who is gone.
StopsWhenOwnerLeaves ==
    \A r \in Room : Live(r) => \E s \in online : user[s] = active[r].ownerId

\* What the comment at transmission.gateway.ts:53 says the channel is for: a
\* socket in `transmission:r` gets the room's transmission events, so it does
\* not keep believing in a transmission that is over.
ChannelHearsEvents ==
    \A r \in Room : \A s \in online :
        r \in casting[s] /\ told[s][r] = "started" => Live(r)

=============================================================================
