------------------------------ MODULE Messages ------------------------------
(***************************************************************************)
(* Chat in rooms and direct messages: ChatGateway, ChatService and         *)
(* ChatRepository, DmGateway, DirectMessageService and DmRepository, and   *)
(* the two controllers that read the stored messages back.                 *)
(*                                                                         *)
(* Both gateways run on one socket.io server: a chat message goes to the   *)
(* socket.io room of its room's id, a direct message to the one of its     *)
(* receiver's id, and chat's join-room is the only way into either.  A     *)
(* message is stored first and emitted by the continuation of the insert;  *)
(* in between, others may store, emit, join and read.                      *)
(*                                                                         *)
(* The text of a message is left out, and so are dm-sent and error, which  *)
(* go to the sender only and say that its message is "sent" or "refused".  *)
(***************************************************************************)
EXTENDS Naturals, FiniteSets

CONSTANTS
    User,        \* user ids a message may be addressed to
    Registered,  \* ids with a row in the User table (users are never deleted)
    Room,        \* room ids
    Socket,      \* connection slots
    Msg,         \* messages, each sent once
    None,        \* "no user": an anonymous socket, the sender of a chat message
    MaxClock     \* bound: last millisecond

ASSUME RegisteredAssumption == Registered \subseteq User
ASSUME NoneAssumption == None \notin User
ASSUME RoomAssumption == Room \cap User = {}
ASSUME MaxClockAssumption == MaxClock \in Nat

VARIABLES
    online,      \* connected sockets
    user,        \* client.data.userId
    joined,      \* socket.io rooms of a socket: rooms and user ids
    msg,         \* where the handling of a message stands
    table,       \* messages with a row, in Message or DirectMessage
    heard,       \* messages emitted to a socket, on its present connection
    view,        \* the stored messages its client asked for last
    clock        \* milliseconds

vars == <<online, user, joined, msg, table, heard, view, clock>>

\* Names of socket.io rooms messages are emitted to.
Place == Room \cup Registered

Unsent == [pc |-> "unsent"]
Refused == [pc |-> "refused"]
NoView == [pc |-> "none"]

\* `stamp` is the time of the request, and from the commit the createdAt of
\* the row; `after` (history) the messages already emitted or answered when
\* the request came; "lost" is a message that is stored and answered by an
\* error.
ChatMessage ==
    [pc : {"saving", "saved", "sent", "lost"}, via : {"socket"}, from : {None},
     to : Room, stamp : Nat, after : SUBSET Msg]
DirectMessage ==
    [pc : {"users", "saving", "saved", "sent", "lost"}, via : {"socket", "http"},
     from : Registered, to : User, stamp : Nat, after : SUBSET Msg]

\* `sure` (history): the request left when the socket was already in the
\* socket.io room the same messages are emitted to.
View == [pc : {"asked", "read", "shown"}, of : Place, sure : BOOLEAN, rows : SUBSET Msg]

TypeOK ==
    /\ online \subseteq Socket
    /\ user \in [Socket -> Registered \cup {None}]
    /\ joined \in [Socket -> SUBSET Place]
    /\ msg \in [Msg -> ChatMessage \cup DirectMessage \cup {Unsent, Refused}]
    /\ table \subseteq Msg
    /\ heard \in [Socket -> SUBSET Msg]
    /\ view \in [Socket -> View \cup {NoView}]
    /\ clock \in Nat

Init ==
    /\ online = {}
    /\ user = [s \in Socket |-> None]
    /\ joined = [s \in Socket |-> {}]
    /\ msg = [m \in Msg |-> Unsent]
    /\ table = {}
    /\ heard = [s \in Socket |-> {}]
    /\ view = [s \in Socket |-> NoView]
    /\ clock = 0

Tick ==
    /\ clock < MaxClock
    /\ clock' = clock + 1
    /\ UNCHANGED <<online, user, joined, msg, table, heard, view>>

-----------------------------------------------------------------------------
(* Connections. *)

\* A socket connects, and the middleware, which is not part of the
\* repository, sets client.data.userId or does not.
Connect(s, u) ==
    /\ s \notin online
    /\ online' = online \cup {s}
    /\ user' = [user EXCEPT ![s] = u]
    /\ UNCHANGED <<joined, msg, table, heard, view, clock>>

\* join-room takes any id, so also a user's.
HandleJoinRoom(s, p) ==
    /\ s \in online
    /\ p \notin joined[s]
    /\ joined' = [joined EXCEPT ![s] = @ \cup {p}]
    /\ UNCHANGED <<online, user, msg, table, heard, view, clock>>

\* The socket leaves its rooms; what it heard and asked for was for this
\* connection.
Drop(S) ==
    /\ online' = online \ S
    /\ user' = [s \in Socket |-> IF s \in S THEN None ELSE user[s]]
    /\ joined' = [s \in Socket |-> IF s \in S THEN {} ELSE joined[s]]
    /\ heard' = [s \in Socket |-> IF s \in S THEN {} ELSE heard[s]]
    /\ view' = [s \in Socket |-> IF s \in S THEN NoView ELSE view[s]]

Disconnect(s) ==
    /\ s \in online
    /\ Drop({s})
    /\ UNCHANGED <<msg, table, clock>>

-----------------------------------------------------------------------------
(* Sending. *)

At(m, pc) == msg[m].pc = pc
Step(m, pc) == msg' = [msg EXCEPT ![m].pc = pc]
Refuse(m) == msg' = [msg EXCEPT ![m] = Refused]

\* A message enters the server.
Begin(m, pc, via, u, to) ==
    /\ msg[m] = Unsent
    /\ msg' = [msg EXCEPT ![m] =
                 [pc |-> pc, via |-> via, from |-> u, to |-> to, stamp |-> clock,
                  after |-> {n \in Msg : At(n, "sent")}]]
    /\ UNCHANGED <<online, user, joined, table, heard, view, clock>>

\* The service of chat: the sender is named in the body, not checked, and
\* matters only to the foreign key; blank text is refused at once.
SendMessage(m, r) == Begin(m, "saving", "socket", None, r)

\* send-message.
HandleMessage(m, s, r) ==
    /\ s \in online
    /\ SendMessage(m, r)

\* Variant: send-dm without a user in client.data.
AnySender(s) == TRUE

Authenticated(s) == user[s] # None

\* send-dm: the sender is client.data.userId, and nobody writes to himself.
HandleDm(m, s, v) ==
    /\ s \in online
    /\ Authenticated(s)
    /\ v # user[s]
    /\ Begin(m, "users", "socket", user[s], v)

\* POST /dm by the user of the JWT.
PostDm(m, u, v) ==
    /\ v # u
    /\ Begin(m, "users", "http", u, v)

\* Both user rows are looked up, and a message to nobody is refused.
FindUsers(m) ==
    /\ At(m, "users")
    /\ IF msg[m].to \in Registered THEN Step(m, "saving") ELSE Refuse(m)
    /\ UNCHANGED <<online, user, joined, table, heard, view, clock>>

\* Variant: createdAt is taken from a clock that may be behind.
AnyStamp(m) == 0..clock

\* createdAt is now(), read between the request and the commit.
Stamps(m) == msg[m].stamp..clock

Insert(m, pc) ==
    /\ At(m, "saving")
    /\ table' = table \cup {m}
    /\ \E t \in Stamps(m) : msg' = [msg EXCEPT ![m].pc = pc, ![m].stamp = t]

\* The insert commits; m is in every answer from here on.
Create(m) ==
    /\ Insert(m, "saved")
    /\ UNCHANGED <<online, user, joined, heard, view, clock>>

\* The insert commits and its answer is lost: the sender gets an error, and
\* nobody hears of a message that is stored.
CreateAnswerLost(m) ==
    /\ Insert(m, "lost")
    /\ UNCHANGED <<online, user, joined, heard, view, clock>>

\* A query throws: a foreign key, the pool, the connection.
QueryFails(m) ==
    /\ At(m, "users") \/ At(m, "saving")
    /\ Refuse(m)
    /\ UNCHANGED <<online, user, joined, table, heard, view, clock>>

\* server.to(roomId) and server.to(receiverId): whoever is in the socket.io
\* room when the continuation runs, the sender included.
Audience(m) == {s \in online : msg[m].to \in joined[s]}

\* Variant: the gateway emits without awaiting the insert.
ReadyEarly(m) == At(m, "saving") \/ At(m, "saved")

\* The gateway awaits the insert before it emits.
Ready(m) == At(m, "saved")

\* receive-message, or receiver-dm and dm-sent.
Emit(m) ==
    /\ Ready(m)
    /\ msg[m].via = "socket"
    /\ Step(m, "sent")
    /\ heard' = [s \in Socket |-> IF s \in Audience(m) THEN heard[s] \cup {m} ELSE heard[s]]
    /\ UNCHANGED <<online, user, joined, table, view, clock>>

\* POST /dm answers the row to the sender and emits nothing.
AnswerPost(m) ==
    /\ Ready(m)
    /\ msg[m].via = "http"
    /\ Step(m, "sent")
    /\ UNCHANGED <<online, user, joined, table, heard, view, clock>>

-----------------------------------------------------------------------------
(* Reading back. *)

\* The socket.io room where new messages of the same kind are emitted: the
\* room itself, or one's own id for the messages of a peer.
Feed(s, p) == IF p \in Room THEN p ELSE user[s]

\* GET /chat/room/:roomId and GET /dm/:receiverId, by the client of socket s.
Ask(s, p) ==
    /\ s \in online
    /\ p \in Registered => user[s] # None
    /\ view[s].pc \in {"none", "shown"}
    /\ view' = [view EXCEPT ![s] =
                  [pc |-> "asked", of |-> p, sure |-> Feed(s, p) \in joined[s], rows |-> {}]]
    /\ UNCHANGED <<online, user, joined, msg, table, heard, clock>>

RoomMessages(r) == {m \in table : msg[m].to = r}

\* Variant: a dropped branch of the OR.
OneDirection(u, v) == {m \in table : msg[m].from = u /\ msg[m].to = v}

\* Direct messages of u and v, in either direction.
Conversation(u, v) ==
    {m \in table : \/ msg[m].from = u /\ msg[m].to = v
                   \/ msg[m].from = v /\ msg[m].to = u}

\* findMany.
FindMany(s) ==
    /\ view[s].pc = "asked"
    /\ view' = [view EXCEPT
         ![s].pc = "read",
         ![s].rows = IF view[s].of \in Room THEN RoomMessages(view[s].of)
                     ELSE Conversation(user[s], view[s].of)]
    /\ UNCHANGED <<online, user, joined, msg, table, heard, clock>>

\* The answer arrives at the client.
Show(s) ==
    /\ view[s].pc = "read"
    /\ view' = [view EXCEPT ![s].pc = "shown"]
    /\ UNCHANGED <<online, user, joined, msg, table, heard, clock>>

\* The query throws or the answer is lost.
AskFails(s) ==
    /\ view[s].pc \in {"asked", "read"}
    /\ view' = [view EXCEPT ![s] = NoView]
    /\ UNCHANGED <<online, user, joined, msg, table, heard, clock>>

-----------------------------------------------------------------------------
\* The process ends: connections and continuations are gone, and of the
\* inserts on their way (those of C) some still commit.
Restart(C) ==
    /\ C \subseteq {m \in Msg : At(m, "saving")}
    /\ table' = table \cup C
    /\ msg' = [m \in Msg |->
                 IF m \in C \/ At(m, "saved") THEN [msg[m] EXCEPT !.pc = "lost"]
                 ELSE IF At(m, "users") \/ At(m, "saving") THEN Refused ELSE msg[m]]
    /\ Drop(Socket)
    /\ UNCHANGED clock

Handle(m) ==
    \/ \E s \in Socket, r \in Room : HandleMessage(m, s, r)
    \/ \E s \in Socket, v \in User : HandleDm(m, s, v)
    \/ \E u \in Registered, v \in User : PostDm(m, u, v)

Query(m) == FindUsers(m) \/ Create(m) \/ CreateAnswerLost(m) \/ QueryFails(m)

Next ==
    \/ Tick
    \/ \E s \in Socket, u \in Registered \cup {None} : Connect(s, u)
    \/ \E s \in Socket, p \in Place : HandleJoinRoom(s, p) \/ Ask(s, p)
    \/ \E s \in Socket : FindMany(s) \/ Show(s) \/ AskFails(s) \/ Disconnect(s)
    \/ \E m \in Msg : Handle(m) \/ Query(m) \/ Emit(m) \/ AnswerPost(m)
    \/ \E C \in SUBSET Msg : Restart(C)

Spec == Init /\ [][Next]_vars

-----------------------------------------------------------------------------
(* Properties. *)

\* What a client following p has to know of: the messages emitted to the feed
\* of p.  Left out are messages sent with POST /dm, which are never emitted,
\* and messages stored whose sender was told of a failure.
Followed(s, p) ==
    {m \in Msg : /\ At(m, "sent")
                 /\ msg[m].via = "socket"
                 /\ msg[m].to = Feed(s, p)
                 /\ p \in Room \/ msg[m].from = p}

\* A client that joins first and then loads the history misses nothing that
\* was ever emitted: a message is either stored before the history is read
\* or emitted after the client joined, because the gateways emit to whoever is
\* in the room after they have stored (chat.gateway.ts:52, dm.gateway.ts:46).
NothingMissed ==
    \A s \in Socket :
        view[s].pc = "shown" /\ view[s].sure =>
            Followed(s, view[s].of) \subseteq view[s].rows \cup heard[s]

\* What was heard live is stored: a member who loads the history later, after
\* whatever failures, finds there every message it was shown.
HeardIsStored == \A s \in Socket : heard[s] \subseteq table

\* Histories are sorted by createdAt; a message sent after another was
\* emitted, or answered, comes after it or in the same millisecond, whatever
\* the two handlers waited for.
HistoryKeepsOrder ==
    \A m, n \in table : n \in msg[m].after => msg[n].stamp <= msg[m].stamp
=============================================================================
