------------------------------- MODULE Friends -------------------------------
(***************************************************************************)
(* Friend requests: FriendsController, FriendsService, FriendsRepository   *)
(* and the Friendship table.                                               *)
(*                                                                         *)
(* Every repository operation reads, decides and then writes in separate   *)
(* database calls, with no transaction and no unique constraint on the     *)
(* table, so each awaited query is a step of its own and requests of any   *)
(* users interleave between them.  A request that is refused, and a query  *)
(* that throws, end the request and leave the table alone.                 *)
(***************************************************************************)
EXTENDS Naturals, FiniteSets

CONSTANTS
    User,        \* ids a request may name
    Registered,  \* ids with a row in the User table (users are never deleted)
    Friendship,  \* ids for Friendship rows, each given out once
    Req          \* slots for HTTP requests being handled

ASSUME RegisteredAssumption == Registered \subseteq User

VARIABLES
    row,         \* the Friendship table
    used,        \* ids given out so far
    req,         \* requests being handled
    raced        \* history: pairs of users of whom two requests were at the
                 \* same time between their check and their write

vars == <<row, used, req, raced>>

Decision == {"accepted", "rejected"}
Record == [requesterId : Registered, receiverId : Registered,
           status : Decision \cup {"pending"}]
NoRow == [status |-> "none"]
Idle == [op |-> "idle"]

SendReq == [op : {"send"}, pc : {"users", "existing", "create"},
            from : Registered, to : User]
RespondReq == [op : {"respond"}, pc : {"find", "update"},
               by : Registered, id : Friendship, status : Decision,
               pair : SUBSET User]    \* the parties of the row the find returned
RemoveReq == [op : {"remove"}, pc : {"find", "delete"},
              by : Registered, id : Friendship]
StatsReq == [op : {"stats"}, pc : {"friends", "pending", "answer"},
             by : Registered, friends : SUBSET Friendship,
             pending : SUBSET Friendship]
ListsReq == [op : {"lists"}, pc : {"pending", "friends", "answer"},
             by : Registered, friends : SUBSET Friendship,
             pending : SUBSET Friendship,
             due : SUBSET Friendship]   \* rows to be seen at the first read

TypeOK ==
    /\ row \in [Friendship -> Record \cup {NoRow}]
    /\ used \subseteq Friendship
    /\ \A f \in Friendship \ used : row[f] = NoRow
    /\ req \in [Req -> SendReq \cup RespondReq \cup RemoveReq \cup StatsReq \cup ListsReq
                          \cup {Idle}]
    /\ raced \subseteq SUBSET User

Init ==
    /\ row = [f \in Friendship |-> NoRow]
    /\ used = {}
    /\ req = [q \in Req |-> Idle]
    /\ raced = {}

-----------------------------------------------------------------------------
(* What the queries ask of the table. *)

Exists(f) == row[f] # NoRow
Between(f) == {row[f].requesterId, row[f].receiverId}
Open(f) == Exists(f) /\ row[f].status \in {"pending", "accepted"}

\* Variant: only requests in the same direction.
SameDirection(u, v) ==
    {f \in Friendship : Open(f) /\ row[f].requesterId = u /\ row[f].receiverId = v}

\* findFirst of a pending or accepted row in either direction.
OpenBetween(u, v) == {f \in Friendship : Open(f) /\ Between(f) = {u, v}}

\* Variant: only the friendships u asked for.
FriendRowsSent(u) ==
    {f \in Friendship : Exists(f) /\ row[f].status = "accepted" /\ row[f].requesterId = u}

\* getFriends and the count of it in getStats: accepted rows of u, whoever asked.
FriendRows(u) ==
    {f \in Friendship : Exists(f) /\ row[f].status = "accepted" /\ u \in Between(f)}

\* getPendingRequests and its count: pending rows u received.
PendingRows(u) ==
    {f \in Friendship : Exists(f) /\ row[f].status = "pending" /\ row[f].receiverId = u}

-----------------------------------------------------------------------------
Step(q, pc) == req' = [req EXCEPT ![q].pc = pc]
Finish(q) == req' = [req EXCEPT ![q] = Idle]
At(q, op, pc) == req[q] # Idle /\ req[q].op = op /\ req[q].pc = pc

\* Two requests that may undo each other's check: both are past it.
Overlaps(p, q) ==
    \/ /\ At(p, "send", "create") /\ At(q, "send", "create")
       /\ {req[p].from, req[p].to} = {req[q].from, req[q].to}
    \/ /\ At(p, "respond", "update") /\ At(q, "respond", "update")
       /\ req[p].id = req[q].id

\* History: pair becomes raced when q passes its check while another request
\* is past the same check.
NoteRace(q, pair) ==
    raced' = IF \E p \in Req \ {q} : Overlaps(p, q)' THEN raced \cup {pair} ELSE raced

\* The awaited query throws (the pool times out, the connection is lost): the
\* repository answers 500 from any stage.
QueryFails(q) ==
    /\ req[q] # Idle
    /\ Finish(q)
    /\ UNCHANGED <<row, used, raced>>

-----------------------------------------------------------------------------
(* POST /friends/request *)

\* The service refuses a request to oneself; the caller's id is from the JWT.
HandleSend(q, u, v) ==
    /\ req[q] = Idle
    /\ u # v
    /\ req' = [req EXCEPT ![q] = [op |-> "send", pc |-> "users", from |-> u, to |-> v]]
    /\ UNCHANGED <<row, used, raced>>

\* Variant: the receiver is not looked up.
RequesterKnown(q) == req[q].from \in Registered

\* Both users are looked up.
UsersKnown(q) == req[q].from \in Registered /\ req[q].to \in Registered

\* An unknown user ends the request.
FindUsers(q) ==
    /\ At(q, "send", "users")
    /\ IF UsersKnown(q)
       THEN Step(q, "existing") ELSE Finish(q)
    /\ UNCHANGED <<row, used, raced>>

\* An open row between the two ends the request.
FindExisting(q) ==
    /\ At(q, "send", "existing")
    /\ IF OpenBetween(req[q].from, req[q].to) = {}
       THEN Step(q, "create") /\ NoteRace(q, {req[q].from, req[q].to})
       ELSE Finish(q) /\ UNCHANGED raced
    /\ UNCHANGED <<row, used>>

\* The row is inserted, whatever happened since the check.
CreateFriendship(q, f) ==
    /\ At(q, "send", "create")
    /\ f \notin used
    /\ row' = [row EXCEPT ![f] = [requesterId |-> req[q].from,
                                  receiverId |-> req[q].to, status |-> "pending"]]
    /\ used' = used \cup {f}
    /\ Finish(q)
    /\ UNCHANGED raced

-----------------------------------------------------------------------------
(* POST /friends/respond *)

HandleRespond(q, u, f, status) ==
    /\ req[q] = Idle
    /\ req' = [req EXCEPT ![q] = [op |-> "respond", pc |-> "find", by |-> u,
                                  id |-> f, status |-> status, pair |-> {}]]
    /\ UNCHANGED <<row, used, raced>>

\* Variant: a decided request may be answered again.
MayRespondAgain(q) ==
    LET f == req[q].id IN Exists(f) /\ row[f].receiverId = req[q].by

\* Variant: either party may answer.
MayRespondAsParty(q) ==
    LET f == req[q].id
    IN  Exists(f) /\ req[q].by \in Between(f) /\ row[f].status = "pending"

\* The receiver may answer a request that is still pending.
MayRespond(q) ==
    LET f == req[q].id
    IN  /\ Exists(f)
        /\ row[f].receiverId = req[q].by
        /\ row[f].status = "pending"

FindRequest(q) ==
    /\ At(q, "respond", "find")
    /\ IF MayRespond(q)
       THEN /\ req' = [req EXCEPT ![q].pc = "update", ![q].pair = Between(req[q].id)]
            /\ NoteRace(q, Between(req[q].id))
       ELSE Finish(q) /\ UNCHANGED raced
    /\ UNCHANGED <<row, used>>

\* Variant: an upsert, which writes the row the caller had read.
WriteBack(f, status, pair, by) ==
    [row EXCEPT ![f] = [requesterId |-> CHOOSE u \in pair : u # by,
                        receiverId |-> by, status |-> status]]

\* update by id: a row that is gone makes it throw (P2025) and nothing is
\* written.
Update(f, status, pair, by) ==
    IF Exists(f) THEN [row EXCEPT ![f].status = status] ELSE row

UpdateStatus(q) ==
    /\ At(q, "respond", "update")
    /\ row' = Update(req[q].id, req[q].status, req[q].pair, req[q].by)
    /\ Finish(q)
    /\ UNCHANGED <<used, raced>>

-----------------------------------------------------------------------------
(* DELETE /friends/:friendshipId *)

HandleRemove(q, u, f) ==
    /\ req[q] = Idle
    /\ req' = [req EXCEPT ![q] = [op |-> "remove", pc |-> "find", by |-> u, id |-> f]]
    /\ UNCHANGED <<row, used, raced>>

\* Either party may remove the row, in any status.
FindFriendship(q) ==
    /\ At(q, "remove", "find")
    /\ IF Exists(req[q].id) /\ req[q].by \in Between(req[q].id)
       THEN Step(q, "delete") ELSE Finish(q)
    /\ UNCHANGED <<row, used, raced>>

\* delete by id: a row that is gone already makes it throw (P2025).
DeleteFriendship(q) ==
    /\ At(q, "remove", "delete")
    /\ row' = [row EXCEPT ![req[q].id] = NoRow]
    /\ Finish(q)
    /\ UNCHANGED <<used, raced>>

-----------------------------------------------------------------------------
(* GET /friends/stats: sequential counts.  The rows counted are kept where the
   code keeps their number; the counts of blocked rows, always 0 since nothing
   sets block, and of rooms are left out. *)

HandleStats(q, u) ==
    /\ req[q] = Idle
    /\ req' = [req EXCEPT ![q] = [op |-> "stats", pc |-> "friends", by |-> u,
                                  friends |-> {}, pending |-> {}]]
    /\ UNCHANGED <<row, used, raced>>

\* Variant: the pending requests are counted first.
CountPendingFirst(q) ==
    IF req[q].pc = "friends"
    THEN [req EXCEPT ![q].pc = "pending", ![q].pending = PendingRows(req[q].by)]
    ELSE [req EXCEPT ![q].pc = "answer", ![q].friends = FriendRows(req[q].by)]

\* The order of the counts: friends, then pending requests.
Count(q) ==
    IF req[q].pc = "friends"
    THEN [req EXCEPT ![q].pc = "pending", ![q].friends = FriendRows(req[q].by)]
    ELSE [req EXCEPT ![q].pc = "answer", ![q].pending = PendingRows(req[q].by)]

CountNext(q) ==
    /\ At(q, "stats", "friends") \/ At(q, "stats", "pending")
    /\ req' = Count(q)
    /\ UNCHANGED <<row, used, raced>>

AnswerStats(q) ==
    /\ At(q, "stats", "answer")
    /\ Finish(q)
    /\ UNCHANGED <<row, used, raced>>

-----------------------------------------------------------------------------
(* GET /friends/requests/pending and then GET /friends, as a client that shows both
   loads them.  The lookups of the other party that follow each query are left
   out: users are never deleted and no row changes its parties. *)

HandleLists(q, u) ==
    /\ req[q] = Idle
    /\ req' = [req EXCEPT ![q] = [op |-> "lists", pc |-> "pending", by |-> u,
                                  friends |-> {}, pending |-> {}, due |-> {}]]
    /\ UNCHANGED <<row, used, raced>>

\* What the two lists are to show between them.
Concerns(u) ==
    {f \in Friendship : /\ Open(f) /\ u \in Between(f)
                        /\ row[f].status = "pending" => row[f].receiverId = u}

GetPendingRequests(q) ==
    /\ At(q, "lists", "pending")
    /\ LET u == req[q].by
       IN  req' = [req EXCEPT ![q].pc = "friends", ![q].pending = PendingRows(u),
                              ![q].due = Concerns(u)]
    /\ UNCHANGED <<row, used, raced>>

GetFriends(q) ==
    /\ At(q, "lists", "friends")
    /\ req' = [req EXCEPT ![q].pc = "answer", ![q].friends = FriendRows(req[q].by)]
    /\ UNCHANGED <<row, used, raced>>

AnswerLists(q) ==
    /\ At(q, "lists", "answer")
    /\ Finish(q)
    /\ UNCHANGED <<row, used, raced>>

-----------------------------------------------------------------------------
Send(q) ==
    \/ \E u \in Registered, v \in User : HandleSend(q, u, v)
    \/ FindUsers(q)
    \/ FindExisting(q)
    \/ \E f \in Friendship : CreateFriendship(q, f)
Respond(q) ==
    \/ \E u \in Registered, f \in Friendship, d \in Decision : HandleRespond(q, u, f, d)
    \/ FindRequest(q)
    \/ UpdateStatus(q)
Remove(q) ==
    \/ \E u \in Registered, f \in Friendship : HandleRemove(q, u, f)
    \/ FindFriendship(q)
    \/ DeleteFriendship(q)
Stats(q) ==
    \/ \E u \in Registered : HandleStats(q, u)
    \/ CountNext(q)
    \/ AnswerStats(q)
Lists(q) ==
    \/ \E u \in Registered : HandleLists(q, u)
    \/ GetPendingRequests(q)
    \/ GetFriends(q)
    \/ AnswerLists(q)

Next == \E q \in Req : \/ Send(q) \/ Respond(q) \/ Remove(q) \/ Stats(q) \/ Lists(q)
                      \/ QueryFails(q)

Spec == Init /\ [][Next]_vars

-----------------------------------------------------------------------------
(* Properties. *)

Duplicate(f, g) == f # g /\ Open(f) /\ Open(g) /\ Between(f) = Between(g)
Decided(f) == Exists(f) /\ row[f].status \in Decision

\* Two users have at most one pending request or friendship between them,
\* unless two of their requests were once between check and insert (or check
\* and update) together: findFirst looks in both directions and at both
\* statuses, so requests that do not overlap never duplicate.
DuplicatesAreRaces ==
    \A f, g \in Friendship : Duplicate(f, g) => Between(f) \in raced

\* A decided request keeps its decision until it is removed, unless two answers
\* to it were once between check and update together.
DecisionsStay ==
    [][\A f \in Friendship :
          Decided(f) /\ Between(f) \notin raced =>
              row'[f] = row[f] \/ row'[f] = NoRow]_vars

\* A removed friendship does not come back, not even through an answer that
\* found it before the removal and writes after it.
GoneStaysGone ==
    [][\A f \in used : ~Exists(f) => row'[f] = NoRow]_vars

\* What was checked before the await still holds at the write: an answer is
\* written by the receiver of the row, a removal by one of its parties, or the
\* row is gone.
WritersAreAllowed ==
    \A q \in Req :
        /\ At(q, "respond", "update") /\ Exists(req[q].id) =>
               row[req[q].id].receiverId = req[q].by
        /\ At(q, "remove", "delete") /\ Exists(req[q].id) =>
               req[q].by \in Between(req[q].id)

\* The statistics count no friendship both as a friend and as pending, although
\* it may change status between the two counts.
StatsCountOnce ==
    \A q \in Req : At(q, "stats", "answer") => req[q].friends \cap req[q].pending = {}

\* A client that loads the pending requests and then the friends misses none
\* that was there all along, although a request may be accepted between the two
\* queries; in the other order it could be in neither.
ListsMissNone ==
    [][\A q \in Req :
          At(q, "lists", "friends") /\ At(q, "lists", "answer")' =>
              req[q].due \cap Concerns(req[q].by)
                  \subseteq req'[q].pending \cup req'[q].friends]_vars

\* What friends/README.md:236 says: there are never several requests or
\* friendships between the same users.  Two overlapping requests both pass the
\* check and both insert.
NoDuplicates == \A f, g \in Friendship : ~Duplicate(f, g)

-----------------------------------------------------------------------------
(* The table as the abstract specification Tie sees it. *)

Pairs == {P \in SUBSET Registered : \E u, v \in P : u # v /\ P = {u, v}}

\* Who of the pair agreed to what is between them; nothing is promised to a raced
\* pair.  A rejected row stays in the table and is nobody's agreement.
Agreed(P) ==
    {u \in P : /\ P \notin raced
               /\ \E f \in Friendship : /\ Open(f) /\ Between(f) = P
                                        /\ \/ row[f].requesterId = u
                                           \/ row[f].status = "accepted"}

TieOf(P) == INSTANCE Tie WITH Pair <- P, agreed <- Agreed(P), contended <- (P \in raced)

\* Every pair of users implements Tie (TieOf(P)!Spec for each P): whatever requests
\* interleave, two users whose requests never overlapped have one tie, which begins
\* with a request, is accepted at most once and ends for good: an accepted request is
\* never pending again, and an answer that found a request before it was rejected
\* or removed does not bring it back.
ImplementsTie ==
    /\ \A P \in Pairs : TieOf(P)!Init
    /\ [][\A P \in Pairs : UNCHANGED TieOf(P)!vars \/ TieOf(P)!Next]_vars
=============================================================================
