--------------------------- MODULE Friends_proofs ---------------------------
(***************************************************************************)
(* What friend requests guarantee for every number of users, rows and      *)
(* concurrent requests, and that handling requests one at a time is enough *)
(* for the guarantees the documentation states without condition.          *)
(***************************************************************************)
EXTENDS Friends, TLAPS

\* The stage of a request tells which kind of record it is.
LEMMA ReqKind ==
  ASSUME TypeOK, NEW q \in Req
  PROVE  /\ \A pc : At(q, "send", pc) => req[q] \in SendReq
         /\ \A pc : At(q, "respond", pc) => req[q] \in RespondReq
         /\ \A pc : At(q, "remove", pc) => req[q] \in RemoveReq
         /\ \A pc : At(q, "stats", pc) => req[q] \in StatsReq
         /\ \A pc : At(q, "lists", pc) => req[q] \in ListsReq
  BY DEF TypeOK, At, SendReq, RespondReq, RemoveReq, StatsReq, ListsReq, Idle

Types == /\ TypeOK
         /\ \A q \in Req : At(q, "send", "existing") \/ At(q, "send", "create") =>
                              req[q].to \in Registered
         /\ \A q \in Req : At(q, "respond", "update") => req[q].id \in used

LEMMA TypesInit == Init => Types
  BY DEF Init, Types, TypeOK, At, Idle

\* Ending a request keeps the types of all requests, and starts none.
LEMMA FinishTypes ==
  ASSUME TypeOK, NEW q \in Req, Finish(q)
  PROVE  /\ req' \in [Req -> SendReq \cup RespondReq \cup RemoveReq \cup StatsReq \cup ListsReq
                              \cup {Idle}]
         /\ \A p \in Req : \A op, pc :
               At(p, op, pc)' => p # q /\ At(p, op, pc) /\ req'[p] = req[p]
  BY DEF TypeOK, Finish, At, Idle

LEMMA TypesNext == Types /\ [Next]_vars => Types'
<1> SUFFICES ASSUME Types, [Next]_vars PROVE Types'
  OBVIOUS
<1> USE DEF Types
<1>1. ASSUME NEW q \in Req, QueryFails(q) PROVE Types'
  BY <1>1, FinishTypes DEF QueryFails, TypeOK
<1>2. ASSUME NEW q \in Req, NEW u \in Registered, NEW v \in User, HandleSend(q, u, v)
      PROVE  Types'
  BY <1>2, RegisteredAssumption DEF HandleSend, TypeOK, At, SendReq, Idle
<1>3. ASSUME NEW q \in Req, FindUsers(q) PROVE Types'
  <2>1. req[q] \in SendReq
    BY <1>3, ReqKind DEF FindUsers
  <2>2. CASE Finish(q)
    BY <1>3, <2>2, FinishTypes DEF FindUsers, TypeOK
  <2>3. CASE UsersKnown(q) /\ Step(q, "existing")
    BY <1>3, <2>1, <2>3 DEF FindUsers, UsersKnown, Step, TypeOK, At, SendReq
  <2> QED
    BY <1>3, <2>2, <2>3 DEF FindUsers
<1>4. ASSUME NEW q \in Req, FindExisting(q) PROVE Types'
  <2>1. req[q] \in SendReq /\ req[q].to \in Registered
    BY <1>4, ReqKind DEF FindExisting
  <2>2. CASE Finish(q) /\ UNCHANGED raced
    BY <1>4, <2>2, FinishTypes DEF FindExisting, TypeOK
  <2>3. CASE Step(q, "create") /\ NoteRace(q, {req[q].from, req[q].to})
    <3>1. raced' \subseteq SUBSET User
      BY <2>1, <2>3, RegisteredAssumption DEF NoteRace, TypeOK, SendReq
    <3> QED
      BY <1>4, <2>1, <2>3, <3>1 DEF FindExisting, Step, TypeOK, At, SendReq
  <2> QED
    BY <1>4, <2>2, <2>3 DEF FindExisting
<1>5. ASSUME NEW q \in Req, NEW f \in Friendship, CreateFriendship(q, f) PROVE Types'
  <2>1. req[q] \in SendReq /\ req[q].to \in Registered
    BY <1>5, ReqKind DEF CreateFriendship
  <2>2. row' \in [Friendship -> Record \cup {NoRow}]
    BY <1>5, <2>1 DEF CreateFriendship, TypeOK, Record, SendReq
  <2> QED
    BY <1>5, <2>2, FinishTypes DEF CreateFriendship, TypeOK
<1>6. ASSUME NEW q \in Req, NEW u \in Registered, NEW f \in Friendship, NEW d \in Decision,
             HandleRespond(q, u, f, d)
      PROVE  Types'
  BY <1>6 DEF HandleRespond, TypeOK, At, RespondReq, Idle
<1>7. ASSUME NEW q \in Req, FindRequest(q) PROVE Types'
  <2>1. req[q] \in RespondReq
    BY <1>7, ReqKind DEF FindRequest
  <2>2. CASE Finish(q) /\ UNCHANGED raced
    BY <1>7, <2>2, FinishTypes DEF FindRequest, TypeOK
  <2>3. CASE /\ MayRespond(q)
             /\ req' = [req EXCEPT ![q].pc = "update", ![q].pair = Between(req[q].id)]
             /\ NoteRace(q, Between(req[q].id))
    <3>1. req[q].id \in used /\ row[req[q].id] \in Record
      BY <2>1, <2>3 DEF MayRespond, Exists, TypeOK, RespondReq
    <3>2. Between(req[q].id) \in SUBSET User
      BY <3>1, RegisteredAssumption DEF Between, Record
    <3>3. raced' \subseteq SUBSET User
      BY <2>3, <3>2 DEF NoteRace, TypeOK
    <3>4. req' \in [Req -> SendReq \cup RespondReq \cup RemoveReq \cup StatsReq \cup ListsReq
                           \cup {Idle}]
      BY <2>1, <2>3, <3>2 DEF TypeOK, RespondReq
    <3>5. \A p \in Req \ {q} : req'[p] = req[p]
      BY <2>3 DEF TypeOK
    <3>6. req'[q].op = "respond" /\ req'[q].id = req[q].id
      BY <2>1, <2>3 DEF TypeOK, RespondReq
    <3> QED
      BY <1>7, <3>1, <3>3, <3>4, <3>5, <3>6 DEF FindRequest, TypeOK, At
  <2> QED
    BY <1>7, <2>2, <2>3 DEF FindRequest
<1>8. ASSUME NEW q \in Req, UpdateStatus(q) PROVE Types'
  <2>1. req[q] \in RespondReq
    BY <1>8, ReqKind DEF UpdateStatus
  <2>2. row' \in [Friendship -> Record \cup {NoRow}]
    BY <1>8, <2>1 DEF UpdateStatus, Update, Exists, TypeOK, Record, RespondReq
  <2>3. \A f \in Friendship \ used : row'[f] = NoRow
    BY <1>8, <2>1 DEF UpdateStatus, Update, Exists, TypeOK, RespondReq
  <2> QED
    BY <1>8, <2>2, <2>3, FinishTypes DEF UpdateStatus, TypeOK
<1>9. ASSUME NEW q \in Req, NEW u \in Registered, NEW f \in Friendship, HandleRemove(q, u, f)
      PROVE  Types'
  BY <1>9 DEF HandleRemove, TypeOK, At, RemoveReq, Idle
<1>10. ASSUME NEW q \in Req, FindFriendship(q) PROVE Types'
  <2>1. req[q] \in RemoveReq
    BY <1>10, ReqKind DEF FindFriendship
  <2>2. CASE Finish(q)
    BY <1>10, <2>2, FinishTypes DEF FindFriendship, TypeOK
  <2>3. CASE Step(q, "delete")
    BY <1>10, <2>1, <2>3 DEF FindFriendship, Step, TypeOK, At, RemoveReq
  <2> QED
    BY <1>10, <2>2, <2>3 DEF FindFriendship
<1>11. ASSUME NEW q \in Req, DeleteFriendship(q) PROVE Types'
  BY <1>11, FinishTypes DEF DeleteFriendship, TypeOK
<1>12. ASSUME NEW q \in Req, NEW u \in Registered, HandleStats(q, u) PROVE Types'
  BY <1>12 DEF HandleStats, TypeOK, At, StatsReq, Idle
<1>13. ASSUME NEW q \in Req, CountNext(q) PROVE Types'
  <2>1. req[q] \in StatsReq
    BY <1>13, ReqKind DEF CountNext
  <2>2. /\ FriendRows(req[q].by) \in SUBSET Friendship
        /\ PendingRows(req[q].by) \in SUBSET Friendship
    BY DEF FriendRows, PendingRows
  <2> QED
    BY <1>13, <2>1, <2>2 DEF CountNext, Count, TypeOK, At, StatsReq
<1>14. ASSUME NEW q \in Req, AnswerStats(q) PROVE Types'
  BY <1>14, FinishTypes DEF AnswerStats, TypeOK
<1>15. ASSUME NEW q \in Req, NEW u \in Registered, HandleLists(q, u) PROVE Types'
  BY <1>15 DEF HandleLists, TypeOK, At, ListsReq, Idle
<1>16. ASSUME NEW q \in Req, GetPendingRequests(q) PROVE Types'
  <2>1. req[q] \in ListsReq
    BY <1>16, ReqKind DEF GetPendingRequests
  <2>2. /\ PendingRows(req[q].by) \in SUBSET Friendship
        /\ Concerns(req[q].by) \in SUBSET Friendship
    BY DEF PendingRows, Concerns
  <2> QED
    BY <1>16, <2>1, <2>2 DEF GetPendingRequests, TypeOK, At, ListsReq
<1>17. ASSUME NEW q \in Req, GetFriends(q) PROVE Types'
  <2>1. req[q] \in ListsReq
    BY <1>17, ReqKind DEF GetFriends
  <2>2. FriendRows(req[q].by) \in SUBSET Friendship
    BY DEF FriendRows
  <2> QED
    BY <1>17, <2>1, <2>2 DEF GetFriends, TypeOK, At, ListsReq
<1>18. ASSUME NEW q \in Req, AnswerLists(q) PROVE Types'
  BY <1>18, FinishTypes DEF AnswerLists, TypeOK
<1>19. CASE UNCHANGED vars
  BY <1>19 DEF vars, TypeOK, At
<1> QED
  BY <1>1, <1>2, <1>3, <1>4, <1>5, <1>6, <1>7, <1>8, <1>9, <1>10, <1>11, <1>12,
     <1>13, <1>14, <1>15, <1>16, <1>17, <1>18, <1>19
  DEF Next, Send, Respond, Remove, Stats, Lists

\* Rows name registered users and requests keep the data of their stage.
THEOREM TypeCorrect == Spec => []TypeOK
<1>1. Types => TypeOK
  BY DEF Types
<1> QED
  BY <1>1, TypesInit, TypesNext, PTL DEF Spec

-----------------------------------------------------------------------------
(* The checks survive the awaits, race by race.  SendFresh and AnswerFresh say
   that a check that passed still holds at the write when its pair was never
   raced, RacesNoted that two requests past the same check are noticed. *)

RacesNoted ==
    /\ \A p, q \in Req : p # q /\ At(p, "send", "create") /\ At(q, "send", "create")
                         /\ {req[p].from, req[p].to} = {req[q].from, req[q].to} =>
                            {req[p].from, req[p].to} \in raced
    /\ \A p, q \in Req : p # q /\ At(p, "respond", "update") /\ At(q, "respond", "update")
                         /\ req[p].id = req[q].id /\ Exists(req[p].id) =>
                            Between(req[p].id) \in raced

SendFresh ==
    \A q \in Req : At(q, "send", "create") /\ {req[q].from, req[q].to} \notin raced =>
                      OpenBetween(req[q].from, req[q].to) = {}

AnswerFresh ==
    \A q \in Req : At(q, "respond", "update") /\ Exists(req[q].id)
                   /\ Between(req[q].id) \notin raced =>
                      row[req[q].id].status = "pending"

RaceInv == Types /\ RacesNoted /\ SendFresh /\ AnswerFresh /\ DuplicatesAreRaces

LEMMA RaceInit == Init => RaceInv
  BY TypesInit DEF Init, RaceInv, RacesNoted, SendFresh, AnswerFresh,
     DuplicatesAreRaces, Duplicate, Open, Exists, At, Idle

\* A step that changes no row, and takes no request past a check, preserves
\* the invariant.
LEMMA RaceQuiet ==
  ASSUME RaceInv, Types', UNCHANGED <<row, raced>>,
         \A p \in Req : \/ req'[p] = req[p]
                        \/ ~At(p, "send", "create")' /\ ~At(p, "respond", "update")'
  PROVE  RaceInv'
<1> DEFINE Past(p) == At(p, "send", "create") \/ At(p, "respond", "update")
<1>1. \A p \in Req : /\ At(p, "send", "create")' => At(p, "send", "create") /\ req'[p] = req[p]
                     /\ At(p, "respond", "update")' => At(p, "respond", "update") /\ req'[p] = req[p]
  BY DEF At
<1>2. \A u, v : OpenBetween(u, v)' = OpenBetween(u, v)
  BY DEF OpenBetween, Open, Exists, Between
<1>3. RacesNoted'
  BY <1>1 DEF RaceInv, RacesNoted, Exists, Between
<1>4. SendFresh'
  BY <1>1, <1>2 DEF RaceInv, SendFresh
<1>5. AnswerFresh'
  BY <1>1 DEF RaceInv, AnswerFresh, Exists, Between
<1>6. DuplicatesAreRaces'
  BY DEF RaceInv, DuplicatesAreRaces, Duplicate, Open, Exists, Between
<1> QED
  BY <1>3, <1>4, <1>5, <1>6 DEF RaceInv

LEMMA RaceFindExisting ==
  ASSUME RaceInv, Types', NEW q \in Req, At(q, "send", "existing"),
         OpenBetween(req[q].from, req[q].to) = {}, Step(q, "create"),
         NoteRace(q, {req[q].from, req[q].to}), UNCHANGED <<row, used>>
  PROVE  RaceInv'
<1>1. req[q] \in SendReq
  BY ReqKind DEF RaceInv, Types
<1>2. /\ req'[q] = [req[q] EXCEPT !.pc = "create"]
      /\ \A p \in Req \ {q} : req'[p] = req[p]
  BY DEF Step, RaceInv, Types, TypeOK
<1>3. /\ At(q, "send", "create")' /\ ~At(q, "respond", "update")'
      /\ req'[q].from = req[q].from /\ req'[q].to = req[q].to
  BY <1>1, <1>2 DEF At, SendReq, Idle
<1>4. /\ \A p \in Req \ {q} : \A op, pc : At(p, op, pc)' <=> At(p, op, pc)
      /\ raced \subseteq raced'
  BY <1>2 DEF At, NoteRace
<1>5. \A p \in Req \ {q} :
         At(p, "send", "create") /\ {req[p].from, req[p].to} = {req[q].from, req[q].to}
            => {req[q].from, req[q].to} \in raced'
  <2> SUFFICES ASSUME NEW p \in Req \ {q}, At(p, "send", "create"),
                      {req[p].from, req[p].to} = {req[q].from, req[q].to}
               PROVE  Overlaps(p, q)'
    BY DEF NoteRace
  <2> QED
    BY <1>2, <1>3, <1>4 DEF Overlaps
<1>6. \A u, v : OpenBetween(u, v)' = OpenBetween(u, v)
  BY DEF OpenBetween, Open, Exists, Between
<1>7. RacesNoted'
  <2>1. ASSUME NEW p1 \in Req, NEW p2 \in Req, p1 # p2,
               At(p1, "send", "create")', At(p2, "send", "create")',
               {req'[p1].from, req'[p1].to} = {req'[p2].from, req'[p2].to}
        PROVE  {req'[p1].from, req'[p1].to} \in raced'
    <3>1. CASE p1 # q /\ p2 # q
      BY <2>1, <3>1, <1>2, <1>4 DEF RaceInv, RacesNoted
    <3>2. CASE p1 = q \/ p2 = q
      BY <2>1, <3>2, <1>2, <1>3, <1>4, <1>5
    <3> QED
      BY <3>1, <3>2
  <2>2. ASSUME NEW p1 \in Req, NEW p2 \in Req, p1 # p2,
               At(p1, "respond", "update")', At(p2, "respond", "update")',
               req'[p1].id = req'[p2].id, Exists(req[p1].id)
        PROVE  Between(req[p1].id) \in raced'
    BY <2>2, <1>2, <1>3, <1>4 DEF RaceInv, RacesNoted
  <2> QED
    BY <2>1, <2>2, <1>2, <1>3 DEF RacesNoted, Exists, Between
<1>8. SendFresh'
  BY <1>2, <1>3, <1>4, <1>6 DEF RaceInv, SendFresh
<1>9. AnswerFresh'
  BY <1>2, <1>3, <1>4 DEF RaceInv, AnswerFresh, Exists, Between
<1>10. DuplicatesAreRaces'
  BY <1>4 DEF RaceInv, DuplicatesAreRaces, Duplicate, Open, Exists, Between
<1> QED
  BY <1>7, <1>8, <1>9, <1>10 DEF RaceInv

LEMMA RaceFindRequest ==
  ASSUME RaceInv, Types', NEW q \in Req, At(q, "respond", "find"), MayRespond(q),
         req' = [req EXCEPT ![q].pc = "update", ![q].pair = Between(req[q].id)],
         NoteRace(q, Between(req[q].id)), UNCHANGED <<row, used>>
  PROVE  RaceInv'
<1>1. req[q] \in RespondReq
  BY ReqKind DEF RaceInv, Types
<1>2. /\ req'[q] = [req[q] EXCEPT !.pc = "update", !.pair = Between(req[q].id)]
      /\ \A p \in Req \ {q} : req'[p] = req[p]
  BY DEF RaceInv, Types, TypeOK
<1>3. /\ At(q, "respond", "update")' /\ ~At(q, "send", "create")'
      /\ req'[q].id = req[q].id
  <2>1. req'[q].op = "respond" /\ req'[q].pc = "update" /\ req'[q].id = req[q].id
    BY <1>1 DEF RaceInv, Types, TypeOK, RespondReq
  <2>2. Idle.op = "idle"
    BY DEF Idle
  <2> QED
    BY <2>1, <2>2 DEF At
<1>4. /\ \A p \in Req \ {q} : \A op, pc : At(p, op, pc)' <=> At(p, op, pc)
      /\ raced \subseteq raced'
  BY <1>2 DEF At, NoteRace
<1>5. \A p \in Req \ {q} : At(p, "respond", "update") /\ req[p].id = req[q].id =>
                              Between(req[q].id) \in raced'
  <2> SUFFICES ASSUME NEW p \in Req \ {q}, At(p, "respond", "update"), req[p].id = req[q].id
               PROVE  Overlaps(p, q)'
    BY DEF NoteRace
  <2> QED
    BY <1>2, <1>3, <1>4 DEF Overlaps
<1>6. \A u, v : OpenBetween(u, v)' = OpenBetween(u, v)
  BY DEF OpenBetween, Open, Exists, Between
<1>7. RacesNoted'
  <2>1. ASSUME NEW p1 \in Req, NEW p2 \in Req, p1 # p2,
               At(p1, "send", "create")', At(p2, "send", "create")',
               {req'[p1].from, req'[p1].to} = {req'[p2].from, req'[p2].to}
        PROVE  {req'[p1].from, req'[p1].to} \in raced'
    BY <2>1, <1>2, <1>3, <1>4 DEF RaceInv, RacesNoted
  <2>2. ASSUME NEW p1 \in Req, NEW p2 \in Req, p1 # p2,
               At(p1, "respond", "update")', At(p2, "respond", "update")',
               req'[p1].id = req'[p2].id, Exists(req[p1].id)
        PROVE  Between(req[p1].id) \in raced'
    <3>1. CASE p1 # q /\ p2 # q
      BY <2>2, <3>1, <1>2, <1>4 DEF RaceInv, RacesNoted
    <3>2. CASE p1 = q \/ p2 = q
      BY <2>2, <3>2, <1>2, <1>3, <1>4, <1>5
    <3> QED
      BY <3>1, <3>2
  <2> QED
    <3>1. \A p \in Req : req'[p].id = req[p].id
      BY <1>2, <1>3
    <3>2. \A f : Exists(f)' = Exists(f) /\ Between(f)' = Between(f)
      BY DEF Exists, Between
    <3> QED
      BY <2>1, <2>2, <3>1, <3>2 DEF RacesNoted, Exists, Between
<1>8. SendFresh'
  BY <1>2, <1>3, <1>4, <1>6 DEF RaceInv, SendFresh
<1>9. AnswerFresh'
  BY <1>2, <1>3, <1>4 DEF RaceInv, AnswerFresh, MayRespond, Exists, Between
<1>10. DuplicatesAreRaces'
  BY <1>4 DEF RaceInv, DuplicatesAreRaces, Duplicate, Open, Exists, Between
<1> QED
  BY <1>7, <1>8, <1>9, <1>10 DEF RaceInv

\* A finished request is past no check, the others are where they were.
LEMMA FinishPast ==
  ASSUME TypeOK, NEW q \in Req, Finish(q), NEW p \in Req
  PROVE  /\ At(p, "send", "create")' => p # q /\ At(p, "send", "create") /\ req'[p] = req[p]
         /\ At(p, "respond", "update")' =>
               p # q /\ At(p, "respond", "update") /\ req'[p] = req[p]
  BY FinishTypes

LEMMA RaceCreate ==
  ASSUME RaceInv, Types', NEW q \in Req, NEW f \in Friendship, CreateFriendship(q, f)
  PROVE  RaceInv'
<1> DEFINE pair == {req[q].from, req[q].to}
<1>1. /\ At(q, "send", "create") /\ f \notin used /\ Finish(q) /\ raced' = raced
      /\ row'[f] = [requesterId |-> req[q].from, receiverId |-> req[q].to,
                    status |-> "pending"]
      /\ \A g \in Friendship \ {f} : row'[g] = row[g]
  BY DEF CreateFriendship, RaceInv, Types, TypeOK
<1>2. ~Exists(f)
  BY <1>1 DEF RaceInv, Types, TypeOK, Exists
<1>3. Open(f)' => Between(f)' = pair
  BY <1>1 DEF Between
<1>4. \A g \in Friendship \ {f} : /\ Exists(g)' <=> Exists(g)
                                  /\ Open(g)' <=> Open(g)
                                  /\ Between(g)' = Between(g)
  BY <1>1 DEF Exists, Open, Between
<1>5. \A p \in Req : At(p, "respond", "update")' =>
         At(p, "respond", "update") /\ req'[p] = req[p] /\ req[p].id \in Friendship \ {f}
  BY <1>1, FinishPast DEF RaceInv, Types, TypeOK
<1>6. \A p \in Req : At(p, "send", "create")' =>
         p # q /\ At(p, "send", "create") /\ req'[p] = req[p]
  BY <1>1, FinishPast DEF RaceInv, Types
<1>7. RacesNoted'
  BY <1>1, <1>4, <1>5, <1>6 DEF RaceInv, RacesNoted
<1>8. SendFresh'
  <2> SUFFICES ASSUME NEW p \in Req, At(p, "send", "create")',
                      {req'[p].from, req'[p].to} \notin raced',
                      NEW g \in Friendship, Open(g)',
                      Between(g)' = {req'[p].from, req'[p].to}
               PROVE  FALSE
    BY DEF SendFresh, OpenBetween
  <2>1. p # q /\ At(p, "send", "create") /\ req'[p] = req[p]
    BY <1>6
  <2>2. CASE g = f
    BY <2>1, <2>2, <1>1, <1>3 DEF RaceInv, RacesNoted
  <2>3. CASE g # f
    BY <2>1, <2>3, <1>1, <1>4 DEF RaceInv, SendFresh, OpenBetween
  <2> QED
    BY <2>2, <2>3
<1>9. AnswerFresh'
  BY <1>1, <1>4, <1>5 DEF RaceInv, AnswerFresh
<1>10. DuplicatesAreRaces'
  <2>1. \A g \in Friendship \ {f} : Open(g) /\ Between(g) = pair => pair \in raced
    BY <1>1 DEF RaceInv, SendFresh, OpenBetween
  <2>2. ASSUME NEW g \in Friendship, NEW h \in Friendship, g # h, Open(g)', Open(h)',
               Between(g)' = Between(h)'
        PROVE  Between(g)' \in raced'
    <3>1. CASE g # f /\ h # f
      BY <2>2, <3>1, <1>1, <1>4 DEF RaceInv, DuplicatesAreRaces, Duplicate
    <3>2. CASE g = f
      BY <2>1, <2>2, <3>2, <1>1, <1>3, <1>4
    <3>3. CASE h = f
      BY <2>1, <2>2, <3>3, <1>1, <1>3, <1>4
    <3> QED
      BY <3>1, <3>2, <3>3
  <2> QED
    BY <2>2 DEF DuplicatesAreRaces, Duplicate
<1> QED
  BY <1>7, <1>8, <1>9, <1>10 DEF RaceInv

LEMMA RaceUpdate ==
  ASSUME RaceInv, Types', NEW q \in Req, UpdateStatus(q)
  PROVE  RaceInv'
<1> DEFINE f == req[q].id
<1>1. /\ At(q, "respond", "update") /\ Finish(q) /\ raced' = raced /\ req[q] \in RespondReq
      /\ row' = Update(req[q].id, req[q].status, req[q].pair, req[q].by)
  BY ReqKind DEF UpdateStatus, RaceInv, Types
<1>2. f \in Friendship
  BY <1>1 DEF RespondReq
<1>3. \A g \in Friendship : /\ Exists(g)' <=> Exists(g)
                            /\ Between(g)' = Between(g)
                            /\ g # f => row'[g] = row[g]
  BY <1>1, <1>2 DEF Update, Exists, Between, RaceInv, Types, TypeOK, Record, RespondReq, NoRow
<1>4. \A p \in Req : At(p, "respond", "update")' =>
         /\ p # q /\ At(p, "respond", "update") /\ req'[p] = req[p]
         /\ req[p].id \in Friendship
  BY <1>1, FinishPast DEF RaceInv, Types, TypeOK
<1>5. \A p \in Req : At(p, "send", "create")' =>
         p # q /\ At(p, "send", "create") /\ req'[p] = req[p]
  BY <1>1, FinishPast DEF RaceInv, Types
<1>6. \A g \in Friendship : Open(g)' /\ Between(g) \notin raced => Open(g)
  <2> SUFFICES ASSUME NEW g \in Friendship, Open(g)', Between(g) \notin raced PROVE Open(g)
    OBVIOUS
  <2>1. CASE g = f
    BY <2>1, <1>1, <1>3 DEF RaceInv, AnswerFresh, Open
  <2>2. CASE g # f
    BY <2>2, <1>3 DEF Open
  <2> QED
    BY <2>1, <2>2
<1>7. RacesNoted'
  BY <1>1, <1>3, <1>4, <1>5 DEF RaceInv, RacesNoted
<1>8. SendFresh'
  <2> SUFFICES ASSUME NEW p \in Req, At(p, "send", "create")',
                      {req'[p].from, req'[p].to} \notin raced',
                      NEW g \in Friendship, Open(g)',
                      Between(g)' = {req'[p].from, req'[p].to}
               PROVE  FALSE
    BY DEF SendFresh, OpenBetween
  <2>1. At(p, "send", "create") /\ req'[p] = req[p]
    BY <1>5
  <2>2. Open(g) /\ Between(g) = {req[p].from, req[p].to}
    BY <2>1, <1>1, <1>3, <1>6
  <2> QED
    BY <2>1, <2>2, <1>1 DEF RaceInv, SendFresh, OpenBetween
<1>9. AnswerFresh'
  <2> SUFFICES ASSUME NEW p \in Req, At(p, "respond", "update")', Exists(req[p].id)',
                      Between(req[p].id)' \notin raced'
               PROVE  row'[req'[p].id].status = "pending"
    BY DEF AnswerFresh
  <2>1. p # q /\ At(p, "respond", "update") /\ req'[p] = req[p] /\ req[p].id \in Friendship
    BY <1>4
  <2>2. Exists(req[p].id) /\ Between(req[p].id) \notin raced
    <3>1. /\ Exists(req[p].id)' <=> row'[req[p].id] # NoRow
          /\ Between(req[p].id)' = {row'[req[p].id].requesterId, row'[req[p].id].receiverId}
      BY <2>1 DEF Exists, Between
    <3>2. \A g \in Friendship : /\ row'[g] # NoRow <=> Exists(g)
                                /\ {row'[g].requesterId, row'[g].receiverId} = Between(g)
      BY <1>3 DEF Exists, Between
    <3> QED
      BY <2>1, <3>1, <3>2, <1>1
  <2>3. req[p].id # f
    BY <2>1, <2>2, <1>1 DEF RaceInv, RacesNoted
  <2>4. row'[req[p].id] = row[req[p].id] /\ row[req[p].id].status = "pending"
    BY <2>1, <2>2, <2>3, <1>3 DEF RaceInv, AnswerFresh
  <2> QED
    BY <2>1, <2>4
<1>10. DuplicatesAreRaces'
  BY <1>1, <1>3, <1>6 DEF RaceInv, DuplicatesAreRaces, Duplicate
<1> QED
  BY <1>7, <1>8, <1>9, <1>10 DEF RaceInv

LEMMA RaceDelete ==
  ASSUME RaceInv, Types', NEW q \in Req, DeleteFriendship(q)
  PROVE  RaceInv'
<1>1. /\ Finish(q) /\ raced' = raced
      /\ \A g \in Friendship : row'[g] = row[g] \/ row'[g] = NoRow
  BY DEF DeleteFriendship, RaceInv, Types, TypeOK
<1>2. \A g \in Friendship : /\ Exists(g)' => Exists(g) /\ row'[g] = row[g] /\ Between(g)' = Between(g)
                            /\ Open(g)' => Open(g) /\ Between(g)' = Between(g)
  BY <1>1 DEF Exists, Open, Between
<1>3. \A p \in Req : At(p, "respond", "update")' =>
         /\ At(p, "respond", "update") /\ req'[p] = req[p]
         /\ req[p].id \in Friendship
  BY <1>1, FinishPast DEF RaceInv, Types, TypeOK
<1>4. \A p \in Req : At(p, "send", "create")' => At(p, "send", "create") /\ req'[p] = req[p]
  BY <1>1, FinishPast DEF RaceInv, Types
<1>5. RacesNoted'
  BY <1>1, <1>2, <1>3, <1>4 DEF RaceInv, RacesNoted
<1>6. SendFresh'
  BY <1>1, <1>2, <1>4 DEF RaceInv, SendFresh, OpenBetween
<1>7. AnswerFresh'
  BY <1>1, <1>2, <1>3 DEF RaceInv, AnswerFresh
<1>8. DuplicatesAreRaces'
  BY <1>1, <1>2 DEF RaceInv, DuplicatesAreRaces, Duplicate
<1> QED
  BY <1>5, <1>6, <1>7, <1>8 DEF RaceInv

LEMMA RaceNext == RaceInv /\ [Next]_vars => RaceInv'
<1> SUFFICES ASSUME RaceInv, [Next]_vars PROVE RaceInv'
  OBVIOUS
<1>0. TypeOK /\ Types'
  BY TypesNext DEF RaceInv, Types
<1>1. ASSUME NEW q \in Req, Finish(q), UNCHANGED <<row, raced>> PROVE RaceInv'
  BY <1>0, <1>1, FinishPast, RaceQuiet
<1>2. ASSUME NEW q \in Req, NEW r, req' = [req EXCEPT ![q] = r], UNCHANGED <<row, raced>>,
             ~(r # Idle /\ r.op = "send" /\ r.pc = "create"),
             ~(r # Idle /\ r.op = "respond" /\ r.pc = "update")
      PROVE  RaceInv'
  <2>1. \A p \in Req \ {q} : req'[p] = req[p]
    BY <1>2, <1>0 DEF TypeOK
  <2>2. ~At(q, "send", "create")' /\ ~At(q, "respond", "update")'
    BY <1>2, <1>0 DEF At, TypeOK
  <2> QED
    BY <2>1, <2>2, <1>0, <1>2, RaceQuiet
<1>3. ASSUME NEW q \in Req, QueryFails(q) \/ AnswerStats(q) \/ AnswerLists(q) PROVE RaceInv'
  BY <1>1, <1>3 DEF QueryFails, AnswerStats, AnswerLists
<1>4. ASSUME NEW q \in Req, NEW u \in Registered, NEW v \in User, HandleSend(q, u, v)
      PROVE  RaceInv'
  BY <1>2, <1>4 DEF HandleSend
<1>5. ASSUME NEW q \in Req, FindUsers(q) PROVE RaceInv'
  <2>1. CASE Finish(q)
    BY <1>1, <1>5, <2>1 DEF FindUsers
  <2>2. CASE Step(q, "existing")
    <3>1. req[q] \in SendReq
      BY <1>0, <1>5, ReqKind DEF FindUsers
    <3> QED
      BY <1>2, <1>5, <2>2, <3>1 DEF FindUsers, Step, SendReq
  <2> QED
    BY <1>5, <2>1, <2>2 DEF FindUsers
<1>6. ASSUME NEW q \in Req, FindExisting(q) PROVE RaceInv'
  <2>1. CASE Finish(q) /\ UNCHANGED raced
    BY <1>1, <1>6, <2>1 DEF FindExisting
  <2>2. CASE /\ OpenBetween(req[q].from, req[q].to) = {}
             /\ Step(q, "create") /\ NoteRace(q, {req[q].from, req[q].to})
    BY <1>0, <1>6, <2>2, RaceFindExisting DEF FindExisting
  <2> QED
    BY <1>6, <2>1, <2>2 DEF FindExisting
<1>7. ASSUME NEW q \in Req, NEW f \in Friendship, CreateFriendship(q, f) PROVE RaceInv'
  BY <1>0, <1>7, RaceCreate
<1>8. ASSUME NEW q \in Req, NEW u \in Registered, NEW f \in Friendship, NEW d \in Decision,
             HandleRespond(q, u, f, d)
      PROVE  RaceInv'
  BY <1>2, <1>8 DEF HandleRespond
<1>9. ASSUME NEW q \in Req, FindRequest(q) PROVE RaceInv'
  <2>1. CASE Finish(q) /\ UNCHANGED raced
    BY <1>1, <1>9, <2>1 DEF FindRequest
  <2>2. CASE /\ MayRespond(q)
             /\ req' = [req EXCEPT ![q].pc = "update", ![q].pair = Between(req[q].id)]
             /\ NoteRace(q, Between(req[q].id))
    BY <1>0, <1>9, <2>2, RaceFindRequest DEF FindRequest
  <2> QED
    BY <1>9, <2>1, <2>2 DEF FindRequest
<1>10. ASSUME NEW q \in Req, UpdateStatus(q) PROVE RaceInv'
  BY <1>0, <1>10, RaceUpdate
<1>11. ASSUME NEW q \in Req, NEW u \in Registered, NEW f \in Friendship, HandleRemove(q, u, f)
       PROVE  RaceInv'
  BY <1>2, <1>11 DEF HandleRemove
<1>12. ASSUME NEW q \in Req, FindFriendship(q) PROVE RaceInv'
  <2>1. CASE Finish(q)
    BY <1>1, <1>12, <2>1 DEF FindFriendship
  <2>2. CASE Step(q, "delete")
    <3>1. req[q] \in RemoveReq
      BY <1>0, <1>12, ReqKind DEF FindFriendship
    <3> QED
      BY <1>2, <1>12, <2>2, <3>1 DEF FindFriendship, Step, RemoveReq
  <2> QED
    BY <1>12, <2>1, <2>2 DEF FindFriendship
<1>13. ASSUME NEW q \in Req, DeleteFriendship(q) PROVE RaceInv'
  BY <1>0, <1>13, RaceDelete
<1>14. ASSUME NEW q \in Req, NEW u \in Registered, HandleStats(q, u) PROVE RaceInv'
  BY <1>2, <1>14 DEF HandleStats
<1>15. ASSUME NEW q \in Req, CountNext(q) PROVE RaceInv'
  <2>1. req[q] \in StatsReq
    BY <1>0, <1>15, ReqKind DEF CountNext
  <2>2. CASE req[q].pc = "friends"
    <3> DEFINE r == [req[q] EXCEPT !.pc = "pending", !.friends = FriendRows(req[q].by)]
    <3>1. req' = [req EXCEPT ![q] = r] /\ r.op = "stats"
      BY <1>0, <1>15, <2>1, <2>2 DEF CountNext, Count, TypeOK, StatsReq
    <3> HIDE DEF r
    <3> QED
      BY <1>2, <1>15, <3>1 DEF CountNext
  <2>3. CASE req[q].pc # "friends"
    <3> DEFINE r == [req[q] EXCEPT !.pc = "answer", !.pending = PendingRows(req[q].by)]
    <3>1. req' = [req EXCEPT ![q] = r] /\ r.op = "stats"
      BY <1>0, <1>15, <2>1, <2>3 DEF CountNext, Count, TypeOK, StatsReq
    <3> HIDE DEF r
    <3> QED
      BY <1>2, <1>15, <3>1 DEF CountNext
  <2> QED
    BY <2>2, <2>3
<1>16. ASSUME NEW q \in Req, NEW u \in Registered, HandleLists(q, u) PROVE RaceInv'
  BY <1>2, <1>16 DEF HandleLists
<1>17. ASSUME NEW q \in Req, GetPendingRequests(q) \/ GetFriends(q) PROVE RaceInv'
  <2>1. req[q] \in ListsReq
    BY <1>0, <1>17, ReqKind DEF GetPendingRequests, GetFriends
  <2>2. CASE GetPendingRequests(q)
    <3> DEFINE r == [req[q] EXCEPT !.pc = "friends", !.pending = PendingRows(req[q].by),
                                   !.due = Concerns(req[q].by)]
    <3>1. req' = [req EXCEPT ![q] = r] /\ r.op = "lists"
      BY <1>0, <2>1, <2>2 DEF GetPendingRequests, TypeOK, ListsReq
    <3> HIDE DEF r
    <3> QED
      BY <1>2, <2>2, <3>1 DEF GetPendingRequests
  <2>3. CASE GetFriends(q)
    <3> DEFINE r == [req[q] EXCEPT !.pc = "answer", !.friends = FriendRows(req[q].by)]
    <3>1. req' = [req EXCEPT ![q] = r] /\ r.op = "lists"
      BY <1>0, <2>1, <2>3 DEF GetFriends, TypeOK, ListsReq
    <3> HIDE DEF r
    <3> QED
      BY <1>2, <2>3, <3>1 DEF GetFriends
  <2> QED
    BY <1>17, <2>2, <2>3
<1>18. CASE UNCHANGED vars
  BY <1>0, <1>18, RaceQuiet DEF vars
<1> QED
  BY <1>3, <1>4, <1>5, <1>6, <1>7, <1>8, <1>9, <1>10, <1>11, <1>12, <1>13, <1>14,
     <1>15, <1>16, <1>17, <1>18 DEF Next, Send, Respond, Remove, Stats, Lists

\* Whatever the users and requests, several open rows between two users come
\* only from two requests that were past the same check together.
THEOREM DuplicatesNeedRaces == Spec => []DuplicatesAreRaces
<1>1. RaceInv => DuplicatesAreRaces
  BY DEF RaceInv
<1> QED
  BY <1>1, RaceInit, RaceNext, PTL DEF Spec

-----------------------------------------------------------------------------
(* What a step may do to one row. *)

LEMMA RowStep ==
  ASSUME Types, [Next]_vars, NEW f \in Friendship
  PROVE  /\ f \in used => f \in used'
         /\ f \in used => \/ row'[f] = row[f]
                          \/ row'[f] = NoRow
                          \/ /\ Exists(f) /\ Exists(f)'
                             /\ row'[f].requesterId = row[f].requesterId
                             /\ row'[f].receiverId = row[f].receiverId
                             /\ row'[f].status \in Decision
<1> USE DEF Types
<1>1. ASSUME NEW q \in Req, NEW g \in Friendship, CreateFriendship(q, g)
      PROVE  f \in used => f \in used' /\ row'[f] = row[f]
  BY <1>1 DEF CreateFriendship, TypeOK
<1>2. ASSUME NEW q \in Req, UpdateStatus(q)
      PROVE  /\ used' = used
             /\ \/ row'[f] = row[f]
                \/ /\ Exists(f) /\ Exists(f)'
                   /\ row'[f].requesterId = row[f].requesterId
                   /\ row'[f].receiverId = row[f].receiverId
                   /\ row'[f].status \in Decision
  <2>1. req[q] \in RespondReq
    BY <1>2, ReqKind DEF UpdateStatus
  <2>2. /\ used' = used
        /\ row' = IF Exists(req[q].id) THEN [row EXCEPT ![req[q].id].status = req[q].status] ELSE row
    BY <1>2 DEF UpdateStatus, Update
  <2>3. CASE Exists(req[q].id) /\ f = req[q].id
    <3>1. row[f] \in Record
      BY <2>3 DEF TypeOK, Exists
    <3>2. row'[f] = [row[f] EXCEPT !.status = req[q].status]
      BY <2>2, <2>3 DEF TypeOK
    <3>3. /\ row'[f].requesterId = row[f].requesterId
          /\ row'[f].receiverId = row[f].receiverId
          /\ row'[f].status = req[q].status
      BY <3>1, <3>2 DEF Record
    <3>4. row'[f] # NoRow
      BY <2>1, <3>3 DEF RespondReq, Decision, NoRow
    <3> QED
      BY <2>1, <2>2, <2>3, <3>3, <3>4 DEF Exists, RespondReq
  <2>4. CASE ~Exists(req[q].id) \/ f # req[q].id
    BY <2>2, <2>4 DEF TypeOK
  <2> QED
    BY <2>3, <2>4
<1>3. ASSUME NEW q \in Req, DeleteFriendship(q)
      PROVE  used' = used /\ (row'[f] = row[f] \/ row'[f] = NoRow)
  BY <1>3 DEF DeleteFriendship, TypeOK
<1>4. CASE UNCHANGED <<row, used>>
  BY <1>4
<1> QED
  BY <1>1, <1>2, <1>3, <1>4 DEF Next, Send, Respond, Remove, Stats, Lists, vars, QueryFails,
     HandleSend, FindUsers, FindExisting, HandleRespond, FindRequest, HandleRemove,
     FindFriendship, HandleStats, CountNext, AnswerStats, HandleLists,
     GetPendingRequests, GetFriends, AnswerLists

\* A removed friendship stays removed, for any number of concurrent answers and
\* removals.
THEOREM RemovalIsFinal == Spec => GoneStaysGone
<1>1. ASSUME Types, [Next]_vars PROVE \A f \in used : ~Exists(f) => row'[f] = NoRow
  <2> SUFFICES ASSUME NEW f \in used, ~Exists(f) PROVE row'[f] = NoRow
    OBVIOUS
  <2>1. f \in Friendship
    BY <1>1 DEF Types, TypeOK
  <2> QED
    BY <1>1, <2>1, RowStep DEF Exists
<1> QED
  BY <1>1, TypesInit, TypesNext, PTL DEF Spec, GoneStaysGone

\* A decision whose pair was never raced is only ever removed, not overwritten.
THEOREM DecisionsHold == Spec => DecisionsStay
<1>1. ASSUME RaceInv, [Next]_vars
      PROVE  \A f \in Friendship : Decided(f) /\ Between(f) \notin raced =>
                row'[f] = row[f] \/ row'[f] = NoRow
  <2> SUFFICES ASSUME NEW f \in Friendship, Decided(f), Between(f) \notin raced
               PROVE  row'[f] = row[f] \/ row'[f] = NoRow
    OBVIOUS
  <2>1. ASSUME NEW q \in Req, NEW g \in Friendship, CreateFriendship(q, g)
        PROVE  row'[f] = row[f]
    BY <1>1, <2>1 DEF CreateFriendship, RaceInv, Types, TypeOK, Decided, Exists
  <2>2. ASSUME NEW q \in Req, UpdateStatus(q) PROVE row'[f] = row[f]
    <3>1. At(q, "respond", "update") /\ row' = Update(req[q].id, req[q].status, req[q].pair, req[q].by)
      BY <2>2 DEF UpdateStatus
    <3>2. ~(Exists(req[q].id) /\ req[q].id = f)
      BY <1>1, <3>1 DEF RaceInv, AnswerFresh, Decided, Decision
    <3> QED
      BY <1>1, <3>1, <3>2 DEF Update, RaceInv, Types, TypeOK
  <2>3. ASSUME NEW q \in Req, DeleteFriendship(q) PROVE row'[f] = row[f] \/ row'[f] = NoRow
    BY <1>1, <2>3 DEF DeleteFriendship, RaceInv, Types, TypeOK
  <2>4. CASE UNCHANGED row
    BY <2>4
  <2> QED
    BY <1>1, <2>1, <2>2, <2>3, <2>4 DEF Next, Send, Respond, Remove, Stats,
       Lists, vars, QueryFails, HandleSend, FindUsers, FindExisting, HandleRespond,
       FindRequest, HandleRemove, FindFriendship, HandleStats, CountNext, AnswerStats,
       HandleLists, GetPendingRequests, GetFriends, AnswerLists
<1> QED
  BY <1>1, RaceInit, RaceNext, PTL DEF Spec, DecisionsStay

-----------------------------------------------------------------------------
(* Requests past their check: what holds of the row they name. *)

WriterInv ==
    /\ Types
    /\ \A q \in Req : At(q, "remove", "delete") => req[q].id \in used
    /\ WritersAreAllowed

LEMMA WriterInit == Init => WriterInv
  BY TypesInit DEF Init, WriterInv, WritersAreAllowed, At

\* The parties of a row that outlives a step are those it had.
LEMMA PartiesStay ==
  ASSUME Types, [Next]_vars, NEW f \in used, row'[f] # NoRow
  PROVE  Exists(f) /\ row'[f].receiverId = row[f].receiverId
         /\ {row'[f].requesterId, row'[f].receiverId} = Between(f)
<1>1. f \in Friendship
  BY DEF Types, TypeOK
<1> QED
  BY <1>1, RowStep DEF Exists, Between

\* A step of one request leaves the others where they are.
LEMMA OthersStay ==
  ASSUME TypeOK, NEW p \in Req, NEW q \in Req, p # q,
         Send(p) \/ Respond(p) \/ Remove(p) \/ Stats(p) \/ Lists(p) \/ QueryFails(p)
  PROVE  req'[q] = req[q]
<1>1. CASE Send(p)
  BY <1>1 DEF TypeOK, Send, HandleSend, FindUsers, FindExisting, CreateFriendship, Finish, Step
<1>2. CASE Respond(p)
  BY <1>2 DEF TypeOK, Respond, HandleRespond, FindRequest, UpdateStatus, Finish
<1>3. CASE Remove(p)
  BY <1>3 DEF TypeOK, Remove, HandleRemove, FindFriendship, DeleteFriendship, Finish, Step
<1>4. CASE Stats(p)
  BY <1>4 DEF TypeOK, Stats, HandleStats, CountNext, Count, AnswerStats, Finish
<1>5. CASE Lists(p)
  BY <1>5 DEF TypeOK, Lists, HandleLists, GetPendingRequests, GetFriends, AnswerLists, Finish
<1>6. CASE QueryFails(p)
  BY <1>6 DEF TypeOK, QueryFails, Finish
<1> QED
  BY <1>1, <1>2, <1>3, <1>4, <1>5, <1>6

LEMMA WriterNext == WriterInv /\ [Next]_vars => WriterInv'
<1> SUFFICES ASSUME WriterInv, [Next]_vars, NEW q \in Req
             PROVE  /\ At(q, "remove", "delete")' => req'[q].id \in used'
                    /\ At(q, "respond", "update")' /\ Exists(req[q].id)' =>
                          row'[req'[q].id].receiverId = req'[q].by
                    /\ At(q, "remove", "delete")' /\ Exists(req[q].id)' =>
                          req'[q].by \in Between(req[q].id)'
  BY TypesNext DEF WriterInv, WritersAreAllowed
<1>0. Types /\ Types' /\ TypeOK
  BY TypesNext DEF WriterInv, Types
<1>1. used \subseteq used'
  BY <1>0, RowStep DEF Types, TypeOK
<1>2. \A f \in used : row'[f] # NoRow =>
         /\ row[f] # NoRow
         /\ row'[f].receiverId = row[f].receiverId
         /\ {row'[f].requesterId, row'[f].receiverId} = {row[f].requesterId, row[f].receiverId}
  BY <1>0, PartiesStay DEF Exists, Between
<1>3. CASE req'[q] = req[q]
  <2>1. /\ At(q, "remove", "delete")' <=> At(q, "remove", "delete")
        /\ At(q, "respond", "update")' <=> At(q, "respond", "update")
    BY <1>3 DEF At
  <2> QED
    BY <1>0, <1>1, <1>2, <1>3, <2>1 DEF WriterInv, WritersAreAllowed, Types, Exists, Between
<1>4. CASE ~At(q, "remove", "delete")' /\ ~At(q, "respond", "update")'
  BY <1>4
<1>5. CASE FindRequest(q) /\ At(q, "respond", "update")'
  <2>1. req[q] \in RespondReq
    BY <1>0, <1>5, ReqKind DEF FindRequest
  <2>2. ~Finish(q)
    BY <1>0, <1>5, FinishTypes
  <2>3. MayRespond(q) /\ row' = row /\ used' = used
        /\ req'[q].id = req[q].id /\ req'[q].by = req[q].by /\ req'[q].op = "respond"
    BY <1>0, <1>5, <2>1, <2>2 DEF FindRequest, TypeOK, RespondReq
  <2> QED
    BY <2>3 DEF MayRespond, Exists, At
<1>6. CASE FindFriendship(q) /\ At(q, "remove", "delete")'
  <2>1. req[q] \in RemoveReq
    BY <1>0, <1>6, ReqKind DEF FindFriendship
  <2>2. ~Finish(q)
    BY <1>0, <1>6, FinishTypes
  <2>3. Exists(req[q].id) /\ req[q].by \in Between(req[q].id) /\ row' = row /\ used' = used
        /\ req'[q].id = req[q].id /\ req'[q].by = req[q].by /\ req'[q].op = "remove"
    BY <1>0, <1>6, <2>1, <2>2 DEF FindFriendship, Step, TypeOK, RemoveReq
  <2>4. req[q].id \in used
    BY <1>0, <2>1, <2>3 DEF TypeOK, Exists, RemoveReq
  <2> QED
    BY <2>3, <2>4 DEF Exists, Between, At
<1>7. ASSUME NEW p \in Req, p # q,
             Send(p) \/ Respond(p) \/ Remove(p) \/ Stats(p) \/ Lists(p) \/ QueryFails(p)
      PROVE  req'[q] = req[q]
  BY <1>0, <1>7, OthersStay DEF Types
<1>8. ASSUME Finish(q) PROVE ~At(q, "remove", "delete")' /\ ~At(q, "respond", "update")'
  BY <1>0, <1>8, FinishTypes
<1>9. ASSUME Send(q) \/ Stats(q) \/ Lists(q) \/ QueryFails(q)
      PROVE  ~At(q, "remove", "delete")' /\ ~At(q, "respond", "update")'
  <2>1. ASSUME NEW u \in Registered, NEW v \in User, HandleSend(q, u, v)
        PROVE  ~At(q, "remove", "delete")' /\ ~At(q, "respond", "update")'
    BY <1>0, <2>1 DEF HandleSend, At, TypeOK
  <2>2. CASE /\ FindUsers(q) \/ FindExisting(q)
             /\ Step(q, "existing") \/ Step(q, "create")
    <3>1. req[q] \in SendReq
      BY <1>0, <2>2, ReqKind DEF FindUsers, FindExisting
    <3> QED
      BY <1>0, <2>2, <3>1 DEF Step, At, TypeOK, SendReq
  <2>3. ASSUME NEW u \in Registered, HandleStats(q, u)
        PROVE  ~At(q, "remove", "delete")' /\ ~At(q, "respond", "update")'
    BY <1>0, <2>3 DEF HandleStats, At, TypeOK
  <2>4. CASE CountNext(q)
    <3>1. req[q] \in StatsReq
      BY <1>0, <2>4, ReqKind DEF CountNext
    <3> QED
      BY <1>0, <2>4, <3>1 DEF CountNext, Count, At, TypeOK, StatsReq
  <2>5. ASSUME NEW u \in Registered, HandleLists(q, u)
        PROVE  ~At(q, "remove", "delete")' /\ ~At(q, "respond", "update")'
    BY <1>0, <2>5 DEF HandleLists, At, TypeOK
  <2>6. CASE GetPendingRequests(q) \/ GetFriends(q)
    <3>1. req[q] \in ListsReq
      BY <1>0, <2>6, ReqKind DEF GetPendingRequests, GetFriends
    <3> QED
      BY <1>0, <2>6, <3>1 DEF GetPendingRequests, GetFriends, At, TypeOK, ListsReq
  <2> QED
    BY <1>8, <1>9, <2>1, <2>2, <2>3, <2>4, <2>5, <2>6 DEF Send, Stats, Lists, QueryFails,
       FindUsers, FindExisting, CreateFriendship, AnswerStats, AnswerLists
<1>10. ASSUME Respond(q), ~FindRequest(q)
       PROVE  ~At(q, "remove", "delete")' /\ ~At(q, "respond", "update")'
  BY <1>0, <1>8, <1>10 DEF Respond, HandleRespond, UpdateStatus, At, TypeOK
<1>11. ASSUME Remove(q), ~FindFriendship(q)
       PROVE  ~At(q, "remove", "delete")' /\ ~At(q, "respond", "update")'
  BY <1>0, <1>8, <1>11 DEF Remove, HandleRemove, DeleteFriendship, At, TypeOK
<1>12. ASSUME FindRequest(q) PROVE ~At(q, "remove", "delete")'
  <2>1. req[q] \in RespondReq
    BY <1>0, <1>12, ReqKind DEF FindRequest
  <2> QED
    BY <1>0, <1>8, <1>12, <2>1 DEF FindRequest, At, TypeOK, RespondReq
<1>13. ASSUME FindFriendship(q) PROVE ~At(q, "respond", "update")'
  <2>1. req[q] \in RemoveReq
    BY <1>0, <1>13, ReqKind DEF FindFriendship
  <2> QED
    BY <1>0, <1>8, <1>13, <2>1 DEF FindFriendship, Step, At, TypeOK, RemoveReq
<1>14. CASE UNCHANGED vars
  BY <1>3, <1>14 DEF vars
<1> QED
  BY <1>3, <1>4, <1>5, <1>6, <1>7, <1>9, <1>10, <1>11, <1>12, <1>13, <1>14 DEF Next

\* A request that passed its check and waits still has the right to write when
\* it does: nobody else's steps can give the row other parties.
THEOREM WritersStayAllowed == Spec => []WritersAreAllowed
<1>1. WriterInv => WritersAreAllowed
  BY DEF WriterInv
<1> QED
  BY <1>1, WriterInit, WriterNext, PTL DEF Spec

-----------------------------------------------------------------------------
(* Reads of several queries.  A row that was seen accepted, or already decided,
   never turns pending again, whoever writes in between. *)

IsPending(f) == Exists(f) /\ row[f].status = "pending"
Settled(f) == f \in used /\ ~IsPending(f)

ReadInv ==
    /\ Types
    /\ \A q \in Req : At(q, "stats", "pending") => \A f \in req[q].friends : Settled(f)
    /\ \A q \in Req : At(q, "lists", "friends") =>
                          \A f \in req[q].due \ req[q].pending : Settled(f)
    /\ StatsCountOnce

LEMMA ReadInit == Init => ReadInv
  BY TypesInit DEF Init, ReadInv, StatsCountOnce, At

LEMMA SettledStays ==
  ASSUME Types, [Next]_vars, NEW f, Settled(f)
  PROVE  Settled(f)'
<1>1. f \in Friendship
  BY DEF Settled, Types, TypeOK
<1> QED
  BY <1>1, RowStep DEF Settled, IsPending, Exists, Decision

\* Only these steps bring a request to, or keep it in, the middle of its reads.
LEMMA ReadSteps ==
  ASSUME TypeOK, [Next]_vars, NEW q \in Req
  PROVE  \/ req'[q] = req[q]
         \/ CountNext(q) \/ GetPendingRequests(q) \/ GetFriends(q)
         \/ ~At(q, "stats", "pending")' /\ ~At(q, "stats", "answer")'
            /\ ~At(q, "lists", "friends")' /\ ~At(q, "lists", "answer")'
<1> DEFINE Quiet == ~At(q, "stats", "pending")' /\ ~At(q, "stats", "answer")'
                    /\ ~At(q, "lists", "friends")' /\ ~At(q, "lists", "answer")'
<1>1. ASSUME Finish(q) PROVE Quiet
  BY <1>1, FinishTypes
<1>2. ASSUME Send(q) PROVE Quiet
  <2>1. ASSUME NEW u \in Registered, NEW v \in User, HandleSend(q, u, v) PROVE Quiet
    BY <2>1 DEF HandleSend, At, TypeOK
  <2>2. CASE /\ FindUsers(q) \/ FindExisting(q)
             /\ Step(q, "existing") \/ Step(q, "create")
    <3>1. req[q] \in SendReq
      BY <2>2, ReqKind DEF FindUsers, FindExisting
    <3> QED
      BY <2>2, <3>1 DEF Step, At, TypeOK, SendReq
  <2> QED
    BY <1>1, <1>2, <2>1, <2>2 DEF Send, FindUsers, FindExisting, CreateFriendship
<1>3. ASSUME Respond(q) PROVE Quiet
  <2>1. ASSUME NEW u \in Registered, NEW f \in Friendship, NEW d \in Decision,
               HandleRespond(q, u, f, d)
        PROVE  Quiet
    BY <2>1 DEF HandleRespond, At, TypeOK
  <2>2. CASE FindRequest(q) /\ ~Finish(q)
    <3>1. req[q] \in RespondReq
      BY <2>2, ReqKind DEF FindRequest
    <3> QED
      BY <2>2, <3>1 DEF FindRequest, At, TypeOK, RespondReq
  <2> QED
    BY <1>1, <1>3, <2>1, <2>2 DEF Respond, UpdateStatus
<1>4. ASSUME Remove(q) PROVE Quiet
  <2>1. ASSUME NEW u \in Registered, NEW f \in Friendship, HandleRemove(q, u, f) PROVE Quiet
    BY <2>1 DEF HandleRemove, At, TypeOK
  <2>2. CASE FindFriendship(q) /\ Step(q, "delete")
    <3>1. req[q] \in RemoveReq
      BY <2>2, ReqKind DEF FindFriendship
    <3> QED
      BY <2>2, <3>1 DEF Step, At, TypeOK, RemoveReq
  <2> QED
    BY <1>1, <1>4, <2>1, <2>2 DEF Remove, FindFriendship, DeleteFriendship
<1>5. ASSUME NEW u \in Registered, HandleStats(q, u) \/ HandleLists(q, u) PROVE Quiet
  BY <1>5 DEF HandleStats, HandleLists, At, TypeOK
<1>6. ASSUME NEW p \in Req, p # q,
             Send(p) \/ Respond(p) \/ Remove(p) \/ Stats(p) \/ Lists(p) \/ QueryFails(p)
      PROVE  req'[q] = req[q]
  BY <1>6, OthersStay
<1>7. CASE UNCHANGED vars
  BY <1>7 DEF vars
<1> QED
  BY <1>1, <1>2, <1>3, <1>4, <1>5, <1>6, <1>7 DEF Next, Stats, Lists, AnswerStats,
     AnswerLists, QueryFails

LEMMA ReadNext == ReadInv /\ [Next]_vars => ReadInv'
<1> SUFFICES ASSUME ReadInv, [Next]_vars, NEW q \in Req
             PROVE  /\ At(q, "stats", "pending")' => \A f \in req'[q].friends : Settled(f)'
                    /\ At(q, "lists", "friends")' =>
                          \A f \in req'[q].due \ req'[q].pending : Settled(f)'
                    /\ At(q, "stats", "answer")' =>
                          req'[q].friends \cap req'[q].pending = {}
  BY TypesNext DEF ReadInv, StatsCountOnce
<1>0. Types /\ TypeOK
  BY DEF ReadInv, Types
<1>1. CASE req'[q] = req[q]
  <2>1. \A op, pc : At(q, op, pc)' <=> At(q, op, pc)
    BY <1>1 DEF At
  <2> QED
    BY <1>0, <1>1, <2>1, SettledStays DEF ReadInv, StatsCountOnce
<1>2. CASE CountNext(q)
  <2>0. req[q] \in StatsReq /\ row' = row /\ used' = used
    BY <1>0, <1>2, ReqKind DEF CountNext
  <2>1. CASE req[q].pc = "friends"
    <3>1. /\ req'[q].op = "stats" /\ req'[q].pc = "pending"
          /\ req'[q].friends = FriendRows(req[q].by)
      BY <1>0, <1>2, <2>0, <2>1 DEF CountNext, Count, TypeOK, StatsReq
    <3>2. \A f \in FriendRows(req[q].by) : Settled(f)'
      BY <1>0, <2>0 DEF FriendRows, Settled, IsPending, Exists, TypeOK
    <3> QED
      BY <3>1, <3>2 DEF At
  <2>2. CASE req[q].pc # "friends"
    <3>1. /\ req'[q].op = "stats" /\ req'[q].pc = "answer"
          /\ req'[q].friends = req[q].friends /\ req'[q].pending = PendingRows(req[q].by)
      BY <1>0, <1>2, <2>0, <2>2 DEF CountNext, Count, TypeOK, StatsReq
    <3>2. \A f \in req[q].friends : Settled(f)
      BY <1>2, <2>2 DEF CountNext, At, ReadInv
    <3>3. \A f \in PendingRows(req[q].by) : ~Settled(f)
      BY DEF PendingRows, Settled, IsPending
    <3> QED
      BY <3>1, <3>2, <3>3 DEF At
  <2> QED
    BY <2>1, <2>2
<1>3. CASE GetPendingRequests(q)
  <2>1. req[q] \in ListsReq /\ row' = row /\ used' = used
    BY <1>0, <1>3, ReqKind DEF GetPendingRequests
  <2>2. /\ req'[q].op = "lists" /\ req'[q].pc = "friends"
        /\ req'[q].pending = PendingRows(req[q].by) /\ req'[q].due = Concerns(req[q].by)
    BY <1>0, <1>3, <2>1 DEF GetPendingRequests, TypeOK, ListsReq
  <2>3. \A f \in Concerns(req[q].by) \ PendingRows(req[q].by) : Settled(f)'
    BY <1>0, <2>1 DEF Concerns, PendingRows, Settled, IsPending, Open, Exists, TypeOK
  <2> QED
    BY <2>2, <2>3 DEF At
<1>4. CASE GetFriends(q)
  <2>1. req[q] \in ListsReq
    BY <1>0, <1>4, ReqKind DEF GetFriends
  <2>2. req'[q].op = "lists" /\ req'[q].pc = "answer"
    BY <1>0, <1>4, <2>1 DEF GetFriends, TypeOK, ListsReq
  <2> QED
    BY <2>2 DEF At
<1> QED
  BY <1>0, <1>1, <1>2, <1>3, <1>4, ReadSteps

\* However the table changes between the two counts, no friendship is in both:
\* what was counted as a friend never turns pending again.
THEOREM CountedOnce == Spec => []StatsCountOnce
<1>1. ReadInv => StatsCountOnce
  BY DEF ReadInv
<1> QED
  BY <1>1, ReadInit, ReadNext, PTL DEF Spec

\* Pending requests first and friends second show every row that was to be seen
\* at both queries: it is in the first list, or was settled by then and is
\* accepted still.
THEOREM NoneMissed == Spec => ListsMissNone
<1>1. ASSUME ReadInv, [Next]_vars, NEW q \in Req, At(q, "lists", "friends"),
             At(q, "lists", "answer")', NEW f \in req[q].due \cap Concerns(req[q].by)
      PROVE  f \in req'[q].pending \cup req'[q].friends
  <2>0. TypeOK /\ req[q] \in ListsReq /\ req[q].op = "lists" /\ req[q].pc = "friends"
    BY <1>1, ReqKind DEF ReadInv, Types, At
  <2>1. GetFriends(q)
    BY <1>1, <2>0, ReadSteps DEF At, CountNext, GetPendingRequests
  <2>2. /\ req'[q].pending = req[q].pending
        /\ req'[q].friends = FriendRows(req[q].by)
    BY <2>0, <2>1 DEF GetFriends, TypeOK, ListsReq
  <2>3. CASE f \notin req[q].pending
    <3>1. Settled(f)
      BY <1>1, <2>3 DEF ReadInv
    <3>2. f \in FriendRows(req[q].by)
      BY <1>1, <3>1 DEF Concerns, FriendRows, Settled, IsPending, Open
    <3> QED
      BY <2>2, <3>2
  <2> QED
    BY <2>2, <2>3
<1>2. ReadInv /\ [Next]_vars => [\A q \in Req :
          At(q, "lists", "friends") /\ At(q, "lists", "answer")' =>
              req[q].due \cap Concerns(req[q].by)
                  \subseteq req'[q].pending \cup req'[q].friends]_vars
  BY <1>1
<1> QED
  BY <1>2, ReadInit, ReadNext, PTL DEF Spec, ListsMissNone

-----------------------------------------------------------------------------
(* The table implements the abstract specification Tie, pair by pair.  SendFresh
   is what makes an insert an Ask, AnswerFresh what makes an answer an Accept or a
   Drop; that no pair has two open rows makes a removal a Drop. *)

LEMMA RacedGrows == [Next]_vars => raced \subseteq raced'
<1>1. ASSUME NEW q \in Req, NEW pair, NoteRace(q, pair) PROVE raced \subseteq raced'
  BY <1>1 DEF NoteRace
<1> QED
  BY <1>1 DEF Next, Send, Respond, Remove, Stats, Lists, vars, QueryFails, HandleSend,
     FindUsers, FindExisting, CreateFriendship, HandleRespond, FindRequest,
     UpdateStatus, HandleRemove, FindFriendship, DeleteFriendship, HandleStats,
     CountNext, AnswerStats, HandleLists, GetPendingRequests, GetFriends, AnswerLists

\* Rows that are not open rows of a pair, before or after, make no difference to it.
LEMMA TieKept ==
  ASSUME NEW P, P \notin raced, P \notin raced',
         \A f \in Friendship : \/ row'[f] = row[f]
                               \/ /\ ~(Open(f) /\ Between(f) = P)
                                  /\ ~(Open(f) /\ Between(f) = P)'
  PROVE  UNCHANGED TieOf(P)!vars
<1>1. \A f \in Friendship : \A u : row'[f] = row[f] =>
         /\ (Open(f) /\ Between(f) = P)' <=> (Open(f) /\ Between(f) = P)
         /\ (row[f].requesterId = u)' <=> row[f].requesterId = u
         /\ (row[f].status = "accepted")' <=> row[f].status = "accepted"
  BY DEF Open, Exists, Between
<1>2. Agreed(P)' = Agreed(P)
  BY <1>1 DEF Agreed
<1> QED
  BY <1>2 DEF TieOf!vars

\* A pair that was not raced has one open row at most, and that row says who agreed.
LEMMA TieIsRow ==
  ASSUME RaceInv, NEW P, P \notin raced, NEW f \in Friendship, Open(f), Between(f) = P
  PROVE  /\ \A g \in Friendship : Open(g) /\ Between(g) = P => g = f
         /\ Agreed(P) = {u \in P : row[f].requesterId = u \/ row[f].status = "accepted"}
<1>1. \A g \in Friendship : Open(g) /\ Between(g) = P => g = f
  BY DEF RaceInv, DuplicatesAreRaces, Duplicate
<1> QED
  BY <1>1 DEF Agreed

\* An insert is an Ask of the pair it names.
LEMMA TieCreate ==
  ASSUME RaceInv, NEW P \in Pairs, P \notin raced, P \notin raced',
         NEW q \in Req, NEW f \in Friendship, CreateFriendship(q, f)
  PROVE  UNCHANGED TieOf(P)!vars \/ TieOf(P)!Next
<1>1. /\ row[f] = NoRow
      /\ row'[f] = [requesterId |-> req[q].from, receiverId |-> req[q].to,
                    status |-> "pending"]
      /\ \A g \in Friendship \ {f} : row'[g] = row[g]
  BY DEF CreateFriendship, RaceInv, Types, TypeOK
<1>2. /\ ~Open(f)
      /\ Between(f)' = {req[q].from, req[q].to}
  BY <1>1 DEF Open, Exists, Between
<1>3. CASE P # {req[q].from, req[q].to}
  BY <1>1, <1>2, <1>3, TieKept
<1>4. CASE P = {req[q].from, req[q].to}
  <2>1. OpenBetween(req[q].from, req[q].to) = {}
    BY <1>4 DEF CreateFriendship, RaceInv, SendFresh
  <2>2. \A g \in Friendship : ~(Open(g) /\ Between(g) = P)
    BY <1>4, <2>1 DEF OpenBetween
  <2>3. Agreed(P) = {}
    BY <2>2 DEF Agreed
  <2>4. row'[f] # NoRow /\ row'[f].status = "pending" /\ row'[f].requesterId = req[q].from
    BY <1>1 DEF NoRow
  <2>5. \A g \in Friendship : (Open(g) /\ Between(g) = P)' <=> g = f
    <3>1. \A g \in Friendship \ {f} : ~(Open(g) /\ Between(g) = P)'
      BY <1>1, <2>2 DEF Open, Exists, Between
    <3>2. (Open(f) /\ Between(f) = P)'
      BY <1>2, <1>4, <2>4 DEF Open, Exists
    <3> QED
      BY <3>1, <3>2
  <2>6. Agreed(P)' = {req[q].from}
    BY <1>4, <2>4, <2>5 DEF Agreed
  <2>7. TieOf(P)!Ask(req[q].from)
    BY <2>3, <2>6 DEF TieOf!Ask
  <2> QED
    BY <1>4, <2>7 DEF TieOf!Next
<1> QED
  BY <1>3, <1>4

\* An answer is an Accept or a Drop of the pair of its row, unless the row is gone.
LEMMA TieUpdate ==
  ASSUME RaceInv, NEW P \in Pairs, P \notin raced, P \notin raced',
         NEW q \in Req, UpdateStatus(q)
  PROVE  UNCHANGED TieOf(P)!vars \/ TieOf(P)!Next
<1>0. PICK f \in Friendship : f = req[q].id
  BY ReqKind DEF UpdateStatus, RaceInv, Types, RespondReq
<1>1. /\ At(q, "respond", "update")
      /\ req[q] \in RespondReq
      /\ row' = IF Exists(f) THEN [row EXCEPT ![f].status = req[q].status] ELSE row
  BY <1>0, ReqKind DEF UpdateStatus, Update, RaceInv, Types
<1>2. req[q].status \in Decision
  BY <1>1 DEF RespondReq
<1>3. \A g \in Friendship \ {f} : row'[g] = row[g]
  BY <1>1 DEF RaceInv, Types, TypeOK
<1>4. CASE ~Exists(f)
  BY <1>1, <1>4, TieKept
<1>5. CASE Exists(f)
  <2>1. row[f] \in Record
    BY <1>5 DEF RaceInv, Types, TypeOK, Exists
  <2>2. row'[f] = [row[f] EXCEPT !.status = req[q].status]
    BY <1>1, <1>5 DEF RaceInv, Types, TypeOK
  <2>3. /\ row'[f].requesterId = row[f].requesterId
        /\ row'[f].receiverId = row[f].receiverId
        /\ row'[f].status = req[q].status
    BY <2>1, <2>2 DEF Record
  <2>4. Between(f)' = Between(f)
    BY <2>3 DEF Between
  <2>5. CASE Between(f) # P
    BY <1>3, <2>4, <2>5, TieKept
  <2>6. CASE Between(f) = P
    <3>1. row[f].status = "pending"
      BY <1>0, <1>1, <1>5, <2>6 DEF RaceInv, AnswerFresh
    <3>2. Open(f)
      BY <1>5, <3>1 DEF Open
    <3>3. \A g \in Friendship \ {f} : ~(Open(g) /\ Between(g) = P)
      BY <2>6, <3>2, TieIsRow
    <3>4. \A g \in Friendship \ {f} : ~(Open(g) /\ Between(g) = P)'
      BY <1>3, <3>3 DEF Open, Exists, Between
    <3>5. Agreed(P) = {row[f].requesterId}
      <4>1. Agreed(P) = {u \in P : row[f].requesterId = u \/ row[f].status = "accepted"}
        BY <2>6, <3>2, TieIsRow
      <4>2. row[f].requesterId \in P
        BY <2>6 DEF Between
      <4> QED
        BY <3>1, <4>1, <4>2
    <3>6. CASE req[q].status = "rejected"
      <4>1. ~Open(f)'
        BY <2>3, <3>6 DEF Open
      <4>2. Agreed(P)' = {}
        BY <3>4, <4>1 DEF Agreed
      <4> QED
        BY <4>2 DEF TieOf!Next, TieOf!Drop
    <3>7. CASE req[q].status = "accepted"
      <4>1. row'[f] # NoRow
        BY <2>3, <3>7 DEF NoRow
      <4>2. (Open(f) /\ Between(f) = P)'
        BY <2>3, <2>4, <2>6, <3>7, <4>1 DEF Open, Exists
      <4>3. Agreed(P)' = P
        BY <2>3, <3>7, <4>2 DEF Agreed
      <4>4. P = {row[f].requesterId, row[f].receiverId}
        BY <2>6 DEF Between
      <4>5. row[f].requesterId # row[f].receiverId
        BY <4>4 DEF Pairs
      <4>6. TieOf(P)!Accept(row[f].receiverId)
        BY <3>5, <4>3, <4>4, <4>5 DEF TieOf!Accept
      <4> QED
        BY <4>4, <4>6 DEF TieOf!Next
    <3> QED
      BY <1>2, <3>6, <3>7 DEF Decision
  <2> QED
    BY <2>5, <2>6
<1> QED
  BY <1>4, <1>5

\* A removal is a Drop of the pair of its row, and of no pair when its row was
\* rejected or is gone.
LEMMA TieDelete ==
  ASSUME RaceInv, NEW P \in Pairs, P \notin raced, P \notin raced',
         NEW q \in Req, DeleteFriendship(q)
  PROVE  UNCHANGED TieOf(P)!vars \/ TieOf(P)!Next
<1>0. PICK f \in Friendship : f = req[q].id
  BY ReqKind DEF DeleteFriendship, RaceInv, Types, RemoveReq
<1>2. row'[f] = NoRow /\ \A g \in Friendship \ {f} : row'[g] = row[g]
  BY <1>0 DEF DeleteFriendship, RaceInv, Types, TypeOK
<1>3. ~Open(f)'
  BY <1>2 DEF Open, Exists
<1>4. CASE ~(Open(f) /\ Between(f) = P)
  BY <1>2, <1>3, <1>4, TieKept
<1>5. CASE Open(f) /\ Between(f) = P
  <2>1. \A g \in Friendship \ {f} : ~(Open(g) /\ Between(g) = P)
    BY <1>5, TieIsRow
  <2>2. \A g \in Friendship \ {f} : ~(Open(g) /\ Between(g) = P)'
    BY <1>2, <2>1 DEF Open, Exists, Between
  <2>3. Agreed(P)' = {}
    BY <1>3, <2>2 DEF Agreed
  <2> QED
    BY <2>3 DEF TieOf!Next, TieOf!Drop
<1> QED
  BY <1>4, <1>5

LEMMA TieRefines ==
  ASSUME RaceInv, [Next]_vars, NEW P \in Pairs
  PROVE  UNCHANGED TieOf(P)!vars \/ TieOf(P)!Next
<1>1. CASE P \in raced'
  <2>1. Agreed(P)' = {}
    BY <1>1 DEF Agreed
  <2> QED
    BY <1>1, <2>1 DEF TieOf!Next, TieOf!Contend
<1>2. CASE P \notin raced'
  <2>1. P \notin raced
    BY <1>2, RacedGrows
  <2>2. CASE UNCHANGED row
    BY <1>2, <2>1, <2>2, TieKept
  <2>3. ASSUME NEW q \in Req, NEW f \in Friendship, CreateFriendship(q, f)
        PROVE  UNCHANGED TieOf(P)!vars \/ TieOf(P)!Next
    BY <1>2, <2>1, <2>3, TieCreate
  <2>4. ASSUME NEW q \in Req, UpdateStatus(q)
        PROVE  UNCHANGED TieOf(P)!vars \/ TieOf(P)!Next
    BY <1>2, <2>1, <2>4, TieUpdate
  <2>5. ASSUME NEW q \in Req, DeleteFriendship(q)
        PROVE  UNCHANGED TieOf(P)!vars \/ TieOf(P)!Next
    BY <1>2, <2>1, <2>5, TieDelete
  <2> QED
    BY <2>2, <2>3, <2>4, <2>5 DEF Next, Send, Respond, Remove, Stats,
       Lists, vars, QueryFails, HandleSend, FindUsers, FindExisting, HandleRespond,
       FindRequest, HandleRemove, FindFriendship, HandleStats, CountNext, AnswerStats,
       HandleLists, GetPendingRequests, GetFriends, AnswerLists
<1> QED
  BY <1>1, <1>2

\* The table implements Tie for every pair of users, however many users, rows and
\* requests there are.
THEOREM PairsAreTies == Spec => ImplementsTie
<1>1. Init => \A P \in Pairs : TieOf(P)!Init
  BY DEF Init, TieOf!Init, Agreed, Open, Exists
<1>2. RaceInv /\ [Next]_vars =>
          [\A P \in Pairs : UNCHANGED TieOf(P)!vars \/ TieOf(P)!Next]_vars
  BY TieRefines
<1> QED
  BY <1>1, <1>2, RaceInit, RaceNext, PTL DEF Spec, ImplementsTie

-----------------------------------------------------------------------------
(* With one request at a time nothing is ever raced, so the conditions of the
   theorems above fall away. *)

\* If requests are handled one at a time, two users never have two open rows:
\* friends/README.md:236 without its exception.
THEOREM OneAtATime ==
  ASSUME \A p, q \in Req : p = q
  PROVE  Spec => []NoDuplicates
<1>1. Init => RaceInv /\ raced = {}
  BY RaceInit DEF Init
<1>2. RaceInv /\ raced = {} /\ [Next]_vars => (RaceInv /\ raced = {})'
  <2> SUFFICES ASSUME raced = {}, [Next]_vars PROVE raced' = {}
    BY RaceNext
  <2>1. ASSUME NEW q \in Req, NEW pair, NoteRace(q, pair) PROVE raced' = raced
    BY <2>1 DEF NoteRace
  <2> QED
    BY <2>1 DEF Next, Send, Respond, Remove, Stats, Lists, vars, QueryFails, HandleSend,
       FindUsers, FindExisting, CreateFriendship, HandleRespond, FindRequest,
       UpdateStatus, HandleRemove, FindFriendship, DeleteFriendship, HandleStats,
       CountNext, AnswerStats, HandleLists, GetPendingRequests, GetFriends, AnswerLists
<1>3. RaceInv /\ raced = {} => NoDuplicates
  BY DEF RaceInv, DuplicatesAreRaces, NoDuplicates
<1> QED
  BY <1>1, <1>2, <1>3, PTL DEF Spec

=============================================================================
