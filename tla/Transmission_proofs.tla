------------------------- MODULE Transmission_proofs -------------------------
(***************************************************************************)
(* What the transmission coordinator guarantees for every number of users, *)
(* rooms, sockets and concurrent start calls.                              *)
(***************************************************************************)
EXTENDS Transmission, TLAPS

USE DEF Transmission, NotLive, Idle, InFlight, CallInFlight, Word, Action

LEMMA TypeInit == Init => TypeOK
  BY NoUserAssumption DEF Init, TypeOK

\* Telling a set of sockets a word keeps the types, and says what each socket was
\* last told and whether it was a member then.
LEMMA TellType ==
  ASSUME NEW S, NEW r \in Room, NEW w \in Word, TypeOK, Tell(S, r, w)
  PROVE  /\ told' \in [Socket -> [Room -> Word]]
         /\ outside' \in [Socket -> SUBSET Room]
         /\ \A s \in Socket, q \in Room :
               /\ told'[s][q] = IF s \in S /\ q = r THEN w ELSE told[s][q]
               /\ q \in outside'[s] <=> IF s \in S /\ q = r THEN s \notin Members(r)
                                        ELSE q \in outside[s]
  BY DEF Tell, TypeOK

LEMMA ControlType ==
  ASSUME NEW S, NEW r \in Room, NEW a \in Action \cup {"missed", "none"},
         TypeOK, SendControl(S, r, a)
  PROVE  /\ control' \in [Socket -> [Room -> Action \cup {"missed", "none"}]]
         /\ \A s \in Socket, q \in Room :
               control'[s][q] = IF s \in S /\ q = r THEN a ELSE control[s][q]
  BY DEF SendControl, TypeOK

LEMMA TypeNext == TypeOK /\ [Next]_vars => TypeOK'
<1> SUFFICES ASSUME TypeOK, [Next]_vars PROVE TypeOK'
  OBVIOUS
<1>1. ASSUME NEW u \in User, NEW r \in Room, CreateRoom(u, r) PROVE TypeOK'
  BY <1>1 DEF CreateRoom, TypeOK
<1>2. ASSUME NEW s \in Socket, NEW u \in User \cup {NoUser}, Connect(s, u) PROVE TypeOK'
  BY <1>2 DEF Connect, TypeOK
<1>3. ASSUME NEW s \in Socket, NEW r \in Room, HandleJoinRoom(s, r) PROVE TypeOK'
  BY <1>3 DEF HandleJoinRoom, TypeOK
<1>4. ASSUME NEW c \in Call, NEW s \in Socket, NEW r \in Room,
             HandleStartTransmission(c, s, r)
      PROVE  TypeOK'
  BY <1>4 DEF HandleStartTransmission, Authenticated, TypeOK
<1>5. ASSUME NEW c \in Call, FindRoom(c) PROVE TypeOK'
  BY <1>5 DEF FindRoom, TypeOK
<1>6. ASSUME NEW c \in Call, FindRoomFails(c) PROVE TypeOK'
  BY <1>6 DEF FindRoomFails, TypeOK
<1>7. ASSUME NEW c \in Call, StartTransmission(c) PROVE TypeOK'
  <2>1. call[c].socket \in Socket /\ call[c].userId \in User /\ call[c].roomId \in Room
    BY <1>7 DEF StartTransmission, TypeOK
  <2>2. told' \in [Socket -> [Room -> Word]] /\ outside' \in [Socket -> SUBSET Room]
    BY <1>7, <2>1, TellType DEF StartTransmission
  <2>3. control' \in [Socket -> [Room -> Action \cup {"missed", "none"}]]
    BY <1>7, <2>1, ControlType DEF StartTransmission
  <2>4. active' \in [Room -> Transmission \cup {NotLive}] /\ clock' \in Nat
    BY <1>7, <2>1 DEF StartTransmission, NewTransmission, TypeOK
  <2>5. casting' \in [Socket -> SUBSET Room] /\ late' \subseteq Room
    BY <1>7, <2>1 DEF StartTransmission, TypeOK
  <2>6. call' \in [Call -> CallInFlight \cup {Idle}]
    BY <1>7 DEF StartTransmission, TypeOK
  <2> QED
    BY <1>7, <2>2, <2>3, <2>4, <2>5, <2>6 DEF StartTransmission, TypeOK
<1>8. ASSUME NEW c \in Call, RejectStart(c) PROVE TypeOK'
  BY <1>8 DEF RejectStart, TypeOK
<1>9. ASSUME NEW s \in Socket, NEW r \in Room, HandleStopTransmission(s, r) PROVE TypeOK'
  <2>1. told' \in [Socket -> [Room -> Word]] /\ outside' \in [Socket -> SUBSET Room]
    BY <1>9, TellType DEF HandleStopTransmission
  <2> QED
    BY <1>9, <2>1 DEF HandleStopTransmission, TypeOK
<1>10. ASSUME NEW s \in Socket, NEW r \in Room, NEW a \in Action, NEW ts \in BOOLEAN,
              HandleBroadcastControl(s, r, a, ts)
       PROVE  TypeOK'
  <2>1. control' \in [Socket -> [Room -> Action \cup {"missed", "none"}]]
    BY <1>10, ControlType DEF HandleBroadcastControl
  <2> QED
    BY <1>10, <2>1 DEF HandleBroadcastControl, TypeOK
<1>11. ASSUME NEW s \in Socket, NEW r \in Room, HandleGetTransmissionStatus(s, r)
       PROVE  TypeOK'
  <2>1. told' \in [Socket -> [Room -> Word]] /\ outside' \in [Socket -> SUBSET Room]
    BY <1>11, TellType DEF HandleGetTransmissionStatus
  <2> QED
    BY <1>11, <2>1 DEF HandleGetTransmissionStatus, TypeOK
<1>12. ASSUME NEW s \in Socket, HandleDisconnect(s) PROVE TypeOK'
  BY <1>12 DEF HandleDisconnect, CleanupTransmissions, TypeOK
<1>13. CASE Restart
  BY <1>13 DEF Restart, TypeOK
<1>14. CASE UNCHANGED vars
  BY <1>14 DEF vars, TypeOK
<1> QED
  BY <1>1, <1>2, <1>3, <1>4, <1>5, <1>6, <1>7, <1>8, <1>9, <1>10, <1>11, <1>12,
     <1>13, <1>14 DEF Next

\* Every variable keeps the shape it has in the code, for all constants.
THEOREM TypeCorrect == Spec => []TypeOK
  BY TypeInit, TypeNext, PTL DEF Spec

-----------------------------------------------------------------------------
(* NeverReplaced needs no more than the type invariant: the only step that
   writes an entry checks the Map in the same step. *)

LEMMA NeverReplacedStep ==
  TypeOK /\ [Next]_vars => \A r \in Room : Live(r) /\ Live(r)' => active'[r] = active[r]
<1> SUFFICES ASSUME TypeOK, [Next]_vars, NEW r \in Room, Live(r), Live(r)'
             PROVE  active'[r] = active[r]
  OBVIOUS
<1>1. ASSUME NEW c \in Call, StartTransmission(c) PROVE active'[r] = active[r]
  <2>1. call[c].roomId # r
    BY <1>1 DEF StartTransmission, MayStart
  <2> QED
    BY <1>1, <2>1 DEF StartTransmission, TypeOK
<1>2. ASSUME NEW s \in Socket, NEW q \in Room, HandleStopTransmission(s, q)
      PROVE  active'[r] = active[r]
  BY <1>2 DEF HandleStopTransmission, TypeOK, Live
<1>3. ASSUME NEW s \in Socket, HandleDisconnect(s) PROVE active'[r] = active[r]
  BY <1>3 DEF HandleDisconnect, CleanupTransmissions, TypeOK, Live
<1>4. CASE Restart
  BY <1>4 DEF Restart, TypeOK, Live
<1>5. CASE UNCHANGED active
  BY <1>5
<1> QED
  BY <1>1, <1>2, <1>3, <1>4, <1>5 DEF Next, vars, CreateRoom, Connect, HandleJoinRoom,
     HandleStartTransmission, FindRoom, FindRoomFails, RejectStart,
     HandleBroadcastControl, HandleGetTransmissionStatus

\* Of any number of concurrent starts for a room at most one takes effect: an
\* entry of the Map is never overwritten while it is there.
THEOREM NoReplacement == Spec => NeverReplaced
  BY TypeInit, TypeNext, NeverReplacedStep, PTL DEF Spec, NeverReplaced

-----------------------------------------------------------------------------
(* OwnerIsHost: the host that a pending start read is still the host when the
   start resumes, because no operation writes hostId of an existing room. *)

RowIsCurrent ==
    \A c \in Call : InFlight(c) /\ call[c].pc = "resume" /\ call[c].hostId # NoUser =>
                     call[c].hostId = host[call[c].roomId]

HostInv == TypeOK /\ RowIsCurrent /\ OwnerIsHost

LEMMA HostInit == Init => HostInv
  BY TypeInit DEF Init, HostInv, RowIsCurrent, OwnerIsHost, Live, TypeOK

LEMMA HostNext == HostInv /\ [Next]_vars => HostInv'
<1> SUFFICES ASSUME HostInv, [Next]_vars PROVE RowIsCurrent' /\ OwnerIsHost'
  BY TypeNext DEF HostInv
<1> USE DEF HostInv
<1>1. ASSUME NEW u \in User, NEW r \in Room, CreateRoom(u, r)
      PROVE  RowIsCurrent' /\ OwnerIsHost'
  <2>1. \A q \in Room : host[q] # NoUser => host'[q] = host[q]
    BY <1>1 DEF CreateRoom, TypeOK
  <2>2. \A q \in Room : Live(q) => host[q] # NoUser
    BY NoUserAssumption DEF OwnerIsHost, TypeOK, Live
  <2>3. active' = active /\ call' = call
    BY <1>1 DEF CreateRoom
  <2>4. RowIsCurrent'
    BY <2>1, <2>3 DEF RowIsCurrent, TypeOK
  <2> QED
    BY <2>1, <2>2, <2>3, <2>4 DEF OwnerIsHost, Live
<1>2. ASSUME NEW c \in Call, NEW s \in Socket, NEW r \in Room,
             HandleStartTransmission(c, s, r)
      PROVE  RowIsCurrent' /\ OwnerIsHost'
  BY <1>2 DEF HandleStartTransmission, RowIsCurrent, OwnerIsHost, Live, TypeOK
<1>3. ASSUME NEW c \in Call, FindRoom(c) PROVE RowIsCurrent' /\ OwnerIsHost'
  BY <1>3 DEF FindRoom, RowIsCurrent, OwnerIsHost, Live, TypeOK
<1>4. ASSUME NEW c \in Call, FindRoomFails(c) \/ RejectStart(c)
      PROVE  RowIsCurrent' /\ OwnerIsHost'
  BY <1>4 DEF FindRoomFails, RejectStart, RowIsCurrent, OwnerIsHost, Live, TypeOK
<1>5. ASSUME NEW c \in Call, StartTransmission(c) PROVE RowIsCurrent' /\ OwnerIsHost'
  <2>1. RowIsCurrent'
    BY <1>5 DEF StartTransmission, RowIsCurrent, TypeOK
  <2>2. call[c].userId = host[call[c].roomId]
    BY <1>5 DEF StartTransmission, MayStart, RowIsCurrent
  <2>3. \A q \in Room : active'[q] = IF q = call[c].roomId
                         THEN [ownerId |-> call[c].userId, startedAt |-> clock + 1]
                         ELSE active[q]
    BY <1>5 DEF StartTransmission, NewTransmission, TypeOK
  <2>4. host' = host
    BY <1>5 DEF StartTransmission
  <2> QED
    BY <2>1, <2>2, <2>3, <2>4 DEF OwnerIsHost, Live
<1>6. ASSUME NEW s \in Socket, NEW r \in Room, HandleStopTransmission(s, r)
      PROVE  RowIsCurrent' /\ OwnerIsHost'
  BY <1>6 DEF HandleStopTransmission, RowIsCurrent, OwnerIsHost, Live, TypeOK
<1>7. ASSUME NEW s \in Socket, HandleDisconnect(s) PROVE RowIsCurrent' /\ OwnerIsHost'
  BY <1>7 DEF HandleDisconnect, CleanupTransmissions, RowIsCurrent, OwnerIsHost, Live, TypeOK
<1>8. CASE Restart
  BY <1>8 DEF Restart, RowIsCurrent, OwnerIsHost, Live, TypeOK
<1>9. CASE UNCHANGED <<host, active, call>>
  BY <1>9 DEF RowIsCurrent, OwnerIsHost, Live
<1> QED
  BY <1>1, <1>2, <1>3, <1>4, <1>5, <1>6, <1>7, <1>8, <1>9 DEF Next, vars, Connect,
     HandleJoinRoom, HandleBroadcastControl, HandleGetTransmissionStatus

\* Only the host of a room ever owns its live transmission, although the host
\* was read before the Map was written and by another step.
THEOREM HostOwns == Spec => []OwnerIsHost
<1>1. HostInv => OwnerIsHost
  BY DEF HostInv
<1> QED
  BY <1>1, HostInit, HostNext, PTL DEF Spec

-----------------------------------------------------------------------------
(* LiveHasCaster: while a call is in flight its slot is not reused, so a
   socket that is still connected when the call resumes is the same
   connection of the same user. *)

CallerIsCurrent ==
    \A c \in Call : InFlight(c) /\ call[c].socket \in online =>
                     user[call[c].socket] = call[c].userId

CasterInv == TypeOK /\ CallerIsCurrent /\ LiveHasCaster

LEMMA CasterInit == Init => CasterInv
  BY TypeInit DEF Init, CasterInv, CallerIsCurrent, LiveHasCaster, Live, TypeOK

LEMMA CasterNext == CasterInv /\ [Next]_vars => CasterInv'
<1> SUFFICES ASSUME CasterInv, [Next]_vars PROVE CallerIsCurrent' /\ LiveHasCaster'
  BY TypeNext DEF CasterInv
<1> USE DEF CasterInv
<1>1. ASSUME NEW s \in Socket, NEW u \in User \cup {NoUser}, Connect(s, u)
      PROVE  CallerIsCurrent' /\ LiveHasCaster'
  <2>1. \A t \in online : t # s /\ t \in online' /\ user'[t] = user[t] /\ casting'[t] = casting[t]
    BY <1>1 DEF Connect, TypeOK
  <2>2. active' = active /\ late' = late
    BY <1>1 DEF Connect
  <2>3. CallerIsCurrent'
    BY <1>1 DEF Connect, CallerIsCurrent, TypeOK
  <2> QED
    BY <2>1, <2>2, <2>3 DEF LiveHasCaster, Live
<1>2. ASSUME NEW c \in Call, NEW s \in Socket, NEW r \in Room,
             HandleStartTransmission(c, s, r)
      PROVE  CallerIsCurrent' /\ LiveHasCaster'
  BY <1>2 DEF HandleStartTransmission, CallerIsCurrent, LiveHasCaster, Live, TypeOK
<1>3. ASSUME NEW c \in Call, FindRoom(c) PROVE CallerIsCurrent' /\ LiveHasCaster'
  BY <1>3 DEF FindRoom, CallerIsCurrent, LiveHasCaster, Live, TypeOK
<1>4. ASSUME NEW c \in Call, FindRoomFails(c) \/ RejectStart(c)
      PROVE  CallerIsCurrent' /\ LiveHasCaster'
  BY <1>4 DEF FindRoomFails, RejectStart, CallerIsCurrent, LiveHasCaster, Live, TypeOK
<1>5. ASSUME NEW c \in Call, StartTransmission(c)
      PROVE  CallerIsCurrent' /\ LiveHasCaster'
  <2> DEFINE s == call[c].socket
  <2> DEFINE q == call[c].roomId
  <2>0. s \in Socket /\ q \in Room
    BY <1>5 DEF StartTransmission, TypeOK
  <2>1. CallerIsCurrent'
    BY <1>5 DEF StartTransmission, CallerIsCurrent, TypeOK
  <2>2. online' = online /\ user' = user
    BY <1>5 DEF StartTransmission
  <2>3. \A r \in Room \ {q} : active'[r] = active[r] /\ (r \in late' <=> r \in late)
    BY <1>5, <2>0 DEF StartTransmission, TypeOK
  <2>4. \A t \in Socket : casting[t] \subseteq casting'[t]
    BY <1>5, <2>0 DEF StartTransmission, TypeOK
  <2>5. q \in casting'[s] /\ active'[q].ownerId = call[c].userId
    BY <1>5, <2>0 DEF StartTransmission, NewTransmission, TypeOK
  <2>6. q \notin late' => s \in online
    BY <1>5, <2>0 DEF StartTransmission, TypeOK
  <2>7. s \in online => user[s] = call[c].userId
    BY <1>5 DEF StartTransmission, CallerIsCurrent
  <2>8. \A r \in Room : Live(r)' /\ r \notin late' =>
           \E t \in online' : user'[t] = active'[r].ownerId /\ r \in casting'[t]
    <3> SUFFICES ASSUME NEW r \in Room, Live(r)', r \notin late'
                 PROVE  \E t \in online' : user'[t] = active'[r].ownerId /\ r \in casting'[t]
      OBVIOUS
    <3>1. CASE r = q
      BY <3>1, <2>2, <2>5, <2>6, <2>7
    <3>2. CASE r # q
      BY <3>2, <2>2, <2>3, <2>4 DEF LiveHasCaster, Live, TypeOK
    <3> QED
      BY <3>1, <3>2
  <2> HIDE DEF s, q
  <2> QED
    BY <2>1, <2>8 DEF LiveHasCaster
<1>6. ASSUME NEW s \in Socket, NEW q \in Room, HandleStopTransmission(s, q)
      PROVE  CallerIsCurrent' /\ LiveHasCaster'
  <2>1. CallerIsCurrent'
    BY <1>6 DEF HandleStopTransmission, CallerIsCurrent
  <2>2. \A r \in Room : Live(r)' => r # q /\ active'[r] = active[r] /\ (r \in late' <=> r \in late)
    BY <1>6 DEF HandleStopTransmission, Live, TypeOK
  <2>3. \A r \in Room \ {q}, t \in Socket : r \in casting[t] => r \in casting'[t]
    BY <1>6 DEF HandleStopTransmission, TypeOK
  <2>4. online' = online /\ user' = user
    BY <1>6 DEF HandleStopTransmission
  <2> QED
    BY <2>1, <2>2, <2>3, <2>4 DEF LiveHasCaster, Live, TypeOK
<1>7. ASSUME NEW s \in Socket, HandleDisconnect(s)
      PROVE  CallerIsCurrent' /\ LiveHasCaster'
  <2>1. \A t \in online' : t \in online /\ t # s /\ user'[t] = user[t] /\ casting'[t] = casting[t]
    BY <1>7 DEF HandleDisconnect, CleanupTransmissions, TypeOK
  <2>2. CallerIsCurrent'
    BY <1>7, <2>1 DEF HandleDisconnect, CleanupTransmissions, CallerIsCurrent, TypeOK
  <2>3. \A r \in Room : Live(r)' => /\ active'[r] = active[r]
                                    /\ active[r].ownerId # user[s]
                                    /\ r \notin late' => r \notin late
    BY <1>7, NoUserAssumption DEF HandleDisconnect, CleanupTransmissions, Owned, Live, TypeOK
  <2>4. \A r \in Room : Live(r) /\ r \notin late /\ active[r].ownerId # user[s] =>
           \E t \in online \ {s} : user[t] = active[r].ownerId /\ r \in casting[t]
    BY DEF LiveHasCaster
  <2>5. online' = online \ {s}
    BY <1>7 DEF HandleDisconnect, CleanupTransmissions
  <2>6. ASSUME NEW r \in Room, Live(r)', r \notin late'
        PROVE  \E t \in online' : user'[t] = active'[r].ownerId /\ r \in casting'[t]
    <3>0. active'[r] = active[r] /\ active[r].ownerId # user[s] /\ r \notin late
      BY <2>3, <2>6
    <3>1. Live(r)
      BY <3>0, <2>6 DEF Live
    <3>2. PICK t \in online \ {s} : user[t] = active[r].ownerId /\ r \in casting[t]
      BY <3>0, <3>1, <2>4
    <3> QED
      BY <3>0, <3>2, <2>1, <2>5
  <2> QED
    BY <2>2, <2>6 DEF LiveHasCaster
<1>8. CASE Restart
  BY <1>8 DEF Restart, CallerIsCurrent, LiveHasCaster, Live, TypeOK
<1>9. CASE UNCHANGED <<online, user, casting, active, call, late>>
  BY <1>9 DEF CallerIsCurrent, LiveHasCaster, Live
<1> QED
  BY <1>1, <1>2, <1>3, <1>4, <1>5, <1>6, <1>7, <1>8, <1>9 DEF Next, vars, CreateRoom,
     HandleJoinRoom, HandleBroadcastControl, HandleGetTransmissionStatus

\* The only live transmissions whose starting user is gone are those entered by
\* a start that resumed after its socket closed.
THEOREM CasterStays == Spec => []LiveHasCaster
<1>1. CasterInv => LiveHasCaster
  BY DEF CasterInv
<1> QED
  BY <1>1, CasterInit, CasterNext, PTL DEF Spec

-----------------------------------------------------------------------------
(* WordIsTrue: every change of the Map is told to the whole room in the step
   that makes it, and a closed connection has left its rooms.  Joining makes a
   member of a socket that was sent a word before, so the invariant keeps apart
   what reached a socket outside the room. *)

\* A socket outside a room was sent nothing about it but as an outsider.
HeardOutside ==
    \A s \in Socket, r \in Room :
        r \notin joined[s] /\ r \notin outside[s] => told[s][r] = "nothing"

WordInv ==
    /\ TypeOK
    /\ \A s \in Socket \ online : joined[s] = {}
    /\ HeardOutside
    /\ WordIsTrue

LEMMA WordInit == Init => WordInv
  BY TypeInit DEF Init, WordInv, HeardOutside, WordIsTrue, Members, TypeOK

\* Telling a word that is true to all members and any other sockets, while no
\* other room's entry changes, keeps the invariant.
LEMMA TellTrue ==
  ASSUME WordInv, NEW q \in Room, NEW S, NEW w \in {"started", "stopped"},
         Tell(S, q, w), w = "started" <=> Live(q)',
         Members(q) \subseteq S \/ active' = active,
         \A r \in Room \ {q} : active'[r] = active[r],
         UNCHANGED <<online, joined>>
  PROVE  HeardOutside' /\ WordIsTrue'
<1> USE DEF WordInv
<1>1. \A s \in Socket, r \in Room :
         /\ told'[s][r] = IF s \in S /\ r = q THEN w ELSE told[s][r]
         /\ r \in outside'[s] <=> IF s \in S /\ r = q THEN s \notin Members(q)
                                  ELSE r \in outside[s]
  BY TellType
<1>2. \A r \in Room : Members(r)' = Members(r) /\ Members(r) \subseteq Socket
  BY DEF Members, TypeOK
<1>3. HeardOutside'
  BY <1>1 DEF HeardOutside, Members
<1>4. ASSUME NEW r \in Room, NEW s \in Members(r), r \notin outside'[s]
      PROVE  /\ told'[s][r] = "started" => Live(r)'
             /\ told'[s][r] = "stopped" => ~Live(r)'
  <2>1. CASE s \in S /\ r = q
    BY <2>1, <1>1, <1>2
  <2>2. CASE ~(s \in S /\ r = q)
    <3>1. told'[s][r] = told[s][r] /\ r \notin outside[s]
      BY <2>2, <1>1, <1>2, <1>4
    <3>2. active'[r] = active[r]
      BY <2>2
    <3> QED
      BY <3>1, <3>2 DEF WordIsTrue, Live
  <2> QED
    BY <2>1, <2>2
<1> QED
  BY <1>2, <1>3, <1>4 DEF WordIsTrue

LEMMA WordNext == WordInv /\ [Next]_vars => WordInv'
<1> SUFFICES ASSUME WordInv, [Next]_vars
             PROVE  /\ (\A s \in Socket \ online : joined[s] = {})'
                    /\ HeardOutside' /\ WordIsTrue'
  BY TypeNext DEF WordInv
<1> USE DEF WordInv
<1> DEFINE Left == \A s \in Socket \ online : joined[s] = {}
<1>1. ASSUME NEW s \in Socket, NEW u \in User \cup {NoUser}, Connect(s, u)
      PROVE  Left' /\ HeardOutside' /\ WordIsTrue'
  <2>1. \A r \in Room : Members(r)' = Members(r)
    BY <1>1 DEF Connect, Members, TypeOK
  <2> QED
    BY <1>1, <2>1 DEF Connect, HeardOutside, WordIsTrue, Live
<1>2. ASSUME NEW t \in Socket, NEW q \in Room, HandleJoinRoom(t, q)
      PROVE  Left' /\ HeardOutside' /\ WordIsTrue'
  <2>1. /\ active' = active /\ told' = told /\ outside' = outside
        /\ q \notin joined[t] /\ t \in online
    BY <1>2 DEF HandleJoinRoom
  <2>2. \A s \in Socket, r \in Room : r \in joined'[s] <=> r \in joined[s] \/ (s = t /\ r = q)
    BY <1>2 DEF HandleJoinRoom, TypeOK
  <2>3. \A r \in Room : \A s \in Members(r)' : s \in Socket /\ (s \in Members(r) \/ (s = t /\ r = q))
    BY <1>2, <2>2 DEF HandleJoinRoom, Members, TypeOK
  <2>4. q \notin outside[t] => told[t][q] = "nothing"
    BY <2>1 DEF HeardOutside
  <2>5. Left'
    BY <1>2 DEF HandleJoinRoom, TypeOK
  <2>6. HeardOutside'
    BY <2>1, <2>2 DEF HeardOutside
  <2>7. WordIsTrue'
    BY <2>1, <2>3, <2>4 DEF WordIsTrue, Live
  <2> QED
    BY <2>5, <2>6, <2>7
<1>3. ASSUME NEW c \in Call, StartTransmission(c)
      PROVE  Left' /\ HeardOutside' /\ WordIsTrue'
  <2>1. PICK q \in Room, u \in User : q = call[c].roomId /\ u = call[c].userId
    BY <1>3 DEF StartTransmission, TypeOK
  <2>2. active'[q].ownerId = u /\ \A r \in Room \ {q} : active'[r] = active[r]
    BY <1>3, <2>1 DEF StartTransmission, NewTransmission, TypeOK
  <2>3. Live(q)'
    BY <2>2, NoUserAssumption DEF Live
  <2>4. PICK S : Tell(S, q, "started") /\ Members(q) \subseteq S
    BY <1>3, <2>1 DEF StartTransmission, RoomAudience
  <2>5. UNCHANGED <<online, joined>>
    BY <1>3 DEF StartTransmission
  <2> QED
    BY <2>2, <2>3, <2>4, <2>5, TellTrue
<1>4. ASSUME NEW t \in Socket, NEW q \in Room, HandleStopTransmission(t, q)
      PROVE  Left' /\ HeardOutside' /\ WordIsTrue'
  <2>1. ~Live(q)' /\ \A r \in Room \ {q} : active'[r] = active[r]
    BY <1>4 DEF HandleStopTransmission, Live, TypeOK
  <2>2. PICK S : Tell(S, q, "stopped") /\ Members(q) \subseteq S
    BY <1>4 DEF HandleStopTransmission, RoomAudience
  <2>3. UNCHANGED <<online, joined>>
    BY <1>4 DEF HandleStopTransmission
  <2> QED
    BY <2>1, <2>2, <2>3, TellTrue
<1>5. ASSUME NEW t \in Socket, NEW q \in Room, HandleGetTransmissionStatus(t, q)
      PROVE  Left' /\ HeardOutside' /\ WordIsTrue'
  <2>1. PICK w \in {"started", "stopped"} : Tell({t}, q, w) /\ (w = "started" <=> Live(q))
    BY <1>5 DEF HandleGetTransmissionStatus
  <2>2. UNCHANGED <<online, joined, active>>
    BY <1>5 DEF HandleGetTransmissionStatus
  <2>3. Live(q)' <=> Live(q)
    BY <2>2 DEF Live
  <2> QED
    BY <2>1, <2>2, <2>3, TellTrue
<1>6. ASSUME NEW t \in Socket, HandleDisconnect(t)
      PROVE  Left' /\ HeardOutside' /\ WordIsTrue'
  <2>1. Left'
    BY <1>6 DEF HandleDisconnect, CleanupTransmissions, TypeOK
  <2>2. \A r \in Room : /\ Members(r)' = Members(r) \ {t}
                        /\ Members(r) \subseteq Socket
    BY <1>6 DEF HandleDisconnect, CleanupTransmissions, Members, TypeOK
  <2>3. \A r \in Owned(user[t]) : ~Live(r)'
    BY <1>6 DEF HandleDisconnect, CleanupTransmissions, Owned, Live, TypeOK
  <2>4. \A r \in Room \ Owned(user[t]) : active'[r] = active[r]
    BY <1>6 DEF HandleDisconnect, CleanupTransmissions, TypeOK
  <2>5. \A s \in Socket \ {t}, r \in Room :
           told'[s][r] = IF r \in Owned(user[t]) /\ s \in Members(r)
                         THEN "stopped" ELSE told[s][r]
    BY <1>6 DEF HandleDisconnect, CleanupTransmissions, RoomAudience
  <2>6. \A s \in Socket \ {t}, r \in Room :
           r \in outside[s] => r \in outside'[s] \/ (r \in Owned(user[t]) /\ s \in Members(r))
    BY <1>6 DEF HandleDisconnect, CleanupTransmissions, RoomAudience
  <2>7. WordIsTrue'
    BY <2>2, <2>3, <2>4, <2>5, <2>6 DEF WordIsTrue, Live
  <2>8. /\ \A r \in Room : told'[t][r] = "nothing"
        /\ \A s \in Socket \ {t} : joined'[s] = joined[s]
    BY <1>6 DEF HandleDisconnect, CleanupTransmissions, TypeOK
  <2>9. HeardOutside'
    BY <2>5, <2>6, <2>8 DEF HeardOutside, Members
  <2> QED
    BY <2>1, <2>7, <2>9
<1>7. CASE Restart
  BY <1>7 DEF Restart, HeardOutside, WordIsTrue, Members, TypeOK
<1>8. CASE UNCHANGED <<online, joined, active, told, outside>>
  BY <1>8 DEF HeardOutside, WordIsTrue, Members, Live
<1> QED
  BY <1>1, <1>2, <1>3, <1>4, <1>5, <1>6, <1>7, <1>8 DEF Next, vars, CreateRoom,
     HandleStartTransmission, FindRoom, FindRoomFails, RejectStart, HandleBroadcastControl

\* What a member was told as a member is never contradicted by the Map, whatever
\* the number of sockets and concurrent starts.  A word sent before it joined is
\* the only one that can be false.
THEOREM MembersHearTruth == Spec => []WordIsTrue
<1>1. WordInv => WordIsTrue
  BY DEF WordInv
<1> QED
  BY <1>1, WordInit, WordNext, PTL DEF Spec

-----------------------------------------------------------------------------
(* SameControls: a control, or the start that clears it, reaches every member
   in one step. *)

\* A socket outside a room was sent no control of it.
OnlyMembersHear ==
    \A s \in Socket, r \in Room : r \notin joined[s] => control[s][r] = "missed"

ControlInv ==
    /\ TypeOK
    /\ \A s \in Socket \ online : joined[s] = {}
    /\ OnlyMembersHear
    /\ SameControls

LEMMA ControlInit == Init => ControlInv
  BY TypeInit DEF Init, ControlInv, OnlyMembersHear, SameControls, Members, TypeOK

\* A value sent to all members of one room leaves them in agreement.
LEMMA SendAgrees ==
  ASSUME ControlInv, NEW q \in Room, NEW a \in Action \cup {"none"},
         SendControl(Members(q), q, a),
         UNCHANGED <<online, joined>>
  PROVE  OnlyMembersHear' /\ SameControls'
<1>1. \A s \in Socket, r \in Room :
         control'[s][r] = IF s \in Members(q) /\ r = q THEN a ELSE control[s][r]
  BY ControlType DEF ControlInv
<1>2. \A r \in Room : Members(r)' = Members(r) /\ Members(r) \subseteq Socket
  BY DEF ControlInv, Members, TypeOK
<1>3. OnlyMembersHear'
  BY <1>1 DEF ControlInv, OnlyMembersHear, Members
<1> QED
  BY <1>1, <1>2, <1>3 DEF ControlInv, SameControls

LEMMA ControlNext == ControlInv /\ [Next]_vars => ControlInv'
<1> SUFFICES ASSUME ControlInv, [Next]_vars
             PROVE  /\ (\A s \in Socket \ online : joined[s] = {})'
                    /\ OnlyMembersHear' /\ SameControls'
  BY TypeNext DEF ControlInv
<1> DEFINE Left == \A s \in Socket \ online : joined[s] = {}
<1>1. ASSUME NEW s \in Socket, NEW u \in User \cup {NoUser}, Connect(s, u)
      PROVE  Left' /\ OnlyMembersHear' /\ SameControls'
  <2>1. \A r \in Room : Members(r)' = Members(r)
    BY <1>1 DEF Connect, Members, ControlInv, TypeOK
  <2> QED
    BY <1>1, <2>1 DEF Connect, ControlInv, OnlyMembersHear, SameControls
<1>2. ASSUME NEW t \in Socket, NEW q \in Room, HandleJoinRoom(t, q)
      PROVE  Left' /\ OnlyMembersHear' /\ SameControls'
  <2>1. control' = control /\ control[t][q] = "missed"
    BY <1>2 DEF HandleJoinRoom, ControlInv, OnlyMembersHear
  <2>2. \A r \in Room, s \in Socket :
           s \in Members(r)' => s \in Members(r) \/ (s = t /\ r = q)
    BY <1>2 DEF HandleJoinRoom, Members, ControlInv, TypeOK
  <2>3. \A r \in Room : Members(r)' \subseteq Socket
    BY <1>2 DEF HandleJoinRoom, Members, ControlInv, TypeOK
  <2>4. Left' /\ OnlyMembersHear'
    BY <1>2 DEF HandleJoinRoom, ControlInv, OnlyMembersHear, TypeOK
  <2> QED
    BY <2>1, <2>2, <2>3, <2>4 DEF ControlInv, SameControls
<1>3. ASSUME NEW c \in Call, StartTransmission(c) PROVE Left' /\ OnlyMembersHear' /\ SameControls'
  <2>1. /\ SendControl(Members(call[c].roomId), call[c].roomId, "none")
        /\ call[c].roomId \in Room
        /\ UNCHANGED <<online, joined>>
    BY <1>3 DEF StartTransmission, RoomAudience, ControlInv, TypeOK
  <2> QED
    BY <1>3, <2>1, SendAgrees DEF StartTransmission, ControlInv
<1>4. ASSUME NEW t \in Socket, NEW q \in Room, NEW a \in Action, NEW ts \in BOOLEAN,
             HandleBroadcastControl(t, q, a, ts)
      PROVE  Left' /\ OnlyMembersHear' /\ SameControls'
  <2>1. SendControl(Members(q), q, a) /\ UNCHANGED <<online, joined>>
    BY <1>4 DEF HandleBroadcastControl, ControlAudience
  <2> QED
    BY <1>4, <2>1, SendAgrees DEF HandleBroadcastControl, ControlInv
<1>5. ASSUME NEW t \in Socket, HandleDisconnect(t) PROVE Left' /\ OnlyMembersHear' /\ SameControls'
  <2>1. \A r \in Room : Members(r)' = Members(r) \ {t}
    BY <1>5 DEF HandleDisconnect, CleanupTransmissions, Members, ControlInv, TypeOK
  <2>2. \A s \in Socket \ {t} : control'[s] = control[s]
    BY <1>5 DEF HandleDisconnect, CleanupTransmissions, ControlInv, TypeOK
  <2>3. Left' /\ \A r \in Room : Members(r) \subseteq Socket
    BY <1>5 DEF HandleDisconnect, CleanupTransmissions, Members, ControlInv, TypeOK
  <2>4. OnlyMembersHear'
    BY <1>5, <2>2 DEF HandleDisconnect, CleanupTransmissions, ControlInv, OnlyMembersHear, TypeOK
  <2> QED
    BY <2>1, <2>2, <2>3, <2>4 DEF ControlInv, SameControls
<1>6. CASE Restart
  BY <1>6 DEF Restart, OnlyMembersHear, SameControls, Members
<1>7. CASE UNCHANGED <<online, joined, control>>
  BY <1>7 DEF ControlInv, OnlyMembersHear, SameControls, Members
<1> QED
  BY <1>1, <1>2, <1>3, <1>4, <1>5, <1>6, <1>7 DEF Next, vars, CreateRoom,
     HandleStartTransmission, FindRoom, FindRoomFails, RejectStart,
     HandleStopTransmission, HandleGetTransmissionStatus

\* However many members a room has, those that follow its transmission agree on
\* the last playback control.
THEOREM ControlsAgree == Spec => []SameControls
<1>1. ControlInv => SameControls
  BY DEF ControlInv
<1> QED
  BY <1>1, ControlInit, ControlNext, PTL DEF Spec

-----------------------------------------------------------------------------
(* Every step of the service is a step of the room slots or changes nothing of
   them. *)

LEMMA SlotsInit == Init => Slots!Init
  BY DEF Init, Slots!Init, Slots!Free

LEMMA SlotsNext == HostInv /\ [Next]_vars => [Slots!Next]_(Slots!vars)
<1> SUFFICES ASSUME HostInv, [Next]_vars PROVE [Slots!Next]_(Slots!vars)
  OBVIOUS
<1> USE DEF HostInv
<1>0. NotLive = Slots!Free
  BY DEF Slots!Free
<1>1. ASSUME NEW u \in User, NEW r \in Room, CreateRoom(u, r) PROVE Slots!Next
  BY <1>1 DEF CreateRoom, Slots!Next, Slots!Create
<1>2. ASSUME NEW c \in Call, StartTransmission(c) PROVE Slots!Next
  <2> DEFINE q == call[c].roomId
  <2> DEFINE t == [ownerId |-> call[c].userId, startedAt |-> clock + 1]
  <2>1. q \in Room /\ clock + 1 \in Nat
    BY <1>2 DEF StartTransmission, TypeOK
  <2>2. /\ host[q] # NoUser /\ call[c].userId = host[q]
    BY <1>2 DEF StartTransmission, MayStart, RowIsCurrent
  <2>3. active[q] = NotLive
    BY <1>2 DEF StartTransmission, MayStart, Live
  <2>4. active' = [active EXCEPT ![q] = t] /\ host' = host
    BY <1>2 DEF StartTransmission, NewTransmission
  <2>5. active'[q] = t
    BY <2>1, <2>4 DEF TypeOK
  <2>6. t \in [ownerId : {host[q]}, startedAt : Nat]
    BY <2>1, <2>2
  <2>7. active' = [active EXCEPT ![q] = t] /\ active'[q] = t
    BY <2>4, <2>5
  <2> HIDE DEF q, t
  <2> QED
    BY <1>0, <2>1, <2>2, <2>3, <2>4, <2>6, <2>7 DEF Slots!Next, Slots!Take
<1>3. ASSUME NEW s \in Socket, NEW r \in Room, HandleStopTransmission(s, r)
      PROVE  Slots!Next
  BY <1>3, <1>0 DEF HandleStopTransmission, Slots!Next, Slots!Release
<1>4. ASSUME NEW s \in Socket, HandleDisconnect(s)
      PROVE  Slots!Next \/ UNCHANGED Slots!vars
  <2>1. /\ host' = host
        /\ active' = [r \in Room |-> IF r \in Owned(user[s]) THEN NotLive ELSE active[r]]
    BY <1>4 DEF HandleDisconnect, CleanupTransmissions
  <2>2. CASE user[s] = NoUser
    <3>1. \A r \in Room : active'[r] = active[r]
      BY <2>1, <2>2 DEF Owned
    <3>2. active' = active
      BY <2>1, <3>1 DEF TypeOK
    <3> QED
      BY <2>1, <3>2 DEF Slots!vars
  <2>3. CASE user[s] # NoUser
    <3>1. user[s] \in User
      BY <2>3 DEF TypeOK
    <3>2. \A r \in Room : r \in Owned(user[s]) <=> active[r].ownerId = user[s]
      BY <2>3 DEF Owned, Live
    <3>3. active' = [r \in Room |-> IF active[r].ownerId = user[s] THEN NotLive ELSE active[r]]
      BY <2>1, <3>2
    <3> QED
      BY <1>0, <2>1, <3>1, <3>3 DEF Slots!Next, Slots!ReleaseAllOf
  <2> QED
    BY <2>2, <2>3
<1>5. CASE Restart
  BY <1>0, <1>5 DEF Restart, Slots!Next, Slots!Reset
<1>6. CASE UNCHANGED <<host, active>>
  BY <1>6 DEF Slots!vars
<1> QED
  BY <1>1, <1>2, <1>3, <1>4, <1>5, <1>6 DEF Next, vars, Connect, HandleJoinRoom,
     HandleStartTransmission, FindRoom, FindRoomFails, RejectStart,
     HandleBroadcastControl, HandleGetTransmissionStatus

\* The transmission service implements the room slots for all constants.
THEOREM Refinement == Spec => ImplementsSlots
  BY HostInit, HostNext, SlotsInit, SlotsNext, PTL DEF Spec, ImplementsSlots, Slots!Spec

=============================================================================
