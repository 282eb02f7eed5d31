--------------------------- MODULE Messages_proofs ---------------------------
(***************************************************************************)
(* What chat and direct messages guarantee for every number of users,      *)
(* rooms, sockets and messages in flight.                                  *)
(***************************************************************************)
EXTENDS Messages, TLAPS

\* A message somebody has taken on: it is neither unsent nor refused.
Taken(m) == msg[m] \in ChatMessage \cup DirectMessage

LEMMA Kinds ==
  ASSUME TypeOK, NEW m \in Msg
  PROVE  /\ \A pc \in {"users", "saving", "saved", "sent", "lost"} : At(m, pc) => Taken(m)
         /\ At(m, "users") => msg[m] \in DirectMessage
         /\ msg[m] \in {Unsent, Refused} => ~Taken(m)
         /\ Taken(m) => msg[m].stamp \in Nat /\ msg[m].after \in SUBSET Msg
  BY DEF TypeOK, At, Taken, ChatMessage, DirectMessage, Unsent, Refused

\* A step of one message leaves the others alone and keeps the types.
LEMMA StepTypes ==
  ASSUME TypeOK, NEW m \in Msg, NEW pc, Step(m, pc),
         \/ pc \in {"saving", "saved", "sent", "lost"} /\ Taken(m)
  PROVE  /\ msg' \in [Msg -> ChatMessage \cup DirectMessage \cup {Unsent, Refused}]
         /\ msg' = [msg EXCEPT ![m] = [msg[m] EXCEPT !.pc = pc]]
         /\ Taken(m)' /\ At(m, pc)'
         /\ msg'[m].stamp = msg[m].stamp /\ msg'[m].after = msg[m].after
         /\ msg'[m].to = msg[m].to /\ msg'[m].from = msg[m].from /\ msg'[m].via = msg[m].via
         /\ \A n \in Msg \ {m} : msg'[n] = msg[n]
  BY DEF TypeOK, Step, Taken, At, ChatMessage, DirectMessage

LEMMA RefuseTypes ==
  ASSUME TypeOK, NEW m \in Msg, Refuse(m)
  PROVE  /\ msg' \in [Msg -> ChatMessage \cup DirectMessage \cup {Unsent, Refused}]
         /\ msg'[m] = Refused
         /\ \A n \in Msg \ {m} : msg'[n] = msg[n]
  BY DEF TypeOK, Refuse

LEMMA InsertTypes ==
  ASSUME TypeOK, NEW m \in Msg, NEW pc \in {"saved", "lost"}, Insert(m, pc)
  PROVE  /\ msg' \in [Msg -> ChatMessage \cup DirectMessage \cup {Unsent, Refused}]
         /\ table' = table \cup {m}
         /\ Taken(m)' /\ At(m, pc)'
         /\ msg'[m].stamp \in msg[m].stamp..clock
         /\ msg'[m].after = msg[m].after
         /\ \A n \in Msg \ {m} : msg'[n] = msg[n]
<1>1. Taken(m)
  BY Kinds DEF Insert
<1>2. PICK t \in Stamps(m) : msg' = [msg EXCEPT ![m].pc = pc, ![m].stamp = t]
  BY DEF Insert
<1>3. t \in Nat /\ t \in msg[m].stamp..clock
  BY <1>1, <1>2, Kinds DEF Stamps, TypeOK
<1>4. msg'[m] = [msg[m] EXCEPT !.pc = pc, !.stamp = t] /\ \A n \in Msg \ {m} : msg'[n] = msg[n]
  BY <1>2 DEF TypeOK
<1>5. /\ msg'[m] \in ChatMessage \cup DirectMessage
      /\ msg'[m].pc = pc /\ msg'[m].stamp = t /\ msg'[m].after = msg[m].after
  BY <1>1, <1>3, <1>4 DEF Taken, ChatMessage, DirectMessage
<1> QED
  BY <1>2, <1>3, <1>4, <1>5 DEF Insert, TypeOK, Taken, At

LEMMA BeginTypes ==
  ASSUME TypeOK, NEW m \in Msg, NEW pc, NEW via, NEW u, NEW to, Begin(m, pc, via, u, to),
         \/ pc = "saving" /\ via = "socket" /\ u = None /\ to \in Room
         \/ pc = "users" /\ via \in {"socket", "http"} /\ u \in Registered /\ to \in User
  PROVE  /\ msg' \in [Msg -> ChatMessage \cup DirectMessage \cup {Unsent, Refused}]
         /\ Taken(m)' /\ At(m, pc)' /\ msg[m] = Unsent
         /\ msg'[m].stamp = clock
         /\ msg'[m].after = {n \in Msg : At(n, "sent")}
         /\ \A n \in Msg \ {m} : msg'[n] = msg[n]
  BY DEF TypeOK, Begin, Taken, At, ChatMessage, DirectMessage, Unsent

\* The three ways a message comes in, as one.
LEMMA Entry ==
  ASSUME TypeOK, NEW m \in Msg, Handle(m)
  PROVE  \E pc, via, u, to :
            /\ Begin(m, pc, via, u, to)
            /\ \/ pc = "saving" /\ via = "socket" /\ u = None /\ to \in Room
               \/ pc = "users" /\ via \in {"socket", "http"} /\ u \in Registered /\ to \in User
  BY DEF TypeOK, Handle, HandleMessage, SendMessage, HandleDm, PostDm, Authenticated

LEMMA TypesInit == Init => TypeOK
  BY NoneAssumption DEF Init, TypeOK, Unsent, NoView

\* Dropping connections keeps their variables well typed.
LEMMA DropTypes ==
  ASSUME TypeOK, NEW S, Drop(S)
  PROVE  /\ online' \subseteq Socket
         /\ user' \in [Socket -> Registered \cup {None}]
         /\ joined' \in [Socket -> SUBSET Place]
         /\ heard' \in [Socket -> SUBSET Msg]
         /\ view' \in [Socket -> View \cup {NoView}]
  BY DEF TypeOK, Drop

LEMMA RestartMsg ==
  ASSUME TypeOK, NEW C, Restart(C)
  PROVE  /\ msg' \in [Msg -> ChatMessage \cup DirectMessage \cup {Unsent, Refused}]
         /\ C \subseteq Msg
         /\ \A m \in Msg :
               \/ /\ m \in C \/ At(m, "saved")
                  /\ At(m, "lost")' /\ Taken(m) /\ Taken(m)'
                  /\ msg'[m].stamp = msg[m].stamp /\ msg'[m].after = msg[m].after
               \/ m \notin C /\ ~At(m, "saved") /\ msg'[m] = Refused /\ ~At(m, "sent") /\ ~At(m, "lost")
               \/ m \notin C /\ ~At(m, "saved") /\ msg'[m] = msg[m]
<1>1. \A m \in Msg : m \in C \/ At(m, "saved") => Taken(m)
  BY Kinds DEF Restart
<1>2. ASSUME NEW m \in Msg, m \in C \/ At(m, "saved")
      PROVE  /\ msg'[m] \in ChatMessage \cup DirectMessage
             /\ msg'[m].pc = "lost"
             /\ msg'[m].stamp = msg[m].stamp /\ msg'[m].after = msg[m].after
  BY <1>1, <1>2 DEF Restart, Taken, ChatMessage, DirectMessage
<1>3. ASSUME NEW m \in Msg, ~(m \in C \/ At(m, "saved"))
      PROVE  \/ msg'[m] = Refused /\ ~At(m, "sent") /\ ~At(m, "lost")
             \/ msg'[m] = msg[m]
  BY <1>3 DEF Restart, At
<1>4. msg' \in [Msg -> ChatMessage \cup DirectMessage \cup {Unsent, Refused}]
  <2>1. \A m \in Msg : msg'[m] \in ChatMessage \cup DirectMessage \cup {Unsent, Refused}
    BY <1>2, <1>3 DEF TypeOK
  <2> QED
    BY <2>1 DEF Restart
<1> QED
  BY <1>1, <1>2, <1>3, <1>4 DEF Restart, At, Taken

LEMMA TypesNext == TypeOK /\ [Next]_vars => TypeOK'
<1> SUFFICES ASSUME TypeOK, [Next]_vars PROVE TypeOK'
  OBVIOUS
<1>1. CASE Tick
  BY <1>1 DEF Tick, TypeOK
<1>2. ASSUME NEW s \in Socket, NEW u \in Registered \cup {None}, Connect(s, u) PROVE TypeOK'
  BY <1>2 DEF Connect, TypeOK
<1>3. ASSUME NEW s \in Socket, NEW p \in Place, HandleJoinRoom(s, p) PROVE TypeOK'
  <2>1. joined[s] \cup {p} \in SUBSET Place
    BY DEF TypeOK
  <2> QED
    BY <1>3, <2>1 DEF HandleJoinRoom, TypeOK
<1>4. ASSUME NEW s \in Socket, NEW p \in Place, Ask(s, p) PROVE TypeOK'
  <2>1. [pc |-> "asked", of |-> p, sure |-> Feed(s, p) \in joined[s], rows |-> {}] \in View
    BY DEF View
  <2> QED
    BY <1>4, <2>1 DEF Ask, TypeOK
<1>5. ASSUME NEW s \in Socket, FindMany(s) PROVE TypeOK'
  <2>1. view[s] \in View
    BY <1>5 DEF FindMany, TypeOK, NoView
  <2>2. \A p \in Place : RoomMessages(p) \in SUBSET Msg /\ Conversation(user[s], p) \in SUBSET Msg
    BY DEF RoomMessages, Conversation, TypeOK
  <2>3. PICK rows \in SUBSET Msg : view' = [view EXCEPT ![s].pc = "read", ![s].rows = rows]
    BY <1>5, <2>1, <2>2 DEF FindMany, View
  <2>4. view'[s] = [view[s] EXCEPT !.pc = "read", !.rows = rows]
        /\ \A t \in Socket \ {s} : view'[t] = view[t]
    BY <2>3 DEF TypeOK
  <2>5. view'[s] \in View
    BY <2>1, <2>4 DEF View
  <2>6. view' \in [Socket -> View \cup {NoView}]
    BY <2>3, <2>4, <2>5 DEF TypeOK
  <2> QED
    BY <1>5, <2>6 DEF FindMany, TypeOK
<1>6. ASSUME NEW s \in Socket, Show(s) PROVE TypeOK'
  <2>1. view[s] \in View
    BY <1>6 DEF Show, TypeOK, NoView
  <2> QED
    BY <1>6, <2>1 DEF Show, TypeOK, View
<1>7. ASSUME NEW s \in Socket, AskFails(s) PROVE TypeOK'
  BY <1>7 DEF AskFails, TypeOK
<1>8. ASSUME NEW s \in Socket, Disconnect(s) PROVE TypeOK'
  BY <1>8, DropTypes DEF Disconnect, TypeOK
<1>9. ASSUME NEW m \in Msg, Handle(m) PROVE TypeOK'
  <2>1. PICK pc, via, u, to :
           /\ Begin(m, pc, via, u, to)
           /\ \/ pc = "saving" /\ via = "socket" /\ u = None /\ to \in Room
              \/ pc = "users" /\ via \in {"socket", "http"} /\ u \in Registered /\ to \in User
    BY <1>9, Entry
  <2>2. msg' \in [Msg -> ChatMessage \cup DirectMessage \cup {Unsent, Refused}]
    BY <2>1, BeginTypes
  <2> QED
    BY <2>1, <2>2 DEF Begin, TypeOK
<1>10. ASSUME NEW m \in Msg, FindUsers(m) PROVE TypeOK'
  BY <1>10, Kinds, StepTypes, RefuseTypes DEF FindUsers, TypeOK
<1>11. ASSUME NEW m \in Msg, Create(m) \/ CreateAnswerLost(m) PROVE TypeOK'
  BY <1>11, InsertTypes DEF Create, CreateAnswerLost, TypeOK
<1>12. ASSUME NEW m \in Msg, QueryFails(m) PROVE TypeOK'
  BY <1>12, RefuseTypes DEF QueryFails, TypeOK
<1>13. ASSUME NEW m \in Msg, Emit(m) PROVE TypeOK'
  BY <1>13, Kinds, StepTypes DEF Emit, Ready, TypeOK
<1>14. ASSUME NEW m \in Msg, AnswerPost(m) PROVE TypeOK'
  BY <1>14, Kinds, StepTypes DEF AnswerPost, Ready, TypeOK
<1>15. ASSUME NEW C \in SUBSET Msg, Restart(C) PROVE TypeOK'
  BY <1>15, RestartMsg, DropTypes DEF Restart, TypeOK
<1>16. CASE UNCHANGED vars
  BY <1>16 DEF vars, TypeOK
<1> QED
  BY <1>1, <1>2, <1>3, <1>4, <1>5, <1>6, <1>7, <1>8, <1>9, <1>10, <1>11, <1>12, <1>13,
     <1>14, <1>15, <1>16 DEF Next, Query

\* Every reachable state is well typed: a direct message has a
\* registered sender, and a chat message goes to a room.
THEOREM TypeCorrect == Spec => []TypeOK
<1> QED
  BY TypesInit, TypesNext, PTL DEF Spec

-----------------------------------------------------------------------------
(* Rows, and the order of their stamps. *)

Settled == {"saved", "sent", "lost"}
Stored == \A m \in Msg : /\ m \in table => msg[m].pc \in Settled
                         /\ At(m, "sent") \/ At(m, "saved") => m \in table
HasRow == \A s \in Socket : heard[s] \subseteq table

\* Later than everything emitted before the request.
Follows(m, n) == n \in Msg /\ At(n, "sent") /\ msg[n].stamp <= msg[m].stamp
Ordered == \A m \in Msg : Taken(m) =>
              /\ msg[m].stamp <= clock
              /\ \A n \in msg[m].after : Follows(m, n)

RowInv == TypeOK /\ Stored /\ HasRow /\ Ordered

LEMMA RowInit == Init => RowInv
  BY TypesInit DEF Init, RowInv, TypeOK, Stored, HasRow, Ordered, At, Taken, Unsent, Settled,
     ChatMessage, DirectMessage

\* An emitted message keeps its record, and a record only grows younger.
LEMMA OrderKept ==
  ASSUME TypeOK, Ordered, NEW m \in Msg,
         Taken(m), Taken(m)', clock' = clock,
         msg'[m].after = msg[m].after, msg'[m].stamp \in msg[m].stamp..clock,
         \A n \in Msg : At(n, "sent") => At(n, "sent")' /\ msg'[n].stamp = msg[n].stamp
  PROVE  /\ msg'[m].stamp <= clock
         /\ \A n \in msg'[m].after : Follows(m, n)'
<1>1. msg[m].stamp \in Nat /\ clock \in Nat /\ msg'[m].stamp \in Nat
      /\ msg[m].stamp <= msg'[m].stamp /\ msg'[m].stamp <= clock
  BY Kinds DEF TypeOK
<1>2. ASSUME NEW n \in msg'[m].after PROVE Follows(m, n)'
  <2>1. n \in Msg /\ At(n, "sent") /\ msg[n].stamp <= msg[m].stamp
    BY <1>2 DEF Ordered, Follows
  <2>2. msg[n].stamp \in Nat
    BY <2>1, Kinds
  <2>3. At(n, "sent")' /\ msg'[n].stamp = msg[n].stamp
    BY <2>1
  <2>4. msg'[n].stamp <= msg'[m].stamp
    BY <1>1, <2>1, <2>2, <2>3
  <2> QED
    BY <2>1, <2>3, <2>4 DEF Follows
<1> QED
  BY <1>1, <1>2

LEMMA RowNext == RowInv /\ [Next]_vars => RowInv'
<1> SUFFICES ASSUME RowInv, [Next]_vars PROVE RowInv'
  OBVIOUS
<1> USE DEF RowInv
<1> TypeOK'
  BY TypesNext
<1>1. ASSUME UNCHANGED <<msg, table, heard>>, clock' \in Nat, clock' >= clock PROVE RowInv'
  <2>1. Stored' /\ HasRow'
    BY <1>1 DEF Stored, HasRow, At
  <2>2. Ordered'
    <3>1. ASSUME NEW m \in Msg, Taken(m)'
          PROVE  msg'[m].stamp <= clock' /\ \A n \in msg'[m].after : Follows(m, n)'
      <4>1. Taken(m) /\ msg[m].stamp <= clock /\ \A n \in msg[m].after : Follows(m, n)
        BY <1>1, <3>1 DEF Taken, Ordered
      <4>2. msg[m].stamp \in Nat /\ clock \in Nat
        BY <4>1, Kinds DEF TypeOK
      <4> QED
        BY <1>1, <4>1, <4>2 DEF Follows, At
    <3> QED
      BY <3>1 DEF Ordered
  <2> QED
    BY <2>1, <2>2
<1>2. ASSUME NEW S, Drop(S), UNCHANGED <<msg, table, clock>> PROVE RowInv'
  <2>1. HasRow'
    BY <1>2 DEF Drop, HasRow, TypeOK
  <2>2. Stored' /\ Ordered'
    BY <1>2 DEF Stored, Ordered, Follows, At, Taken
  <2> QED
    BY <2>1, <2>2
<1>3. ASSUME NEW m \in Msg, Handle(m) PROVE RowInv'
  <2>1. PICK pc, via, u, to :
           /\ Begin(m, pc, via, u, to)
           /\ \/ pc = "saving" /\ via = "socket" /\ u = None /\ to \in Room
              \/ pc = "users" /\ via \in {"socket", "http"} /\ u \in Registered /\ to \in User
    BY <1>3, Entry
  <2>2. /\ At(m, pc)' /\ msg[m] = Unsent
        /\ msg'[m].stamp = clock
        /\ msg'[m].after = {n \in Msg : At(n, "sent")}
        /\ \A n \in Msg \ {m} : msg'[n] = msg[n]
    BY <2>1, BeginTypes
  <2>3. UNCHANGED <<table, heard, clock>>
    BY <2>1 DEF Begin
  <2>4. m \notin table /\ ~Taken(m) /\ ~At(m, "sent")
    BY <2>2, Kinds DEF Stored, Settled, Unsent, At
  <2>5. Stored' /\ HasRow'
    BY <2>1, <2>2, <2>3, <2>4 DEF Stored, HasRow, At
  <2>6. ASSUME NEW k \in Msg, Taken(k)'
        PROVE  msg'[k].stamp <= clock' /\ \A n \in msg'[k].after : Follows(k, n)'
    <3>1. CASE k = m
      <4>1. ASSUME NEW n \in Msg, At(n, "sent") PROVE Follows(m, n)'
        <5>1. n # m /\ msg'[n] = msg[n] /\ msg[n].stamp <= clock
          BY <2>2, <2>4, <4>1, Kinds DEF Ordered
        <5> QED
          BY <2>2, <4>1, <5>1 DEF Follows, At
      <4> QED
        BY <2>2, <2>3, <3>1, <4>1 DEF TypeOK
    <3>2. CASE k # m
      <4>1. Taken(k) /\ msg'[k] = msg[k]
        BY <2>2, <2>6, <3>2 DEF Taken
      <4>2. \A n : Follows(k, n) => n # m /\ msg'[n] = msg[n]
        BY <2>2, <2>4 DEF Follows
      <4> QED
        BY <2>3, <4>1, <4>2 DEF Ordered, Follows, At
    <3> QED
      BY <3>1, <3>2
  <2> QED
    BY <2>5, <2>6 DEF Ordered
\* A message moves on: it keeps its record but for the stage and the stamp.
<1>4. ASSUME NEW m \in Msg, Taken(m), Taken(m)', ~At(m, "sent"), clock' = clock,
             msg'[m].after = msg[m].after, msg'[m].stamp \in msg[m].stamp..clock,
             \A n \in Msg \ {m} : msg'[n] = msg[n]
      PROVE  Ordered'
  <2>1. \A n \in Msg : At(n, "sent") => At(n, "sent")' /\ msg'[n].stamp = msg[n].stamp
    BY <1>4 DEF At
  <2>2. ASSUME NEW k \in Msg, Taken(k)'
        PROVE  msg'[k].stamp <= clock' /\ \A n \in msg'[k].after : Follows(k, n)'
    <3>1. Taken(k) /\ msg'[k].after = msg[k].after
      BY <1>4, <2>2 DEF Taken
    <3>2. msg'[k].stamp \in msg[k].stamp..clock
      <4>1. CASE k = m
        BY <1>4, <4>1
      <4>2. CASE k # m
        BY <1>4, <3>1, <4>2, Kinds DEF Ordered, TypeOK
      <4> QED
        BY <4>1, <4>2
    <3> QED
      BY <1>4, <2>1, <2>2, <3>1, <3>2, OrderKept
  <2> QED
    BY <2>2 DEF Ordered
\* A message is refused.
<1>5. ASSUME NEW m \in Msg, Refuse(m), At(m, "users") \/ At(m, "saving"),
             UNCHANGED <<table, heard, clock>>
      PROVE  RowInv'
  <2>1. msg'[m] = Refused /\ \A n \in Msg \ {m} : msg'[n] = msg[n]
    BY <1>5, RefuseTypes
  <2>2. m \notin table
    BY <1>5 DEF Stored, Settled, At
  <2>3. Stored' /\ HasRow'
    BY <1>5, <2>1, <2>2 DEF Stored, HasRow, At, Refused
  <2>4. ASSUME NEW k \in Msg, Taken(k)'
        PROVE  msg'[k].stamp <= clock' /\ \A n \in msg'[k].after : Follows(k, n)'
    <3>1. k # m
      BY <2>1, <2>4 DEF Taken, Refused, ChatMessage, DirectMessage
    <3>2. Taken(k) /\ msg'[k] = msg[k]
      BY <2>1, <2>4, <3>1 DEF Taken
    <3>3. \A n : Follows(k, n) => n # m /\ msg'[n] = msg[n]
      BY <1>5, <2>1 DEF Follows, At
    <3> QED
      BY <1>5, <3>2, <3>3 DEF Ordered, Follows, At
  <2> QED
    BY <2>3, <2>4 DEF Ordered
<1>6. ASSUME NEW m \in Msg, FindUsers(m) PROVE RowInv'
  <2>1. CASE Refuse(m)
    BY <1>5, <1>6, <2>1 DEF FindUsers
  <2>2. CASE Step(m, "saving")
    <3>1. /\ Taken(m) /\ Taken(m)' /\ At(m, "saving")' /\ m \notin table /\ ~At(m, "sent")
          /\ \A n \in Msg \ {m} : msg'[n] = msg[n]
          /\ msg'[m].after = msg[m].after /\ msg'[m].stamp = msg[m].stamp
      BY <1>6, <2>2, Kinds, StepTypes DEF FindUsers, Stored, Settled, At
    <3>2. msg[m].stamp \in msg[m].stamp..clock
      BY <3>1, Kinds DEF Ordered, TypeOK
    <3>3. Ordered'
      BY <1>4, <1>6, <3>1, <3>2 DEF FindUsers
    <3> QED
      BY <1>6, <3>1, <3>3 DEF FindUsers, Stored, HasRow, At
  <2> QED
    BY <1>6, <2>1, <2>2 DEF FindUsers
<1>7. ASSUME NEW m \in Msg, NEW pc \in {"saved", "lost"}, Insert(m, pc), UNCHANGED <<heard, clock>>
      PROVE  RowInv'
  <2>1. /\ Taken(m) /\ Taken(m)' /\ At(m, pc)' /\ ~At(m, "sent")
        /\ table' = table \cup {m}
        /\ \A n \in Msg \ {m} : msg'[n] = msg[n]
        /\ msg'[m].after = msg[m].after /\ msg'[m].stamp \in msg[m].stamp..clock
    BY <1>7, Kinds, InsertTypes DEF Insert, At
  <2>2. Ordered'
    BY <1>4, <1>7, <2>1
  <2>3. Stored' /\ HasRow'
    BY <1>7, <2>1 DEF Stored, HasRow, At, Settled
  <2> QED
    BY <2>2, <2>3
<1>8. ASSUME NEW m \in Msg, At(m, "saved"), Step(m, "sent"), UNCHANGED <<table, clock>>,
             \A s \in Socket : heard'[s] \subseteq heard[s] \cup {m}
      PROVE  RowInv'
  <2>1. /\ Taken(m) /\ Taken(m)' /\ At(m, "sent")' /\ m \in table /\ ~At(m, "sent")
        /\ \A n \in Msg \ {m} : msg'[n] = msg[n]
        /\ msg'[m].after = msg[m].after /\ msg'[m].stamp = msg[m].stamp
    BY <1>8, Kinds, StepTypes DEF Stored, At
  <2>2. msg[m].stamp \in msg[m].stamp..clock
    BY <2>1, Kinds DEF Ordered, TypeOK
  <2>3. Ordered'
    BY <1>4, <1>8, <2>1, <2>2
  <2>4. Stored' /\ HasRow'
    BY <1>8, <2>1 DEF Stored, HasRow, At, Settled
  <2> QED
    BY <2>3, <2>4
<1>9. ASSUME NEW m \in Msg, Emit(m) \/ AnswerPost(m) PROVE RowInv'
  <2>1. \A s \in Socket : heard'[s] \subseteq heard[s] \cup {m}
    BY <1>9 DEF Emit, AnswerPost, TypeOK
  <2> QED
    BY <1>8, <1>9, <2>1 DEF Emit, AnswerPost, Ready
<1>10. ASSUME NEW C \in SUBSET Msg, Restart(C) PROVE RowInv'
  <2>1. /\ \A s \in Socket : heard'[s] = {}
        /\ table' = table \cup C /\ clock' = clock
        /\ \A m \in C : At(m, "saving")
    BY <1>10 DEF Restart, Drop, TypeOK
  <2>2. ASSUME NEW m \in Msg PROVE /\ m \in table' => msg'[m].pc \in Settled
                                   /\ (At(m, "sent") \/ At(m, "saved"))' => m \in table'
    BY <1>10, <2>1, RestartMsg DEF Stored, Settled, At, Refused
  <2>3. \A n \in Msg : At(n, "sent") => At(n, "sent")' /\ msg'[n].stamp = msg[n].stamp
    BY <1>10, <2>1, RestartMsg DEF At
  <2>4. ASSUME NEW m \in Msg, Taken(m)'
        PROVE  msg'[m].stamp <= clock' /\ \A n \in msg'[m].after : Follows(m, n)'
    <3>1. Taken(m) /\ msg'[m].after = msg[m].after /\ msg'[m].stamp = msg[m].stamp
      BY <1>10, <2>4, RestartMsg DEF Taken, Refused, ChatMessage, DirectMessage
    <3>2. msg'[m].stamp \in msg[m].stamp..clock
      BY <3>1, Kinds DEF Ordered, TypeOK
    <3> QED
      BY <2>1, <2>3, <2>4, <3>1, <3>2, OrderKept
  <2>5. Stored' /\ Ordered' /\ HasRow'
    BY <2>1, <2>2, <2>4 DEF Stored, Ordered, HasRow
  <2> QED
    BY <2>5
<1>11. CASE Tick
  BY <1>1, <1>11 DEF Tick, TypeOK
<1>12. CASE UNCHANGED <<msg, table, heard, clock>>
  BY <1>1, <1>12 DEF TypeOK
<1>13. ASSUME NEW s \in Socket, Disconnect(s) PROVE RowInv'
  BY <1>2, <1>13 DEF Disconnect
<1>14. ASSUME NEW m \in Msg, Query(m) PROVE RowInv'
  BY <1>5, <1>6, <1>7, <1>14 DEF Query, Create, CreateAnswerLost, QueryFails
<1> QED
  BY <1>3, <1>9, <1>10, <1>11, <1>12, <1>13, <1>14
     DEF Next, Connect, HandleJoinRoom, Ask, FindMany, Show, AskFails, vars

THEOREM RowsHold == Spec => []RowInv
<1> QED
  BY RowInit, RowNext, PTL DEF Spec

\* Whatever was heard live is stored: the gateways emit after the insert.
THEOREM HeardStored == Spec => []HeardIsStored
<1>1. RowInv => HeardIsStored
  BY DEF RowInv, HasRow, HeardIsStored
<1> QED
  BY <1>1, RowsHold, PTL

\* Histories keep the order of messages sent one after the other: createdAt
\* of the later one is read after the earlier one was emitted.
THEOREM OrderHolds == Spec => []HistoryKeepsOrder
<1>1. RowInv => HistoryKeepsOrder
  <2> SUFFICES ASSUME RowInv, NEW m \in table, NEW n \in table, n \in msg[m].after
               PROVE  msg[n].stamp <= msg[m].stamp
    BY DEF HistoryKeepsOrder
  <2>1. m \in Msg /\ Taken(m)
    BY Kinds DEF RowInv, Stored, Settled, TypeOK, At
  <2> QED
    BY <2>1 DEF RowInv, Ordered, Follows
<1> QED
  BY <1>1, RowsHold, PTL

-----------------------------------------------------------------------------
(* What a client that joined before it asked knows. *)

\* While it is connected it stays in the feed of what it asked for, and from
\* the moment the history was read it has every message of the feed.
Watches(s) ==
    view[s] # NoView /\ view[s].sure =>
        /\ Feed(s, view[s].of) \in joined[s]
        /\ view[s].pc # "asked" => Followed(s, view[s].of) \subseteq view[s].rows \cup heard[s]
Online == \A s \in Socket \ online : joined[s] = {} /\ view[s] = NoView
WatchInv == Online /\ \A s \in Socket : Watches(s)

LEMMA WatchInit == Init => WatchInv
  BY DEF Init, WatchInv, Watches, Online

\* No new message in the feed of s, nothing s has is taken away.
LEMMA WatchKept ==
  ASSUME WatchInv, NEW s \in Socket, s \in online,
         view'[s] = view[s], user'[s] = user[s], joined[s] \subseteq joined'[s],
         heard[s] \subseteq heard'[s],
         \A m \in Msg : /\ At(m, "sent")' /\ msg'[m].via = "socket"
                        /\ msg'[m].to \in joined[s]
                        => \/ m \in heard'[s]
                           \/ At(m, "sent") /\ msg'[m] = msg[m]
  PROVE  Watches(s)'
<1> SUFFICES ASSUME view[s] # NoView, view[s].sure
             PROVE  /\ (Feed(s, view[s].of) \in joined[s])'
                    /\ view[s].pc # "asked" =>
                         (Followed(s, view[s].of) \subseteq view[s].rows \cup heard[s])'
  BY DEF Watches
<1>1. Feed(s, view[s].of)' = Feed(s, view[s].of) /\ Feed(s, view[s].of) \in joined[s]
  BY DEF Feed, WatchInv, Watches
<1>2. ASSUME view[s].pc # "asked", NEW m \in Followed(s, view[s].of)'
      PROVE  m \in view[s].rows \cup heard'[s]
  <2>1. /\ m \in Msg /\ At(m, "sent")' /\ msg'[m].via = "socket"
        /\ msg'[m].to = Feed(s, view[s].of)
        /\ view[s].of \in Room \/ msg'[m].from = view[s].of
    BY <1>1, <1>2 DEF Followed
  <2>2. CASE m \in heard'[s]
    BY <2>2
  <2>3. CASE At(m, "sent") /\ msg'[m] = msg[m]
    <3>1. m \in Followed(s, view[s].of)
      BY <2>1, <2>3 DEF Followed
    <3>2. Followed(s, view[s].of) \subseteq view[s].rows \cup heard[s]
      BY <1>2 DEF WatchInv, Watches
    <3> QED
      BY <3>1, <3>2
  <2> QED
    BY <1>1, <2>1, <2>2, <2>3
<1> QED
  BY <1>1, <1>2

LEMMA WatchNext == RowInv /\ WatchInv /\ [Next]_vars => WatchInv'
<1> SUFFICES ASSUME RowInv, WatchInv, [Next]_vars PROVE WatchInv'
  OBVIOUS
<1> TypeOK
  BY DEF RowInv
\* Messages change, connections and views do not, and who hears what is new
\* is in the room.
<1>1. ASSUME UNCHANGED <<online, user, joined, view>>,
             \A s \in Socket : heard[s] \subseteq heard'[s],
             \A s \in online, m \in Msg :
                /\ At(m, "sent")' /\ msg'[m].via = "socket" /\ msg'[m].to \in joined[s]
                => m \in heard'[s] \/ (At(m, "sent") /\ msg'[m] = msg[m])
      PROVE  WatchInv'
  <2>1. ASSUME NEW s \in Socket PROVE Watches(s)'
    <3>1. CASE s \in online
      BY <1>1, <3>1, WatchKept
    <3>2. CASE s \notin online
      BY <1>1, <3>2 DEF WatchInv, Online, Watches
    <3> QED
      BY <3>1, <3>2
  <2> QED
    BY <1>1, <2>1 DEF WatchInv, Online
\* Nothing but a step of s's own view, and the messages stay.
<1>2. ASSUME NEW s \in Socket, s \in online,
             UNCHANGED <<online, user, joined, msg, heard>>,
             \A t \in Socket \ {s} : view'[t] = view[t],
             Watches(s)'
      PROVE  WatchInv'
  <2>1. ASSUME NEW t \in Socket \ {s} PROVE Watches(t)'
    <3>1. Followed(t, view[t].of)' = Followed(t, view[t].of) /\ Feed(t, view[t].of)' = Feed(t, view[t].of)
      BY <1>2, <2>1 DEF Followed, Feed, At
    <3> QED
      BY <1>2, <2>1, <3>1 DEF WatchInv, Watches
  <2> QED
    BY <1>2, <2>1 DEF WatchInv, Online
<1>3. ASSUME NEW S, Drop(S),
             \A m \in Msg : At(m, "sent")' => At(m, "sent") /\ msg'[m] = msg[m]
      PROVE  WatchInv'
  <2>1. ASSUME NEW s \in Socket PROVE Watches(s)'
    <3>1. CASE s \in online /\ s \notin S
      BY <1>3, <2>1, <3>1, WatchKept DEF Drop
    <3>2. CASE s \notin online \/ s \in S
      <4>1. view'[s] = NoView
        BY <1>3, <3>2 DEF Drop, WatchInv, Online
      <4> QED
        BY <4>1 DEF Watches
    <3> QED
      BY <3>1, <3>2
  <2>2. Online'
    BY <1>3 DEF Drop, WatchInv, Online
  <2> QED
    BY <2>1, <2>2 DEF WatchInv
<1>4. CASE Tick
  BY <1>1, <1>4 DEF Tick, At
<1>5. ASSUME NEW s \in Socket, NEW u \in Registered \cup {None}, Connect(s, u) PROVE WatchInv'
  <2>1. ASSUME NEW t \in Socket PROVE Watches(t)'
    <3>1. CASE t \in online
      BY <1>5, <3>1, WatchKept DEF Connect, TypeOK, At
    <3>2. CASE t \notin online
      BY <1>5, <3>2 DEF Connect, WatchInv, Online, Watches
    <3> QED
      BY <3>1, <3>2
  <2> QED
    BY <1>5, <2>1 DEF Connect, WatchInv, Online
<1>6. ASSUME NEW s \in Socket, NEW p \in Place, HandleJoinRoom(s, p) PROVE WatchInv'
  <2>1. \A t \in Socket : joined[t] \subseteq joined'[t]
    BY <1>6 DEF HandleJoinRoom, TypeOK
  <2>2. ASSUME NEW t \in Socket PROVE Watches(t)'
    <3>1. CASE t \in online
      BY <1>6, <2>1, <3>1, WatchKept DEF HandleJoinRoom, At
    <3>2. CASE t \notin online
      BY <1>6, <3>2 DEF HandleJoinRoom, WatchInv, Online, Watches
    <3> QED
      BY <3>1, <3>2
  <2> QED
    BY <1>6, <2>2 DEF HandleJoinRoom, WatchInv, Online, TypeOK
<1>7. ASSUME NEW s \in Socket, NEW p \in Place, Ask(s, p) PROVE WatchInv'
  <2>1. view'[s] = [pc |-> "asked", of |-> p, sure |-> Feed(s, p) \in joined[s], rows |-> {}]
        /\ \A t \in Socket \ {s} : view'[t] = view[t]
    BY <1>7 DEF Ask, TypeOK
  <2> DEFINE sure == Feed(s, p) \in joined[s]
  <2>2. view'[s].pc = "asked" /\ view'[s].of = p /\ view'[s].sure = sure
    BY <2>1
  <2>3. Feed(s, p)' = Feed(s, p) /\ joined' = joined
    BY <1>7 DEF Ask, Feed
  <2>4. Watches(s)'
    BY <2>2, <2>3, Zenon DEF Watches
  <2> QED
    BY <1>2, <1>7, <2>1, <2>4 DEF Ask
<1>8. ASSUME NEW s \in Socket, FindMany(s) PROVE WatchInv'
  <2>1. view[s] \in View /\ s \in online
    BY <1>8 DEF FindMany, TypeOK, NoView, WatchInv, Online
  <2> DEFINE p == view[s].of
             rows == IF p \in Room THEN RoomMessages(p) ELSE Conversation(user[s], p)
  <2>2. /\ view'[s] = [view[s] EXCEPT !.pc = "read", !.rows = rows]
        /\ \A t \in Socket \ {s} : view'[t] = view[t]
    BY <1>8 DEF FindMany, TypeOK
  <2>3. view'[s].of = p /\ view'[s].sure = view[s].sure /\ view'[s].rows = rows
    BY <2>1, <2>2 DEF View
  <2>4. Followed(s, p) \subseteq rows
    <3> SUFFICES ASSUME NEW m \in Followed(s, p) PROVE m \in rows
      OBVIOUS
    <3>1. m \in table /\ msg[m].to = Feed(s, p) /\ (p \in Room \/ msg[m].from = p)
      BY DEF RowInv, Stored, Followed
    <3> QED
      BY <3>1 DEF Feed, RoomMessages, Conversation
  <2>5. Followed(s, p)' = Followed(s, p) /\ Feed(s, p)' = Feed(s, p)
    BY <1>8, <2>3 DEF FindMany, Followed, Feed, At
  <2>6. view[s] # NoView
    BY <1>8 DEF FindMany, NoView
  <2>7. Watches(s)'
    BY <1>8, <2>3, <2>4, <2>5, <2>6 DEF FindMany, Watches, WatchInv
  <2> QED
    BY <1>2, <1>8, <2>1, <2>2, <2>7 DEF FindMany
<1>9. ASSUME NEW s \in Socket, Show(s) PROVE WatchInv'
  <2>1. view[s] \in View /\ s \in online /\ view[s] # NoView
    BY <1>9 DEF Show, TypeOK, NoView, WatchInv, Online
  <2>2. /\ view'[s] = [view[s] EXCEPT !.pc = "shown"]
        /\ \A t \in Socket \ {s} : view'[t] = view[t]
    BY <1>9 DEF Show, TypeOK
  <2>3. view'[s].of = view[s].of /\ view'[s].sure = view[s].sure /\ view'[s].rows = view[s].rows
    BY <2>1, <2>2 DEF View
  <2>4. Followed(s, view[s].of)' = Followed(s, view[s].of) /\ Feed(s, view[s].of)' = Feed(s, view[s].of)
    BY <1>9, <2>3 DEF Show, Followed, Feed, At
  <2>5. Watches(s)'
    BY <1>9, <2>1, <2>3, <2>4 DEF Show, Watches, WatchInv
  <2> QED
    BY <1>2, <1>9, <2>1, <2>2, <2>5 DEF Show
<1>10. ASSUME NEW s \in Socket, AskFails(s) PROVE WatchInv'
  <2>1. s \in online /\ view'[s] = NoView /\ \A t \in Socket \ {s} : view'[t] = view[t]
    BY <1>10 DEF AskFails, TypeOK, NoView, WatchInv, Online
  <2>2. Watches(s)'
    BY <2>1 DEF Watches
  <2> QED
    BY <1>2, <1>10, <2>1, <2>2 DEF AskFails
<1>11. ASSUME NEW s \in Socket, Disconnect(s) PROVE WatchInv'
  BY <1>3, <1>11 DEF Disconnect, At
<1>12. ASSUME NEW m \in Msg, Handle(m) PROVE WatchInv'
  <2>1. PICK pc, via, u, to :
           /\ Begin(m, pc, via, u, to)
           /\ \/ pc = "saving" /\ via = "socket" /\ u = None /\ to \in Room
              \/ pc = "users" /\ via \in {"socket", "http"} /\ u \in Registered /\ to \in User
    BY <1>12, Entry
  <2>2. ~At(m, "sent")' /\ \A n \in Msg \ {m} : msg'[n] = msg[n]
    BY <2>1, BeginTypes DEF At
  <2> QED
    BY <1>1, <2>1, <2>2 DEF Begin, At
<1>13. ASSUME NEW m \in Msg, Query(m) PROVE WatchInv'
  <2>1. UNCHANGED <<online, user, joined, heard, view>>
    BY <1>13 DEF Query, FindUsers, Create, CreateAnswerLost, QueryFails
  <2>2. ~At(m, "sent")' /\ \A n \in Msg \ {m} : msg'[n] = msg[n]
    <3>1. CASE Refuse(m)
      BY <3>1, RefuseTypes DEF At, Refused
    <3>2. CASE At(m, "users") /\ Step(m, "saving")
      BY <3>2, Kinds, StepTypes DEF At
    <3>3. CASE Insert(m, "saved") \/ Insert(m, "lost")
      BY <3>3, InsertTypes DEF At
    <3> QED
      BY <1>13, <3>1, <3>2, <3>3 DEF Query, FindUsers, Create, CreateAnswerLost, QueryFails
  <2> QED
    BY <1>1, <2>1, <2>2 DEF At
<1>14. ASSUME NEW m \in Msg, Emit(m) PROVE WatchInv'
  <2>1. msg'[m].to = msg[m].to /\ \A n \in Msg \ {m} : msg'[n] = msg[n]
    BY <1>14, Kinds, StepTypes DEF Emit, Ready
  <2>2. \A s \in Socket : /\ heard[s] \subseteq heard'[s]
                          /\ s \in online /\ msg[m].to \in joined[s] => m \in heard'[s]
    BY <1>14 DEF Emit, Audience, TypeOK
  <2> QED
    BY <1>1, <1>14, <2>1, <2>2 DEF Emit, At, TypeOK
<1>15. ASSUME NEW m \in Msg, AnswerPost(m) PROVE WatchInv'
  <2>1. msg'[m].via = "http" /\ \A n \in Msg \ {m} : msg'[n] = msg[n]
    BY <1>15, Kinds, StepTypes DEF AnswerPost, Ready
  <2> QED
    BY <1>1, <1>15, <2>1 DEF AnswerPost, At
<1>16. ASSUME NEW C \in SUBSET Msg, Restart(C) PROVE WatchInv'
  <2>1. \A m \in Msg : At(m, "sent")' => At(m, "sent") /\ msg'[m] = msg[m]
    BY <1>16, RestartMsg DEF At, Refused
  <2>2. Drop(Socket)
    BY <1>16 DEF Restart
  <2> QED
    BY <1>3, <2>1, <2>2
<1>17. CASE UNCHANGED vars
  BY <1>1, <1>17 DEF vars, At
<1> QED
  BY <1>4, <1>5, <1>6, <1>7, <1>8, <1>9, <1>10, <1>11, <1>12, <1>13, <1>14, <1>15, <1>16,
     <1>17 DEF Next

\* A client that joins and then loads the history misses nothing that is ever
\* emitted, whatever happens between its two requests and the answer.
THEOREM NoneMissed == Spec => []NothingMissed
<1>1. WatchInv => NothingMissed
  BY DEF WatchInv, Watches, NothingMissed, NoView
<1> QED
  BY <1>1, RowsHold, WatchInit, WatchNext, PTL DEF Spec
=============================================================================
