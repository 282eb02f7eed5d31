---------------------------- MODULE Reset_proofs ----------------------------
(***************************************************************************)
(* What the password reset guarantees for every number of emails, uuids    *)
(* and concurrent requests: writes nobody awaits are as good as awaited    *)
(* ones while all commands go over one connection.                         *)
(***************************************************************************)
EXTENDS Reset, TLAPS

\* Stages of a request and the records they have.
LEMMA Kinds ==
  ASSUME TypeOK, NEW q \in Req
  PROVE  /\ req[q] # Idle => req[q] \in Request /\ req[q].uuid \in Uuid
         /\ \A pc : At(q, "verify", pc) => /\ req[q].right \in BOOLEAN
                                           /\ pc \in {"get", "found", "missing"}
         /\ \A op, pc : At(q, op, pc) => op \in {"verify", "reset"}
  BY DEF TypeOK, At, Request, Idle

LEMMA Commands ==
  ASSUME NEW c \in Command
  PROVE  /\ c.uuid \in Uuid /\ c.op \in {"get", "set", "del"}
         /\ c.req \in Req \cup {NoReq}
         /\ c.op = "get" => c.req \in Req
         /\ c.op = "set" => c.req = NoReq
  BY DEF Command

LEMMA Makes ==
  ASSUME NEW q \in Req, NEW u \in Uuid
  PROVE  /\ Get(q, u) \in Command /\ Set(u) \in Command
         /\ Del(q, u) \in Command /\ Del(NoReq, u) \in Command
         /\ Get(q, u).op = "get" /\ Set(u).op = "set" /\ Del(q, u).op = "del" /\ Del(NoReq, u).op = "del"
         /\ Get(q, u).uuid = u /\ Set(u).uuid = u /\ Del(q, u).uuid = u /\ Del(NoReq, u).uuid = u
         /\ Get(q, u).req = q /\ Set(u).req = NoReq /\ Del(q, u).req = q /\ Del(NoReq, u).req = NoReq
  BY DEF Get, Set, Del, Command

\* The head leaves the connection.
LEMMA Popped ==
  ASSUME TypeOK, NEW i \in Position
  PROVE  /\ i = 1 /\ i \in DOMAIN conn /\ conn[1] \in Command
         /\ Without(i) \in Seq(Command)
         /\ DOMAIN Without(i) = 1..(Len(conn) - 1)
         /\ DOMAIN conn = 1..Len(conn) /\ Len(conn) \in Nat
         /\ \A j \in 1..(Len(conn) - 1) : Without(i)[j] = conn[j + 1]
<1>1. i = 1 /\ conn # <<>>
  BY DEF Position
<1>2. conn \in Seq(Command) /\ Len(conn) \in Nat /\ Len(conn) >= 1 /\ DOMAIN conn = 1..Len(conn)
  BY <1>1 DEF TypeOK
<1>3. SubSeq(conn, 1, 0) = <<>>
  BY <1>2
<1>4. SubSeq(conn, 2, Len(conn)) \in Seq(Command)
      /\ Len(SubSeq(conn, 2, Len(conn))) = Len(conn) - 1
      /\ \A j \in 1..(Len(conn) - 1) : SubSeq(conn, 2, Len(conn))[j] = conn[j + 1]
  BY <1>2
<1>5. Without(i) = SubSeq(conn, 2, Len(conn))
  <2>1. \A t \in Seq(Command) : <<>> \o t = t
    OBVIOUS
  <2>2. Without(1) = SubSeq(conn, 1, 0) \o SubSeq(conn, 2, Len(conn))
    BY DEF Without
  <2> QED
    BY <1>1, <1>3, <1>4, <2>1, <2>2
<1>6. \A t \in Seq(Command) : DOMAIN t = 1..Len(t)
  OBVIOUS
<1>7. conn[1] \in Command
  BY <1>2
<1>8. Without(i) \in Seq(Command) /\ Len(Without(i)) = Len(conn) - 1
  BY <1>4, <1>5
<1>9. DOMAIN Without(i) = 1..(Len(conn) - 1)
  BY <1>6, <1>8
<1>10. \A j \in 1..(Len(conn) - 1) : Without(i)[j] = conn[j + 1]
  BY <1>4, <1>5
<1> QED
  BY <1>1, <1>2, <1>7, <1>8, <1>9, <1>10

\* A command is sent.
LEMMA Sent ==
  ASSUME TypeOK, NEW c \in Command
  PROVE  /\ Append(conn, c) = conn \o <<c>>
         /\ Append(conn, c) \in Seq(Command)
         /\ DOMAIN Append(conn, c) = 1..(Len(conn) + 1)
         /\ DOMAIN conn = 1..Len(conn) /\ Len(conn) \in Nat
         /\ Append(conn, c)[Len(conn) + 1] = c
         /\ \A j \in DOMAIN conn : Append(conn, c)[j] = conn[j]
  BY DEF TypeOK

LEMMA SentTwo ==
  ASSUME TypeOK, NEW c \in Command, NEW d \in Command
  PROVE  /\ conn \o <<c, d>> \in Seq(Command)
         /\ DOMAIN (conn \o <<c, d>>) = 1..(Len(conn) + 2)
         /\ DOMAIN conn = 1..Len(conn) /\ Len(conn) \in Nat
         /\ (conn \o <<c, d>>)[Len(conn) + 1] = c
         /\ (conn \o <<c, d>>)[Len(conn) + 2] = d
         /\ \A j \in DOMAIN conn : (conn \o <<c, d>>)[j] = conn[j]
  BY DEF TypeOK

-----------------------------------------------------------------------------
(* Every command awaited has its request, and every uuid in use was drawn. *)

Waits(c) ==
    /\ entry[c.uuid] # NoEntry
    /\ c.req \in Req => req[c.req] # Idle /\ req[c.req].uuid = c.uuid
    /\ c.op = "get" => req[c.req].pc = "get"
    /\ c.op = "del" /\ c.req \in Req => At(c.req, "reset", "del")
Awaited == \A i \in DOMAIN conn : Waits(conn[i])
Apart == \A i, j \in DOMAIN conn : conn[i].req \in Req /\ conn[i].req = conn[j].req => i = j
Drawn == \A q \in Req : req[q] # Idle => entry[req[q].uuid] # NoEntry
TypeInv == TypeOK /\ Awaited /\ Apart /\ Drawn

LEMMA TypeInit == Init => TypeInv
<1>1. \A T : <<>> \in Seq(T)
  OBVIOUS
<1>2. DOMAIN <<>> = {}
  OBVIOUS
<1> QED
  BY <1>1, <1>2 DEF Init, TypeInv, TypeOK, Awaited, Apart, Drawn, Idle

\* A request that waits for nothing has no command on the connection.
LEMMA NoCommand ==
  ASSUME TypeInv, NEW q \in Req, req[q] = Idle \/ req[q].pc \notin {"get", "del"}
  PROVE  \A i \in DOMAIN conn : conn[i].req # q
<1> SUFFICES ASSUME NEW i \in DOMAIN conn, conn[i].req = q PROVE FALSE
  OBVIOUS
<1>1. conn[i] \in Command /\ Waits(conn[i])
  BY DEF TypeInv, TypeOK, Awaited
<1>2. conn[i].op = "get" \/ conn[i].op = "del"
  BY <1>1, Commands, NoReqAssumption
<1> QED
  BY <1>1, <1>2 DEF Waits, At

\* Requests that wait for nothing move on or end, and commands that nobody
\* awaits are sent, if any.
LEMMA AloneStep ==
  ASSUME TypeInv, NEW n \in Nat, req' \in [Req -> Request \cup {Idle}],
         DOMAIN conn' = 1..(Len(conn) + n),
         \A i \in DOMAIN conn : conn'[i] = conn[i],
         \A i \in DOMAIN conn' \ DOMAIN conn :
             conn'[i] \in Command /\ conn'[i].req = NoReq /\ entry'[conn'[i].uuid] # NoEntry,
         \A u \in Uuid : entry[u] # NoEntry => entry'[u] # NoEntry,
         \A p \in Req :
             \/ req'[p] = req[p]
             \/ /\ req[p] # Idle /\ req[p].pc \notin {"get", "del"}
                /\ req'[p] = Idle \/ req'[p].uuid = req[p].uuid
  PROVE  Awaited' /\ Apart' /\ Drawn'
<1>1. DOMAIN conn = 1..Len(conn) /\ Len(conn) \in Nat
  BY DEF TypeInv, TypeOK
<1>2. ASSUME NEW i \in DOMAIN conn, conn[i].req \in Req
      PROVE  req'[conn[i].req] = req[conn[i].req]
  BY <1>2, NoCommand
<1>3. ASSUME NEW i \in DOMAIN conn' PROVE Waits(conn[i])'
  <2>1. CASE i \in DOMAIN conn
    <3>1. conn[i] \in Command /\ Waits(conn[i]) /\ conn'[i] = conn[i]
      BY <2>1 DEF TypeInv, TypeOK, Awaited
    <3> QED
      BY <1>2, <2>1, <3>1, Commands DEF Waits, At
  <2>2. CASE i \notin DOMAIN conn
    BY <2>2, NoReqAssumption, Commands DEF Waits
  <2> QED
    BY <2>1, <2>2
<1>4. Apart'
  <2> SUFFICES ASSUME NEW i \in DOMAIN conn', NEW j \in DOMAIN conn',
                      conn'[i].req \in Req, conn'[i].req = conn'[j].req
               PROVE  i = j
    BY DEF Apart
  <2>1. i \in DOMAIN conn /\ j \in DOMAIN conn
    BY NoReqAssumption
  <2> QED
    BY <2>1 DEF TypeInv, Apart
<1>5. Drawn'
  <2>1. ASSUME NEW p \in Req, req[p] # Idle PROVE req[p].uuid \in Uuid /\ entry[req[p].uuid] # NoEntry
    BY <2>1, Kinds DEF TypeInv, Drawn
  <2> QED
    BY <2>1 DEF Drawn
<1> QED
  BY <1>3, <1>4, <1>5 DEF Awaited

\* The same, and nothing is sent.
LEMMA QuietStep ==
  ASSUME TypeInv, conn' = conn, entry' = entry, req' \in [Req -> Request \cup {Idle}],
         \A p \in Req :
             \/ req'[p] = req[p]
             \/ /\ req[p] # Idle /\ req[p].pc \notin {"get", "del"}
                /\ req'[p] = Idle \/ req'[p].uuid = req[p].uuid
  PROVE  Awaited' /\ Apart' /\ Drawn'
<1>1. DOMAIN conn' = 1..(Len(conn) + 0) /\ 0 \in Nat
  BY DEF TypeInv, TypeOK
<1>2. \A i \in DOMAIN conn : conn'[i] = conn[i]
  OBVIOUS
<1>3. DOMAIN conn' \ DOMAIN conn = {}
  OBVIOUS
<1>4. \A u \in Uuid : entry[u] # NoEntry => entry'[u] # NoEntry
  OBVIOUS
<1> QED
  BY <1>1, <1>2, <1>3, <1>4, AloneStep

\* Such a request sends a command it waits for.
LEMMA SendStep ==
  ASSUME TypeInv, NEW q \in Req, req[q] = Idle \/ req[q].pc \notin {"get", "del"},
         NEW c \in Command, c.req = q, conn' = Append(conn, c),
         entry' = entry, req' \in [Req -> Request \cup {Idle}],
         \A p \in Req \ {q} : req'[p] = req[p],
         req'[q] # Idle, req'[q].uuid = c.uuid, Waits(c)'
  PROVE  Awaited' /\ Apart' /\ Drawn'
<1>1. \A i \in DOMAIN conn : conn[i].req # q
  BY NoCommand
<1>2. /\ DOMAIN conn' = 1..(Len(conn) + 1) /\ DOMAIN conn = 1..Len(conn) /\ Len(conn) \in Nat
      /\ conn'[Len(conn) + 1] = c /\ \A j \in DOMAIN conn : conn'[j] = conn[j]
  BY Sent DEF TypeInv
<1>3. ASSUME NEW i \in DOMAIN conn' PROVE Waits(conn[i])'
  <2>1. CASE i = Len(conn) + 1
    BY <1>2, <2>1
  <2>2. CASE i \in DOMAIN conn
    <3>1. conn[i] \in Command /\ Waits(conn[i]) /\ conn'[i] = conn[i]
      BY <1>2, <2>2 DEF TypeInv, TypeOK, Awaited
    <3>2. conn[i].req \in Req => req'[conn[i].req] = req[conn[i].req]
      BY <1>1, <2>2
    <3> QED
      BY <3>1, <3>2, Commands DEF Waits, At
  <2> QED
    BY <1>2, <1>3, <2>1, <2>2
<1>4. Apart'
  BY <1>1, <1>2 DEF TypeInv, Apart
<1>5. Drawn'
  BY DEF TypeInv, Drawn, Waits
<1> QED
  BY <1>3, <1>4, <1>5 DEF Awaited

\* The head of the connection is executed or fails, and its request, if any,
\* moves on.
LEMMA HeadStep ==
  ASSUME TypeInv, NEW i \in Position, conn' = Without(i), entry' = entry,
         req' \in [Req -> Request \cup {Idle}],
         \A p \in Req : p # conn[i].req => req'[p] = req[p],
         \A p \in Req : req'[p] # Idle => req[p] # Idle /\ req'[p].uuid = req[p].uuid
  PROVE  conn' \in Seq(Command) /\ Awaited' /\ Apart' /\ Drawn'
<1>1. /\ i = 1 /\ i \in DOMAIN conn /\ conn' \in Seq(Command)
      /\ DOMAIN conn' = 1..(Len(conn) - 1)
      /\ DOMAIN conn = 1..Len(conn) /\ Len(conn) \in Nat
      /\ \A j \in DOMAIN conn' : conn'[j] = conn[j + 1]
  BY Popped DEF TypeInv
<1>2. ASSUME NEW j \in DOMAIN conn' PROVE Waits(conn[j])'
  <2>1. j + 1 \in DOMAIN conn /\ j + 1 # i /\ conn'[j] = conn[j + 1]
    BY <1>1, <1>2
  <2>2. conn[j + 1] \in Command /\ Waits(conn[j + 1])
    BY <2>1 DEF TypeInv, TypeOK, Awaited
  <2>3. conn[j + 1].req \in Req => req'[conn[j + 1].req] = req[conn[j + 1].req]
    BY <1>1, <2>1 DEF TypeInv, Apart
  <2> QED
    BY <2>1, <2>2, <2>3, Commands DEF Waits, At
<1>3. Apart'
  <2> SUFFICES ASSUME NEW j \in DOMAIN conn', NEW k \in DOMAIN conn',
                      conn'[j].req \in Req, conn'[j].req = conn'[k].req
               PROVE  j = k
    BY DEF Apart
  <2>1. j + 1 \in DOMAIN conn /\ k + 1 \in DOMAIN conn /\ conn[j + 1].req = conn[k + 1].req
        /\ conn[j + 1].req \in Req
    BY <1>1
  <2>2. j + 1 = k + 1
    BY <2>1 DEF TypeInv, Apart
  <2> QED
    BY <1>1, <2>2
<1>4. Drawn'
  BY DEF TypeInv, Drawn
<1> QED
  BY <1>1, <1>2, <1>3, <1>4 DEF Awaited

-----------------------------------------------------------------------------
LEMMA Vars ==
  ASSUME UNCHANGED vars
  PROVE  conn' = conn /\ entry' = entry /\ cached' = cached /\ snapshot' = snapshot
         /\ req' = req /\ used' = used /\ reused' = reused
         /\ contended' = contended /\ disturbed' = disturbed
  BY DEF vars, redis, history

\* A request ends.
LEMMA Finishes ==
  ASSUME TypeOK, NEW q \in Req, Finish(q)
  PROVE  /\ req' \in [Req -> Request \cup {Idle}] /\ req'[q] = Idle
         /\ \A p \in Req \ {q} : req'[p] = req[p]
  BY DEF TypeOK, Finish

\* A request moves on.
LEMMA Steps ==
  ASSUME TypeOK, NEW q \in Req, NEW pc, req[q] # Idle, Step(q, pc),
         pc \in {"found", "missing"}
         \/ (pc \in {"update", "written", "del"} /\ req[q].op = "reset")
  PROVE  /\ req' \in [Req -> Request \cup {Idle}]
         /\ req'[q] # Idle /\ req'[q].pc = pc
         /\ req'[q].op = req[q].op /\ req'[q].uuid = req[q].uuid
         /\ \A p \in Req \ {q} : req'[p] = req[p]
<1>1. /\ req \in [Req -> Request \cup {Idle}] /\ req[q] \in Request
      /\ req' = [req EXCEPT ![q] = [req[q] EXCEPT !.pc = pc]]
  BY DEF TypeOK, Step
<1>2. /\ [req[q] EXCEPT !.pc = pc] \in Request
      /\ [req[q] EXCEPT !.pc = pc].pc = pc
      /\ [req[q] EXCEPT !.pc = pc].op = req[q].op
      /\ [req[q] EXCEPT !.pc = pc].uuid = req[q].uuid
  BY <1>1 DEF Request
<1>3. \A r \in Request : r # Idle
  BY DEF Request, Idle
<1> QED
  BY <1>1, <1>2, <1>3

LEMMA Drawing ==
  ASSUME TypeOK, NEW u \in Uuid, NEW stage \in {"otp", "open"}, NEW e \in Email, Draw(u, stage, e)
  PROVE  /\ entry' \in [Uuid -> Entry \cup {NoEntry}] /\ entry[u] = NoEntry
         /\ entry'[u] # NoEntry /\ \A v \in Uuid \ {u} : entry'[v] = entry[v]
<1>1. [stage |-> stage, email |-> e] \in Entry /\ [stage |-> stage, email |-> e] # NoEntry
  BY DEF Entry, NoEntry
<1> QED
  BY <1>1 DEF TypeOK, Draw

\* What Next does, by action.
LEMMA NextActions ==
  ASSUME Next
  PROVE  \/ \E u \in Uuid, e \in Email : ResetEmail(u, e)
         \/ \E q \in Req, u \in Uuid, right \in BOOLEAN : HandleVerify(q, u, right)
         \/ \E q \in Req, u \in Uuid : HandleReset(q, u) \/ VerifyOtp(q, u)
         \/ \E q \in Req : \/ WrongOtp(q) \/ InvalidUuid(q) \/ SetPasswordFails(q)
                           \/ Hashed(q) \/ SetPassword(q) \/ SetPasswordAnswerLost(q)
                           \/ DeleteKey(q)
         \/ \E i \in Position : ExecSet(i) \/ ExecDel(i) \/ ExecGet(i) \/ CommandFails(i)
         \/ \E u \in Uuid : Evict(u)
         \/ Save \/ RedisRestart \/ Crash
  BY DEF Next, Handle

LEMMA TypeStep == TypeInv /\ [Next]_vars => TypeInv'
<1> SUFFICES ASSUME TypeInv, [Next]_vars PROVE TypeInv'
  OBVIOUS
<1> USE DEF redis, history
<1>t. TypeOK /\ Awaited /\ Apart /\ Drawn
  BY DEF TypeInv
<1>s. DOMAIN conn = 1..Len(conn) /\ Len(conn) \in Nat
  BY <1>t DEF TypeOK
<1>1. ASSUME NEW u \in Uuid, NEW e \in Email, ResetEmail(u, e) PROVE TypeInv'
  <2>1. /\ entry' \in [Uuid -> Entry \cup {NoEntry}] /\ entry[u] = NoEntry
        /\ entry'[u] # NoEntry /\ \A v \in Uuid \ {u} : entry'[v] = entry[v]
    BY <1>1, <1>t, Drawing DEF ResetEmail
  <2>2. /\ conn' = Append(conn, Set(u)) /\ UNCHANGED <<cached, snapshot, req, history>>
        /\ Set(u) \in Command /\ Set(u).req = NoReq /\ Set(u).uuid = u
    BY <1>1 DEF ResetEmail, Set, Command
  <2>3. /\ conn' \in Seq(Command) /\ DOMAIN conn' = 1..(Len(conn) + 1)
        /\ conn'[Len(conn) + 1] = Set(u) /\ \A i \in DOMAIN conn : conn'[i] = conn[i]
    BY <1>t, <2>2, Sent
  <2>4. TypeOK'
    BY <1>t, <2>1, <2>2, <2>3 DEF TypeOK
  <2>5. \A i \in DOMAIN conn' \ DOMAIN conn : conn'[i] = Set(u)
    BY <1>s, <2>3
  <2>6. req' \in [Req -> Request \cup {Idle}] /\ \A p \in Req : req'[p] = req[p]
    BY <1>t, <2>2 DEF TypeOK
  <2>7. \A v \in Uuid : entry[v] # NoEntry => entry'[v] # NoEntry
    BY <2>1
  <2>8. Awaited' /\ Apart' /\ Drawn'
    BY <2>1, <2>2, <2>3, <2>5, <2>6, <2>7, AloneStep
  <2> QED
    BY <2>4, <2>8 DEF TypeInv
<1>2. ASSUME NEW q \in Req, NEW u \in Uuid, NEW right \in BOOLEAN, HandleVerify(q, u, right)
      PROVE  TypeInv'
  <2> DEFINE r == [op |-> "verify", pc |-> "get", uuid |-> u, right |-> right]
  <2>1. /\ req[q] = Idle /\ entry[u] # NoEntry /\ req' = [req EXCEPT ![q] = r]
        /\ conn' = Append(conn, Get(q, u)) /\ UNCHANGED <<entry, cached, snapshot, history>>
    BY <1>2 DEF HandleVerify
  <2>2. r \in Request /\ r # Idle /\ r.uuid = u /\ r.pc = "get"
    BY DEF Request, Idle
  <2>3. /\ Get(q, u) \in Command /\ Get(q, u).req = q /\ Get(q, u).uuid = u /\ Get(q, u).op = "get"
    BY Makes
  <2>4. req' \in [Req -> Request \cup {Idle}] /\ req'[q] = r /\ \A p \in Req \ {q} : req'[p] = req[p]
    BY <1>t, <2>1, <2>2 DEF TypeOK
  <2>5. conn' \in Seq(Command)
    BY <1>t, <2>1, <2>3, Sent
  <2>6. TypeOK'
    BY <1>t, <2>1, <2>4, <2>5 DEF TypeOK
  <2>7. Waits(Get(q, u))'
    BY <2>1, <2>2, <2>3, <2>4 DEF Waits
  <2>8. Awaited' /\ Apart' /\ Drawn'
    BY <2>1, <2>2, <2>3, <2>4, <2>7, SendStep
  <2> QED
    BY <2>6, <2>8 DEF TypeInv
<1>3. ASSUME NEW q \in Req, NEW u \in Uuid, HandleReset(q, u)
      PROVE  TypeInv'
  <2> DEFINE r == [op |-> "reset", pc |-> "get", uuid |-> u]
  <2>1. /\ req[q] = Idle /\ entry[u] # NoEntry /\ req' = [req EXCEPT ![q] = r]
        /\ conn' = Append(conn, Get(q, u)) /\ UNCHANGED <<entry, cached, snapshot, history>>
    BY <1>3 DEF HandleReset
  <2>2. r \in Request /\ r # Idle /\ r.uuid = u /\ r.pc = "get"
    BY DEF Request, Idle
  <2>3. /\ Get(q, u) \in Command /\ Get(q, u).req = q /\ Get(q, u).uuid = u /\ Get(q, u).op = "get"
    BY Makes
  <2>4. req' \in [Req -> Request \cup {Idle}] /\ req'[q] = r /\ \A p \in Req \ {q} : req'[p] = req[p]
    BY <1>t, <2>1, <2>2 DEF TypeOK
  <2>5. conn' \in Seq(Command)
    BY <1>t, <2>1, <2>3, Sent
  <2>6. TypeOK'
    BY <1>t, <2>1, <2>4, <2>5 DEF TypeOK
  <2>7. Waits(Get(q, u))'
    BY <2>1, <2>2, <2>3, <2>4 DEF Waits
  <2>8. Awaited' /\ Apart' /\ Drawn'
    BY <2>1, <2>2, <2>3, <2>4, <2>7, SendStep
  <2> QED
    BY <2>6, <2>8 DEF TypeInv
<1>4. ASSUME NEW q \in Req, NEW v \in Uuid, VerifyOtp(q, v) PROVE TypeInv'
  <2> DEFINE u == req[q].uuid
  <2>1. /\ At(q, "verify", "found") /\ Draw(v, "open", entry[u].email)
        /\ conn' = conn \o <<Del(NoReq, u), Set(v)>> /\ Use(u) /\ Finish(q)
        /\ UNCHANGED <<cached, snapshot, contended, disturbed>>
    BY <1>4 DEF VerifyOtp, DelThenSet
  <2>2. req[q] # Idle /\ req[q].pc = "found" /\ u \in Uuid /\ entry[u] # NoEntry
    BY <1>t, <2>1, Kinds DEF At, Drawn
  <2>3. entry[u].email \in Email
    BY <1>t, <2>2 DEF TypeOK, Entry, NoEntry
  <2>4. /\ entry' \in [Uuid -> Entry \cup {NoEntry}] /\ entry[v] = NoEntry
        /\ entry'[v] # NoEntry /\ \A w \in Uuid \ {v} : entry'[w] = entry[w]
    BY <1>t, <2>1, <2>3, Drawing
  <2>5. /\ Del(NoReq, u) \in Command /\ Del(NoReq, u).req = NoReq /\ Del(NoReq, u).uuid = u
        /\ Set(v) \in Command /\ Set(v).req = NoReq /\ Set(v).uuid = v
    BY <2>2, Makes
  <2>6. /\ conn' \in Seq(Command) /\ DOMAIN conn' = 1..(Len(conn) + 2)
        /\ conn'[Len(conn) + 1] = Del(NoReq, u) /\ conn'[Len(conn) + 2] = Set(v)
        /\ \A i \in DOMAIN conn : conn'[i] = conn[i]
    BY <1>t, <2>1, <2>5, SentTwo
  <2>7. \A i \in DOMAIN conn' \ DOMAIN conn : conn'[i] = Del(NoReq, u) \/ conn'[i] = Set(v)
    BY <1>s, <2>6
  <2>8. \A w \in Uuid : entry[w] # NoEntry => entry'[w] # NoEntry
    BY <2>4
  <2>9. /\ req' \in [Req -> Request \cup {Idle}] /\ req'[q] = Idle
        /\ \A p \in Req \ {q} : req'[p] = req[p]
    BY <1>t, <2>1, Finishes
  <2>10. used' \subseteq Uuid /\ reused' \subseteq Uuid
    BY <1>t, <2>1, <2>2 DEF TypeOK, Use
  <2>11. TypeOK'
    BY <1>t, <2>1, <2>4, <2>6, <2>9, <2>10 DEF TypeOK
  <2>12. \A p \in Req : \/ req'[p] = req[p]
                        \/ req[p] # Idle /\ req[p].pc \notin {"get", "del"} /\ req'[p] = Idle
    BY <2>2, <2>9
  <2>13. Awaited' /\ Apart' /\ Drawn'
    BY <2>2, <2>4, <2>5, <2>6, <2>7, <2>8, <2>9, <2>12, AloneStep
  <2> QED
    BY <2>11, <2>13 DEF TypeInv
<1>5. ASSUME NEW q \in Req,
             WrongOtp(q) \/ InvalidUuid(q) \/ SetPasswordFails(q) \/ SetPasswordAnswerLost(q)
      PROVE  TypeInv'
  <2>1. /\ req[q] # Idle /\ req[q].pc \notin {"get", "del"} /\ Finish(q)
        /\ UNCHANGED <<redis, contended>>
        /\ UNCHANGED <<used, reused, disturbed>>
           \/ (Use(req[q].uuid) /\ disturbed' = disturbed \cup {req[q].uuid})
    BY <1>5 DEF WrongOtp, InvalidUuid, SetPasswordFails, SetPasswordAnswerLost, At
  <2>2. req[q].uuid \in Uuid
    BY <1>t, <2>1, Kinds
  <2>3. used' \subseteq Uuid /\ reused' \subseteq Uuid /\ disturbed' \subseteq Uuid
    BY <1>t, <2>1, <2>2 DEF TypeOK, Use
  <2>4. /\ req' \in [Req -> Request \cup {Idle}] /\ req'[q] = Idle
        /\ \A p \in Req \ {q} : req'[p] = req[p]
    BY <1>t, <2>1, Finishes
  <2>5. TypeOK'
    BY <1>t, <2>1, <2>3, <2>4 DEF TypeOK
  <2>6. Awaited' /\ Apart' /\ Drawn'
    BY <2>1, <2>4, QuietStep DEF redis
  <2> QED
    BY <2>5, <2>6 DEF TypeInv
<1>6. ASSUME NEW q \in Req, Hashed(q) \/ SetPassword(q) PROVE TypeInv'
  <2>1. /\ req[q] # Idle /\ req[q].pc \notin {"get", "del"} /\ req[q].op = "reset"
        /\ Step(q, "update") \/ Step(q, "written")
        /\ UNCHANGED <<redis, contended, disturbed>>
        /\ UNCHANGED <<used, reused>> \/ Use(req[q].uuid)
    BY <1>6 DEF Hashed, SetPassword, At
  <2>2. req[q].uuid \in Uuid
    BY <1>t, <2>1, Kinds
  <2>3. used' \subseteq Uuid /\ reused' \subseteq Uuid
    BY <1>t, <2>1, <2>2 DEF TypeOK, Use
  <2>4. /\ req' \in [Req -> Request \cup {Idle}] /\ req'[q] # Idle /\ req'[q].uuid = req[q].uuid
        /\ \A p \in Req \ {q} : req'[p] = req[p]
    BY <1>t, <2>1, Steps
  <2>5. TypeOK'
    BY <1>t, <2>1, <2>3, <2>4 DEF TypeOK
  <2>6. Awaited' /\ Apart' /\ Drawn'
    BY <2>1, <2>4, QuietStep DEF redis
  <2> QED
    BY <2>5, <2>6 DEF TypeInv
<1>7. ASSUME NEW q \in Req, DeleteKey(q) PROVE TypeInv'
  <2> DEFINE u == req[q].uuid
  <2>1. /\ req[q] # Idle /\ req[q].pc = "written" /\ req[q].op = "reset"
        /\ conn' = conn \o <<Del(q, u)>> /\ Step(q, "del")
        /\ UNCHANGED <<entry, cached, snapshot, history>>
    BY <1>7 DEF DeleteKey, DropKey, At
  <2>2. u \in Uuid /\ entry[u] # NoEntry
    BY <1>t, <2>1, Kinds DEF Drawn
  <2>3. /\ Del(q, u) \in Command /\ Del(q, u).req = q /\ Del(q, u).uuid = u /\ Del(q, u).op = "del"
    BY <2>2, Makes
  <2>4. /\ req' \in [Req -> Request \cup {Idle}] /\ req'[q] # Idle /\ req'[q].uuid = req[q].uuid
        /\ req'[q].pc = "del" /\ req'[q].op = "reset"
        /\ \A p \in Req \ {q} : req'[p] = req[p]
    BY <1>t, <2>1, Steps
  <2>5. conn' = Append(conn, Del(q, u)) /\ conn' \in Seq(Command)
    BY <1>t, <2>1, <2>3, Sent
  <2>6. TypeOK'
    BY <1>t, <2>1, <2>4, <2>5 DEF TypeOK
  <2>7. Waits(Del(q, u))'
    BY <2>1, <2>2, <2>3, <2>4 DEF Waits, At
  <2>8. req[q] = Idle \/ req[q].pc \notin {"get", "del"}
    BY <2>1
  <2>9. Awaited' /\ Apart' /\ Drawn'
    BY <2>1, <2>3, <2>4, <2>5, <2>7, <2>8, SendStep
  <2> QED
    BY <2>6, <2>9 DEF TypeInv
<1>8. ASSUME NEW i \in Position, ExecSet(i) \/ ExecDel(i) \/ ExecGet(i) \/ CommandFails(i)
      PROVE  TypeInv'
  <2>1. /\ i = 1 /\ conn[1] \in Command /\ Waits(conn[1])
        /\ conn' = Without(i) /\ UNCHANGED <<entry, snapshot, used, reused>>
    BY <1>8, <1>t, Popped DEF ExecSet, ExecDel, ExecGet, CommandFails, Executes, Awaited
  <2>2. /\ cached' \subseteq {u \in Uuid : entry[u] # NoEntry}
        /\ contended' \subseteq Uuid /\ disturbed' \subseteq Uuid
    <3>1. conn[1].uuid \in Uuid /\ entry[conn[1].uuid] # NoEntry
      BY <2>1, Commands DEF Waits
    <3> QED
      BY <1>8, <1>t, <2>1, <3>1 DEF TypeOK, ExecSet, ExecDel, ExecGet, CommandFails, Executes
  <2>3. /\ req' \in [Req -> Request \cup {Idle}]
        /\ \A p \in Req : p # conn[i].req => req'[p] = req[p]
        /\ \A p \in Req : req'[p] # Idle => req[p] # Idle /\ req'[p].uuid = req[p].uuid
    <3>1. CASE ExecSet(i)
      BY <1>t, <3>1 DEF TypeOK, ExecSet
    <3>2. CASE ExecDel(i)
      BY <1>t, <3>2 DEF TypeOK, ExecDel
    <3>3. CASE ExecGet(i)
      <4> DEFINE q == conn[i].req
      <4>1. conn[i].op = "get" /\ (Step(q, "found") \/ Step(q, "missing"))
        BY <3>3 DEF ExecGet, Executes
      <4>2. q \in Req /\ req[q] # Idle
        BY <2>1, <4>1, Commands DEF Waits
      <4>3. /\ req' \in [Req -> Request \cup {Idle}] /\ req'[q].uuid = req[q].uuid
            /\ \A p \in Req \ {q} : req'[p] = req[p]
        BY <1>t, <4>1, <4>2, Steps
      <4> QED
        BY <4>2, <4>3
    <3>4. CASE CommandFails(i)
      <4> DEFINE q == conn[i].req
      <4>1. q \in Req /\ Finish(q)
        BY <2>1, <3>4, Commands DEF CommandFails
      <4>2. /\ req' \in [Req -> Request \cup {Idle}] /\ req'[q] = Idle
            /\ \A p \in Req \ {q} : req'[p] = req[p]
        BY <1>t, <4>1, Finishes
      <4> QED
        BY <4>1, <4>2
    <3> QED
      BY <1>8, <3>1, <3>2, <3>3, <3>4
  <2>4. conn' \in Seq(Command) /\ Awaited' /\ Apart' /\ Drawn'
    BY <2>1, <2>3, HeadStep
  <2> QED
    BY <1>t, <2>1, <2>2, <2>3, <2>4 DEF TypeInv, TypeOK
<1>9. ASSUME (\E u \in Uuid : Evict(u)) \/ Save \/ RedisRestart \/ UNCHANGED vars PROVE TypeInv'
  <2>1. UNCHANGED <<conn, entry, req, used, reused, contended>>
    BY <1>9, Vars DEF Evict, Save, RedisRestart
  <2>2. /\ cached' \subseteq {u \in Uuid : entry[u] # NoEntry}
        /\ snapshot' \subseteq {u \in Uuid : entry[u] # NoEntry}
        /\ disturbed' \subseteq Uuid
    BY <1>9, <1>t, Vars DEF TypeOK, Evict, Save, RedisRestart
  <2> QED
    BY <1>t, <2>1, <2>2 DEF TypeInv, TypeOK, Awaited, Apart, Drawn, Waits, At
<1>10. ASSUME Crash PROVE TypeInv'
  <2>1. /\ conn' = <<>> /\ req' = [q \in Req |-> Idle]
        /\ UNCHANGED <<entry, cached, snapshot, used, reused, contended>>
    BY <1>10 DEF Crash
  <2>2. disturbed' \subseteq Uuid
    <3>1. \A j \in DOMAIN conn : conn[j].uuid \in Uuid
      BY <1>t, Commands DEF TypeOK
    <3> QED
      BY <1>10, <1>t, <3>1 DEF TypeOK, Crash
  <2>3. <<>> \in Seq(Command) /\ DOMAIN <<>> = {}
    OBVIOUS
  <2> QED
    BY <1>t, <2>1, <2>2, <2>3 DEF TypeInv, TypeOK, Awaited, Apart, Drawn
<1> QED
  BY <1>1, <1>2, <1>3, <1>4, <1>5, <1>6, <1>7, <1>8, <1>9, <1>10, NextActions

\* The variables keep their types, and every request that waits for Redis
\* has its one command on the connection.
THEOREM TypeCorrect == Spec => []TypeOK
<1>1. Spec => []TypeInv
  BY TypeInit, TypeStep, PTL DEF Spec
<1> QED
  BY <1>1, PTL DEF TypeInv

-----------------------------------------------------------------------------
(* Where the key of a uuid is.  A `set` precedes everything else about its *)
(* uuid, so it cannot bring a used key back, and no `get` overtakes it.    *)

UsedDrawn == used \subseteq {u \in Uuid : entry[u] # NoEntry}
First(i) ==
    /\ conn[i].uuid \notin cached \cup snapshot \cup used
    /\ \A j \in DOMAIN conn \ {i} :
           conn[j].uuid = conn[i].uuid => j > i /\ conn[j].op = "get"
    /\ \A q \in Req : req[q] # Idle /\ req[q].uuid = conn[i].uuid => req[q].pc = "get"
SetFirst == \A i \in DOMAIN conn : conn[i].op = "set" => First(i)
DelUsed == \A i \in DOMAIN conn : conn[i].op = "del" => conn[i].uuid \in used
WrittenUsed == \A q \in Req : At(q, "reset", "written") => req[q].uuid \in used
KeyThere ==
    \A u \in Uuid : entry[u] # NoEntry => u \in used \cup disturbed \cup cached \/ SetSent(u)
KeyInv ==
    /\ TypeInv /\ UsedDrawn /\ SetFirst /\ DelUsed /\ WrittenUsed
    /\ KeyThere /\ AnsweredUuidWorks /\ NoKeyLeft

LEMMA KeyInit == Init => KeyInv
<1> SUFFICES ASSUME Init PROVE KeyInv
  OBVIOUS
<1>1. DOMAIN conn = {}
  BY DEF Init
<1>2. \A q \in Req : \A op, pc : ~At(q, op, pc)
  BY DEF Init, At
<1>3. UsedDrawn /\ KeyThere /\ NoKeyLeft
  BY DEF Init, UsedDrawn, KeyThere, NoKeyLeft
<1> QED
  BY <1>1, <1>2, <1>3, TypeInit
     DEF KeyInv, SetFirst, DelUsed, WrittenUsed, AnsweredUuidWorks

\* Nothing is known of a uuid that was not drawn.
LEMMA Undrawn ==
  ASSUME KeyInv, NEW u \in Uuid, entry[u] = NoEntry
  PROVE  /\ u \notin cached \cup snapshot \cup used
         /\ \A i \in DOMAIN conn : conn[i].uuid # u
         /\ \A q \in Req : req[q] # Idle => req[q].uuid # u
  BY DEF KeyInv, TypeInv, TypeOK, UsedDrawn, Awaited, Waits, Drawn

\* A request that is past its `get` has no `set` before it.
LEMMA PastSet ==
  ASSUME KeyInv, NEW q \in Req, req[q] # Idle, req[q].pc # "get"
  PROVE  \A i \in DOMAIN conn : conn[i].op = "set" => conn[i].uuid # req[q].uuid
  BY DEF KeyInv, SetFirst, First

\* A uuid is drawn and its `set` is the last command.
LEMMA KeyReset ==
  ASSUME KeyInv, TypeInv', NEW u \in Uuid, NEW e \in Email, ResetEmail(u, e)
  PROVE  KeyInv'
<1>1. /\ entry[u] = NoEntry /\ entry'[u] # NoEntry /\ \A v \in Uuid \ {u} : entry'[v] = entry[v]
  BY Drawing DEF ResetEmail, KeyInv, TypeInv
<1>2. /\ conn' = Append(conn, Set(u))
      /\ cached' = cached /\ snapshot' = snapshot /\ req' = req
      /\ used' = used /\ disturbed' = disturbed
  BY DEF ResetEmail, history
<1>3. Set(u) \in Command /\ Set(u).uuid = u /\ Set(u).op = "set"
  BY DEF Set, Command
<1>4. /\ DOMAIN conn = 1..Len(conn) /\ Len(conn) \in Nat
      /\ DOMAIN conn' = 1..(Len(conn) + 1)
      /\ conn'[Len(conn) + 1] = Set(u) /\ \A i \in DOMAIN conn : conn'[i] = conn[i]
  BY <1>2, <1>3, Sent DEF KeyInv, TypeInv
<1>5. /\ u \notin cached \cup snapshot \cup used
      /\ \A i \in DOMAIN conn : conn[i].uuid # u
      /\ \A q \in Req : req[q] # Idle => req[q].uuid # u
  BY <1>1, Undrawn
<1>6. SetFirst'
  <2>1. ASSUME NEW i \in DOMAIN conn', conn'[i].op = "set" PROVE First(i)'
    <3>1. CASE i \in DOMAIN conn
      <4>1. First(i)
        BY <1>4, <2>1, <3>1 DEF KeyInv, SetFirst
      <4> QED
        BY <1>2, <1>3, <1>4, <1>5, <3>1, <4>1 DEF First
    <3>2. CASE i = Len(conn) + 1
      BY <1>2, <1>3, <1>4, <1>5, <3>2 DEF First
    <3> QED
      BY <1>4, <2>1, <3>1, <3>2
  <2> QED
    BY <2>1 DEF SetFirst
<1>7. UsedDrawn' /\ DelUsed'
  BY <1>1, <1>2, <1>3, <1>4 DEF KeyInv, UsedDrawn, DelUsed
<1>8. WrittenUsed' /\ AnsweredUuidWorks'
  BY <1>2 DEF KeyInv, WrittenUsed, AnsweredUuidWorks, At
<1>9. KeyThere'
  BY <1>1, <1>2, <1>3, <1>4 DEF KeyInv, KeyThere, SetSent
<1>10. NoKeyLeft'
  BY <1>2, <1>4 DEF KeyInv, NoKeyLeft, DelSent, At
<1> QED
  BY <1>6, <1>7, <1>8, <1>9, <1>10 DEF KeyInv

\* The `del` of the validated uuid, and the `set` of the next.
LEMMA KeyVerify ==
  ASSUME KeyInv, TypeInv', NEW q \in Req, NEW v \in Uuid, VerifyOtp(q, v)
  PROVE  KeyInv'
<1> DEFINE u == req[q].uuid
<1>1. /\ req[q] # Idle /\ req[q].pc = "found" /\ req[q].op = "verify"
      /\ Draw(v, "open", entry[u].email)
      /\ conn' = conn \o <<Del(NoReq, u), Set(v)>> /\ Finish(q)
      /\ used' = used \cup {u} /\ cached' = cached /\ snapshot' = snapshot
      /\ disturbed' = disturbed
  BY DEF VerifyOtp, DelThenSet, At, Use
<1>2. u \in Uuid /\ entry[u] # NoEntry
  BY <1>1, Kinds DEF KeyInv, TypeInv, Drawn
<1>3. entry[u].email \in Email
  BY <1>2 DEF KeyInv, TypeInv, TypeOK, Entry, NoEntry
<1>4. /\ entry[v] = NoEntry /\ entry'[v] # NoEntry /\ \A w \in Uuid \ {v} : entry'[w] = entry[w]
  BY <1>1, <1>3, Drawing DEF KeyInv, TypeInv
<1>5. /\ Del(NoReq, u) \in Command /\ Del(NoReq, u).op = "del" /\ Del(NoReq, u).uuid = u
      /\ Set(v) \in Command /\ Set(v).op = "set" /\ Set(v).uuid = v
  BY <1>2, Makes
<1>6. /\ DOMAIN conn = 1..Len(conn) /\ Len(conn) \in Nat
      /\ DOMAIN conn' = 1..(Len(conn) + 2)
      /\ conn'[Len(conn) + 1] = Del(NoReq, u) /\ conn'[Len(conn) + 2] = Set(v)
      /\ \A i \in DOMAIN conn : conn'[i] = conn[i]
  BY <1>1, <1>5, SentTwo DEF KeyInv, TypeInv
<1>7. /\ v \notin cached \cup snapshot \cup used /\ v # u
      /\ \A i \in DOMAIN conn : conn[i].uuid # v
      /\ \A p \in Req : req[p] # Idle => req[p].uuid # v
  BY <1>2, <1>4, Undrawn
<1>8. \A i \in DOMAIN conn : conn[i].op = "set" => conn[i].uuid # u
  BY <1>1, PastSet
<1>9. req'[q] = Idle /\ \A p \in Req \ {q} : req'[p] = req[p]
  BY <1>1, Finishes DEF KeyInv, TypeInv
<1>10. SetFirst'
  <2>1. ASSUME NEW i \in DOMAIN conn', conn'[i].op = "set" PROVE First(i)'
    <3>1. CASE i \in DOMAIN conn
      <4>1. First(i)
        BY <1>6, <2>1, <3>1 DEF KeyInv, SetFirst
      <4>2. conn'[i] = conn[i] /\ conn[i].uuid # u /\ conn[i].uuid # v
        BY <1>6, <1>7, <1>8, <2>1, <3>1
      <4>3. conn'[i].uuid \notin cached' \cup snapshot' \cup used'
        BY <1>1, <4>1, <4>2 DEF First
      <4>4. ASSUME NEW j \in DOMAIN conn' \ {i}, conn'[j].uuid = conn'[i].uuid
            PROVE  j > i /\ conn'[j].op = "get"
        <5>1. j \in DOMAIN conn
          BY <1>5, <1>6, <4>2, <4>4
        <5> QED
          BY <1>6, <4>1, <4>2, <4>4, <5>1 DEF First
      <4>5. \A p \in Req : req'[p] # Idle /\ req'[p].uuid = conn'[i].uuid => req'[p].pc = "get"
        BY <1>9, <4>1, <4>2 DEF First
      <4> QED
        BY <4>3, <4>4, <4>5 DEF First
    <3>2. CASE i = Len(conn) + 2
      <4>1. conn'[i].uuid = v
        BY <1>5, <1>6, <3>2
      <4>2. \A j \in DOMAIN conn' \ {i} : conn'[j].uuid # v
        BY <1>5, <1>6, <1>7, <3>2
      <4> QED
        BY <1>1, <1>7, <1>9, <4>1, <4>2 DEF First
    <3> QED
      BY <1>5, <1>6, <2>1, <3>1, <3>2
  <2> QED
    BY <2>1 DEF SetFirst
<1>11. UsedDrawn'
  BY <1>1, <1>2, <1>4, <1>7 DEF KeyInv, UsedDrawn
<1>12. DelUsed'
  BY <1>1, <1>5, <1>6 DEF KeyInv, DelUsed
<1>13. WrittenUsed' /\ AnsweredUuidWorks'
  BY <1>1, <1>9 DEF KeyInv, WrittenUsed, AnsweredUuidWorks, At
<1>14. KeyThere'
  <2>1. SetSent(v)'
    BY <1>5, <1>6 DEF SetSent
  <2>2. ASSUME NEW w \in Uuid, SetSent(w) PROVE SetSent(w)'
    BY <1>6, <2>2 DEF SetSent
  <2> QED
    BY <1>1, <1>4, <2>1, <2>2 DEF KeyInv, KeyThere
<1>15. NoKeyLeft'
  <2> SUFFICES ASSUME NEW w \in used' \ disturbed', w \in cached', ~DelSent(w)'
               PROVE  \E p \in Req : (At(p, "reset", "written") /\ req[p].uuid = w)'
    BY DEF NoKeyLeft
  <2>1. w # u
    BY <1>5, <1>6 DEF DelSent
  <2>2. ~DelSent(w)
    BY <1>6 DEF DelSent
  <2>3. PICK p \in Req : At(p, "reset", "written") /\ req[p].uuid = w
    BY <1>1, <2>1, <2>2 DEF KeyInv, NoKeyLeft
  <2> QED
    BY <1>1, <1>9, <2>3 DEF At
<1> QED
  BY <1>10, <1>11, <1>12, <1>13, <1>14, <1>15 DEF KeyInv

\* A request comes with a uuid that was answered and sends its `get`.
LEMMA KeyArrive ==
  ASSUME KeyInv, TypeInv', NEW q \in Req, NEW u \in Uuid,
         HandleReset(q, u) \/ \E right \in BOOLEAN : HandleVerify(q, u, right)
  PROVE  KeyInv'
<1>1. /\ req[q] = Idle /\ conn' = Append(conn, Get(q, u))
      /\ entry' = entry /\ cached' = cached /\ snapshot' = snapshot
      /\ used' = used /\ disturbed' = disturbed
      /\ \A p \in Req \ {q} : req'[p] = req[p]
      /\ req'[q].pc = "get"
  BY DEF HandleReset, HandleVerify, history, KeyInv, TypeInv, TypeOK
<1>2. Get(q, u) \in Command /\ Get(q, u).uuid = u /\ Get(q, u).op = "get"
  BY Makes
<1>3. /\ DOMAIN conn = 1..Len(conn) /\ Len(conn) \in Nat
      /\ DOMAIN conn' = 1..(Len(conn) + 1)
      /\ conn'[Len(conn) + 1] = Get(q, u) /\ \A i \in DOMAIN conn : conn'[i] = conn[i]
  BY <1>1, <1>2, Sent DEF KeyInv, TypeInv
<1>4. SetFirst'
  <2>1. ASSUME NEW i \in DOMAIN conn', conn'[i].op = "set" PROVE First(i)'
    <3>1. i \in DOMAIN conn /\ First(i) /\ conn'[i] = conn[i]
      BY <1>2, <1>3, <2>1 DEF KeyInv, SetFirst
    <3>2. ASSUME NEW j \in DOMAIN conn' \ {i}, conn'[j].uuid = conn'[i].uuid
          PROVE  j > i /\ conn'[j].op = "get"
      BY <1>2, <1>3, <3>1, <3>2 DEF First
    <3> QED
      BY <1>1, <3>1, <3>2 DEF First
  <2> QED
    BY <2>1 DEF SetFirst
<1>5. UsedDrawn' /\ DelUsed'
  BY <1>1, <1>2, <1>3 DEF KeyInv, UsedDrawn, DelUsed
<1>6. WrittenUsed' /\ AnsweredUuidWorks'
  BY <1>1 DEF KeyInv, WrittenUsed, AnsweredUuidWorks, At
<1>7. KeyThere'
  BY <1>1, <1>3 DEF KeyInv, KeyThere, SetSent
<1>8. NoKeyLeft'
  <2>1. \A w : DelSent(w) => DelSent(w)'
    BY <1>3 DEF DelSent
  <2>2. \A p \in Req : At(p, "reset", "written") =>
            At(p, "reset", "written")' /\ req'[p].uuid = req[p].uuid
    BY <1>1 DEF At
  <2> QED
    BY <1>1, <2>1, <2>2 DEF KeyInv, NoKeyLeft
<1> QED
  BY <1>4, <1>5, <1>6, <1>7, <1>8 DEF KeyInv

\* Steps of a request that send nothing.
LEMMA KeyQuiet ==
  ASSUME KeyInv, TypeInv', NEW q \in Req,
         \/ WrongOtp(q) \/ InvalidUuid(q) \/ SetPasswordFails(q)
         \/ Hashed(q) \/ SetPassword(q) \/ SetPasswordAnswerLost(q)
  PROVE  KeyInv'
<1> DEFINE u == req[q].uuid
<1>1. /\ req[q] # Idle /\ req[q].pc \in {"found", "missing", "update"}
      /\ conn' = conn /\ entry' = entry /\ cached' = cached /\ snapshot' = snapshot
      /\ disturbed \subseteq disturbed'
      /\ \A p \in Req \ {q} : req'[p] = req[p]
      /\ \/ /\ used' = used
            /\ req'[q] = Idle \/ (req'[q].pc = "update" /\ req'[q].uuid = u)
         \/ /\ used' = used \cup {u} /\ u \in disturbed'
            /\ req'[q] = Idle
         \/ /\ used' = used \cup {u}
            /\ At(q, "reset", "written")' /\ req'[q].uuid = u
  <2>1. CASE Hashed(q)
    BY <2>1, Steps DEF Hashed, At, redis, history, KeyInv, TypeInv
  <2>2. CASE SetPassword(q)
    BY <2>2, Steps DEF SetPassword, Use, At, redis, KeyInv, TypeInv
  <2>3. CASE WrongOtp(q) \/ InvalidUuid(q) \/ SetPasswordFails(q) \/ SetPasswordAnswerLost(q)
    BY <2>3, Finishes
       DEF WrongOtp, InvalidUuid, SetPasswordFails, SetPasswordAnswerLost, Use, At,
           redis, history, KeyInv, TypeInv
  <2> QED
    BY <2>1, <2>2, <2>3
<1>2. u \in Uuid /\ entry[u] # NoEntry
  BY <1>1, Kinds DEF KeyInv, TypeInv, Drawn
<1>3. \A i \in DOMAIN conn : conn[i].op = "set" => conn[i].uuid # u
  BY <1>1, PastSet
<1>4. SetFirst'
  <2>1. ASSUME NEW i \in DOMAIN conn, conn[i].op = "set" PROVE First(i)'
    <3>1. First(i) /\ conn[i].uuid # u
      BY <1>3, <2>1 DEF KeyInv, SetFirst
    <3> QED
      BY <1>1, <3>1 DEF First
  <2> QED
    BY <1>1, <2>1 DEF SetFirst
<1>5. UsedDrawn' /\ DelUsed'
  BY <1>1, <1>2 DEF KeyInv, UsedDrawn, DelUsed
<1>6. WrittenUsed' /\ AnsweredUuidWorks'
  BY <1>1 DEF KeyInv, WrittenUsed, AnsweredUuidWorks, At
<1>7. KeyThere'
  BY <1>1 DEF KeyInv, KeyThere, SetSent
<1>8. NoKeyLeft'
  <2>1. \A p \in Req \ {q} : At(p, "reset", "written") =>
            At(p, "reset", "written")' /\ req'[p].uuid = req[p].uuid
    BY <1>1 DEF At
  <2>2. ~At(q, "reset", "written")
    BY <1>1 DEF At
  <2>3. \A w : DelSent(w)' <=> DelSent(w)
    BY <1>1 DEF DelSent
  <2> SUFFICES ASSUME NEW w \in used' \ disturbed', w \in cached', ~DelSent(w)'
               PROVE  \E p \in Req : At(p, "reset", "written")' /\ req'[p].uuid = w
    BY DEF NoKeyLeft
  <2>4. CASE w \in used
    BY <1>1, <2>1, <2>2, <2>3, <2>4 DEF KeyInv, NoKeyLeft
  <2>5. CASE w \notin used
    BY <1>1, <2>5
  <2> QED
    BY <2>4, <2>5
<1> QED
  BY <1>4, <1>5, <1>6, <1>7, <1>8 DEF KeyInv

\* The password was written, and the awaited `del` is sent.
LEMMA KeyDelete ==
  ASSUME KeyInv, TypeInv', NEW q \in Req, DeleteKey(q)
  PROVE  KeyInv'
<1> DEFINE u == req[q].uuid
<1>1. /\ req[q] # Idle /\ At(q, "reset", "written") /\ req[q].pc = "written" /\ req[q].op = "reset"
      /\ conn' = conn \o <<Del(q, u)>> /\ Step(q, "del")
      /\ entry' = entry /\ cached' = cached /\ snapshot' = snapshot
      /\ used' = used /\ disturbed' = disturbed
  BY DEF DeleteKey, DropKey, At, history
<1>2. u \in Uuid /\ u \in used
  BY <1>1, Kinds DEF KeyInv, TypeInv, WrittenUsed
<1>3. Del(q, u) \in Command /\ Del(q, u).uuid = u /\ Del(q, u).op = "del"
  BY <1>2, Makes
<1>4. /\ DOMAIN conn = 1..Len(conn) /\ Len(conn) \in Nat
      /\ DOMAIN conn' = 1..(Len(conn) + 1)
      /\ conn'[Len(conn) + 1] = Del(q, u) /\ \A i \in DOMAIN conn : conn'[i] = conn[i]
  BY <1>1, <1>3, Sent DEF KeyInv, TypeInv
<1>5. \A i \in DOMAIN conn : conn[i].op = "set" => conn[i].uuid # u
  BY <1>1, PastSet
<1>6. /\ req'[q].pc = "del" /\ req'[q].uuid = u
      /\ \A p \in Req \ {q} : req'[p] = req[p]
  BY <1>1, Steps DEF KeyInv, TypeInv
<1>7. SetFirst'
  <2>1. ASSUME NEW i \in DOMAIN conn', conn'[i].op = "set" PROVE First(i)'
    <3>1. i \in DOMAIN conn /\ First(i) /\ conn'[i] = conn[i] /\ conn[i].uuid # u
      BY <1>3, <1>4, <1>5, <2>1 DEF KeyInv, SetFirst
    <3>2. ASSUME NEW j \in DOMAIN conn' \ {i}, conn'[j].uuid = conn'[i].uuid
          PROVE  j > i /\ conn'[j].op = "get"
      BY <1>3, <1>4, <3>1, <3>2 DEF First
    <3> QED
      BY <1>1, <1>6, <3>1, <3>2 DEF First
  <2> QED
    BY <2>1 DEF SetFirst
<1>8. UsedDrawn' /\ DelUsed'
  BY <1>1, <1>2, <1>3, <1>4 DEF KeyInv, UsedDrawn, DelUsed
<1>9. WrittenUsed' /\ AnsweredUuidWorks'
  BY <1>1, <1>6 DEF KeyInv, WrittenUsed, AnsweredUuidWorks, At
<1>10. KeyThere'
  BY <1>1, <1>4 DEF KeyInv, KeyThere, SetSent
<1>11. NoKeyLeft'
  <2>1. \A w : DelSent(w) \/ w = u => DelSent(w)'
    BY <1>3, <1>4, <1>6 DEF DelSent
  <2>2. \A p \in Req \ {q} : At(p, "reset", "written") =>
            At(p, "reset", "written")' /\ req'[p].uuid = req[p].uuid
    BY <1>6 DEF At
  <2> QED
    BY <1>1, <2>1, <2>2 DEF KeyInv, NoKeyLeft
<1> QED
  BY <1>7, <1>8, <1>9, <1>10, <1>11 DEF KeyInv

\* The head of the connection is executed, or fails.
LEMMA KeyExec ==
  ASSUME KeyInv, TypeInv', NEW i \in Position,
         ExecSet(i) \/ ExecDel(i) \/ ExecGet(i) \/ CommandFails(i)
  PROVE  KeyInv'
<1> DEFINE c == conn[1]
<1> DEFINE u == c.uuid
<1>1. /\ i = 1 /\ c \in Command /\ 1 \in DOMAIN conn /\ conn' = Without(i)
      /\ DOMAIN conn = 1..Len(conn) /\ Len(conn) \in Nat /\ DOMAIN conn' = 1..(Len(conn) - 1)
      /\ \A j \in DOMAIN conn' : j + 1 \in DOMAIN conn /\ conn'[j] = conn[j + 1]
  BY Popped DEF KeyInv, TypeInv, ExecSet, ExecDel, ExecGet, CommandFails, Executes
<1>2. /\ u \in Uuid /\ entry[u] # NoEntry
      /\ c.req \in Req => req[c.req] # Idle /\ req[c.req].uuid = u
      /\ c.op = "get" => c.req \in Req /\ req[c.req].pc = "get"
      /\ c.op = "del" /\ c.req \in Req => req[c.req].pc = "del"
  BY <1>1, Commands DEF KeyInv, TypeInv, Awaited, Waits, At
<1>3. /\ entry' = entry /\ snapshot' = snapshot /\ used' = used /\ disturbed \subseteq disturbed'
      /\ \A p \in Req : req'[p] = req[p] \/ req'[p] = Idle \/ (p = c.req /\ c.op = "get")
      /\ \A p \in Req : p # c.req => req'[p] = req[p]
  <2>1. CASE ExecSet(i) \/ ExecDel(i)
    BY <1>1, <2>1 DEF ExecSet, ExecDel, Executes
  <2>2. CASE ExecGet(i)
    BY <1>1, <1>2, <2>2, Steps DEF ExecGet, Executes, KeyInv, TypeInv
  <2>3. CASE CommandFails(i)
    BY <1>1, <2>3, Finishes, Commands DEF CommandFails, KeyInv, TypeInv
  <2> QED
    BY <2>1, <2>2, <2>3
<1>4. \/ c.op = "set" /\ ExecSet(i) /\ cached' = cached \cup {u}
      \/ c.op = "del" /\ ExecDel(i) /\ cached' = cached \ {u}
      \/ c.op = "get" /\ ExecGet(i) /\ cached' = cached
      \/ c.op = "get" /\ CommandFails(i) /\ cached' = cached
      \/ c.op = "del" /\ CommandFails(i) /\ cached' = cached /\ u \in disturbed'
  BY <1>1, Commands DEF ExecSet, ExecDel, ExecGet, CommandFails, Executes
<1>5. \A j \in DOMAIN conn : j # 1 /\ conn[j].op = "set" => First(j) /\ conn[j].uuid # u
  BY <1>1 DEF KeyInv, SetFirst, First
<1>6. c.op = "set" => u \notin used
  BY <1>1 DEF KeyInv, SetFirst, First
<1>7. c.op = "del" => u \in used
  BY <1>1 DEF KeyInv, DelUsed
<1>8. \A p \in Req : /\ ExecGet(i) /\ p = c.req
                     => /\ req'[p] # Idle /\ req'[p].uuid = u
                        /\ req'[p].pc = (IF u \in cached THEN "found" ELSE "missing")
  BY <1>1, <1>2, Steps DEF ExecGet, Executes, KeyInv, TypeInv
<1>9. CommandFails(i) => req'[c.req] = Idle
  BY <1>1, Commands, Finishes DEF CommandFails, KeyInv, TypeInv
<1>10. ASSUME NEW p \in Req, req'[p] # Idle
       PROVE  req'[p] = req[p] \/ (p = c.req /\ ExecGet(i))
  BY <1>3, <1>4, <1>9, <1>10
<1>11. SetFirst'
  <2>1. ASSUME NEW j \in DOMAIN conn', conn'[j].op = "set" PROVE First(j)'
    <3>1. j + 1 \in DOMAIN conn /\ conn'[j] = conn[j + 1] /\ j + 1 # 1 /\ j \in Nat
      BY <1>1, <2>1
    <3>2. First(j + 1) /\ conn[j + 1].uuid # u
      BY <1>5, <2>1, <3>1
    <3>3. conn'[j].uuid \notin cached' \cup snapshot' \cup used'
      BY <1>3, <1>4, <3>1, <3>2 DEF First
    <3>4. ASSUME NEW k \in DOMAIN conn' \ {j}, conn'[k].uuid = conn'[j].uuid
          PROVE  k > j /\ conn'[k].op = "get"
      <4>1. k + 1 \in DOMAIN conn \ {j + 1} /\ conn'[k] = conn[k + 1] /\ k \in Nat
        BY <1>1, <3>1, <3>4
      <4>2. k + 1 > j + 1 /\ conn[k + 1].op = "get"
        BY <3>1, <3>2, <3>4, <4>1 DEF First
      <4> QED
        BY <3>1, <4>1, <4>2
    <3>5. ASSUME NEW p \in Req, req'[p] # Idle, req'[p].uuid = conn'[j].uuid
          PROVE  req'[p].pc = "get"
      BY <1>8, <1>10, <3>1, <3>2, <3>5 DEF First
    <3> QED
      BY <3>3, <3>4, <3>5 DEF First
  <2> QED
    BY <2>1 DEF SetFirst
<1>12. UsedDrawn' /\ DelUsed'
  BY <1>1, <1>3 DEF KeyInv, UsedDrawn, DelUsed
<1>13. WrittenUsed'
  BY <1>3, <1>8, <1>10 DEF KeyInv, WrittenUsed, At
<1>14. ASSUME NEW j \in DOMAIN conn, j # 1
       PROVE  \E k \in DOMAIN conn' : conn'[k] = conn[j]
  <2>1. j - 1 \in DOMAIN conn' /\ (j - 1) + 1 = j
    BY <1>1, <1>14
  <2> QED
    BY <1>1, <2>1
<1>15. KeyThere'
  <2> SUFFICES ASSUME NEW w \in Uuid, entry[w] # NoEntry, w \notin used' \cup disturbed' \cup cached'
               PROVE  \E k \in DOMAIN conn' : conn'[k].op = "set" /\ conn'[k].uuid = w
    BY <1>3 DEF KeyThere, SetSent
  <2>1. w \notin cached
    BY <1>3, <1>4, <1>7
  <2>2. PICK j \in DOMAIN conn : conn[j].op = "set" /\ conn[j].uuid = w
    BY <1>3, <2>1 DEF KeyInv, KeyThere, SetSent
  <2>3. j # 1
    BY <1>4, <2>2
  <2> QED
    BY <1>14, <2>2, <2>3
<1>16. AnsweredUuidWorks'
  <2> SUFFICES ASSUME NEW p \in Req, req'[p] # Idle, req'[p].pc = "missing"
               PROVE  req'[p].uuid \in used' \cup disturbed'
    BY DEF AnsweredUuidWorks, At
  <2>1. CASE req'[p] = req[p]
    <3>1. req[p].op \in {"verify", "reset"}
      BY <2>1 DEF KeyInv, TypeInv, TypeOK, Request
    <3> QED
      BY <1>3, <2>1, <3>1 DEF KeyInv, AnsweredUuidWorks, At
  <2>2. CASE p = c.req /\ ExecGet(i)
    <3>1. u \notin cached /\ req'[p].uuid = u /\ c.op = "get"
      BY <1>1, <1>8, <2>2 DEF ExecGet, Executes
    <3>2. ~SetSent(u)
      BY <1>5, <3>1 DEF SetSent
    <3> QED
      BY <1>2, <1>3, <3>1, <3>2 DEF KeyInv, KeyThere
  <2> QED
    BY <1>10, <2>1, <2>2
<1>17. NoKeyLeft'
  <2> SUFFICES ASSUME NEW w \in used' \ disturbed', w \in cached',
                      \A k \in DOMAIN conn' : ~(conn'[k].op = "del" /\ conn'[k].uuid = w)
               PROVE  \E p \in Req : At(p, "reset", "written")' /\ req'[p].uuid = w
    BY DEF NoKeyLeft, DelSent
  <2>1. w \in used \ disturbed /\ w \in cached
    BY <1>3, <1>4, <1>6
  <2>2. ~DelSent(w)
    BY <1>4, <1>14 DEF DelSent
  <2>3. PICK p \in Req : At(p, "reset", "written") /\ req[p].uuid = w
    BY <2>1, <2>2 DEF KeyInv, NoKeyLeft
  <2>4. req'[p] = req[p]
    <3>1. p # c.req
      BY <1>1, <1>2, <2>3, Commands, NoReqAssumption DEF At
    <3> QED
      BY <1>3, <3>1
  <2> QED
    BY <2>3, <2>4 DEF At
<1> QED
  BY <1>11, <1>12, <1>13, <1>15, <1>16, <1>17 DEF KeyInv

\* Failures of Redis and of the process, and steps of nobody.
LEMMA KeyFailure ==
  ASSUME KeyInv, TypeInv', (\E u \in Uuid : Evict(u)) \/ Save \/ RedisRestart \/ UNCHANGED vars
  PROVE  KeyInv'
<1>1. /\ conn' = conn /\ entry' = entry /\ req' = req /\ used' = used
      /\ disturbed \subseteq disturbed'
  BY Vars DEF Evict, Save, RedisRestart, history
<1>2. cached' \cup snapshot' \subseteq cached \cup snapshot
  BY Vars DEF Evict, Save, RedisRestart
<1>3. \A w : w \notin disturbed' => (w \in cached' <=> w \in cached)
  BY Vars DEF Evict, Save, RedisRestart
<1>4. SetFirst'
  <2>1. ASSUME NEW i \in DOMAIN conn, First(i) PROVE First(i)'
    BY <1>1, <1>2, <2>1 DEF First
  <2> QED
    BY <1>1, <2>1 DEF KeyInv, SetFirst
<1>5. UsedDrawn' /\ DelUsed' /\ WrittenUsed' /\ AnsweredUuidWorks'
  BY <1>1 DEF KeyInv, UsedDrawn, DelUsed, WrittenUsed, AnsweredUuidWorks, At
<1>6. KeyThere' /\ NoKeyLeft'
  BY <1>1, <1>3 DEF KeyInv, KeyThere, SetSent, NoKeyLeft, DelSent, At
<1> QED
  BY <1>4, <1>5, <1>6 DEF KeyInv

LEMMA KeyCrash ==
  ASSUME KeyInv, TypeInv', Crash
  PROVE  KeyInv'
<1>1. /\ DOMAIN conn' = {} /\ req' = [q \in Req |-> Idle]
      /\ entry' = entry /\ cached' = cached /\ snapshot' = snapshot /\ used' = used
      /\ disturbed \subseteq disturbed'
      /\ \A i \in DOMAIN conn : conn[i].op # "get" => conn[i].uuid \in disturbed'
      /\ \A u \in Uuid, q \in Req : At(q, "reset", "written") /\ req[q].uuid = u => u \in disturbed'
  BY DEF Crash
<1>2. \A q \in Req : \A op, pc : ~At(q, op, pc)'
  BY <1>1 DEF At
<1>3. SetFirst' /\ DelUsed' /\ WrittenUsed' /\ AnsweredUuidWorks' /\ UsedDrawn'
  BY <1>1, <1>2 DEF KeyInv, SetFirst, DelUsed, WrittenUsed, AnsweredUuidWorks, UsedDrawn
<1>4. KeyThere'
  BY <1>1 DEF KeyInv, KeyThere, SetSent
<1>5. NoKeyLeft'
  BY <1>1 DEF KeyInv, UsedDrawn, NoKeyLeft, DelSent
<1> QED
  BY <1>3, <1>4, <1>5 DEF KeyInv

LEMMA KeyStep == KeyInv /\ [Next]_vars => KeyInv'
<1> SUFFICES ASSUME KeyInv, [Next]_vars PROVE KeyInv'
  OBVIOUS
<1>1. TypeInv'
  BY TypeStep DEF KeyInv
<1> QED
  BY <1>1, NextActions, KeyReset, KeyVerify, KeyArrive, KeyQuiet, KeyDelete, KeyExec,
     KeyFailure, KeyCrash

\* Every answered uuid works until it is used, for any number of requests.
THEOREM AnsweredWorks == Spec => []AnsweredUuidWorks
<1>1. Spec => []KeyInv
  BY KeyInit, KeyStep, PTL DEF Spec
<1> QED
  BY <1>1, PTL DEF KeyInv

\* No used key stays in Redis.
THEOREM NoneLeft == Spec => []NoKeyLeft
<1>1. Spec => []KeyInv
  BY KeyInit, KeyStep, PTL DEF Spec
<1> QED
  BY <1>1, PTL DEF KeyInv

-----------------------------------------------------------------------------
(* Who holds a uuid.  Two requests hold it only if they overlapped, and a  *)
(* used uuid is held only by a request that overlapped with its user,      *)
(* since the user's `del` is sent before the key can be looked up again.   *)

Holds(q) == req[q] # Idle /\ req[q].pc \in {"found", "update", "written"}
Excused(u) == u \in contended \cup disturbed
HeldTwice ==
    \A p, q \in Req : p # q /\ Holds(p) /\ Holds(q) /\ req[p].uuid = req[q].uuid
                      => Excused(req[q].uuid)
HeldUsed == \A q \in Req : Holds(q) /\ req[q].pc # "written" /\ req[q].uuid \in used
                           => Excused(req[q].uuid)
OnceInv == KeyInv /\ HeldTwice /\ HeldUsed /\ UsedOnce

LEMMA OnceInit == Init => OnceInv
  BY KeyInit DEF Init, OnceInv, HeldTwice, HeldUsed, UsedOnce, Holds

\* Nobody gets hold of a uuid, and none is used.
LEMMA OnceQuiet ==
  ASSUME OnceInv, KeyInv', used' = used, reused' = reused,
         contended \subseteq contended', disturbed \subseteq disturbed',
         \A p \in Req : Holds(p)' => /\ Holds(p) /\ req'[p].uuid = req[p].uuid
                                     /\ req'[p].pc # "written" => req[p].pc # "written"
  PROVE  OnceInv'
<1>1. \A u : Excused(u) => Excused(u)'
  BY DEF Excused
<1>2. HeldTwice'
  BY <1>1 DEF OnceInv, HeldTwice
<1>3. HeldUsed'
  BY <1>1 DEF OnceInv, HeldUsed
<1>4. UsedOnce'
  BY DEF OnceInv, UsedOnce
<1> QED
  BY <1>2, <1>3, <1>4 DEF OnceInv

\* A holder uses its uuid.
LEMMA OnceUse ==
  ASSUME OnceInv, KeyInv', NEW q \in Req, Holds(q), req[q].pc # "written", Use(req[q].uuid),
         contended' = contended, disturbed \subseteq disturbed',
         \A p \in Req \ {q} : req'[p] = req[p],
         req'[q] = Idle \/ (req'[q].pc = "written" /\ req'[q].uuid = req[q].uuid)
  PROVE  OnceInv'
<1> DEFINE u == req[q].uuid
<1>1. \A v : Excused(v) => Excused(v)'
  BY DEF Excused
<1>2. HeldTwice'
  BY <1>1 DEF OnceInv, HeldTwice, Holds
<1>3. HeldUsed'
  <2> SUFFICES ASSUME NEW p \in Req, Holds(p)', req'[p].pc # "written", req'[p].uuid \in used'
               PROVE  Excused(req[p].uuid)'
    BY DEF HeldUsed
  <2>1. p # q /\ req'[p] = req[p] /\ Holds(p)
    BY DEF Holds
  <2>2. CASE req[p].uuid = u
    <3>1. Excused(req[p].uuid)
      BY <2>1, <2>2 DEF OnceInv, HeldTwice
    <3> QED
      BY <3>1, <2>1 DEF Excused
  <2>3. CASE req[p].uuid # u
    <3>1. Excused(req[p].uuid)
      BY <2>1, <2>3 DEF OnceInv, HeldUsed, Use
    <3> QED
      BY <3>1, <2>1 DEF Excused
  <2> QED
    BY <2>2, <2>3
<1>4. UsedOnce'
  <2>1. u \in used => u \in contended \cup disturbed
    BY DEF OnceInv, HeldUsed, Excused
  <2>2. reused \subseteq contended \cup disturbed
    BY DEF OnceInv, UsedOnce
  <2>3. reused' \subseteq contended \cup disturbed
    BY <2>1, <2>2 DEF Use
  <2> QED
    BY <2>3 DEF UsedOnce
<1> QED
  BY <1>2, <1>3, <1>4 DEF OnceInv

\* A `get` is executed: its request may get hold of the uuid.
LEMMA OnceGet ==
  ASSUME OnceInv, KeyInv', NEW i \in Position, ExecGet(i)
  PROVE  OnceInv'
<1> DEFINE c == conn[1]
<1> DEFINE u == c.uuid
<1> DEFINE q == c.req
<1>1. /\ i = 1 /\ c \in Command /\ 1 \in DOMAIN conn /\ c.op = "get"
      /\ Step(q, IF u \in cached THEN "found" ELSE "missing")
      /\ used' = used /\ reused' = reused /\ disturbed' = disturbed
      /\ contended' = IF u \in cached /\ (Holders(u) # {} \/ DelSent(u))
                      THEN contended \cup {u} ELSE contended
  BY Popped DEF OnceInv, KeyInv, TypeInv, ExecGet, Executes
<1>2. q \in Req /\ req[q] # Idle /\ req[q].uuid = u /\ req[q].pc = "get"
  BY <1>1, Commands DEF OnceInv, KeyInv, TypeInv, Awaited, Waits
<1>3. /\ req'[q] # Idle /\ req'[q].uuid = u
      /\ req'[q].pc = (IF u \in cached THEN "found" ELSE "missing")
      /\ \A p \in Req \ {q} : req'[p] = req[p]
  BY <1>1, <1>2, Steps DEF OnceInv, KeyInv, TypeInv
<1>4. CASE u \notin cached
  <2>1. \A p \in Req : Holds(p)' => Holds(p) /\ req'[p] = req[p]
    BY <1>3, <1>4 DEF Holds
  <2> QED
    BY <1>1, <1>4, <2>1, OnceQuiet
<1>5. CASE u \in cached
  <2>1. ASSUME NEW p \in Req, Holds(p), req[p].uuid = u PROVE u \in contended'
    <3>1. p \in Holders(u)
      BY <2>1 DEF Holds, Holders
    <3> QED
      BY <1>1, <1>5, <3>1
  <2>2. u \in used => u \in contended' \cup disturbed'
    <3>1. ASSUME u \in used, u \notin disturbed
          PROVE  DelSent(u) \/ \E p \in Req : Holds(p) /\ req[p].uuid = u
      BY <1>5, <3>1 DEF OnceInv, KeyInv, NoKeyLeft, At, Holds
    <3> QED
      BY <1>1, <1>5, <2>1, <3>1
  <2>3. \A v \in contended \cup disturbed : v \in contended' \cup disturbed'
    BY <1>1
  <2>4. HeldTwice'
    <3> SUFFICES ASSUME NEW p \in Req, NEW r \in Req, p # r, Holds(p)', Holds(r)',
                        req'[p].uuid = req'[r].uuid
                 PROVE  req'[r].uuid \in contended' \cup disturbed'
      BY DEF HeldTwice, Excused
    <3>1. CASE p = q
      <4>1. r # q /\ req'[r] = req[r] /\ Holds(r) /\ req[r].uuid = u
        BY <1>3, <3>1 DEF Holds
      <4> QED
        BY <2>1, <4>1
    <3>2. CASE r = q
      <4>1. p # q /\ req'[p] = req[p] /\ Holds(p) /\ req[p].uuid = u
        BY <1>3, <3>2 DEF Holds
      <4> QED
        BY <1>3, <2>1, <3>2, <4>1
    <3>3. CASE p # q /\ r # q
      BY <1>3, <2>3, <3>3 DEF OnceInv, HeldTwice, Holds, Excused
    <3> QED
      BY <3>1, <3>2, <3>3
  <2>5. HeldUsed'
    <3> SUFFICES ASSUME NEW p \in Req, Holds(p)', req'[p].pc # "written", req'[p].uuid \in used'
                 PROVE  req'[p].uuid \in contended' \cup disturbed'
      BY DEF HeldUsed, Excused
    <3>1. CASE p = q
      BY <1>1, <1>3, <2>2, <3>1
    <3>2. CASE p # q
      BY <1>1, <1>3, <2>3, <3>2 DEF OnceInv, HeldUsed, Holds, Excused
    <3> QED
      BY <3>1, <3>2
  <2>6. UsedOnce'
    BY <1>1, <2>3 DEF OnceInv, UsedOnce
  <2> QED
    BY <2>4, <2>5, <2>6 DEF OnceInv
<1> QED
  BY <1>4, <1>5

LEMMA OnceStep == OnceInv /\ [Next]_vars => OnceInv'
<1> SUFFICES ASSUME OnceInv, [Next]_vars PROVE OnceInv'
  OBVIOUS
<1> USE DEF redis, history
<1>k. KeyInv'
  BY KeyStep DEF OnceInv
<1>t. TypeOK
  BY DEF OnceInv, KeyInv, TypeInv
<1>1. CASE \E u \in Uuid, e \in Email : ResetEmail(u, e)
  BY <1>1, <1>k, OnceQuiet DEF ResetEmail, Holds
<1>2. ASSUME NEW q \in Req, NEW u \in Uuid,
             HandleReset(q, u) \/ \E right \in BOOLEAN : HandleVerify(q, u, right)
      PROVE  OnceInv'
  <2>1. /\ used' = used /\ reused' = reused /\ contended' = contended /\ disturbed' = disturbed
        /\ req'[q].pc = "get" /\ \A p \in Req \ {q} : req'[p] = req[p]
    BY <1>2, <1>t DEF HandleReset, HandleVerify, TypeOK
  <2>2. \A p \in Req : Holds(p)' => Holds(p) /\ req'[p] = req[p]
    BY <2>1 DEF Holds
  <2> QED
    BY <1>k, <2>1, <2>2, OnceQuiet
<1>3. ASSUME NEW q \in Req, NEW v \in Uuid, VerifyOtp(q, v) PROVE OnceInv'
  <2>1. req'[q] = Idle /\ \A p \in Req \ {q} : req'[p] = req[p]
    BY <1>3, <1>t, Finishes DEF VerifyOtp
  <2>2. Holds(q) /\ req[q].pc # "written" /\ Use(req[q].uuid)
        /\ contended' = contended /\ disturbed' = disturbed
    BY <1>3 DEF VerifyOtp, Holds, At
  <2> QED
    BY <1>k, <2>1, <2>2, OnceUse
<1>4. ASSUME NEW q \in Req, WrongOtp(q) \/ InvalidUuid(q) \/ SetPasswordFails(q) PROVE OnceInv'
  <2>1. Finish(q) /\ used' = used /\ reused' = reused
        /\ contended' = contended /\ disturbed' = disturbed
    BY <1>4 DEF WrongOtp, InvalidUuid, SetPasswordFails
  <2>2. \A p \in Req : Holds(p)' => Holds(p) /\ req'[p] = req[p]
    BY <1>t, <2>1, Finishes DEF Holds
  <2> QED
    BY <1>k, <2>1, <2>2, OnceQuiet
<1>5. ASSUME NEW q \in Req, Hashed(q) PROVE OnceInv'
  <2>1. At(q, "reset", "found") /\ Step(q, "update") /\ used' = used /\ reused' = reused
        /\ contended' = contended /\ disturbed' = disturbed
    BY <1>5 DEF Hashed
  <2>2. /\ req'[q].pc = "update" /\ req'[q].uuid = req[q].uuid
        /\ Holds(q) /\ req[q].pc # "written" /\ \A p \in Req \ {q} : req'[p] = req[p]
    BY <1>t, <2>1, Steps DEF At, Holds
  <2>3. \A p \in Req : Holds(p)' => /\ Holds(p) /\ req'[p].uuid = req[p].uuid
                                    /\ req'[p].pc # "written" => req[p].pc # "written"
    BY <2>2 DEF Holds
  <2> QED
    BY <1>k, <2>1, <2>3, OnceQuiet
<1>6. ASSUME NEW q \in Req, SetPassword(q) \/ SetPasswordAnswerLost(q) PROVE OnceInv'
  <2>1. /\ At(q, "reset", "update") /\ Use(req[q].uuid) /\ contended' = contended
        /\ disturbed \subseteq disturbed' /\ (Step(q, "written") \/ Finish(q))
    BY <1>6 DEF SetPassword, SetPasswordAnswerLost
  <2>2. /\ \A p \in Req \ {q} : req'[p] = req[p]
        /\ req'[q] = Idle \/ (req'[q].pc = "written" /\ req'[q].uuid = req[q].uuid)
        /\ Holds(q) /\ req[q].pc # "written"
    BY <1>t, <2>1, Steps, Finishes DEF At, Holds
  <2> QED
    BY <1>k, <2>1, <2>2, OnceUse
<1>7. ASSUME NEW q \in Req, DeleteKey(q) PROVE OnceInv'
  <2>1. At(q, "reset", "written") /\ Step(q, "del") /\ used' = used /\ reused' = reused
        /\ contended' = contended /\ disturbed' = disturbed
    BY <1>7 DEF DeleteKey
  <2>2. req'[q].pc = "del" /\ \A p \in Req \ {q} : req'[p] = req[p]
    BY <1>t, <2>1, Steps DEF At
  <2>3. \A p \in Req : Holds(p)' => Holds(p) /\ req'[p] = req[p]
    BY <2>2 DEF Holds
  <2> QED
    BY <1>k, <2>1, <2>3, OnceQuiet
<1>8. ASSUME NEW i \in Position, ExecSet(i) \/ ExecDel(i) \/ CommandFails(i) PROVE OnceInv'
  <2>1. /\ used' = used /\ reused' = reused /\ contended' = contended
        /\ disturbed \subseteq disturbed'
    BY <1>8 DEF ExecSet, ExecDel, CommandFails, Executes
  <2>2. \A p \in Req : req'[p] = req[p] \/ req'[p] = Idle
    <3>1. CASE ExecSet(i) \/ ExecDel(i)
      BY <1>t, <3>1 DEF ExecSet, ExecDel, TypeOK
    <3>2. CASE CommandFails(i)
      <4>1. conn[i].req \in Req
        BY <1>t, <3>2, Popped, Commands DEF CommandFails
      <4> QED
        BY <1>t, <3>2, <4>1, Finishes DEF CommandFails
    <3> QED
      BY <1>8, <3>1, <3>2
  <2>3. \A p \in Req : Holds(p)' => Holds(p) /\ req'[p] = req[p]
    BY <2>2 DEF Holds
  <2> QED
    BY <1>k, <2>1, <2>3, OnceQuiet
<1>9. CASE (\E u \in Uuid : Evict(u)) \/ Save \/ RedisRestart \/ UNCHANGED vars
  <2>1. /\ used' = used /\ reused' = reused /\ contended' = contended
        /\ disturbed \subseteq disturbed' /\ req' = req
    BY <1>9, Vars DEF Evict, Save, RedisRestart
  <2> QED
    BY <1>k, <2>1, OnceQuiet DEF Holds
<1>10. CASE Crash
  <2>1. /\ used' = used /\ reused' = reused /\ contended' = contended
        /\ disturbed \subseteq disturbed' /\ req' = [q \in Req |-> Idle]
    BY <1>10 DEF Crash
  <2> QED
    BY <1>k, <2>1, OnceQuiet DEF Holds
<1> QED
  BY <1>k, <1>1, <1>2, <1>3, <1>4, <1>5, <1>6, <1>7, <1>8, <1>9, <1>10, NextActions, OnceGet

\* A uuid is used once, but for overlapping requests and failures.
THEOREM OnceOnly == Spec => []UsedOnce
<1>1. Spec => []OnceInv
  BY OnceInit, OnceStep, PTL DEF Spec
<1> QED
  BY <1>1, PTL DEF OnceInv

-----------------------------------------------------------------------------
(* A uuid is a OneTimeKey. *)

Held(q, u) == req[q] # Idle /\ req[q].uuid = u /\ req[q].pc \in {"found", "update"}

\* A uuid that is not void and not used has its key in Redis, or on the way
\* there, exactly when it was drawn.
LEMMA StatusNow ==
  ASSUME KeyInv, NEW u \in Uuid, ~Void(u)
  PROVE  KeyStatus(u) = IF u \in used THEN "spent"
                        ELSE IF entry[u] # NoEntry THEN "good" ELSE "new"
<1>1. CASE entry[u] = NoEntry
  BY <1>1, Undrawn DEF KeyStatus, SetSent
<1>2. CASE entry[u] # NoEntry
  BY <1>2 DEF KeyInv, KeyThere, KeyStatus, Void
<1> QED
  BY <1>1, <1>2

LEMMA StatusNext ==
  ASSUME KeyInv', NEW u \in Uuid, ~Void(u)'
  PROVE  KeyStatus(u)' = IF u \in used' THEN "spent"
                         ELSE IF entry'[u] # NoEntry THEN "good" ELSE "new"
<1>1. CASE entry'[u] = NoEntry
  <2>1. u \notin cached' /\ u \notin used'
    BY <1>1 DEF KeyInv, TypeInv, TypeOK, UsedDrawn
  <2>2. ~SetSent(u)'
    BY <1>1 DEF KeyInv, TypeInv, Awaited, Waits, SetSent
  <2> QED
    BY <1>1, <2>1, <2>2 DEF KeyStatus
<1>2. CASE entry'[u] # NoEntry
  BY <1>2 DEF KeyInv, KeyThere, KeyStatus, Void
<1> QED
  BY <1>1, <1>2

\* Who holds the key of a uuid that is not void: its holders but those that set
\* their password.
LEMMA HoldersAre ==
  ASSUME NEW u \in Uuid
  PROVE  /\ ~Void(u) => KeyHolders(u) = {q \in Req : Held(q, u)}
         /\ ~Void(u)' => KeyHolders(u)' = {q \in Req : Held(q, u)'}
  BY DEF KeyHolders, Holders, Held

LEMMA HolderAlone ==
  ASSUME OnceInv, NEW u \in Uuid, ~Void(u), NEW q \in Req, Held(q, u)
  PROVE  KeyStatus(u) = "good" /\ KeyHolders(u) = {q} /\ entry[u] # NoEntry /\ u \notin used
<1>1. u \notin used
  BY DEF OnceInv, HeldUsed, Holds, Held, Excused, Void
<1>2. entry[u] # NoEntry
  BY DEF OnceInv, KeyInv, TypeInv, Drawn, Held
<1>3. \A p \in Req : Held(p, u) => p = q
  BY DEF OnceInv, HeldTwice, Holds, Held, Excused, Void
<1> QED
  BY <1>1, <1>2, <1>3, StatusNow, HoldersAre DEF OnceInv

\* What a step may leave as it was.
SameStatus(u) == /\ u \in used' <=> u \in used
                 /\ entry'[u] # NoEntry <=> entry[u] # NoEntry
NoMoreHolders(u) == \A p \in Req : Held(p, u)' => Held(p, u)

LEMMA KeyKept ==
  ASSUME OnceInv, KeyInv', NEW u \in Uuid, ~Void(u), ~Void(u)',
         SameStatus(u), NoMoreHolders(u)
  PROVE  UNCHANGED Key(u)!vars \/ Key(u)!Next
<1>1. KeyStatus(u)' = KeyStatus(u)
  BY StatusNow, StatusNext DEF SameStatus, OnceInv
<1>2. CASE \E q \in Req : Held(q, u)'
  <2>1. PICK q \in Req : Held(q, u)' /\ Held(q, u)
    BY <1>2 DEF NoMoreHolders
  <2>2. KeyHolders(u) = {q} /\ \A p \in Req : Held(p, u) => p = q
    BY <2>1, HolderAlone, HoldersAre
  <2>3. \A p \in Req : Held(p, u)' <=> p = q
    BY <2>1, <2>2 DEF NoMoreHolders
  <2>4. KeyHolders(u)' = {q}
    BY <2>3, HoldersAre
  <2> QED
    BY <1>1, <2>2, <2>4 DEF Key!vars
<1>3. CASE ~\E q \in Req : Held(q, u)'
  <2>1. KeyHolders(u)' = {}
    BY <1>3, HoldersAre
  <2> QED
    BY <1>1, <2>1 DEF Key!Next, Key!GiveBack
<1> QED
  BY <1>2, <1>3

\* A uuid is drawn.
LEMMA KeyIssued ==
  ASSUME OnceInv, KeyInv', NEW u \in Uuid, ~Void(u), ~Void(u)',
         entry[u] = NoEntry, entry'[u] # NoEntry, u \notin used', NoMoreHolders(u)
  PROVE  Key(u)!Next
<1>1. KeyStatus(u) = "new"
  BY StatusNow, Undrawn DEF OnceInv
<1>2. KeyStatus(u)' = "good"
  BY StatusNext
<1>3. \A p \in Req : ~Held(p, u)
  BY Undrawn DEF Held, OnceInv
<1>4. KeyHolders(u) = {} /\ KeyHolders(u)' = {}
  BY <1>3, HoldersAre DEF NoMoreHolders
<1> QED
  BY <1>1, <1>2, <1>4 DEF Key!Next, Key!Issue

\* Its holder uses a uuid.
LEMMA KeyUsedUp ==
  ASSUME OnceInv, KeyInv', NEW u \in Uuid, ~Void(u), ~Void(u)', u \in used',
         NEW q \in Req, Held(q, u), ~Held(q, u)', NoMoreHolders(u)
  PROVE  Key(u)!Next
<1>1. KeyStatus(u) = "good" /\ KeyHolders(u) = {q} /\ \A p \in Req : Held(p, u) => p = q
  BY HolderAlone, HoldersAre
<1>2. KeyStatus(u)' = "spent"
  BY StatusNext
<1>3. KeyHolders(u)' = {}
  BY <1>1, HoldersAre DEF NoMoreHolders
<1> QED
  BY <1>1, <1>2, <1>3 DEF Key!Next, Key!Use

\* A `get` finds the key, and nobody holds it, nor was it used.
LEMMA KeyTaken ==
  ASSUME OnceInv, KeyInv', NEW u \in Uuid, ~Void(u), ~Void(u)',
         NEW i \in Position, ExecGet(i)
  PROVE  UNCHANGED Key(u)!vars \/ Key(u)!Next
<1> DEFINE c == conn[1]
<1> DEFINE q == c.req
<1>1. /\ i = 1 /\ c \in Command /\ 1 \in DOMAIN conn /\ c.op = "get"
      /\ Step(q, IF c.uuid \in cached THEN "found" ELSE "missing")
      /\ used' = used /\ entry' = entry
      /\ contended' = IF c.uuid \in cached /\ (Holders(c.uuid) # {} \/ DelSent(c.uuid))
                      THEN contended \cup {c.uuid} ELSE contended
  BY Popped DEF OnceInv, KeyInv, TypeInv, ExecGet, Executes
<1>2. q \in Req /\ req[q] # Idle /\ req[q].uuid = c.uuid /\ req[q].pc = "get"
  BY <1>1, Commands DEF OnceInv, KeyInv, TypeInv, Awaited, Waits
<1>3. /\ req'[q] # Idle /\ req'[q].uuid = c.uuid
      /\ req'[q].pc = (IF c.uuid \in cached THEN "found" ELSE "missing")
      /\ \A p \in Req \ {q} : req'[p] = req[p]
  BY <1>1, <1>2, Steps DEF OnceInv, KeyInv, TypeInv
<1>4. CASE c.uuid = u /\ u \in cached
  <2>1. Holders(u) = {} /\ ~DelSent(u)
    BY <1>1, <1>4 DEF Void
  <2>2. entry[u] # NoEntry
    BY <1>4 DEF OnceInv, KeyInv, TypeInv, TypeOK
  <2>3. u \notin used
    <3> SUFFICES ASSUME u \in used PROVE FALSE
      OBVIOUS
    <3>1. PICK p \in Req : At(p, "reset", "written") /\ req[p].uuid = u
      BY <1>4, <2>1 DEF OnceInv, KeyInv, NoKeyLeft, Void
    <3>2. p \in Holders(u)
      BY <3>1 DEF At, Holders
    <3> QED
      BY <2>1, <3>2
  <2>4. \A p \in Req : ~Held(p, u)
    BY <2>1 DEF Held, Holders
  <2>5. \A p \in Req : Held(p, u)' <=> p = q
    BY <1>3, <1>4, <2>4 DEF Held
  <2>6. /\ KeyStatus(u) = "good" /\ KeyHolders(u) = {}
        /\ KeyStatus(u)' = "good" /\ KeyHolders(u)' = {q}
    BY <1>1, <1>2, <2>2, <2>3, <2>4, <2>5, StatusNow, StatusNext, HoldersAre DEF OnceInv
  <2> QED
    BY <1>2, <2>6 DEF Key!Next, Key!Take
<1>5. CASE ~(c.uuid = u /\ u \in cached)
  <2>1. NoMoreHolders(u)
    BY <1>3, <1>5 DEF NoMoreHolders, Held
  <2> QED
    BY <1>1, <2>1, KeyKept DEF SameStatus
<1> QED
  BY <1>4, <1>5

LEMMA KeyRefines ==
  ASSUME OnceInv, [Next]_vars, NEW u \in Uuid
  PROVE  UNCHANGED Key(u)!vars \/ Key(u)!Next
<1> DEFINE Goal == UNCHANGED Key(u)!vars \/ Key(u)!Next
<1>0. CASE Void(u)'
  <2>1. KeyStatus(u)' = "void" /\ KeyHolders(u)' = {}
    BY <1>0 DEF KeyStatus, KeyHolders
  <2> QED
    BY <2>1 DEF Key!Next, Key!Void
<1> SUFFICES ASSUME ~Void(u)' PROVE Goal
  BY <1>0
<1>k. KeyInv'
  BY KeyStep DEF OnceInv
<1>t. TypeOK
  BY DEF OnceInv, KeyInv, TypeInv
<1>1. ASSUME NEW v \in Uuid, NEW e \in Email, ResetEmail(v, e) PROVE Goal
  <2>1. /\ entry[v] = NoEntry /\ entry'[v] # NoEntry
        /\ \A w \in Uuid \ {v} : entry'[w] = entry[w]
    BY <1>1, <1>t, Drawing DEF ResetEmail
  <2>2. ~Void(u) /\ NoMoreHolders(u) /\ used' = used
    BY <1>1 DEF ResetEmail, history, Void, NoMoreHolders, Held
  <2>3. CASE u = v
    <3>1. u \notin used'
      BY <2>1, <2>2, <2>3, Undrawn DEF OnceInv
    <3> QED
      BY <1>k, <2>1, <2>2, <2>3, <3>1, KeyIssued
  <2>4. CASE u # v
    BY <1>k, <2>1, <2>2, <2>4, KeyKept DEF SameStatus
  <2> QED
    BY <2>3, <2>4
<1>2. ASSUME NEW q \in Req, NEW v \in Uuid,
             HandleReset(q, v) \/ \E right \in BOOLEAN : HandleVerify(q, v, right)
      PROVE  Goal
  <2>1. ~Void(u) /\ SameStatus(u)
    BY <1>2 DEF HandleReset, HandleVerify, history, Void, SameStatus
  <2>2. req'[q].pc = "get" /\ \A p \in Req \ {q} : req'[p] = req[p]
    BY <1>2, <1>t DEF HandleReset, HandleVerify, TypeOK
  <2>3. NoMoreHolders(u)
    BY <2>2 DEF NoMoreHolders, Held
  <2> QED
    BY <1>k, <2>1, <2>3, KeyKept
<1>3. ASSUME NEW q \in Req, NEW v \in Uuid, VerifyOtp(q, v) PROVE Goal
  <2> DEFINE w == req[q].uuid
  <2>1. req'[q] = Idle /\ \A p \in Req \ {q} : req'[p] = req[p]
    BY <1>3, <1>t, Finishes DEF VerifyOtp
  <2>2. /\ req[q] # Idle /\ req[q].pc = "found"
        /\ Draw(v, "open", entry[w].email)
        /\ used' = used \cup {w} /\ contended' = contended /\ disturbed' = disturbed
    BY <1>3 DEF VerifyOtp, At, Use
  <2>3. w \in Uuid /\ entry[w] # NoEntry
    BY <2>2, Kinds DEF OnceInv, KeyInv, TypeInv, Drawn
  <2>4. entry[w].email \in Email
    BY <1>t, <2>3 DEF TypeOK, Entry, NoEntry
  <2>5. /\ entry[v] = NoEntry /\ entry'[v] # NoEntry
        /\ \A x \in Uuid \ {v} : entry'[x] = entry[x]
    BY <1>t, <2>2, <2>4, Drawing
  <2>6. ~Void(u) /\ NoMoreHolders(u)
    BY <2>1, <2>2 DEF Void, NoMoreHolders, Held
  <2>7. CASE u = w
    <3>1. Held(q, u) /\ ~Held(q, u)' /\ u \in used'
      BY <2>1, <2>2, <2>7 DEF Held
    <3> QED
      BY <1>k, <2>6, <3>1, KeyUsedUp
  <2>8. CASE u = v
    <3>1. u \notin used'
      BY <2>2, <2>3, <2>5, <2>8, Undrawn DEF OnceInv
    <3> QED
      BY <1>k, <2>5, <2>6, <2>8, <3>1, KeyIssued
  <2>9. CASE u # w /\ u # v
    BY <1>k, <2>2, <2>5, <2>6, <2>9, KeyKept DEF SameStatus
  <2> QED
    BY <2>7, <2>8, <2>9
<1>4. ASSUME NEW q \in Req, WrongOtp(q) \/ InvalidUuid(q) \/ SetPasswordFails(q) PROVE Goal
  <2>1. ~Void(u) /\ SameStatus(u) /\ Finish(q)
    BY <1>4 DEF WrongOtp, InvalidUuid, SetPasswordFails, redis, history, Void, SameStatus
  <2>2. NoMoreHolders(u)
    BY <1>t, <2>1, Finishes DEF NoMoreHolders, Held
  <2> QED
    BY <1>k, <2>1, <2>2, KeyKept
<1>5. ASSUME NEW q \in Req, Hashed(q) \/ DeleteKey(q) PROVE Goal
  <2>1. ~Void(u) /\ SameStatus(u)
    BY <1>5 DEF Hashed, DeleteKey, redis, history, Void, SameStatus
  <2>2. /\ req[q] # Idle /\ req[q].op = "reset"
        /\ \/ req[q].pc = "found" /\ Step(q, "update")
           \/ Step(q, "del")
    BY <1>5 DEF Hashed, DeleteKey, At
  <2>3. /\ req'[q].uuid = req[q].uuid
        /\ req'[q].pc = "del" \/ req[q].pc = "found"
        /\ \A p \in Req \ {q} : req'[p] = req[p]
    BY <1>t, <2>2, Steps
  <2>4. NoMoreHolders(u)
    BY <2>2, <2>3 DEF NoMoreHolders, Held
  <2> QED
    BY <1>k, <2>1, <2>4, KeyKept
<1>6. ASSUME NEW q \in Req, SetPassword(q) \/ SetPasswordAnswerLost(q) PROVE Goal
  <2>1. /\ req[q] # Idle /\ req[q].pc = "update" /\ req[q].op = "reset"
        /\ used' = used \cup {req[q].uuid}
        /\ entry' = entry /\ contended' = contended /\ disturbed \subseteq disturbed'
        /\ Step(q, "written") \/ Finish(q)
    BY <1>6 DEF SetPassword, SetPasswordAnswerLost, At, Use, redis
  <2>2. /\ \A p \in Req \ {q} : req'[p] = req[p]
        /\ req'[q] = Idle \/ req'[q].pc = "written"
    BY <1>t, <2>1, Steps, Finishes
  <2>3. ~Void(u) /\ NoMoreHolders(u)
    BY <2>1, <2>2 DEF Void, NoMoreHolders, Held
  <2>4. CASE u = req[q].uuid
    <3>1. Held(q, u) /\ ~Held(q, u)' /\ u \in used'
      BY <2>1, <2>2, <2>4 DEF Held
    <3> QED
      BY <1>k, <2>3, <3>1, KeyUsedUp
  <2>5. CASE u # req[q].uuid
    BY <1>k, <2>1, <2>3, <2>5, KeyKept DEF SameStatus
  <2> QED
    BY <2>4, <2>5
<1>7. ASSUME NEW i \in Position, ExecSet(i) \/ ExecDel(i) \/ CommandFails(i) PROVE Goal
  <2>1. ~Void(u) /\ SameStatus(u)
    BY <1>7 DEF ExecSet, ExecDel, CommandFails, Executes, Void, SameStatus
  <2>2. \A p \in Req : req'[p] = req[p] \/ req'[p] = Idle
    <3>1. CASE ExecSet(i) \/ ExecDel(i)
      BY <1>t, <3>1 DEF ExecSet, ExecDel, TypeOK
    <3>2. CASE CommandFails(i)
      <4>1. conn[i].req \in Req
        BY <1>t, <3>2, Popped, Commands DEF CommandFails
      <4> QED
        BY <1>t, <3>2, <4>1, Finishes DEF CommandFails
    <3> QED
      BY <1>7, <3>1, <3>2
  <2>3. NoMoreHolders(u)
    BY <2>2 DEF NoMoreHolders, Held
  <2> QED
    BY <1>k, <2>1, <2>3, KeyKept
<1>8. ASSUME NEW i \in Position, ExecGet(i) PROVE Goal
  <2>1. ~Void(u)
    BY <1>8 DEF ExecGet, Executes, Void
  <2> QED
    BY <1>8, <1>k, <2>1, KeyTaken
<1>9. CASE (\E v \in Uuid : Evict(v)) \/ Save \/ RedisRestart \/ UNCHANGED vars
  <2>1. /\ used' = used /\ entry' = entry /\ req' = req /\ contended' = contended
        /\ disturbed \subseteq disturbed'
    BY <1>9, Vars DEF Evict, Save, RedisRestart, history
  <2> QED
    BY <1>k, <2>1, KeyKept DEF Void, SameStatus, NoMoreHolders, Held
<1>10. CASE Crash
  <2>1. /\ used' = used /\ entry' = entry /\ contended' = contended
        /\ disturbed \subseteq disturbed' /\ req' = [q \in Req |-> Idle]
    BY <1>10 DEF Crash
  <2> QED
    BY <1>k, <2>1, KeyKept DEF Void, SameStatus, NoMoreHolders, Held
<1> QED
  BY <1>1, <1>2, <1>3, <1>4, <1>5, <1>6, <1>7, <1>8, <1>9, <1>10, NextActions

\* Every uuid of a password reset is a key that one request at a time finds and
\* that is used once, but for overlaps and failures, for any number of requests,
\* uuids and commands on the connection.
THEOREM UuidsAreOneTimeKeys == Spec => ImplementsOneTimeKey
<1>1. Init => \A u \in Uuid : Key(u)!Init
  BY DEF Init, Key!Init, KeyStatus, KeyHolders, Holders, Void, SetSent
<1>2. OnceInv /\ [Next]_vars => [\A u \in Uuid : UNCHANGED Key(u)!vars \/ Key(u)!Next]_vars
  BY KeyRefines
<1>3. Spec => []OnceInv
  BY OnceInit, OnceStep, PTL DEF Spec
<1> QED
  BY <1>1, <1>2, <1>3, PTL DEF Spec, ImplementsOneTimeKey
=============================================================================
