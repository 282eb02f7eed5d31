-------------------------------- MODULE Reset --------------------------------
(***************************************************************************)
(* Password reset in AuthService: forgot-password, verify-otp and          *)
(* reset-password, chained by uuids under `reset:<uuid>` in Redis.         *)
(*                                                                         *)
(* The first two answer a uuid whose `set` they do not await.  ioredis     *)
(* sends commands over one connection in the order of the calls and Redis  *)
(* executes them in that order: `conn` is what was sent and not executed.  *)
(* A command nobody awaits that fails is an unhandled rejection, and Node  *)
(* ends the process.                                                       *)
(***************************************************************************)
EXTENDS Naturals, Sequences, FiniteSets

CONSTANTS
    Email,       \* emails a request may name
    Registered,  \* emails with a row in the User table
    Uuid,        \* uuids, each drawn once
    Req,         \* slots for HTTP requests being handled
    NoReq        \* "nobody waits for the command"

ASSUME RegisteredAssumption == Registered \subseteq Email
ASSUME NoReqAssumption == NoReq \notin Req

VARIABLES
    conn,        \* Redis commands sent and not executed
    entry,       \* what was, or will be, set under a uuid
    cached,      \* uuids whose key is in Redis
    snapshot,    \* cached when Redis last saved
    req,         \* requests being handled
    used,        \* history: uuids whose OTP was accepted or that set a password
    reused,      \* history: uuids that did so again
    contended,   \* history: uuids found by a request while another one that
                 \* found it had not yet deleted it
    disturbed    \* history: uuids whose key Redis lost or brought back, or
                 \* whose `set` or `del` was never executed

redis == <<conn, entry, cached, snapshot>>
history == <<used, reused, contended, disturbed>>
vars == <<redis, req, history>>

\* {email, my_otp} from forgot-password, {email} from verify-otp.
Entry == [stage : {"otp", "open"}, email : Email]
NoEntry == [stage |-> "none"]
Idle == [op |-> "idle"]
Request ==
    [op : {"verify"}, pc : {"get", "found", "missing"}, uuid : Uuid, right : BOOLEAN]
    \cup [op : {"reset"}, pc : {"get", "found", "missing", "update", "written", "del"},
          uuid : Uuid]
Command == [op : {"get"}, uuid : Uuid, req : Req]
      \cup [op : {"set"}, uuid : Uuid, req : {NoReq}]
      \cup [op : {"del"}, uuid : Uuid, req : Req \cup {NoReq}]

TypeOK ==
    /\ conn \in Seq(Command)
    /\ entry \in [Uuid -> Entry \cup {NoEntry}]
    /\ cached \subseteq {u \in Uuid : entry[u] # NoEntry}
    /\ snapshot \subseteq {u \in Uuid : entry[u] # NoEntry}
    /\ req \in [Req -> Request \cup {Idle}]
    /\ used \subseteq Uuid
    /\ reused \subseteq Uuid
    /\ contended \subseteq Uuid
    /\ disturbed \subseteq Uuid

Init ==
    /\ conn = <<>>
    /\ entry = [u \in Uuid |-> NoEntry]
    /\ cached = {}
    /\ snapshot = {}
    /\ req = [q \in Req |-> Idle]
    /\ used = {}
    /\ reused = {}
    /\ contended = {}
    /\ disturbed = {}

-----------------------------------------------------------------------------
Get(q, u) == [op |-> "get", uuid |-> u, req |-> q]
Set(u) == [op |-> "set", uuid |-> u, req |-> NoReq]
Del(q, u) == [op |-> "del", uuid |-> u, req |-> q]

At(q, op, pc) == req[q] # Idle /\ req[q].op = op /\ req[q].pc = pc
Step(q, pc) == req' = [req EXCEPT ![q].pc = pc]
Finish(q) == req' = [req EXCEPT ![q] = Idle]

Use(u) ==
    /\ used' = used \cup {u}
    /\ reused' = IF u \in used THEN reused \cup {u} ELSE reused

\* Variant: a uuid is made up and nothing is kept under it.
DrawEmpty(u, stage, e) == entry[u] = NoEntry /\ UNCHANGED entry

\* uuidv4 and the value kept under it.
Draw(u, stage, e) ==
    /\ entry[u] = NoEntry
    /\ entry' = [entry EXCEPT ![u] = [stage |-> stage, email |-> e]]

\* Requests that found u and have not sent its `del`.
Holders(u) ==
    {q \in Req : /\ req[q] # Idle
                 /\ req[q].uuid = u
                 /\ req[q].pc \in {"found", "update", "written"}}
DelSent(u) == \E i \in DOMAIN conn : conn[i].op = "del" /\ conn[i].uuid = u

-----------------------------------------------------------------------------
(* The three handlers. *)

\* POST /auth/forgot-password: the lookup of the email is not awaited and its
\* promise is never falsy, so any email gets a uuid.
ResetEmail(u, e) ==
    /\ Draw(u, "otp", e)
    /\ conn' = Append(conn, Set(u))
    /\ UNCHANGED <<cached, snapshot, req, history>>

\* POST /auth/verify-otp, with a uuid that was answered.
HandleVerify(q, u, right) ==
    /\ req[q] = Idle
    /\ entry[u] # NoEntry
    /\ req' = [req EXCEPT ![q] = [op |-> "verify", pc |-> "get", uuid |-> u, right |-> right]]
    /\ conn' = Append(conn, Get(q, u))
    /\ UNCHANGED <<entry, cached, snapshot, history>>

\* An entry without my_otp equals no OTP.
OtpMatches(q) == req[q].right /\ entry[req[q].uuid].stage = "otp"

\* Variant: the validated entry stays.
SetOnly(u, v) == <<Set(v)>>

\* The `del` of the validated uuid, then the `set` of the next.
DelThenSet(u, v) == <<Del(NoReq, u), Set(v)>>

\* The OTP is right: neither command is awaited, and v is answered.
VerifyOtp(q, v) ==
    LET u == req[q].uuid
    IN  /\ At(q, "verify", "found")
        /\ OtpMatches(q)
        /\ Draw(v, "open", entry[u].email)
        /\ conn' = conn \o DelThenSet(u, v)
        /\ Use(u)
        /\ Finish(q)
        /\ UNCHANGED <<cached, snapshot, contended, disturbed>>

WrongOtp(q) ==
    /\ At(q, "verify", "found")
    /\ ~OtpMatches(q)
    /\ Finish(q)
    /\ UNCHANGED <<redis, history>>

\* POST /auth/reset-password, with a uuid that was answered, by either of the
\* other two.
HandleReset(q, u) ==
    /\ req[q] = Idle
    /\ entry[u] # NoEntry
    /\ req' = [req EXCEPT ![q] = [op |-> "reset", pc |-> "get", uuid |-> u]]
    /\ conn' = Append(conn, Get(q, u))
    /\ UNCHANGED <<entry, cached, snapshot, history>>

\* bcrypt.hash resumes, and the update is sent.
Hashed(q) ==
    /\ At(q, "reset", "found")
    /\ Step(q, "update")
    /\ UNCHANGED <<redis, history>>

\* user.update sets the password of the email of the entry.
SetPassword(q) ==
    /\ At(q, "reset", "update")
    /\ entry[req[q].uuid].email \in Registered
    /\ Use(req[q].uuid)
    /\ Step(q, "written")
    /\ UNCHANGED <<redis, contended, disturbed>>

\* There is no such user, or the query fails: 500, and the uuid stays.
SetPasswordFails(q) ==
    /\ At(q, "reset", "update")
    /\ Finish(q)
    /\ UNCHANGED <<redis, history>>

\* The update commits and its answer is lost: 500 as well.
SetPasswordAnswerLost(q) ==
    /\ At(q, "reset", "update")
    /\ entry[req[q].uuid].email \in Registered
    /\ Use(req[q].uuid)
    /\ disturbed' = disturbed \cup {req[q].uuid}
    /\ Finish(q)
    /\ UNCHANGED <<redis, contended>>

\* Variant: the uuid is left to expire.
KeepKey(q, u) == <<>>

\* deleteKeyInCache, awaited.
DropKey(q, u) == <<Del(q, u)>>

DeleteKey(q) ==
    LET u == req[q].uuid
    IN  /\ At(q, "reset", "written")
        /\ conn' = conn \o DropKey(q, u)
        /\ Step(q, "del")
        /\ UNCHANGED <<entry, cached, snapshot, history>>

\* The key was not there: 400.
InvalidUuid(q) ==
    /\ At(q, "verify", "missing") \/ At(q, "reset", "missing")
    /\ Finish(q)
    /\ UNCHANGED <<redis, history>>

-----------------------------------------------------------------------------
(* Redis. *)

\* Variant: commands are spread over connections.
AnyPosition == DOMAIN conn

\* Which command is executed next.
Position == IF conn = <<>> THEN {} ELSE {1}

Without(i) == SubSeq(conn, 1, i - 1) \o SubSeq(conn, i + 1, Len(conn))

\* The command at i is executed.
Executes(i, op) ==
    /\ conn[i].op = op
    /\ conn' = Without(i)
    /\ UNCHANGED <<entry, snapshot, used, reused, disturbed>>

ExecSet(i) ==
    /\ Executes(i, "set")
    /\ cached' = cached \cup {conn[i].uuid}
    /\ UNCHANGED <<req, contended>>

\* An awaited `del` is the last thing its request waits for.
ExecDel(i) ==
    /\ Executes(i, "del")
    /\ cached' = cached \ {conn[i].uuid}
    /\ req' = [q \in Req |-> IF q = conn[i].req THEN Idle ELSE req[q]]
    /\ UNCHANGED contended

ExecGet(i) ==
    LET u == conn[i].uuid
        found == u \in cached
    IN  /\ Executes(i, "get")
        /\ Step(conn[i].req, IF found THEN "found" ELSE "missing")
        /\ contended' = IF found /\ (Holders(u) # {} \/ DelSent(u))
                        THEN contended \cup {u} ELSE contended
        /\ UNCHANGED cached

\* A command somebody awaits fails: 500, and a key that was to go stays.
CommandFails(i) ==
    /\ conn[i].req # NoReq
    /\ conn' = Without(i)
    /\ disturbed' = IF conn[i].op = "del" THEN disturbed \cup {conn[i].uuid} ELSE disturbed
    /\ Finish(conn[i].req)
    /\ UNCHANGED <<entry, cached, snapshot, used, reused, contended>>

\* maxmemory with allkeys-lru, or the five hours are over.
Evict(u) ==
    /\ u \in cached
    /\ cached' = cached \ {u}
    /\ disturbed' = disturbed \cup {u}
    /\ UNCHANGED <<conn, entry, snapshot, req, used, reused, contended>>

Save ==
    /\ snapshot # cached
    /\ snapshot' = cached
    /\ UNCHANGED <<conn, entry, cached, req, history>>

\* Redis comes back with the snapshot.
RedisRestart ==
    /\ cached' = snapshot
    /\ disturbed' = disturbed \cup (cached \ snapshot) \cup (snapshot \ cached)
    /\ UNCHANGED <<conn, entry, snapshot, req, used, reused, contended>>

\* A `set`, a `del` or the mail that nobody awaits fails, or the process ends
\* for another reason: commands not executed and requests are gone.
Crash ==
    /\ conn' = <<>>
    /\ req' = [q \in Req |-> Idle]
    /\ disturbed' = disturbed
           \cup {conn[i].uuid : i \in {j \in DOMAIN conn : conn[j].op # "get"}}
           \cup {u \in Uuid : \E q \in Req : At(q, "reset", "written") /\ req[q].uuid = u}
    /\ UNCHANGED <<entry, cached, snapshot, used, reused, contended>>

-----------------------------------------------------------------------------
Handle(q) ==
    \/ \E u \in Uuid, right \in BOOLEAN : HandleVerify(q, u, right)
    \/ \E u \in Uuid : HandleReset(q, u) \/ VerifyOtp(q, u)
    \/ WrongOtp(q) \/ InvalidUuid(q)
    \/ Hashed(q) \/ SetPassword(q) \/ SetPasswordFails(q) \/ SetPasswordAnswerLost(q)
    \/ DeleteKey(q)

Next ==
    \/ \E u \in Uuid, e \in Email : ResetEmail(u, e)
    \/ \E q \in Req : Handle(q)
    \/ \E i \in Position : ExecSet(i) \/ ExecDel(i) \/ ExecGet(i) \/ CommandFails(i)
    \/ \E u \in Uuid : Evict(u)
    \/ Save
    \/ RedisRestart
    \/ Crash

Spec == Init /\ [][Next]_vars

-----------------------------------------------------------------------------
(* Properties. *)

\* A uuid is answered before its key is there (auth.service.ts:78, 98), and
\* still works: whoever comes with it finds the key, because the `get` is sent
\* on the same connection after the `set`.  It is missing only once it was
\* used, or when Redis or the process failed.
AnsweredUuidWorks ==
    \A q \in Req :
        (At(q, "verify", "missing") \/ At(q, "reset", "missing")) =>
            req[q].uuid \in used \cup disturbed

\* A uuid has its OTP accepted, or sets a password, once, and not one after the
\* other, but for requests that overlap, although verify-otp does not wait for
\* the key to be gone (auth.service.ts:96) and reset-password deletes it after
\* the update (auth.service.ts:127 to 133).
UsedOnce == reused \subseteq contended \cup disturbed

\* No key is left behind: a used uuid is not in Redis, or its `del` is on its
\* way, or the request that has to send it is.
NoKeyLeft ==
    \A u \in used \ disturbed :
        \/ u \notin cached
        \/ DelSent(u)
        \/ \E q \in Req : At(q, "reset", "written") /\ req[q].uuid = u

-----------------------------------------------------------------------------
(* A uuid as a OneTimeKey: it is good from being drawn, because its `set` is *)
(* ahead of every `get` that can ask for it, and a request holds it from     *)
(* finding it to having its OTP accepted or setting the password.            *)

Void(u) == u \in contended \/ u \in disturbed
SetSent(u) == \E i \in DOMAIN conn : conn[i].op = "set" /\ conn[i].uuid = u

KeyStatus(u) ==
    IF Void(u) THEN "void"
    ELSE IF u \in used THEN "spent"
    ELSE IF u \in cached \/ SetSent(u) THEN "good" ELSE "new"
KeyHolders(u) == {q \in Holders(u) : ~Void(u) /\ req[q].pc # "written"}

Key(u) == INSTANCE OneTimeKey WITH
              Worker <- Req, status <- KeyStatus(u), holders <- KeyHolders(u)

\* The uuids of a password reset are keys that are used once: a uuid that had
\* its OTP accepted, or set a password, is found by no request that does so
\* again, unless requests overlapped on it or its `set` or `del` was lost, Redis
\* dropped or restored its key.
ImplementsOneTimeKey ==
    /\ \A u \in Uuid : Key(u)!Init
    /\ [][\A u \in Uuid : UNCHANGED Key(u)!vars \/ Key(u)!Next]_vars

=============================================================================
