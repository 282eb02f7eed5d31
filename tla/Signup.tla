------------------------------- MODULE Signup -------------------------------
(***************************************************************************)
(* How accounts and their settings come to be: the three requests of a     *)
(* signup (RegisterService, with its `signup:<uuid>` keys in Redis), the   *)
(* first login with Google (AuthGoogleRepository) and the settings row of  *)
(* a user (SettingsService).  Each awaited Redis command, query or mail is *)
(* a step; the settings of a new account are created without being awaited.*)
(***************************************************************************)
EXTENDS Naturals

CONSTANTS
    Email,     \* email addresses, which name accounts
    Password,  \* passwords sent with a signup
    Req,       \* slots for requests being handled
    None,      \* "no account" and "no password"
    MaxUuid    \* bound on the uuids drawn

ASSUME NoneAssumption == None \notin Password
ASSUME MaxUuidAssumption == MaxUuid \in Nat

VARIABLES
    issued,    \* number of uuids drawn; uuidv4 never repeats
    entry,     \* what was written under `signup:<uuid>`, once for each uuid
    cached,    \* the uuids whose key is in Redis
    saved,     \* the same in the last RDB snapshot
    known,     \* the uuids a browser was answered
    account,   \* User rows, as they were created
    settings,  \* Settings rows
    floating,  \* the settings of a new account being created by no request
    req,       \* requests being handled
    validated, \* history: emails and passwords whose OTP was sent back
    used,      \* history: uuids deleted when their OTP was accepted
    contended, \* history: uuids two requests validated at the same time
    disturbed, \* history: uuids whose key Redis itself removed or restored
    asked,     \* history: emails whose settings row a settings request created
    lost       \* history: emails whose floating creation a crash dropped

redis == <<issued, entry, cached, saved>>
tables == <<account, settings, floating>>
history == <<validated, used, contended, disturbed, asked, lost>>
vars == <<redis, known, tables, req, history>>

Uuid == 1..MaxUuid
Entry == [stage : {"otp", "validated"}, email : Email, password : Password]
Account == [by : {"signup"}, password : Password] \cup [by : {"google"}, password : {None}]
Nothing == [stage |-> "unwritten"]
Absent == [by |-> "nobody"]
Idle == [op |-> "idle"]

\* A settings row: the defaults of the schema, or what a SettingsDto set.
Settings == {"default", "chosen"}

RegisterReq == [op : {"register"}, pc : {"find", "mail", "set"}, email : Email,
                password : Password]
ValidateReq == [op : {"validate"}, pc : {"get", "del", "set"}, uuid : Uuid]
ResendReq == [op : {"resend"}, pc : {"get"}, uuid : Uuid]
SignupReq == [op : {"signup"}, pc : {"get", "create"}, uuid : Uuid]

Request ==
    RegisterReq \cup ValidateReq \cup ResendReq \cup SignupReq
    \cup [op : {"answer"}, pc : {"answer"}, uuid : Uuid]
    \cup [op : {"settings"}, pc : {"find", "recheck", "create"}, email : Email]
    \cup [op : {"google"}, pc : {"find", "insert", "recheck", "create"}, email : Email]

TypeOK ==
    /\ issued \in 0..MaxUuid
    /\ entry \in [Uuid -> Entry \cup {Nothing}]
    /\ cached \subseteq Uuid /\ saved \subseteq Uuid /\ known \subseteq Uuid
    /\ account \in [Email -> Account \cup {Absent}]
    /\ settings \in [Email -> Settings \cup {"none"}]
    /\ floating \in [Email -> {"none", "recheck", "create"}]
    /\ req \in [Req -> Request \cup {Idle}]
    /\ validated \subseteq Email \X Password
    /\ used \subseteq Uuid /\ contended \subseteq Uuid /\ disturbed \subseteq Uuid
    /\ asked \subseteq Email /\ lost \subseteq Email

Init ==
    /\ issued = 0
    /\ entry = [u \in Uuid |-> Nothing]
    /\ cached = {} /\ saved = {} /\ known = {}
    /\ account = [e \in Email |-> Absent]
    /\ settings = [e \in Email |-> "none"]
    /\ floating = [e \in Email |-> "none"]
    /\ req = [q \in Req |-> Idle]
    /\ validated = {} /\ used = {} /\ contended = {} /\ disturbed = {}
    /\ asked = {} /\ lost = {}

-----------------------------------------------------------------------------
At(q, op, pc) == req[q].op = op /\ req[q] # Idle /\ req[q].pc = pc
Start(q, r) == req[q] = Idle /\ req' = [req EXCEPT ![q] = r]
Goto(q, pc) == req' = [req EXCEPT ![q].pc = pc]
Finish(q) == req' = [req EXCEPT ![q] = Idle]

\* Write d under a fresh uuid, then answer with the uuid.
WriteEntry(q, d) ==
    /\ issued < MaxUuid
    /\ issued' = issued + 1
    /\ entry' = [entry EXCEPT ![issued'] = d]
    /\ cached' = cached \cup {issued'}
    /\ req' = [req EXCEPT ![q] = [op |-> "answer", pc |-> "answer", uuid |-> issued']]
    /\ UNCHANGED <<saved, known, tables, history>>

-----------------------------------------------------------------------------
(* POST /register *)

HandleRegister(q, e, p) ==
    /\ Start(q, [op |-> "register", pc |-> "find", email |-> e, password |-> p])
    /\ UNCHANGED <<redis, known, tables, history>>

\* findUserByEmail finds a row.
EmailTaken(e) == account[e] # Absent

\* 400 "The email already exist", or go on to the mail.
FindUserByEmail(q) ==
    /\ At(q, "register", "find")
    /\ IF EmailTaken(req[q].email) THEN Finish(q) ELSE Goto(q, "mail")
    /\ UNCHANGED <<redis, known, tables, history>>

SendEmail(q) ==
    /\ At(q, "register", "mail")
    /\ Goto(q, "set")
    /\ UNCHANGED <<redis, known, tables, history>>

SetOtpEntry(q) ==
    /\ At(q, "register", "set")
    /\ WriteEntry(q, [stage |-> "otp", email |-> req[q].email, password |-> req[q].password])

-----------------------------------------------------------------------------
(* POST /register/validate-user *)

HandleValidate(q, u) ==
    /\ u \in known
    /\ Start(q, [op |-> "validate", pc |-> "get", uuid |-> u])
    /\ UNCHANGED <<redis, known, tables, history>>

\* The key is there and the OTP of the request is the one in the entry; the
\* entry of a validated signup has none.
AcceptOtp(q) ==
    /\ At(q, "validate", "get")
    /\ LET u == req[q].uuid
       IN  /\ u \in cached /\ entry[u].stage = "otp"
           /\ validated' = validated \cup {<<entry[u].email, entry[u].password>>}
           /\ contended' = IF \E p \in Req \ {q} : At(p, "validate", "del") /\ req[p].uuid = u
                           THEN contended \cup {u} ELSE contended
    /\ Goto(q, "del")
    /\ UNCHANGED <<redis, known, tables, used, disturbed, asked, lost>>

\* 400: the key is gone or the OTP is wrong.
RefuseOtp(q) ==
    /\ At(q, "validate", "get")
    /\ Finish(q)
    /\ UNCHANGED <<redis, known, tables, history>>

\* Variant: the validated entry is written and the other one left to expire.
KeepKey(u) == cached

\* deleteKeyInCache
DeleteKey(u) == cached \ {u}

DeleteOtpEntry(q) ==
    /\ At(q, "validate", "del")
    /\ cached' = DeleteKey(req[q].uuid)
    /\ used' = used \cup {req[q].uuid}
    /\ Goto(q, "set")
    /\ UNCHANGED <<issued, entry, saved, known, tables, validated, contended, disturbed,
                   asked, lost>>

\* Variant: the user's data stay wrapped, as resendOTP writes them.
Wrapped(d) == [d EXCEPT !.stage = "wrapped"]

\* JSON.stringify(userData)
Unwrapped(d) == [d EXCEPT !.stage = "validated"]

SetValidatedEntry(q) ==
    /\ At(q, "validate", "set")
    /\ WriteEntry(q, Unwrapped(entry[req[q].uuid]))

-----------------------------------------------------------------------------
(* POST /register/resend-otp *)

HandleResend(q, u) ==
    /\ u \in known
    /\ Start(q, [op |-> "resend", pc |-> "get", uuid |-> u])
    /\ UNCHANGED <<redis, known, tables, history>>

\* The controller passes the body where resendOTP takes the uuid, and for a body
\* that is a JSON object the key it looks up is "[object Object]": no uuid is
\* drawn that makes it.  Other bodies are outside the inputs of this module (an
\* array of one uuid would have the uuid for its text).
ResendKey == 0

\* 400 "Invalid UUID".
RefuseResend(q) ==
    /\ At(q, "resend", "get")
    /\ ResendKey \notin cached
    /\ Finish(q)
    /\ UNCHANGED <<redis, known, tables, history>>

-----------------------------------------------------------------------------
(* The answer of either request. *)

\* Variant: the answer draws a uuid of its own.
DrawnAnew(q) == {u \in Uuid : u = issued + 1}

\* The uuid the browser is answered.
AnsweredUuid(q) == {req[q].uuid}

Answer(q) ==
    /\ At(q, "answer", "answer")
    /\ known' = known \cup AnsweredUuid(q)
    /\ Finish(q)
    /\ UNCHANGED <<redis, tables, history>>

-----------------------------------------------------------------------------
(* POST /register/signup *)

HandleSignup(q, u) ==
    /\ u \in known
    /\ Start(q, [op |-> "signup", pc |-> "get", uuid |-> u])
    /\ UNCHANGED <<redis, known, tables, history>>

\* Variant: the email and password of an entry that waits for its OTP are read
\* from where validateOTP reads them, `parse.data`.
EitherStage(d) == d.stage \in {"otp", "validated"}

\* `parse.email` and `parse.password` are there: bcrypt.hash can hash.
HasCredentials(d) == d.stage = "validated"

GetSignupEntry(q) ==
    /\ At(q, "signup", "get")
    /\ IF req[q].uuid \in cached /\ HasCredentials(entry[req[q].uuid])
       THEN Goto(q, "create") ELSE Finish(q)
    /\ UNCHANGED <<redis, known, tables, history>>

\* Variants: Google logins create settings without awaiting them too, and
\* nobody does.
FloatsAlways(op) == op \in {"signup", "google"}
FloatsNever(op) == FALSE

\* Who creates the settings of a new account without awaiting them.
Floats(op) == op = "signup"

\* Variant: a real upsert.
Upserted(e, a) == [account EXCEPT ![e] = a]

\* email is unique: a row that is there stays.
Inserted(e, a) == IF account[e] = Absent THEN [account EXCEPT ![e] = a] ELSE account

CreateAccount(e, a) ==
    /\ account' = Inserted(e, a)
    /\ floating' = IF account[e] = Absent /\ Floats(a.by)
                   THEN [floating EXCEPT ![e] = "recheck"] ELSE floating
    /\ UNCHANGED <<redis, known, settings, history>>

\* The entry stays in Redis.  When the email is taken the insert throws: 500.
CreateUser(q) ==
    /\ At(q, "signup", "create")
    /\ LET d == entry[req[q].uuid]
       IN  CreateAccount(d.email, [by |-> "signup", password |-> d.password])
    /\ Finish(q)

-----------------------------------------------------------------------------
(* Settings *)

\* Variant: the row is written whether it is there or not.
WroteDefaults(e) == [settings EXCEPT ![e] = "default"]

\* The row createSettings inserts; userId is unique.
WithDefaults(e) ==
    IF settings[e] = "none" THEN [settings EXCEPT ![e] = "default"] ELSE settings

\* The unawaited createSettings of a new account.
RecheckFloating(e) ==
    /\ floating[e] = "recheck"
    /\ floating' = [floating EXCEPT ![e] = IF settings[e] = "none" THEN "create" ELSE "none"]
    /\ UNCHANGED <<redis, known, account, settings, req, history>>

CreateFloating(e) ==
    /\ floating[e] = "create"
    /\ settings[e] = "none"
    /\ settings' = WithDefaults(e)
    /\ floating' = [floating EXCEPT ![e] = "none"]
    /\ UNCHANGED <<redis, known, account, req, history>>

\* GET /settings of a user who is logged in.
HandleGetSettings(q, e) ==
    /\ account[e] # Absent
    /\ Start(q, [op |-> "settings", pc |-> "find", email |-> e])
    /\ UNCHANGED <<redis, known, tables, history>>

\* The controller looks for the row and createSettings looks again.
FindSettings(q) ==
    /\ \/ At(q, "settings", "find") \/ At(q, "settings", "recheck")
       \/ At(q, "google", "recheck")
    /\ IF settings[req[q].email] # "none" THEN Finish(q)
       ELSE Goto(q, IF At(q, "settings", "find") THEN "recheck" ELSE "create")
    /\ UNCHANGED <<redis, known, tables, history>>

\* The insert, or 500 when the row is there by now.
CreateSettings(q) ==
    /\ At(q, "settings", "create") \/ At(q, "google", "create")
    /\ settings' = WithDefaults(req[q].email)
    /\ asked' = IF At(q, "settings", "create") THEN asked \cup {req[q].email} ELSE asked
    /\ Finish(q)
    /\ UNCHANGED <<redis, known, account, floating, validated, used, contended, disturbed, lost>>

\* One upsert: the row is there afterwards, with what was chosen.
WithChosen(e) == [settings EXCEPT ![e] = "chosen"]

\* POST /settings/update-settings.
UpdateSettings(e) ==
    /\ account[e] # Absent
    /\ settings' = WithChosen(e)
    /\ asked' = asked \cup {e}
    /\ UNCHANGED <<redis, known, account, floating, req, validated, used, contended,
                   disturbed, lost>>

-----------------------------------------------------------------------------
(* Login with Google *)

HandleGoogle(q, e) ==
    /\ Start(q, [op |-> "google", pc |-> "find", email |-> e])
    /\ UNCHANGED <<redis, known, tables, history>>

\* An account that is there is logged in to as it is.
FindGoogleUser(q) ==
    /\ At(q, "google", "find")
    /\ IF account[req[q].email] # Absent THEN Finish(q) ELSE Goto(q, "insert")
    /\ UNCHANGED <<redis, known, tables, history>>

\* The insert, and on to the settings; it throws when the email is taken.
InsertGoogleUser(q) ==
    /\ At(q, "google", "insert")
    /\ CreateAccount(req[q].email, [by |-> "google", password |-> None])
    /\ IF account[req[q].email] = Absent THEN Goto(q, "recheck") ELSE Finish(q)

-----------------------------------------------------------------------------
(* Failures *)

\* An awaited call throws and the request is answered 500, or its answer is
\* lost on the way.
RequestFails(q) ==
    /\ req[q] # Idle
    /\ Finish(q)
    /\ UNCHANGED <<redis, known, tables, history>>

\* The process ends, in particular when a floating createSettings rejects.
EndProcess ==
    /\ req' = [q \in Req |-> Idle]
    /\ floating' = [e \in Email |-> "none"]
    /\ lost' = lost \cup {e \in Email : floating[e] # "none"}
    /\ UNCHANGED <<redis, known, account, settings, validated, used, contended,
                   disturbed, asked>>

\* The row is there by now and the insert rejects, with nobody to catch it.
FloatingRejects(e) ==
    /\ floating[e] = "create"
    /\ settings[e] # "none"
    /\ EndProcess

Crash == EndProcess

\* The key expires or is evicted.
Evict(u) ==
    /\ cached' = cached \ {u}
    /\ disturbed' = disturbed \cup {u}
    /\ UNCHANGED <<issued, entry, saved, known, tables, req, validated, used, contended,
                   asked, lost>>

Save ==
    /\ saved' = cached
    /\ UNCHANGED <<issued, entry, cached, known, tables, req, history>>

\* Redis comes back with the snapshot.
RedisRestart ==
    /\ cached' = saved
    /\ disturbed' = disturbed \cup (cached \ saved) \cup (saved \ cached)
    /\ UNCHANGED <<issued, entry, saved, known, tables, req, validated, used, contended,
                   asked, lost>>

-----------------------------------------------------------------------------
Next ==
    \/ \E q \in Req, e \in Email, p \in Password : HandleRegister(q, e, p)
    \/ \E q \in Req : FindUserByEmail(q)
    \/ \E q \in Req : SendEmail(q)
    \/ \E q \in Req : SetOtpEntry(q)
    \/ \E q \in Req, u \in Uuid : HandleValidate(q, u)
    \/ \E q \in Req : AcceptOtp(q)
    \/ \E q \in Req : RefuseOtp(q)
    \/ \E q \in Req : DeleteOtpEntry(q)
    \/ \E q \in Req : SetValidatedEntry(q)
    \/ \E q \in Req : Answer(q)
    \/ \E q \in Req, u \in Uuid : HandleResend(q, u)
    \/ \E q \in Req : RefuseResend(q)
    \/ \E q \in Req, u \in Uuid : HandleSignup(q, u)
    \/ \E q \in Req : GetSignupEntry(q)
    \/ \E q \in Req : CreateUser(q)
    \/ \E e \in Email : RecheckFloating(e)
    \/ \E e \in Email : CreateFloating(e)
    \/ \E q \in Req, e \in Email : HandleGetSettings(q, e)
    \/ \E q \in Req : FindSettings(q)
    \/ \E q \in Req : CreateSettings(q)
    \/ \E e \in Email : UpdateSettings(e)
    \/ \E q \in Req, e \in Email : HandleGoogle(q, e)
    \/ \E q \in Req : FindGoogleUser(q)
    \/ \E q \in Req : InsertGoogleUser(q)
    \/ \E q \in Req : RequestFails(q)
    \/ \E e \in Email : FloatingRejects(e)
    \/ Crash
    \/ \E u \in cached : Evict(u)
    \/ Save
    \/ RedisRestart

Spec == Init /\ [][Next]_vars

FloatingStep(e) == RecheckFloating(e) \/ CreateFloating(e) \/ FloatingRejects(e)

\* The database answers what was sent to it, or the rejection ends the process.
FairSpec == Spec /\ \A e \in Email : WF_vars(FloatingStep(e))

-----------------------------------------------------------------------------
(* Properties. *)

\* An account a signup created has an email and a password that were sent
\* together in one POST /register whose OTP came back, however requests with the
\* uuids of other signups interleave.  fillotherFieldsTonext never asks whether
\* the entry was validated: it depends on the shape of what is under the uuid.
AccountWasValidated ==
    \A e \in Email :
        account[e] # Absent /\ account[e].by = "signup" =>
            <<e, account[e].password>> \in validated

\* An OTP is accepted once: after its entry was deleted no request gets as far as
\* deleting it again, unless two requests looked it up at the same time or Redis
\* restored the key.
ValidatedOnce ==
    \A q \in Req : At(q, "validate", "del") => req[q].uuid \notin used \ (contended \cup disturbed)

\* A uuid the browser was answered is good for the next request until its OTP was
\* accepted or Redis drops the key.
KnownUuidWorks == known \subseteq cached \cup used \cup disturbed

\* The settings a new account is given can be refused by the database, which
\* ends the process or the Google login, only when a settings request of the
\* same user came in between: a signup and a Google login never collide.
SettingsRace ==
    \A e \in Email :
        /\ \/ floating[e] = "create"
           \/ \E q \in Req : At(q, "google", "create") /\ req[q].email = e
        /\ settings[e] # "none"
        => e \in asked

\* An account stays as it was created, whatever signups and Google logins with
\* the same email are still on their way.
AccountsStay == [][\A e \in Email : account[e] # Absent => account'[e] = account[e]]_vars

\* Settings a user chose are not overwritten by the defaults of a createSettings
\* that looked before they were there.
ChosenStay == [][\A e \in Email : settings[e] = "chosen" => settings'[e] = "chosen"]_vars

\* An account a signup created is given settings, unless the process ended while
\* they were being created.
SettingsFollow ==
    \A e \in Email :
        account[e] # Absent /\ account[e].by = "signup" ~>
            settings[e] # "none" \/ e \in lost

-----------------------------------------------------------------------------
(* The entry of a uuid as a OneTimeKey: a validation holds it from accepting *)
(* its OTP to deleting it.                                                  *)

Void(u) == u \in contended \/ u \in disturbed

KeyStatus(u) ==
    IF Void(u) THEN "void"
    ELSE IF u \in used THEN "spent"
    ELSE IF u \in cached THEN "good" ELSE "new"
KeyHolders(u) ==
    {q \in Req : ~Void(u) /\ At(q, "validate", "del") /\ req[q].uuid = u}

Key(u) == INSTANCE OneTimeKey WITH
              Worker <- Req, status <- KeyStatus(u), holders <- KeyHolders(u)

\* The uuids of signups are keys that are used once: an OTP that was accepted is
\* accepted by no other request, then or later, unless two requests looked it up
\* at the same time or Redis dropped or restored the entry.
ImplementsOneTimeKey ==
    /\ \A u \in Uuid : Key(u)!Init
    /\ [][\A u \in Uuid : UNCHANGED Key(u)!vars \/ Key(u)!Next]_vars

=============================================================================
