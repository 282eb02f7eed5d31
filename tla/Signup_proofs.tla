---------------------------- MODULE Signup_proofs ----------------------------
(***************************************************************************)
(* What signups, Google logins and settings requests guarantee for every   *)
(* number of emails, passwords and concurrent requests.                    *)
(***************************************************************************)
EXTENDS Signup, TLAPS

\* Only uuids that were drawn are in use, and what was drawn was written.
Written ==
  /\ \A u \in cached \cup saved \cup known \cup used : u <= issued
  /\ \A u \in Uuid : u <= issued => entry[u] \in Entry
  /\ \A q \in Req :
       req[q] # Idle /\ req[q].op \in {"validate", "signup", "answer"} =>
         req[q].uuid <= issued

\* The kinds of records a request can be, by operation.
LEMMA ReqKind ==
  ASSUME TypeOK, NEW q \in Req, req[q] # Idle
  PROVE  /\ req[q].op = "register" =>
               req[q] \in [op : {"register"}, pc : {"find", "mail", "set"},
                           email : Email, password : Password]
         /\ req[q].op = "validate" =>
               req[q] \in [op : {"validate"}, pc : {"get", "del", "set"}, uuid : Uuid]
         /\ req[q].op = "answer" =>
               req[q] \in [op : {"answer"}, pc : {"answer"}, uuid : Uuid]
         /\ req[q].op = "signup" =>
               req[q] \in [op : {"signup"}, pc : {"get", "create"}, uuid : Uuid]
         /\ req[q].op = "settings" =>
               req[q] \in [op : {"settings"}, pc : {"find", "recheck", "create"},
                           email : Email]
         /\ req[q].op = "google" =>
               req[q] \in [op : {"google"}, pc : {"find", "insert", "recheck", "create"},
                           email : Email]
  BY DEF TypeOK, Request, RegisterReq, ValidateReq, ResendReq, SignupReq

LEMMA StartType ==
  ASSUME TypeOK, NEW q \in Req, NEW r \in Request, Start(q, r)
  PROVE  req' \in [Req -> Request \cup {Idle}]
  BY DEF TypeOK, Start

LEMMA GotoType ==
  ASSUME TypeOK, NEW q \in Req, NEW pc, [req[q] EXCEPT !.pc = pc] \in Request, Goto(q, pc)
  PROVE  req' \in [Req -> Request \cup {Idle}]
  BY DEF TypeOK, Goto

LEMMA FinishType ==
  ASSUME TypeOK, NEW q \in Req, Finish(q)
  PROVE  req' \in [Req -> Request \cup {Idle}]
  BY DEF TypeOK, Finish

LEMMA WriteType ==
  ASSUME TypeOK, NEW q \in Req, NEW d \in Entry, WriteEntry(q, d)
  PROVE  TypeOK'
<1>1. issued' \in Uuid /\ issued' \in 0..MaxUuid
  BY MaxUuidAssumption DEF TypeOK, WriteEntry, Uuid
<1>2. [op |-> "answer", pc |-> "answer", uuid |-> issued'] \in Request
  BY <1>1 DEF Request, RegisterReq, ValidateReq, ResendReq, SignupReq
<1>3. req' \in [Req -> Request \cup {Idle}]
  BY <1>2 DEF WriteEntry, TypeOK
<1>4. entry' \in [Uuid -> Entry \cup {Nothing}] /\ cached' \subseteq Uuid
  BY <1>1 DEF WriteEntry, TypeOK
<1> QED
  BY <1>1, <1>3, <1>4 DEF WriteEntry, tables, history, TypeOK

LEMMA CreateType ==
  ASSUME TypeOK, NEW e \in Email, NEW a \in Account, CreateAccount(e, a),
         req' \in [Req -> Request \cup {Idle}]
  PROVE  TypeOK'
<1>1. account' \in [Email -> Account \cup {Absent}]
  BY DEF CreateAccount, Inserted, TypeOK
<1>2. floating' \in [Email -> {"none", "recheck", "create"}]
  BY DEF CreateAccount, TypeOK
<1> QED
  BY <1>1, <1>2 DEF CreateAccount, redis, history, TypeOK

LEMMA TypeInit == Init => TypeOK
  BY MaxUuidAssumption DEF Init, TypeOK

LEMMA TypeNext == TypeOK /\ Written /\ [Next]_vars => TypeOK'
<1> SUFFICES ASSUME TypeOK, Written, [Next]_vars PROVE TypeOK'
  OBVIOUS
<1>1. ASSUME NEW q \in Req, NEW e \in Email, NEW p \in Password, HandleRegister(q, e, p)
      PROVE  TypeOK'
  <2>1. [op |-> "register", pc |-> "find", email |-> e, password |-> p] \in Request
    BY DEF Request, RegisterReq, ValidateReq, ResendReq, SignupReq
  <2>2. req' \in [Req -> Request \cup {Idle}]
    BY <1>1, <2>1, StartType DEF HandleRegister
  <2> QED
    BY <1>1, <2>2 DEF HandleRegister, redis, tables, history, TypeOK
<1>2. ASSUME NEW q \in Req, FindUserByEmail(q)
      PROVE  TypeOK'
  <2>1. req[q] # Idle /\ req[q].op = "register"
    BY <1>2 DEF FindUserByEmail, EmailTaken, At
  <2>2. [req[q] EXCEPT !.pc = "mail"] \in Request
    BY <2>1, ReqKind DEF Request, RegisterReq, ValidateReq, ResendReq, SignupReq
  <2>3. req' \in [Req -> Request \cup {Idle}]
    BY <1>2, <2>2, GotoType, FinishType DEF FindUserByEmail, EmailTaken
  <2> QED
    BY <1>2, <2>3 DEF FindUserByEmail, EmailTaken, redis, tables, history, TypeOK
<1>3. ASSUME NEW q \in Req, SendEmail(q)
      PROVE  TypeOK'
  <2>1. req[q] # Idle /\ req[q].op = "register"
    BY <1>3 DEF SendEmail, At
  <2>2. [req[q] EXCEPT !.pc = "set"] \in Request
    BY <2>1, ReqKind DEF Request, RegisterReq, ValidateReq, ResendReq, SignupReq
  <2>3. req' \in [Req -> Request \cup {Idle}]
    BY <1>3, <2>2, GotoType, FinishType DEF SendEmail
  <2> QED
    BY <1>3, <2>3 DEF SendEmail, redis, tables, history, TypeOK
<1>4. ASSUME NEW q \in Req, SetOtpEntry(q)
      PROVE  TypeOK'
  <2>1. req[q].email \in Email /\ req[q].password \in Password
    BY <1>4, ReqKind DEF SetOtpEntry, At
  <2>2. [stage |-> "otp", email |-> req[q].email, password |-> req[q].password] \in Entry
    BY <2>1 DEF Entry
  <2> QED
    BY <1>4, <2>2, WriteType DEF SetOtpEntry
<1>5. ASSUME NEW q \in Req, NEW u \in Uuid, HandleValidate(q, u)
      PROVE  TypeOK'
  <2>1. [op |-> "validate", pc |-> "get", uuid |-> u] \in Request
    BY DEF Request, RegisterReq, ValidateReq, ResendReq, SignupReq
  <2>2. req' \in [Req -> Request \cup {Idle}]
    BY <1>5, <2>1, StartType DEF HandleValidate
  <2> QED
    BY <1>5, <2>2 DEF HandleValidate, redis, tables, history, TypeOK
<1>6. ASSUME NEW q \in Req, AcceptOtp(q)
      PROVE  TypeOK'
  <2>1. req[q] # Idle /\ req[q].op = "validate"
    BY <1>6 DEF AcceptOtp, At
  <2>2. req[q].uuid \in Uuid /\ [req[q] EXCEPT !.pc = "del"] \in Request
    BY <2>1, ReqKind DEF Request, RegisterReq, ValidateReq, ResendReq, SignupReq
  <2>3. req' \in [Req -> Request \cup {Idle}]
    BY <1>6, <2>2, GotoType DEF AcceptOtp
  <2>4. entry[req[q].uuid] \in Entry
    BY <1>6, <2>2 DEF AcceptOtp, TypeOK, Nothing
  <2>5. validated' \subseteq Email \X Password /\ contended' \subseteq Uuid
    BY <1>6, <2>2, <2>4 DEF AcceptOtp, TypeOK, Entry
  <2> QED
    BY <1>6, <2>3, <2>5 DEF AcceptOtp, redis, tables, TypeOK
<1>7. ASSUME NEW q \in Req, RefuseOtp(q)
      PROVE  TypeOK'
  <2>1. req' \in [Req -> Request \cup {Idle}]
    BY <1>7, FinishType DEF RefuseOtp
  <2> QED
    BY <1>7, <2>1 DEF RefuseOtp, redis, tables, history, TypeOK
<1>8. ASSUME NEW q \in Req, DeleteOtpEntry(q)
      PROVE  TypeOK'
  <2>1. req[q] # Idle /\ req[q].op = "validate"
    BY <1>8 DEF DeleteOtpEntry, At
  <2>2. req[q].uuid \in Uuid /\ [req[q] EXCEPT !.pc = "set"] \in Request
    BY <2>1, ReqKind DEF Request, RegisterReq, ValidateReq, ResendReq, SignupReq
  <2>3. req' \in [Req -> Request \cup {Idle}]
    BY <1>8, <2>2, GotoType DEF DeleteOtpEntry
  <2> QED
    BY <1>8, <2>2, <2>3 DEF DeleteOtpEntry, DeleteKey, tables, TypeOK
<1>9. ASSUME NEW q \in Req, SetValidatedEntry(q)
      PROVE  TypeOK'
  <2>1. req[q].uuid \in Uuid
    BY <1>9, ReqKind DEF SetValidatedEntry, At
  <2>2. entry[req[q].uuid] \in Entry
    BY <1>9, <2>1 DEF SetValidatedEntry, At, Written
  <2>3. Unwrapped(entry[req[q].uuid]) \in Entry
    BY <2>2 DEF Unwrapped, Entry
  <2> QED
    BY <1>9, <2>3, WriteType DEF SetValidatedEntry
<1>10. ASSUME NEW q \in Req, Answer(q)
      PROVE  TypeOK'
  <2>1. req[q].uuid \in Uuid
    BY <1>10, ReqKind DEF Answer, At
  <2>2. req' \in [Req -> Request \cup {Idle}]
    BY <1>10, FinishType DEF Answer
  <2> QED
    BY <1>10, <2>1, <2>2 DEF Answer, AnsweredUuid, redis, tables, history, TypeOK
<1>11. ASSUME NEW q \in Req, NEW u \in Uuid, HandleSignup(q, u)
      PROVE  TypeOK'
  <2>1. [op |-> "signup", pc |-> "get", uuid |-> u] \in Request
    BY DEF Request, RegisterReq, ValidateReq, ResendReq, SignupReq
  <2>2. req' \in [Req -> Request \cup {Idle}]
    BY <1>11, <2>1, StartType DEF HandleSignup
  <2> QED
    BY <1>11, <2>2 DEF HandleSignup, redis, tables, history, TypeOK
<1>12. ASSUME NEW q \in Req, GetSignupEntry(q)
      PROVE  TypeOK'
  <2>1. req[q] # Idle /\ req[q].op = "signup"
    BY <1>12 DEF GetSignupEntry, At
  <2>2. [req[q] EXCEPT !.pc = "create"] \in Request
    BY <2>1, ReqKind DEF Request, RegisterReq, ValidateReq, ResendReq, SignupReq
  <2>3. req' \in [Req -> Request \cup {Idle}]
    BY <1>12, <2>2, GotoType, FinishType DEF GetSignupEntry
  <2> QED
    BY <1>12, <2>3 DEF GetSignupEntry, redis, tables, history, TypeOK
<1>13. ASSUME NEW q \in Req, CreateUser(q)
      PROVE  TypeOK'
  <2>1. req[q].uuid \in Uuid
    BY <1>13, ReqKind DEF CreateUser, At
  <2>2. entry[req[q].uuid] \in Entry
    BY <1>13, <2>1 DEF CreateUser, At, Written
  <2>3. /\ entry[req[q].uuid].email \in Email
        /\ [by |-> "signup", password |-> entry[req[q].uuid].password] \in Account
    BY <2>2 DEF Entry, Account
  <2> QED
    BY <1>13, <2>3, FinishType, CreateType DEF CreateUser
<1>14. ASSUME NEW e \in Email, RecheckFloating(e)
      PROVE  TypeOK'
  BY <1>14 DEF RecheckFloating, redis, tables, history, TypeOK
<1>15. ASSUME NEW e \in Email, CreateFloating(e)
      PROVE  TypeOK'
  BY <1>15 DEF CreateFloating, WithDefaults, redis, tables, history, Settings, TypeOK
<1>16. ASSUME NEW q \in Req, NEW e \in Email, HandleGetSettings(q, e)
      PROVE  TypeOK'
  <2>1. [op |-> "settings", pc |-> "find", email |-> e] \in Request
    BY DEF Request, RegisterReq, ValidateReq, ResendReq, SignupReq
  <2>2. req' \in [Req -> Request \cup {Idle}]
    BY <1>16, <2>1, StartType DEF HandleGetSettings
  <2> QED
    BY <1>16, <2>2 DEF HandleGetSettings, redis, tables, history, TypeOK
<1>17. ASSUME NEW q \in Req, FindSettings(q)
      PROVE  TypeOK'
  <2>1. req[q] # Idle /\ req[q].op \in {"settings", "google"}
    BY <1>17 DEF FindSettings, At
  <2>2. /\ [req[q] EXCEPT !.pc = "create"] \in Request
        /\ At(q, "settings", "find") => [req[q] EXCEPT !.pc = "recheck"] \in Request
    BY <2>1, ReqKind DEF Request, RegisterReq, ValidateReq, ResendReq, SignupReq, At
  <2>3. req' \in [Req -> Request \cup {Idle}]
    BY <1>17, <2>2, GotoType, FinishType DEF FindSettings
  <2> QED
    BY <1>17, <2>3 DEF FindSettings, redis, tables, history, TypeOK
<1>18. ASSUME NEW q \in Req, CreateSettings(q)
      PROVE  TypeOK'
  <2>1. req[q].email \in Email
    BY <1>18, ReqKind DEF CreateSettings, At
  <2>2. req' \in [Req -> Request \cup {Idle}]
    BY <1>18, FinishType DEF CreateSettings
  <2> QED
    BY <1>18, <2>1, <2>2 DEF CreateSettings, WithDefaults, redis, Settings, TypeOK
<1>19. ASSUME NEW e \in Email, UpdateSettings(e)
      PROVE  TypeOK'
  BY <1>19 DEF UpdateSettings, WithChosen, redis, Settings, TypeOK
<1>20. ASSUME NEW q \in Req, NEW e \in Email, HandleGoogle(q, e)
      PROVE  TypeOK'
  <2>1. [op |-> "google", pc |-> "find", email |-> e] \in Request
    BY DEF Request, RegisterReq, ValidateReq, ResendReq, SignupReq
  <2>2. req' \in [Req -> Request \cup {Idle}]
    BY <1>20, <2>1, StartType DEF HandleGoogle
  <2> QED
    BY <1>20, <2>2 DEF HandleGoogle, redis, tables, history, TypeOK
<1>21. ASSUME NEW q \in Req, FindGoogleUser(q)
      PROVE  TypeOK'
  <2>1. req[q] # Idle /\ req[q].op = "google"
    BY <1>21 DEF FindGoogleUser, At
  <2>2. [req[q] EXCEPT !.pc = "insert"] \in Request
    BY <2>1, ReqKind DEF Request, RegisterReq, ValidateReq, ResendReq, SignupReq
  <2>3. req' \in [Req -> Request \cup {Idle}]
    BY <1>21, <2>2, GotoType, FinishType DEF FindGoogleUser
  <2> QED
    BY <1>21, <2>3 DEF FindGoogleUser, redis, tables, history, TypeOK
<1>22. ASSUME NEW q \in Req, InsertGoogleUser(q)
      PROVE  TypeOK'
  <2>1. req[q] # Idle /\ req[q].op = "google"
    BY <1>22 DEF InsertGoogleUser, At
  <2>2. req[q].email \in Email /\ [req[q] EXCEPT !.pc = "recheck"] \in Request
    BY <2>1, ReqKind DEF Request, RegisterReq, ValidateReq, ResendReq, SignupReq
  <2>3. req' \in [Req -> Request \cup {Idle}]
    BY <1>22, <2>2, GotoType, FinishType DEF InsertGoogleUser
  <2>4. [by |-> "google", password |-> None] \in Account
    BY DEF Account
  <2> QED
    BY <1>22, <2>2, <2>3, <2>4, CreateType DEF InsertGoogleUser
<1>23. ASSUME NEW q \in Req, RequestFails(q)
      PROVE  TypeOK'
  <2>1. req' \in [Req -> Request \cup {Idle}]
    BY <1>23, FinishType DEF RequestFails
  <2> QED
    BY <1>23, <2>1 DEF RequestFails, redis, tables, history, TypeOK
<1>24. ASSUME NEW e \in Email, FloatingRejects(e)
      PROVE  TypeOK'
  BY <1>24 DEF FloatingRejects, EndProcess, redis, TypeOK
<1>25. CASE Crash
  BY <1>25 DEF Crash, EndProcess, redis, TypeOK
<1>26. ASSUME NEW u \in cached, Evict(u)
      PROVE  TypeOK'
  BY <1>26 DEF Evict, tables, TypeOK
<1>27. CASE Save
  BY <1>27 DEF Save, tables, history, TypeOK
<1>28. CASE RedisRestart
  BY <1>28 DEF RedisRestart, tables, TypeOK
<1>29. ASSUME NEW q \in Req, NEW u \in Uuid, HandleResend(q, u)
       PROVE  TypeOK'
  <2>1. [op |-> "resend", pc |-> "get", uuid |-> u] \in Request
    BY DEF Request, RegisterReq, ValidateReq, ResendReq, SignupReq
  <2>2. req' \in [Req -> Request \cup {Idle}]
    BY <1>29, <2>1, StartType DEF HandleResend
  <2> QED
    BY <1>29, <2>2 DEF HandleResend, redis, tables, history, TypeOK
<1>30. ASSUME NEW q \in Req, RefuseResend(q)
       PROVE  TypeOK'
  <2>1. req' \in [Req -> Request \cup {Idle}]
    BY <1>30, FinishType DEF RefuseResend
  <2> QED
    BY <1>30, <2>1 DEF RefuseResend, redis, tables, history, TypeOK
<1>31. CASE UNCHANGED vars
  BY <1>31 DEF vars, redis, tables, history, TypeOK
<1> QED
  BY <1>1, <1>2, <1>3, <1>4, <1>5, <1>6, <1>7, <1>8, <1>9, <1>10, <1>11, <1>12,
     <1>13, <1>14, <1>15, <1>16, <1>17, <1>18, <1>19, <1>20, <1>21, <1>22, <1>23,
     <1>24, <1>25, <1>26, <1>27, <1>28, <1>29, <1>30,
     <1>31 DEF Next

-----------------------------------------------------------------------------
(* The steps that leave Redis alone. *)

UuidOps == {"validate", "signup", "answer"}

\* Nothing about the keys changes and no request gets hold of a uuid.
KeepsKeys ==
  /\ UNCHANGED <<issued, entry, cached, saved, known, validated, used, contended, disturbed>>
  /\ \A q \in Req : req'[q] # Idle /\ req'[q].op \in UuidOps => req'[q] = req[q]

\* The steps that do something about the keys.
KeyStep ==
  \/ \E q \in Req : SetOtpEntry(q) \/ SetValidatedEntry(q)
  \/ \E q \in Req, u \in Uuid : HandleValidate(q, u) \/ HandleSignup(q, u)
  \/ \E q \in Req : AcceptOtp(q) \/ DeleteOtpEntry(q) \/ Answer(q) \/ GetSignupEntry(q)
  \/ \E u \in cached : Evict(u)
  \/ Save
  \/ RedisRestart

LEMMA StartKeeps ==
  ASSUME TypeOK, NEW q \in Req, NEW r \in Request, r.op \notin UuidOps, Start(q, r)
  PROVE  \A p \in Req : req'[p] # Idle /\ req'[p].op \in UuidOps => req'[p] = req[p]
  BY DEF TypeOK, Start

LEMMA GotoKeeps ==
  ASSUME TypeOK, NEW q \in Req, NEW pc, req[q] # Idle, req[q].op \notin UuidOps, Goto(q, pc)
  PROVE  \A p \in Req : req'[p] # Idle /\ req'[p].op \in UuidOps => req'[p] = req[p]
<1>1. req'[q].op = req[q].op
  BY ReqKind DEF TypeOK, Goto, Request, RegisterReq, ValidateReq, ResendReq, SignupReq
<1> QED
  BY <1>1 DEF TypeOK, Goto

LEMMA FinishKeeps ==
  ASSUME TypeOK, NEW q \in Req, Finish(q)
  PROVE  \A p \in Req : req'[p] # Idle => req'[p] = req[p]
  BY DEF TypeOK, Finish

LEMMA KeySteps == TypeOK /\ [Next]_vars => KeepsKeys \/ KeyStep
<1> SUFFICES ASSUME TypeOK, [Next]_vars, ~KeyStep PROVE KeepsKeys
  OBVIOUS
<1> USE DEF KeepsKeys, redis, tables, history
<1>1. ASSUME NEW q \in Req, NEW e \in Email, NEW p \in Password, HandleRegister(q, e, p)
      PROVE  KeepsKeys
  <2>1. [op |-> "register", pc |-> "find", email |-> e, password |-> p] \in Request
    BY DEF Request, RegisterReq, ValidateReq, ResendReq, SignupReq
  <2> QED
    BY <1>1, <2>1, StartKeeps DEF HandleRegister, UuidOps
<1>2. ASSUME NEW q \in Req, FindUserByEmail(q) \/ SendEmail(q) PROVE KeepsKeys
  BY <1>2, GotoKeeps, FinishKeeps DEF FindUserByEmail, EmailTaken, SendEmail, At, UuidOps
<1>3. ASSUME NEW q \in Req, RefuseOtp(q) \/ RefuseResend(q) \/ RequestFails(q)
      PROVE  KeepsKeys
  BY <1>3, FinishKeeps DEF RefuseOtp, RefuseResend, RequestFails
<1>4. ASSUME NEW q \in Req, CreateUser(q) PROVE KeepsKeys
  BY <1>4, FinishKeeps DEF CreateUser, CreateAccount
<1>5. ASSUME NEW e \in Email, RecheckFloating(e) \/ CreateFloating(e) \/ UpdateSettings(e)
      PROVE  KeepsKeys
  BY <1>5 DEF RecheckFloating, CreateFloating, UpdateSettings, WithChosen
<1>6. ASSUME NEW q \in Req, NEW e \in Email, HandleGetSettings(q, e) PROVE KeepsKeys
  <2>1. [op |-> "settings", pc |-> "find", email |-> e] \in Request
    BY DEF Request, RegisterReq, ValidateReq, ResendReq, SignupReq
  <2> QED
    BY <1>6, <2>1, StartKeeps DEF HandleGetSettings, UuidOps
<1>7. ASSUME NEW q \in Req, FindSettings(q) PROVE KeepsKeys
  BY <1>7, GotoKeeps, FinishKeeps DEF FindSettings, At, UuidOps
<1>8. ASSUME NEW q \in Req, CreateSettings(q) PROVE KeepsKeys
  BY <1>8, FinishKeeps DEF CreateSettings
<1>9. ASSUME NEW q \in Req, NEW e \in Email, HandleGoogle(q, e) PROVE KeepsKeys
  <2>1. [op |-> "google", pc |-> "find", email |-> e] \in Request
    BY DEF Request, RegisterReq, ValidateReq, ResendReq, SignupReq
  <2> QED
    BY <1>9, <2>1, StartKeeps DEF HandleGoogle, UuidOps
<1>10. ASSUME NEW q \in Req, FindGoogleUser(q) \/ InsertGoogleUser(q) PROVE KeepsKeys
  BY <1>10, GotoKeeps, FinishKeeps DEF FindGoogleUser, InsertGoogleUser, CreateAccount, At, UuidOps
<1>11. ASSUME EndProcess PROVE KeepsKeys
  BY <1>11 DEF EndProcess
<1>12. ASSUME NEW q \in Req, NEW u \in Uuid, HandleResend(q, u) PROVE KeepsKeys
  <2>1. [op |-> "resend", pc |-> "get", uuid |-> u] \in Request
    BY DEF Request, RegisterReq, ValidateReq, ResendReq, SignupReq
  <2> QED
    BY <1>12, <2>1, StartKeeps DEF HandleResend, UuidOps
<1>13. CASE UNCHANGED vars
  BY <1>13 DEF vars
<1> QED
  BY <1>1, <1>2, <1>3, <1>4, <1>5, <1>6, <1>7, <1>8, <1>9, <1>10, <1>11, <1>12, <1>13
     DEF Next, KeyStep, FloatingRejects, Crash

-----------------------------------------------------------------------------
LEMMA WrittenInit == Init => Written
  BY MaxUuidAssumption DEF Init, Written, Uuid

LEMMA WrittenWrite ==
  ASSUME TypeOK, Written, NEW q \in Req, NEW d \in Entry, WriteEntry(q, d)
  PROVE  Written'
<1>1. issued \in Nat /\ issued' = issued + 1 /\ issued' \in Uuid
  BY MaxUuidAssumption DEF TypeOK, WriteEntry, Uuid
<1>2. \A u \in (cached \cup saved \cup known \cup used)' : u <= issued'
  BY <1>1 DEF TypeOK, Written, WriteEntry, tables, history, Uuid
<1>3. \A u \in Uuid : u <= issued' => entry'[u] \in Entry
  BY <1>1 DEF TypeOK, Written, WriteEntry, Uuid
<1>4. ASSUME NEW p \in Req, req'[p] # Idle, req'[p].op \in UuidOps PROVE req'[p].uuid <= issued'
  <2>1. CASE p = q
    BY <1>1, <2>1 DEF TypeOK, WriteEntry
  <2>2. CASE p # q
    <3>1. req[p] # Idle /\ req[p].op \in UuidOps /\ req'[p] = req[p]
      BY <1>4, <2>2 DEF TypeOK, WriteEntry
    <3>2. req[p].uuid <= issued /\ req[p].uuid \in Uuid
      BY <3>1, ReqKind DEF Written, UuidOps
    <3> QED
      BY <1>1, <3>1, <3>2 DEF Uuid
  <2> QED
    BY <2>1, <2>2
<1> QED
  BY <1>2, <1>3, <1>4 DEF Written, UuidOps

LEMMA WrittenNext == TypeOK /\ Written /\ [Next]_vars => Written'
<1> SUFFICES ASSUME TypeOK, Written, [Next]_vars PROVE Written'
  OBVIOUS
<1>1. CASE KeepsKeys
  BY <1>1 DEF KeepsKeys, Written, UuidOps
<1>2. ASSUME NEW q \in Req, SetOtpEntry(q) PROVE Written'
  <2>1. req[q].email \in Email /\ req[q].password \in Password
    BY <1>2, ReqKind DEF SetOtpEntry, At
  <2>2. [stage |-> "otp", email |-> req[q].email, password |-> req[q].password] \in Entry
    BY <2>1 DEF Entry
  <2> QED
    BY <1>2, <2>2, WrittenWrite DEF SetOtpEntry
<1>3. ASSUME NEW q \in Req, SetValidatedEntry(q) PROVE Written'
  <2>1. req[q].uuid \in Uuid
    BY <1>3, ReqKind DEF SetValidatedEntry, At
  <2>2. entry[req[q].uuid] \in Entry
    BY <1>3, <2>1 DEF SetValidatedEntry, At, Written
  <2>3. Unwrapped(entry[req[q].uuid]) \in Entry
    BY <2>2 DEF Unwrapped, Entry
  <2> QED
    BY <1>3, <2>3, WrittenWrite DEF SetValidatedEntry
<1>4. ASSUME NEW q \in Req, NEW u \in Uuid, HandleValidate(q, u) \/ HandleSignup(q, u)
      PROVE  Written'
  <2>1. u <= issued /\ UNCHANGED <<issued, entry, cached, saved, known, used>>
    BY <1>4 DEF HandleValidate, HandleSignup, Written, redis, history
  <2>2. \A p \in Req : req'[p] # Idle => req'[p] = req[p] \/ req'[p].uuid = u
    BY <1>4 DEF HandleValidate, HandleSignup, Start, TypeOK
  <2> QED
    BY <2>1, <2>2 DEF Written
<1>5. ASSUME NEW q \in Req, AcceptOtp(q) \/ GetSignupEntry(q) PROVE Written'
  <2>1. UNCHANGED <<issued, entry, cached, saved, known, used>>
    BY <1>5 DEF AcceptOtp, GetSignupEntry, redis, history
  <2>2. req[q] # Idle /\ req[q].op \in {"validate", "signup"}
    BY <1>5 DEF AcceptOtp, GetSignupEntry, At
  <2>3. \A p \in Req : req'[p] # Idle =>
          \/ req'[p] = req[p]
          \/ req[p] # Idle /\ req'[p].op = req[p].op /\ req'[p].uuid = req[p].uuid
    BY <1>5, <2>2, ReqKind DEF AcceptOtp, GetSignupEntry, Goto, Finish, TypeOK
  <2> QED
    BY <2>1, <2>3 DEF Written
<1>6. ASSUME NEW q \in Req, DeleteOtpEntry(q) PROVE Written'
  <2>1. req[q] # Idle /\ req[q].op = "validate" /\ req[q].uuid <= issued
    BY <1>6 DEF DeleteOtpEntry, At, Written
  <2>2. \A p \in Req : req'[p] # Idle =>
          \/ req'[p] = req[p]
          \/ req[p] # Idle /\ req'[p].op = req[p].op /\ req'[p].uuid = req[p].uuid
    BY <1>6, <2>1, ReqKind DEF DeleteOtpEntry, Goto, TypeOK
  <2> QED
    BY <1>6, <2>1, <2>2 DEF DeleteOtpEntry, DeleteKey, tables, Written
<1>7. ASSUME NEW q \in Req, Answer(q) PROVE Written'
  <2>1. req[q].uuid <= issued
    BY <1>7 DEF Answer, At, Written
  <2> QED
    BY <1>7, <2>1, FinishKeeps DEF Answer, AnsweredUuid, redis, history, Written
<1>8. ASSUME NEW u \in cached, Evict(u) PROVE Written'
  BY <1>8 DEF Evict, Written
<1>9. CASE Save
  BY <1>9 DEF Save, history, Written
<1>10. CASE RedisRestart
  BY <1>10 DEF RedisRestart, Written
<1> QED
  BY <1>1, <1>2, <1>3, <1>4, <1>5, <1>6, <1>7, <1>8, <1>9, <1>10, KeySteps DEF KeyStep

\* Every reachable state is well typed: what a signup reads is what a validation
\* wrote, and a request only ever moves to a stage of its own operation.
THEOREM TypeCorrect == Spec => []TypeOK
<1>1. Init => TypeOK /\ Written
  BY TypeInit, WrittenInit
<1>2. TypeOK /\ Written /\ [Next]_vars => (TypeOK /\ Written)'
  BY TypeNext, WrittenNext
<1> QED
  BY <1>1, <1>2, PTL DEF Spec

-----------------------------------------------------------------------------
(* What validated signups, deleted entries and answered uuids are worth. *)

Pair(d) == <<d.email, d.password>>

\* A validated entry, or one that is being validated, had its OTP sent back.
Validated ==
  /\ \A u \in Uuid : entry[u].stage = "validated" => Pair(entry[u]) \in validated
  /\ \A q \in Req : At(q, "validate", "del") \/ At(q, "validate", "set") =>
       Pair(entry[req[q].uuid]) \in validated
  /\ \A q \in Req : At(q, "signup", "create") => entry[req[q].uuid].stage = "validated"

\* A deleted entry is back only when Redis restored it.
Deleted == used \cap cached \subseteq disturbed

\* Two requests delete the same entry only when both looked it up before.
Overlap ==
  \A p, q \in Req :
    /\ p # q
    /\ At(p, "validate", "del") /\ At(q, "validate", "del")
    /\ req[p].uuid = req[q].uuid
    => req[q].uuid \in contended

\* What is being answered is as good as what was answered.
AnswerWorks ==
  \A q \in Req : At(q, "answer", "answer") => req[q].uuid \in cached \cup used \cup disturbed

KeyInv == Validated /\ Deleted /\ Overlap /\ ValidatedOnce /\ AnswerWorks /\ KnownUuidWorks
Known == TypeOK /\ Written

LEMMA KeyInit == Init => KeyInv
  BY DEF Init, KeyInv, Validated, Deleted, Overlap, ValidatedOnce, AnswerWorks, KnownUuidWorks,
         At, Nothing, Idle

\* A request that uses a uuid uses one that was drawn.
LEMMA UuidDrawn ==
  ASSUME Known, NEW q \in Req, req[q] # Idle, req[q].op \in UuidOps
  PROVE  req[q].uuid \in Uuid /\ req[q].uuid <= issued /\ entry[req[q].uuid] \in Entry
  BY ReqKind DEF Known, Written, UuidOps

\* Writing a fresh entry: what the others hold stays as it was.
LEMMA WriteFresh ==
  ASSUME Known, NEW q \in Req, req[q] # Idle, NEW d \in Entry, WriteEntry(q, d)
  PROVE  /\ issued' \in Uuid /\ entry'[issued'] = d /\ issued' \in cached'
         /\ \A u \in Uuid : u <= issued => entry'[u] = entry[u]
         /\ \A u \in cached' : u \in cached \/ u = issued'
         /\ \A u \in used : u # issued'
         /\ cached \subseteq cached'
         /\ UNCHANGED <<saved, known, tables, history>>
         /\ req'[q] = [op |-> "answer", pc |-> "answer", uuid |-> issued']
         /\ \A p \in Req \ {q} : req'[p] = req[p]
<1>1. issued \in Nat /\ issued' = issued + 1 /\ issued' \in Uuid
  BY MaxUuidAssumption DEF Known, TypeOK, WriteEntry, Uuid
<1>2. \A u \in used : u \in Nat /\ u <= issued
  BY DEF Known, TypeOK, Written, Uuid
<1>3. \A u \in Uuid : u <= issued => u # issued' /\ u \in Nat
  BY <1>1 DEF Uuid
<1>4. entry' = [entry EXCEPT ![issued'] = d] /\ entry \in [Uuid -> Entry \cup {Nothing}]
  BY DEF WriteEntry, Known, TypeOK
<1> QED
  BY <1>1, <1>2, <1>3, <1>4 DEF WriteEntry, Known, TypeOK

LEMMA WriteKeeps ==
  ASSUME Known, KeyInv, NEW q \in Req, req[q] # Idle, NEW d \in Entry, WriteEntry(q, d),
         d.stage = "validated" => Pair(d) \in validated
  PROVE  KeyInv'
<1>1. validated' = validated /\ used' = used /\ contended' = contended /\ disturbed' = disturbed
      /\ known' = known
  BY WriteFresh DEF history
<1>2. \A pc : \A p \in Req, op \in {"validate", "signup"} : At(p, op, pc)' =>
        /\ At(p, op, pc) /\ p # q /\ req'[p] = req[p]
        /\ req[p].uuid \in Uuid /\ entry'[req[p].uuid] = entry[req[p].uuid]
  BY WriteFresh, UuidDrawn DEF At, UuidOps
<1>3. Validated'
  <2>1. ASSUME NEW u \in Uuid, entry'[u].stage = "validated"
        PROVE  Pair(entry'[u]) \in validated'
    BY <1>1, <2>1, WriteFresh DEF WriteEntry, Known, TypeOK, KeyInv, Validated
  <2> QED
    BY <1>1, <1>2, <2>1 DEF KeyInv, Validated
<1>4. Deleted'
  BY <1>1, WriteFresh DEF KeyInv, Deleted
<1>5. Overlap' /\ ValidatedOnce'
  BY <1>1, <1>2 DEF KeyInv, Overlap, ValidatedOnce
<1>6. AnswerWorks'
  <2>1. ASSUME NEW p \in Req, p # q, At(p, "answer", "answer")'
        PROVE  At(p, "answer", "answer") /\ req'[p] = req[p]
    BY <2>1, WriteFresh DEF At
  <2> QED
    BY <1>1, <2>1, WriteFresh DEF KeyInv, AnswerWorks
<1>7. KnownUuidWorks'
  BY <1>1, WriteFresh DEF KeyInv, KnownUuidWorks
<1> QED
  BY <1>3, <1>4, <1>5, <1>6, <1>7 DEF KeyInv

LEMMA KeyNext == Known /\ KeyInv /\ [Next]_vars => KeyInv'
<1> SUFFICES ASSUME Known, KeyInv, [Next]_vars PROVE KeyInv'
  OBVIOUS
<1> USE DEF KeyInv
<1>1. CASE KeepsKeys
  <2>1. \A pc : \A p \in Req, op \in UuidOps : At(p, op, pc)' => At(p, op, pc) /\ req'[p] = req[p]
    BY <1>1 DEF KeepsKeys, At
  <2>2. \A u \in Uuid : entry'[u] = entry[u]
    BY <1>1 DEF KeepsKeys
  <2>3. Validated'
    BY <1>1, <2>1 DEF KeepsKeys, UuidOps, Validated
  <2> QED
    BY <1>1, <2>1, <2>3 DEF KeepsKeys, UuidOps, Deleted, Overlap, ValidatedOnce, AnswerWorks,
                            KnownUuidWorks
<1>2. ASSUME NEW q \in Req, SetOtpEntry(q) PROVE KeyInv'
  <2>1. req[q] # Idle /\ req[q].email \in Email /\ req[q].password \in Password
    BY <1>2, ReqKind DEF SetOtpEntry, At, Known
  <2>2. [stage |-> "otp", email |-> req[q].email, password |-> req[q].password] \in Entry
    BY <2>1 DEF Entry
  <2> QED
    BY <1>2, <2>1, <2>2, WriteKeeps DEF SetOtpEntry
<1>3. ASSUME NEW q \in Req, SetValidatedEntry(q) PROVE KeyInv'
  <2>1. req[q] # Idle /\ entry[req[q].uuid] \in Entry
    BY <1>3, UuidDrawn DEF SetValidatedEntry, At, UuidOps
  <2>2. Pair(entry[req[q].uuid]) \in validated
    BY <1>3 DEF SetValidatedEntry, Validated
  <2>3. /\ Unwrapped(entry[req[q].uuid]) \in Entry
        /\ Pair(Unwrapped(entry[req[q].uuid])) = Pair(entry[req[q].uuid])
    BY <2>1 DEF Unwrapped, Entry, Pair
  <2> QED
    BY <1>3, <2>1, <2>2, <2>3, WriteKeeps DEF SetValidatedEntry
<1>4. ASSUME NEW q \in Req, NEW u \in Uuid, HandleValidate(q, u) \/ HandleSignup(q, u)
      PROVE  KeyInv'
  <2>1. UNCHANGED <<entry, cached, known, history>>
    BY <1>4 DEF HandleValidate, HandleSignup, redis
  <2>2. /\ \A p \in Req \ {q} : req'[p] = req[p]
        /\ req'[q].pc = "get" /\ req'[q].op \in {"validate", "signup"}
    BY <1>4 DEF HandleValidate, HandleSignup, Start, Known, TypeOK
  <2>3. \A op, pc : \A p \in Req : At(p, op, pc)' /\ pc # "get" => At(p, op, pc) /\ req'[p] = req[p]
    BY <2>2 DEF At
  <2> QED
    BY <2>1, <2>3 DEF history, Validated, Deleted, Overlap, ValidatedOnce, AnswerWorks,
                      KnownUuidWorks
<1>5. ASSUME NEW q \in Req, AcceptOtp(q) PROVE KeyInv'
  <2> DEFINE u == req[q].uuid
  <2>1. u \in Uuid /\ entry[u] \in Entry /\ u \in cached /\ entry[u].stage = "otp"
        /\ req[q] # Idle /\ req[q].op = "validate"
    BY <1>5, UuidDrawn DEF AcceptOtp, At, UuidOps
  <2>2. /\ UNCHANGED <<entry, cached, known, used, disturbed>>
        /\ validated' = validated \cup {Pair(entry[u])} /\ contended \subseteq contended'
        /\ (\E p \in Req \ {q} : At(p, "validate", "del") /\ req[p].uuid = u) => u \in contended'
    BY <1>5 DEF AcceptOtp, redis, Pair
  <2>3. /\ \A p \in Req \ {q} : req'[p] = req[p]
        /\ req'[q].uuid = u /\ At(q, "validate", "del")'
    BY <1>5, <2>1, ReqKind DEF AcceptOtp, Goto, Known, TypeOK, At, Idle
  <2>4. \A op, pc : \A p \in Req \ {q} : At(p, op, pc)' => At(p, op, pc)
    BY <2>3 DEF At
  <2>5. \A op, pc : At(q, op, pc)' => op = "validate" /\ pc = "del"
    BY <2>3 DEF At
  <2>6. Validated'
    BY <2>2, <2>3, <2>4, <2>5 DEF Validated
  <2>7. Overlap'
    BY <2>2, <2>3, <2>4 DEF Overlap
  <2>8. ValidatedOnce'
    BY <2>1, <2>2, <2>3, <2>4 DEF ValidatedOnce, Deleted
  <2> QED
    BY <2>2, <2>3, <2>4, <2>5, <2>6, <2>7, <2>8 DEF Deleted, AnswerWorks, KnownUuidWorks
<1>6. ASSUME NEW q \in Req, DeleteOtpEntry(q) PROVE KeyInv'
  <2> DEFINE u == req[q].uuid
  <2>1. req[q] # Idle /\ req[q].op = "validate" /\ u \in Uuid
    BY <1>6, UuidDrawn DEF DeleteOtpEntry, At, UuidOps
  <2>2. /\ UNCHANGED <<entry, known, validated, contended, disturbed>>
        /\ cached' = cached \ {u} /\ used' = used \cup {u}
    BY <1>6 DEF DeleteOtpEntry, DeleteKey
  <2>3. /\ \A p \in Req \ {q} : req'[p] = req[p]
        /\ req'[q].uuid = u /\ At(q, "validate", "set")'
    BY <1>6, <2>1, ReqKind DEF DeleteOtpEntry, Goto, Known, TypeOK, At, Idle
  <2>4. \A op, pc : \A p \in Req \ {q} : At(p, op, pc)' => At(p, op, pc)
    BY <2>3 DEF At
  <2>5. \A op, pc : At(q, op, pc)' => op = "validate" /\ pc = "set"
    BY <2>3 DEF At
  <2>6. At(q, "validate", "del")
    BY <1>6 DEF DeleteOtpEntry
  <2>7. Validated'
    BY <2>2, <2>3, <2>4, <2>5, <2>6 DEF Validated
  <2>8. Overlap'
    BY <2>2, <2>3, <2>4, <2>5 DEF Overlap
  <2>9. ValidatedOnce'
    BY <2>2, <2>3, <2>4, <2>5, <2>6 DEF ValidatedOnce, Overlap
  <2> QED
    BY <2>2, <2>3, <2>4, <2>5, <2>7, <2>8, <2>9 DEF Deleted, AnswerWorks, KnownUuidWorks
<1>7. ASSUME NEW q \in Req, Answer(q) PROVE KeyInv'
  <2>1. /\ UNCHANGED <<entry, cached, history>> /\ known' = known \cup {req[q].uuid}
        /\ At(q, "answer", "answer")
    BY <1>7 DEF Answer, AnsweredUuid, redis
  <2>2. \A op, pc : \A p \in Req : At(p, op, pc)' => At(p, op, pc) /\ req'[p] = req[p]
    BY <1>7, FinishKeeps DEF Answer, Known, At
  <2> QED
    BY <2>1, <2>2 DEF history, Validated, Deleted, Overlap, ValidatedOnce, AnswerWorks,
                      KnownUuidWorks
<1>8. ASSUME NEW q \in Req, GetSignupEntry(q) PROVE KeyInv'
  <2>1. UNCHANGED <<entry, cached, known, history>>
    BY <1>8 DEF GetSignupEntry, redis
  <2>2. req[q] # Idle /\ req[q].op = "signup"
    BY <1>8 DEF GetSignupEntry, At
  <2>3. /\ \A p \in Req \ {q} : req'[p] = req[p]
        /\ req'[q] # Idle => /\ req'[q].op = "signup" /\ req'[q].uuid = req[q].uuid
                             /\ entry[req[q].uuid].stage = "validated"
    BY <1>8, <2>2, ReqKind DEF GetSignupEntry, HasCredentials, Goto, Finish, Known, TypeOK
  <2>4. \A op, pc : \A p \in Req : At(p, op, pc)' /\ op # "signup" => At(p, op, pc) /\ req'[p] = req[p]
    BY <2>3 DEF At
  <2>5. \A p \in Req : At(p, "signup", "create")' =>
          \/ At(p, "signup", "create") /\ req'[p] = req[p]
          \/ entry[req'[p].uuid].stage = "validated"
    BY <2>3 DEF At
  <2> QED
    BY <2>1, <2>4, <2>5 DEF history, Validated, Deleted, Overlap, ValidatedOnce, AnswerWorks,
                            KnownUuidWorks
<1>9. CASE Save \/ RedisRestart \/ \E u \in cached : Evict(u)
  <2>1. /\ UNCHANGED <<entry, known, req, validated, used, contended>>
        /\ disturbed \subseteq disturbed'
        /\ cached \subseteq cached' \cup disturbed' /\ cached' \subseteq cached \cup disturbed'
    BY <1>9 DEF Save, RedisRestart, Evict, history
  <2>2. Validated' /\ Overlap'
    BY <2>1 DEF Validated, Overlap, At
  <2>3. ValidatedOnce' /\ AnswerWorks'
    BY <2>1 DEF ValidatedOnce, AnswerWorks, At
  <2> QED
    BY <2>1, <2>2, <2>3 DEF Deleted, KnownUuidWorks
<1> QED
  BY <1>1, <1>2, <1>3, <1>4, <1>5, <1>6, <1>7, <1>8, <1>9, KeySteps DEF Known, KeyStep

LEMMA KeysHold == Spec => [](Known /\ KeyInv)
<1>1. Init => Known /\ KeyInv
  BY TypeInit, WrittenInit, KeyInit DEF Known
<1>2. Known /\ KeyInv /\ [Next]_vars => (Known /\ KeyInv)'
  BY TypeNext, WrittenNext, KeyNext DEF Known
<1> QED
  BY <1>1, <1>2, PTL DEF Spec

\* An OTP is accepted once, unless two requests looked its entry up at the same
\* time or Redis restored it.
THEOREM ValidatesOnce == Spec => []ValidatedOnce
  BY KeysHold, PTL DEF KeyInv

\* A uuid a browser was answered is there for its next request until it is used
\* or Redis drops it.
THEOREM UuidsWork == Spec => []KnownUuidWorks
  BY KeysHold, PTL DEF KeyInv

-----------------------------------------------------------------------------
(* Accounts and settings. *)

RowOps == {"settings", "google"}
Making(q) == At(q, "google", "recheck") \/ At(q, "google", "create")

\* Nothing about the rows changes and no request gets to work on one.
KeepsRows ==
  /\ UNCHANGED tables
  /\ asked' = asked
  /\ \A q \in Req : req'[q] # Idle /\ req'[q].op \in RowOps => req'[q] = req[q]

\* The steps that do something about the rows.
RowStep ==
  \/ \E q \in Req : CreateUser(q) \/ InsertGoogleUser(q)
  \/ \E e \in Email : RecheckFloating(e) \/ CreateFloating(e) \/ UpdateSettings(e)
  \/ \E q \in Req, e \in Email : HandleGetSettings(q, e) \/ HandleGoogle(q, e)
  \/ \E q \in Req : FindSettings(q) \/ CreateSettings(q) \/ FindGoogleUser(q)
  \/ EndProcess

LEMMA MoveKeepsRows ==
  ASSUME Known, NEW q \in Req, NEW pc, req[q] # Idle, req[q].op \notin RowOps, Goto(q, pc)
  PROVE  \A p \in Req : req'[p] # Idle /\ req'[p].op \in RowOps => req'[p] = req[p]
<1>1. req'[q].op = req[q].op
  BY ReqKind DEF Known, TypeOK, Goto, Request, RegisterReq, ValidateReq, ResendReq, SignupReq
<1> QED
  BY <1>1 DEF Known, TypeOK, Goto

LEMMA RowSteps == Known /\ [Next]_vars => KeepsRows \/ RowStep
<1> SUFFICES ASSUME Known, [Next]_vars, ~RowStep PROVE KeepsRows
  OBVIOUS
<1>1. ASSUME NEW q \in Req, NEW e \in Email, NEW p \in Password, HandleRegister(q, e, p)
      PROVE  KeepsRows
  BY <1>1 DEF HandleRegister, history, Start, Known, TypeOK, KeepsRows, RowOps
<1>2. ASSUME NEW q \in Req, FindUserByEmail(q) \/ SendEmail(q) \/ GetSignupEntry(q)
      PROVE  KeepsRows
  BY <1>2, MoveKeepsRows, FinishKeeps
     DEF FindUserByEmail, EmailTaken, SendEmail, GetSignupEntry, At, history, Known, KeepsRows, RowOps
<1>3. ASSUME NEW q \in Req, NEW d, WriteEntry(q, d) PROVE KeepsRows
  BY <1>3 DEF WriteEntry, history, Known, TypeOK, KeepsRows, RowOps
<1>4. ASSUME NEW q \in Req, NEW u \in Uuid, HandleValidate(q, u) \/ HandleSignup(q, u)
      PROVE  KeepsRows
  BY <1>4 DEF HandleValidate, HandleSignup, history, Start, Known, TypeOK, KeepsRows, RowOps
<1>5. ASSUME NEW q \in Req, AcceptOtp(q) \/ DeleteOtpEntry(q) PROVE KeepsRows
  <2>1. req[q] # Idle /\ req[q].op \notin RowOps
    BY <1>5 DEF AcceptOtp, DeleteOtpEntry, At, RowOps
  <2> QED
    BY <1>5, <2>1, MoveKeepsRows DEF AcceptOtp, DeleteOtpEntry, KeepsRows
<1>6. ASSUME NEW q \in Req, RefuseOtp(q) \/ RefuseResend(q) \/ Answer(q) \/ RequestFails(q)
      PROVE  KeepsRows
  BY <1>6, FinishKeeps
     DEF RefuseOtp, RefuseResend, Answer, RequestFails, history, Known, KeepsRows
<1>7. CASE Save \/ RedisRestart \/ \E u \in cached : Evict(u)
  BY <1>7 DEF Save, RedisRestart, Evict, history, KeepsRows
<1>8. ASSUME NEW q \in Req, NEW u \in Uuid, HandleResend(q, u) PROVE KeepsRows
  BY <1>8 DEF HandleResend, history, Start, Known, TypeOK, KeepsRows, RowOps
<1>9. CASE UNCHANGED vars
  BY <1>9 DEF vars, history, KeepsRows
<1> QED
  BY <1>1, <1>2, <1>3, <1>4, <1>5, <1>6, <1>7, <1>8, <1>9
     DEF Next, RowStep, SetOtpEntry, SetValidatedEntry, FloatingRejects, Crash

\* Whoever makes the settings of an account created it, alone; there are none
\* before the account.
Owned ==
  /\ \A e \in Email : account[e] = Absent => settings[e] = "none" /\ floating[e] = "none"
  /\ \A e \in Email : floating[e] # "none" => account[e].by = "signup"
  /\ \A q \in Req : Making(q) => account[req[q].email].by = "google"
  /\ \A p, q \in Req : Making(p) /\ Making(q) /\ req[p].email = req[q].email => p = q
  /\ \A q \in Req, pc \in {"find", "recheck", "create"} :
       At(q, "settings", pc) => account[req[q].email] # Absent

\* Settings that are there while they are being made were asked for.
Raced ==
  \A e \in Email :
    /\ settings[e] # "none"
    /\ floating[e] # "none" \/ \E q \in Req : Making(q) /\ req[q].email = e
    => e \in asked

RowInv == Owned /\ Raced

LEMMA RowInit == Init => RowInv
  BY DEF Init, RowInv, Owned, Raced, Making, At, Idle

\* A new account has no settings and nobody making them.
LEMMA NewAccount ==
  ASSUME Known, RowInv, NEW e \in Email, account[e] = Absent
  PROVE  /\ settings[e] = "none" /\ floating[e] = "none"
         /\ \A q \in Req : Making(q) => req[q].email # e
         /\ \A q \in Req, pc \in {"find", "recheck", "create"} :
              At(q, "settings", pc) => req[q].email # e
  BY DEF RowInv, Owned, Absent

LEMMA RowNext == Known /\ RowInv /\ [Next]_vars => RowInv'
<1> SUFFICES ASSUME Known, RowInv, [Next]_vars PROVE RowInv'
  OBVIOUS
<1> USE DEF RowInv
<1>1. CASE KeepsRows
  <2>1. \A op \in RowOps, q \in Req : \A pc : At(q, op, pc)' => At(q, op, pc) /\ req'[q] = req[q]
    BY <1>1 DEF KeepsRows, At
  <2>2. \A q \in Req : Making(q)' => Making(q) /\ req'[q] = req[q]
    BY <2>1 DEF Making, RowOps
  <2> QED
    BY <1>1, <2>1, <2>2 DEF KeepsRows, tables, RowOps, Owned, Raced
<1>2. ASSUME NEW q \in Req, CreateUser(q) PROVE RowInv'
  <2> DEFINE d == entry[req[q].uuid]
  <2>1. d \in Entry /\ d.email \in Email
    BY <1>2, UuidDrawn DEF CreateUser, At, UuidOps, Entry
  <2>2. \A op, pc : \A p \in Req : At(p, op, pc)' => At(p, op, pc) /\ req'[p] = req[p]
    BY <1>2, FinishKeeps DEF CreateUser, Known, At
  <2>3. \A p \in Req : Making(p)' => Making(p) /\ req'[p] = req[p]
    BY <2>2 DEF Making
  <2>4. settings' = settings /\ asked' = asked
    BY <1>2 DEF CreateUser, CreateAccount, history
  <2>5. CASE account[d.email] = Absent
    <3>1. /\ account' = [account EXCEPT ![d.email] = [by |-> "signup", password |-> d.password]]
          /\ floating' = [floating EXCEPT ![d.email] = "recheck"]
      BY <1>2, <2>5 DEF CreateUser, CreateAccount, Inserted, Floats
    <3>2. account' \in [Email -> Account \cup {Absent}] /\ account'[d.email] # Absent
      BY <2>1, <3>1 DEF Known, TypeOK, Entry, Account, Absent
    <3>3. Owned'
      BY <2>1, <2>2, <2>3, <2>4, <2>5, <3>1, <3>2, NewAccount DEF Owned, Known, TypeOK
    <3>4. Raced'
      BY <2>1, <2>3, <2>4, <2>5, <3>1, NewAccount DEF Raced, Known, TypeOK
    <3> QED
      BY <3>3, <3>4
  <2>6. CASE account[d.email] # Absent
    <3>1. account' = account /\ floating' = floating
      BY <1>2, <2>6 DEF CreateUser, CreateAccount, Inserted
    <3> QED
      BY <2>2, <2>3, <2>4, <3>1 DEF Owned, Raced
  <2> QED
    BY <2>5, <2>6
<1>3. ASSUME NEW q \in Req, InsertGoogleUser(q) PROVE RowInv'
  <2> DEFINE e == req[q].email
  <2>1. At(q, "google", "insert") /\ e \in Email /\ req[q] # Idle
    BY <1>3, ReqKind DEF InsertGoogleUser, At, Known
  <2>2. settings' = settings /\ asked' = asked /\ floating' = floating
    BY <1>3 DEF InsertGoogleUser, CreateAccount, Floats, history
  <2>3. CASE account[e] = Absent
    <3>1. account' = [account EXCEPT ![e] = [by |-> "google", password |-> None]]
      BY <1>3, <2>3 DEF InsertGoogleUser, CreateAccount, Inserted
    <3>2. /\ \A p \in Req \ {q} : req'[p] = req[p]
          /\ req'[q].email = e /\ At(q, "google", "recheck")'
      BY <1>3, <2>1, <2>3, ReqKind DEF InsertGoogleUser, Goto, Known, TypeOK, At, Idle
    <3>3. \A op, pc : \A p \in Req \ {q} : At(p, op, pc)' => At(p, op, pc)
      BY <3>2 DEF At
    <3>4. \A p \in Req \ {q} : Making(p)' => Making(p) /\ req[p].email # e
      BY <2>1, <2>3, <3>3, NewAccount DEF Making
    <3>5. \A p \in Req, pc \in {"find", "recheck", "create"} :
            At(p, "settings", pc)' => p # q /\ At(p, "settings", pc)
      BY <3>2, <3>3 DEF At
    <3>6. account'[e] # Absent /\ account'[e].by = "google"
      BY <2>1, <3>1 DEF Known, TypeOK, Absent
    <3>7. Owned'
      BY <2>1, <2>2, <2>3, <3>1, <3>2, <3>4, <3>5, <3>6, NewAccount DEF Owned, Known, TypeOK
    <3>8. Raced'
      BY <2>1, <2>2, <2>3, <3>2, <3>4, NewAccount DEF Raced
    <3> QED
      BY <3>7, <3>8
  <2>4. CASE account[e] # Absent
    <3>1. account' = account /\ Finish(q)
      BY <1>3, <2>4 DEF InsertGoogleUser, CreateAccount, Inserted
    <3>2. \A p \in Req : \A op, pc : At(p, op, pc)' => At(p, op, pc) /\ req'[p] = req[p]
      BY <3>1, FinishKeeps DEF Known, At
    <3>3. \A p \in Req : Making(p)' => Making(p) /\ req'[p] = req[p]
      BY <3>2 DEF Making
    <3> QED
      BY <2>2, <3>1, <3>2, <3>3 DEF Owned, Raced
  <2> QED
    BY <2>3, <2>4
<1>4. ASSUME NEW e \in Email, RecheckFloating(e) PROVE RowInv'
  <2>1. /\ UNCHANGED <<account, settings, req, asked>>
        /\ floating[e] = "recheck"
        /\ \A f \in Email : floating'[f] # "none" => floating[f] # "none"
    BY <1>4 DEF RecheckFloating, history, Known, TypeOK
  <2>2. \A f \in Email : floating[f] = "none" => floating'[f] = "none"
    BY <2>1
  <2> QED
    BY <2>1, <2>2 DEF Owned, Raced, Making, At
<1>5. ASSUME NEW e \in Email, CreateFloating(e) PROVE RowInv'
  <2>1. /\ UNCHANGED <<account, req, asked>>
        /\ floating[e] # "none" /\ floating'[e] = "none"
        /\ \A f \in Email \ {e} : floating'[f] = floating[f] /\ settings'[f] = settings[f]
    BY <1>5 DEF CreateFloating, WithDefaults, history, Known, TypeOK
  <2>2. account[e].by = "signup" /\ account[e] # Absent
    BY <2>1 DEF Owned
  <2>3. \A q \in Req : Making(q) => req[q].email # e
    BY <2>2 DEF Owned
  <2>4. Owned'
    BY <2>1, <2>2 DEF Owned, Making, At
  <2>5. Raced'
    BY <2>1, <2>3 DEF Raced, Making, At
  <2> QED
    BY <2>4, <2>5
<1>6. ASSUME NEW e \in Email, UpdateSettings(e) PROVE RowInv'
  <2>1. /\ UNCHANGED <<account, floating, req>> /\ account[e] # Absent
        /\ asked' = asked \cup {e}
        /\ \A f \in Email \ {e} : settings'[f] = settings[f]
    BY <1>6 DEF UpdateSettings, WithChosen, Known, TypeOK
  <2>2. Owned'
    BY <2>1 DEF Owned, Making, At
  <2>3. Raced'
    BY <2>1 DEF Raced, Making, At
  <2> QED
    BY <2>2, <2>3
<1>7. ASSUME NEW q \in Req, NEW e \in Email, HandleGetSettings(q, e) \/ HandleGoogle(q, e)
      PROVE  RowInv'
  <2>1. /\ UNCHANGED <<account, settings, floating, asked>>
        /\ \A p \in Req \ {q} : req'[p] = req[p]
        /\ req'[q].pc = "find" /\ req'[q].email = e
        /\ req'[q].op \in RowOps
        /\ req'[q].op = "settings" => account[e] # Absent
    BY <1>7 DEF HandleGetSettings, HandleGoogle, tables, history, Start, Known, TypeOK, RowOps
  <2>2. \A p \in Req : Making(p)' => Making(p) /\ req'[p] = req[p]
    BY <2>1 DEF Making, At
  <2>3. \A p \in Req, pc \in {"find", "recheck", "create"} : At(p, "settings", pc)' =>
          account[req'[p].email] # Absent
    BY <2>1 DEF Owned, At
  <2> QED
    BY <2>1, <2>2, <2>3 DEF Owned, Raced
<1>8. ASSUME NEW q \in Req, FindSettings(q) \/ FindGoogleUser(q) PROVE RowInv'
  <2>1. UNCHANGED <<account, settings, floating, asked>>
    BY <1>8 DEF FindSettings, FindGoogleUser, tables, history
  <2>2. req[q] # Idle /\ req[q].op \in RowOps
    BY <1>8 DEF FindSettings, FindGoogleUser, At, RowOps
  <2>3. /\ \A p \in Req \ {q} : req'[p] = req[p]
        /\ req'[q] # Idle => /\ req'[q].op = req[q].op /\ req'[q].email = req[q].email
                             /\ Making(q)' => Making(q)
    <3>1. req[q].op = "settings" => ~Making(q)'
      BY <1>8, <2>2, ReqKind DEF FindSettings, FindGoogleUser, Goto, Finish, Known, TypeOK, Making, At
    <3>2. FindGoogleUser(q) => ~Making(q)'
      BY <2>2, ReqKind DEF FindGoogleUser, Goto, Finish, Known, TypeOK, Making, At
    <3>3. FindSettings(q) => Making(q) \/ req[q].op = "settings"
      BY DEF FindSettings, Making, At
    <3>4. req'[q] # Idle => req'[q].op = req[q].op /\ req'[q].email = req[q].email
      BY <1>8, <2>2, ReqKind DEF FindSettings, FindGoogleUser, Goto, Finish, Known, TypeOK, RowOps
    <3> QED
      BY <1>8, <3>1, <3>2, <3>3, <3>4 DEF FindSettings, FindGoogleUser, Goto, Finish, Known, TypeOK
  <2>4. \A p \in Req : Making(p)' => Making(p) /\ req'[p].email = req[p].email
    BY <2>3 DEF Making, At
  <2>5. \A p \in Req, pc \in {"find", "recheck", "create"} : At(p, "settings", pc)' =>
          account[req'[p].email] # Absent
    <3>1. At(q, "settings", "find") \/ At(q, "settings", "recheck") \/ At(q, "settings", "create")
          \/ req[q].op = "google"
      BY <2>2, ReqKind DEF Known, At, RowOps
    <3> QED
      BY <2>3, <3>1 DEF Owned, At
  <2> QED
    BY <2>1, <2>4, <2>5 DEF Owned, Raced
<1>9. ASSUME NEW q \in Req, CreateSettings(q) PROVE RowInv'
  <2> DEFINE e == req[q].email
  <2>1. e \in Email
    BY <1>9, ReqKind DEF CreateSettings, At, Known
  <2>2. /\ UNCHANGED <<account, floating>> /\ asked \subseteq asked'
        /\ At(q, "settings", "create") => e \in asked'
        /\ \A f \in Email \ {e} : settings'[f] = settings[f]
    BY <1>9, <2>1 DEF CreateSettings, WithDefaults, Known, TypeOK
  <2>3. \A p \in Req : \A op, pc : At(p, op, pc)' => p # q /\ At(p, op, pc) /\ req'[p] = req[p]
    BY <1>9, FinishKeeps DEF CreateSettings, Finish, Known, TypeOK, At
  <2>4. \A p \in Req : Making(p)' => p # q /\ Making(p) /\ req'[p] = req[p]
    BY <2>3 DEF Making
  <2>5. account[e] # Absent
    BY <1>9 DEF CreateSettings, Owned, Making, Absent
  <2>6. Owned'
    BY <2>1, <2>2, <2>3, <2>4, <2>5 DEF Owned
  <2>7. CASE At(q, "settings", "create")
    BY <2>1, <2>2, <2>4, <2>6, <2>7 DEF Raced
  <2>8. CASE At(q, "google", "create")
    <3>1. Making(q) /\ floating[e] = "none"
      BY <2>1, <2>8 DEF Making, Owned
    <3>2. \A p \in Req : Making(p)' => req'[p].email # e
      BY <2>4, <3>1 DEF Owned
    <3> QED
      BY <2>1, <2>2, <2>4, <2>6, <3>1, <3>2 DEF Raced
  <2> QED
    BY <1>9, <2>7, <2>8 DEF CreateSettings
<1>10. ASSUME EndProcess PROVE RowInv'
  <2>1. /\ UNCHANGED <<account, settings, asked>>
        /\ \A e \in Email : floating'[e] = "none"
        /\ \A q \in Req : req'[q] = Idle
    BY <1>10 DEF EndProcess
  <2> QED
    BY <2>1 DEF Owned, Raced, Making, At
<1> QED
  BY <1>1, <1>2, <1>3, <1>4, <1>5, <1>6, <1>7, <1>8, <1>9, <1>10, RowSteps DEF RowStep

LEMMA RowsHold == Spec => [](Known /\ KeyInv /\ RowInv)
<1>1. Init => RowInv
  BY RowInit
<1>2. Known /\ RowInv /\ [Next]_vars => RowInv'
  BY RowNext
<1> QED
  BY <1>1, <1>2, KeysHold, PTL DEF Spec

\* The settings made for a new account are refused only when a settings request
\* of the same user came in between.
THEOREM OnlyAskedRace == Spec => []SettingsRace
<1>1. RowInv => SettingsRace
  BY DEF RowInv, Raced, SettingsRace, Making
<1> QED
  BY <1>1, RowsHold, PTL

-----------------------------------------------------------------------------
\* Accounts stay as they were created, whatever is still on its way.
THEOREM AccountsKept == Spec => AccountsStay
<1>1. Known /\ [Next]_vars =>
        [\A e \in Email : account[e] # Absent => account'[e] = account[e]]_vars
  <2> SUFFICES ASSUME Known, [Next]_vars, NEW e \in Email, account[e] # Absent
               PROVE  account'[e] = account[e]
    OBVIOUS
  <2>1. CASE KeepsRows
    BY <2>1 DEF KeepsRows, tables
  <2>2. ASSUME NEW q \in Req, CreateUser(q) \/ InsertGoogleUser(q) PROVE account'[e] = account[e]
    BY <2>2 DEF CreateUser, InsertGoogleUser, CreateAccount, Inserted, Known, TypeOK
  <2>3. CASE RowStep /\ UNCHANGED account
    BY <2>3
  <2>4. RowStep =>
          UNCHANGED account \/ \E q \in Req : CreateUser(q) \/ InsertGoogleUser(q)
    BY DEF RowStep, RecheckFloating, CreateFloating, UpdateSettings, WithChosen,
           HandleGetSettings, HandleGoogle, FindSettings, CreateSettings, FindGoogleUser, EndProcess, tables
  <2> QED
    BY <2>1, <2>2, <2>3, <2>4, RowSteps
<1> QED
  BY <1>1, KeysHold, PTL DEF Spec, AccountsStay

\* Settings a user chose are never replaced by defaults.
THEOREM ChosenKept == Spec => ChosenStay
<1>1. Known /\ [Next]_vars =>
        [\A e \in Email : settings[e] = "chosen" => settings'[e] = "chosen"]_vars
  <2> SUFFICES ASSUME Known, [Next]_vars, NEW e \in Email, settings[e] = "chosen"
               PROVE  settings'[e] = "chosen"
    OBVIOUS
  <2>1. CASE KeepsRows
    BY <2>1 DEF KeepsRows, tables
  <2>2. ASSUME NEW f \in Email, CreateFloating(f) \/ UpdateSettings(f)
        PROVE  settings'[e] = "chosen"
    BY <2>2 DEF CreateFloating, UpdateSettings, WithChosen, WithDefaults, Known, TypeOK
  <2>3. ASSUME NEW q \in Req, CreateSettings(q) PROVE settings'[e] = "chosen"
    BY <2>3 DEF CreateSettings, WithDefaults, Known, TypeOK
  <2>4. RowStep =>
          \/ UNCHANGED settings
          \/ \E f \in Email : CreateFloating(f) \/ UpdateSettings(f)
          \/ \E q \in Req : CreateSettings(q)
    BY DEF RowStep, CreateUser, InsertGoogleUser, CreateAccount, RecheckFloating, HandleGetSettings,
           HandleGoogle, FindSettings, FindGoogleUser, EndProcess, tables
  <2> QED
    BY <2>1, <2>2, <2>3, <2>4, RowSteps
<1> QED
  BY <1>1, KeysHold, PTL DEF Spec, ChosenStay

\* A signup creates accounts only for an email and password whose OTP came back.
THEOREM SignupsValidated == Spec => []AccountWasValidated
<1>1. Init => AccountWasValidated
  BY DEF Init, AccountWasValidated
<1>2. Known /\ KeyInv /\ AccountWasValidated /\ [Next]_vars => AccountWasValidated'
  <2> SUFFICES ASSUME Known, KeyInv, AccountWasValidated, [Next]_vars PROVE AccountWasValidated'
    OBVIOUS
  <2>1. validated \subseteq validated'
    <3>1. KeyStep => validated \subseteq validated'
      BY DEF KeyStep, SetOtpEntry, SetValidatedEntry, WriteEntry, HandleValidate, HandleSignup,
             AcceptOtp, DeleteOtpEntry, Answer, GetSignupEntry, Evict, Save, RedisRestart, history
    <3> QED
      BY <3>1, KeySteps DEF Known, KeepsKeys
  <2>2. CASE UNCHANGED account
    BY <2>1, <2>2 DEF AccountWasValidated
  <2>3. ASSUME NEW q \in Req, CreateUser(q) PROVE AccountWasValidated'
    <3> DEFINE d == entry[req[q].uuid]
    <3>1. d \in Entry /\ d.stage = "validated" /\ Pair(d) \in validated
      BY <2>3, UuidDrawn DEF CreateUser, At, UuidOps, KeyInv, Validated
    <3>2. \A e \in Email : 
            \/ account'[e] = account[e]
            \/ e = d.email /\ account'[e] = [by |-> "signup", password |-> d.password]
      BY <2>3 DEF CreateUser, CreateAccount, Inserted, Known, TypeOK
    <3> QED
      BY <2>1, <3>1, <3>2 DEF AccountWasValidated, Pair
  <2>4. ASSUME NEW q \in Req, InsertGoogleUser(q) PROVE AccountWasValidated'
    <3>1. \A e \in Email : account'[e] = account[e] \/
            account'[e] = [by |-> "google", password |-> None]
      BY <2>4 DEF InsertGoogleUser, CreateAccount, Inserted, Known, TypeOK
    <3> QED
      BY <2>1, <3>1 DEF AccountWasValidated
  <2>5. RowStep =>
          UNCHANGED account \/ \E q \in Req : CreateUser(q) \/ InsertGoogleUser(q)
    BY DEF RowStep, RecheckFloating, CreateFloating, UpdateSettings, WithChosen,
           HandleGetSettings, HandleGoogle, FindSettings, CreateSettings, FindGoogleUser, EndProcess, tables
  <2> QED
    BY <2>2, <2>3, <2>4, <2>5, RowSteps DEF KeepsRows, tables
<1> QED
  BY <1>1, <1>2, KeysHold, PTL DEF Spec

-----------------------------------------------------------------------------
(* The entry of a uuid is a OneTimeKey. *)

Holding(q, u) == At(q, "validate", "del") /\ req[q].uuid = u

\* The entry of an accepted OTP is there until it is deleted or Redis drops it.
HeldLives == \A q \in Req : \A u : Holding(q, u) => u \in cached \cup used \cup disturbed

\* What a step may leave as it was.
SameStatus(u) == /\ u \in used' <=> u \in used
                 /\ u \in cached' <=> u \in cached
NoMoreHolders(u) == \A p \in Req : Holding(p, u)' => Holding(p, u)

LEMMA HolderAlone ==
  ASSUME Known, KeyInv, HeldLives, NEW u \in Uuid, ~Void(u), NEW q \in Req, Holding(q, u)
  PROVE  KeyStatus(u) = "good" /\ KeyHolders(u) = {q}
<1>1. u \in cached /\ u \notin used
  BY DEF KeyInv, HeldLives, ValidatedOnce, Void, Holding
<1>2. \A p \in Req : Holding(p, u) => p = q
  BY DEF KeyInv, Overlap, Void, Holding
<1> QED
  BY <1>1, <1>2 DEF KeyStatus, KeyHolders, Void, Holding

LEMMA KeyKept ==
  ASSUME Known, KeyInv, HeldLives, NEW u \in Uuid, ~Void(u), ~Void(u)',
         SameStatus(u), NoMoreHolders(u)
  PROVE  UNCHANGED Key(u)!vars \/ Key(u)!Next
<1>1. KeyStatus(u)' = KeyStatus(u)
  BY DEF SameStatus, KeyStatus
<1>2. CASE \E q \in Req : Holding(q, u)'
  <2>1. PICK q \in Req : Holding(q, u)' /\ Holding(q, u)
    BY <1>2 DEF NoMoreHolders
  <2>2. KeyHolders(u) = {q}
    BY <2>1, HolderAlone
  <2>3. KeyHolders(u)' = {q}
    BY <2>1, <2>2 DEF NoMoreHolders, KeyHolders, Holding
  <2> QED
    BY <1>1, <2>2, <2>3 DEF Key!vars
<1>3. CASE ~\E q \in Req : Holding(q, u)'
  <2>1. KeyHolders(u)' = {}
    BY <1>3 DEF KeyHolders, Holding
  <2> QED
    BY <1>1, <2>1 DEF Key!Next, Key!GiveBack
<1> QED
  BY <1>2, <1>3

\* A fresh entry is a key that was new, and no other key changes.
LEMMA KeyIssued ==
  ASSUME Known, KeyInv, HeldLives, NEW u \in Uuid, ~Void(u), ~Void(u)',
         NEW q \in Req, req[q] # Idle, NEW d \in Entry, WriteEntry(q, d)
  PROVE  UNCHANGED Key(u)!vars \/ Key(u)!Next
<1>1. /\ UNCHANGED <<used, contended, disturbed>>
      /\ cached' = cached \cup {issued'}
      /\ \A p \in Req : Holding(p, u)' => Holding(p, u)
  BY WriteFresh DEF WriteEntry, history, Holding, At
<1>2. CASE u = issued'
  <2>1. issued \in Nat /\ issued' = issued + 1
    BY DEF Known, TypeOK, WriteEntry
  <2>2. \A p \in Req : ~Holding(p, u)
    BY <1>2, <2>1, UuidDrawn DEF Holding, At, UuidOps
  <2>3. u \notin used
    BY <1>2, WriteFresh
  <2>4. /\ KeyStatus(u) \in {"new", "good"} /\ KeyHolders(u) = {}
        /\ KeyStatus(u)' = "good" /\ KeyHolders(u)' = {}
    BY <1>1, <1>2, <2>2, <2>3 DEF KeyStatus, KeyHolders, Holding
  <2> QED
    BY <2>4 DEF Key!Next, Key!Issue, Key!vars
<1>3. CASE u # issued'
  BY <1>1, <1>3, KeyKept DEF SameStatus, NoMoreHolders
<1> QED
  BY <1>2, <1>3

LEMMA KeyRefines ==
  ASSUME Known, KeyInv, HeldLives, [Next]_vars, NEW u \in Uuid
  PROVE  UNCHANGED Key(u)!vars \/ Key(u)!Next
<1> DEFINE Goal == UNCHANGED Key(u)!vars \/ Key(u)!Next
<1>0. CASE Void(u)'
  <2>1. KeyStatus(u)' = "void" /\ KeyHolders(u)' = {}
    BY <1>0 DEF KeyStatus, KeyHolders
  <2> QED
    BY <2>1 DEF Key!Next, Key!Void
<1> SUFFICES ASSUME ~Void(u)' PROVE Goal
  BY <1>0
<1>1. CASE KeepsKeys
  <2>1. ~Void(u) /\ SameStatus(u)
    BY <1>1 DEF KeepsKeys, Void, SameStatus
  <2>2. NoMoreHolders(u)
    BY <1>1 DEF KeepsKeys, NoMoreHolders, Holding, At, UuidOps
  <2> QED
    BY <2>1, <2>2, KeyKept
<1>2. ASSUME NEW q \in Req, SetOtpEntry(q) PROVE Goal
  <2>1. req[q] # Idle /\ req[q].email \in Email /\ req[q].password \in Password
    BY <1>2, ReqKind DEF SetOtpEntry, At, Known
  <2>2. [stage |-> "otp", email |-> req[q].email, password |-> req[q].password] \in Entry
    BY <2>1 DEF Entry
  <2>3. ~Void(u)
    BY <1>2 DEF SetOtpEntry, WriteEntry, history, Void
  <2> QED
    BY <1>2, <2>1, <2>2, <2>3, KeyIssued DEF SetOtpEntry
<1>3. ASSUME NEW q \in Req, SetValidatedEntry(q) PROVE Goal
  <2>1. req[q] # Idle /\ entry[req[q].uuid] \in Entry
    BY <1>3, UuidDrawn DEF SetValidatedEntry, At, UuidOps
  <2>2. Unwrapped(entry[req[q].uuid]) \in Entry
    BY <2>1 DEF Unwrapped, Entry
  <2>3. ~Void(u)
    BY <1>3 DEF SetValidatedEntry, WriteEntry, history, Void
  <2> QED
    BY <1>3, <2>1, <2>2, <2>3, KeyIssued DEF SetValidatedEntry
<1>4. ASSUME NEW q \in Req,
             \/ Answer(q) \/ GetSignupEntry(q)
             \/ \E v \in Uuid : HandleValidate(q, v) \/ HandleSignup(q, v)
      PROVE  Goal
  <2>1. ~Void(u) /\ SameStatus(u)
    BY <1>4 DEF Answer, GetSignupEntry, HandleValidate, HandleSignup, redis, history, Void,
                SameStatus
  <2>2. /\ \A p \in Req \ {q} : req'[p] = req[p]
        /\ ~At(q, "validate", "del")'
    <3>1. GetSignupEntry(q) => req[q] # Idle /\ req[q].op = "signup"
      BY DEF GetSignupEntry, At
    <3> QED
      BY <1>4, <3>1, ReqKind DEF Answer, GetSignupEntry, HandleValidate, HandleSignup, Start,
                                 Goto, Finish, At, Known, TypeOK
  <2>3. NoMoreHolders(u)
    BY <2>2 DEF NoMoreHolders, Holding, At
  <2> QED
    BY <2>1, <2>3, KeyKept
<1>5. ASSUME NEW q \in Req, AcceptOtp(q) PROVE Goal
  <2>1. UNCHANGED <<cached, used, disturbed>> /\ contended \subseteq contended'
    BY <1>5 DEF AcceptOtp, redis
  <2>2. ~Void(u)
    BY <2>1 DEF Void
  <2>3. /\ \A p \in Req \ {q} : req'[p] = req[p]
        /\ req'[q].uuid = req[q].uuid /\ At(q, "validate", "del")' /\ ~At(q, "validate", "del")
    BY <1>5, ReqKind DEF AcceptOtp, Goto, Known, TypeOK, At, Idle
  <2>4. CASE req[q].uuid = u
    <3>1. u \in cached /\ u \notin used
      BY <1>5, <2>2, <2>4 DEF AcceptOtp, KeyInv, Deleted, Void
    <3>2. \A p \in Req \ {q} : ~Holding(p, u)
      BY <1>5, <2>4 DEF AcceptOtp, Holding, Void
    <3>3. KeyStatus(u) = "good" /\ KeyHolders(u) = {}
      BY <2>2, <2>3, <3>1, <3>2 DEF KeyStatus, KeyHolders, Holding
    <3>4. KeyStatus(u)' = "good"
      BY <2>1, <3>1 DEF KeyStatus
    <3>5. KeyHolders(u)' = {q}
      BY <2>3, <2>4, <3>2 DEF KeyHolders, Holding, At
    <3> QED
      BY <3>3, <3>4, <3>5 DEF Key!Next, Key!Take
  <2>5. CASE req[q].uuid # u
    <3>1. SameStatus(u) /\ NoMoreHolders(u)
      BY <2>1, <2>3, <2>5 DEF SameStatus, NoMoreHolders, Holding, At
    <3> QED
      BY <2>2, <3>1, KeyKept
  <2> QED
    BY <2>4, <2>5
<1>6. ASSUME NEW q \in Req, DeleteOtpEntry(q) PROVE Goal
  <2>1. /\ UNCHANGED <<contended, disturbed>>
        /\ cached' = cached \ {req[q].uuid} /\ used' = used \cup {req[q].uuid}
    BY <1>6 DEF DeleteOtpEntry, DeleteKey
  <2>2. ~Void(u)
    BY <2>1 DEF Void
  <2>3. req[q] # Idle /\ req[q].op = "validate"
    BY <1>6 DEF DeleteOtpEntry, At
  <2>4. /\ \A p \in Req \ {q} : req'[p] = req[p]
        /\ ~At(q, "validate", "del")'
    BY <1>6, <2>3, ReqKind DEF DeleteOtpEntry, Goto, Known, TypeOK, At, Idle
  <2>5. CASE req[q].uuid = u
    <3>1. KeyStatus(u) = "good" /\ KeyHolders(u) = {q}
      BY <1>6, <2>2, <2>5, HolderAlone DEF DeleteOtpEntry, Holding
    <3>2. KeyStatus(u)' = "spent"
      BY <2>1, <2>5 DEF KeyStatus
    <3>3. \A p \in Req : ~Holding(p, u)'
      BY <2>2, <2>4, <3>1 DEF KeyHolders, Holding, At
    <3>4. KeyHolders(u)' = {}
      BY <3>3 DEF KeyHolders, Holding
    <3> QED
      BY <3>1, <3>2, <3>4 DEF Key!Next, Key!Use
  <2>6. CASE req[q].uuid # u
    <3>1. SameStatus(u) /\ NoMoreHolders(u)
      BY <2>1, <2>4, <2>6 DEF SameStatus, NoMoreHolders, Holding, At
    <3> QED
      BY <2>2, <3>1, KeyKept
  <2> QED
    BY <2>5, <2>6
<1>7. CASE Save \/ RedisRestart \/ \E v \in cached : Evict(v)
  <2>1. ~Void(u) /\ SameStatus(u) /\ NoMoreHolders(u)
    BY <1>7 DEF Save, RedisRestart, Evict, history, Void, SameStatus, NoMoreHolders, Holding, At
  <2> QED
    BY <2>1, KeyKept
<1> QED
  BY <1>1, <1>2, <1>3, <1>4, <1>5, <1>6, <1>7, KeySteps DEF Known, KeyStep

LEMMA HeldLivesNext == Known /\ HeldLives /\ [Next]_vars => HeldLives'
<1> SUFFICES ASSUME Known, HeldLives, [Next]_vars, NEW q \in Req, NEW u, Holding(q, u)'
             PROVE  u \in cached' \cup used' \cup disturbed'
  BY DEF HeldLives
<1>1. CASE KeepsKeys
  BY <1>1 DEF KeepsKeys, HeldLives, Holding, At, UuidOps
<1>2. ASSUME NEW p \in Req, SetOtpEntry(p) \/ SetValidatedEntry(p)
      PROVE  u \in cached' \cup used' \cup disturbed'
  BY <1>2 DEF SetOtpEntry, SetValidatedEntry, WriteEntry, history, HeldLives, Holding, At, Known,
              TypeOK
<1>3. ASSUME NEW p \in Req, NEW v \in Uuid, HandleValidate(p, v) \/ HandleSignup(p, v)
      PROVE  u \in cached' \cup used' \cup disturbed'
  BY <1>3 DEF HandleValidate, HandleSignup, Start, redis, history, HeldLives, Holding, At, Known,
              TypeOK
<1>4. ASSUME NEW p \in Req, AcceptOtp(p)
      PROVE  u \in cached' \cup used' \cup disturbed'
  <2>1. req[p] # Idle /\ req[p].op = "validate"
    BY <1>4 DEF AcceptOtp, At
  <2>2. req'[p].uuid = req[p].uuid /\ req[p].uuid \in cached
        /\ \A r \in Req \ {p} : req'[r] = req[r]
    BY <1>4, <2>1, ReqKind DEF AcceptOtp, Goto, Known, TypeOK
  <2> QED
    BY <1>4, <2>2 DEF AcceptOtp, redis, HeldLives, Holding, At
<1>5. ASSUME NEW p \in Req, DeleteOtpEntry(p) \/ GetSignupEntry(p) \/ Answer(p)
      PROVE  u \in cached' \cup used' \cup disturbed'
  <2>1. req[p] # Idle /\ (At(p, "validate", "del") \/ req[p].op # "validate")
    BY <1>5 DEF DeleteOtpEntry, GetSignupEntry, Answer, At
  <2>2. Holding(q, u)
    BY <1>5, <2>1, ReqKind DEF DeleteOtpEntry, GetSignupEntry, Answer, Goto, Finish, Known, TypeOK,
                               Holding, At
  <2> QED
    BY <1>5, <2>2 DEF DeleteOtpEntry, DeleteKey, GetSignupEntry, Answer, redis, history, HeldLives
<1>6. CASE Save \/ RedisRestart \/ \E v \in cached : Evict(v)
  BY <1>6 DEF Save, RedisRestart, Evict, history, HeldLives, Holding, At
<1> QED
  BY <1>1, <1>2, <1>3, <1>4, <1>5, <1>6, KeySteps DEF Known, KeyStep

\* The uuid of every signup is a key whose OTP one validation at a time accepts,
\* and that is accepted once, but for overlaps and failures of Redis, for any
\* number of requests, emails and uuids.
THEOREM UuidsAreOneTimeKeys == Spec => ImplementsOneTimeKey
<1>1. Init => HeldLives /\ \A u \in Uuid : Key(u)!Init
  BY DEF Init, HeldLives, Key!Init, KeyStatus, KeyHolders, Void, Holding, At
<1>2. Known /\ KeyInv /\ HeldLives /\ [Next]_vars =>
          [\A u \in Uuid : UNCHANGED Key(u)!vars \/ Key(u)!Next]_vars
  BY KeyRefines
<1> QED
  BY <1>1, <1>2, KeysHold, HeldLivesNext, PTL DEF Spec, ImplementsOneTimeKey
==============================================================================
