------------------------------- MODULE Session -------------------------------
(***************************************************************************)
(* Refresh tokens: AuthService.getlogin and generateJwt,                   *)
(* RefreshTokenService, AuthGoogleService and the tokens a signup hands    *)
(* out, with the keys `refresh_token:<token>` they keep in Redis.          *)
(*                                                                         *)
(* A refresh token is a JWT over the user's id and the second it is signed *)
(* in, so the same user gets the same token twice within a second.  Each   *)
(* awaited Redis command is a step; bcrypt.hash lies between signing and   *)
(* registering, so time passes there as well.  Requests whose checks fail  *)
(* before any of this (a wrong password) are no step.                      *)
(***************************************************************************)
EXTENDS Naturals

CONSTANTS
    User,     \* user ids
    Client,   \* browsers; all tabs of one share what they were answered last
    Req,      \* slots for login and refresh requests being handled
    None,     \* "no token" and "no user"
    MaxNow    \* bound on the clock, in seconds

ASSUME NoneAssumption == None \notin User
ASSUME MaxNowAssumption == MaxNow \in Nat

VARIABLES
    now,         \* the second jwtService.sign reads
    registered,  \* tokens t whose key `refresh_token:t` is in Redis
    saved,       \* the same in the last RDB snapshot
    held,        \* the refresh token a client was answered last
    blanked,     \* clients whose access_token cookie is the text "undefined"
    req,         \* requests being handled
    signed,      \* history: tokens signed so far
    contended,   \* history: tokens that were signed twice, or that two refreshes
                 \* used at the same time
    disturbed,   \* history: tokens whose key Redis itself removed or restored
    spent,       \* history: tokens exchanged for a different token
    unanswered   \* history: tokens whose exchange was never answered

vars == <<now, registered, saved, held, blanked, req, signed, contended, disturbed,
          spent, unanswered>>
history == <<signed, contended, disturbed, spent, unanswered>>

Second == 0..MaxNow
Token == [id : User, iat : Second, by : {"generateJwt"}]
Unregistered == [id : User \cup {None}, by : {"google", "signup"}]
Idle == [op |-> "idle"]

ASSUME NoTokenAssumption == None \notin Token

Login == [op : {"login"}, pc : {"register", "answer"}, client : Client, new : Token]
Refresh == [op : {"refresh"}, pc : {"get", "refused"}, client : Client,
            old : Token \cup Unregistered]
      \cup [op : {"refresh"}, pc : {"sign"}, client : Client, old : Token]
      \cup [op : {"refresh"}, pc : {"register", "rotate", "answer"},
            client : Client, old : Token, new : Token]

TypeOK ==
    /\ now \in Second
    /\ registered \subseteq Token
    /\ saved \subseteq Token
    /\ held \in [Client -> Token \cup Unregistered \cup {None}]
    /\ blanked \subseteq Client
    /\ req \in [Req -> Login \cup Refresh \cup {Idle}]
    /\ signed \subseteq Token
    /\ contended \subseteq Token
    /\ disturbed \subseteq Token
    /\ spent \subseteq Token
    /\ unanswered \subseteq Token

Init ==
    /\ now = 0
    /\ registered = {}
    /\ saved = {}
    /\ held = [k \in Client |-> None]
    /\ blanked = {}
    /\ req = [q \in Req |-> Idle]
    /\ signed = {}
    /\ contended = {}
    /\ disturbed = {}
    /\ spent = {}
    /\ unanswered = {}

-----------------------------------------------------------------------------
At(q, op, pc) == req[q] # Idle /\ req[q].op = op /\ req[q].pc = pc
Finish(q) == req' = [req EXCEPT ![q] = Idle]

\* Between finding its token and having it deleted.
Using(q, t) ==
    /\ At(q, "refresh", "sign") \/ At(q, "refresh", "register") \/ At(q, "refresh", "rotate")
    /\ req[q].old = t

\* jwtService.sign of the refresh payload.
Sign(u) == [id |-> u, iat |-> now, by |-> "generateJwt"]

NoteSigned(t) ==
    /\ signed' = signed \cup {t}
    /\ contended' = IF t \in signed THEN contended \cup {t} ELSE contended

Tick ==
    /\ now < MaxNow
    /\ now' = now + 1
    /\ UNCHANGED <<registered, saved, held, blanked, req, history>>

-----------------------------------------------------------------------------
(* POST /auth/login and POST /refresh-token *)

\* The password is right: getlogin calls generateJwt, which signs.
HandleLogin(q, k, u) ==
    /\ req[q] = Idle
    /\ req' = [req EXCEPT ![q] = [op |-> "login", pc |-> "register", client |-> k,
                                  new |-> Sign(u)]]
    /\ NoteSigned(Sign(u))
    /\ UNCHANGED <<now, registered, saved, held, blanked, disturbed, spent, unanswered>>

\* A tab refreshes with the token its browser holds.
HandleRefresh(q, k) ==
    /\ req[q] = Idle
    /\ held[k] # None
    /\ req' = [req EXCEPT ![q] = [op |-> "refresh", pc |-> "get", client |-> k,
                                  old |-> held[k]]]
    /\ UNCHANGED <<now, registered, saved, held, blanked, history>>

\* Variant: the reply of the lookup is not looked at.
AnyKey(t) == TRUE

\* redis.get finds the key of the token.
HasKey(t) == t \in registered

GetKey(q) ==
    /\ At(q, "refresh", "get")
    /\ LET t == req[q].old
       IN  IF HasKey(t)
           THEN /\ req' = [req EXCEPT ![q].pc = "sign"]
                /\ contended' = IF \E p \in Req \ {q} : Using(p, t)
                                THEN contended \cup {t} ELSE contended
           ELSE /\ req' = [req EXCEPT ![q].pc = "refused"]
                /\ UNCHANGED contended
    /\ UNCHANGED <<now, registered, saved, held, blanked, signed, disturbed, spent, unanswered>>

\* verify, then generateJwt signs for the same user.
SignNext(q) ==
    /\ At(q, "refresh", "sign")
    /\ LET t == Sign(req[q].old.id)
       IN  /\ req' = [req EXCEPT ![q] = [op |-> "refresh", pc |-> "register",
                          client |-> @.client, old |-> @.old, new |-> t]]
           /\ NoteSigned(t)
    /\ UNCHANGED <<now, registered, saved, held, blanked, disturbed, spent, unanswered>>

\* registerRefreshToken: the key of a token is the token.
SetKey(t) == registered' = registered \cup {t}

\* generateJwt registers what it signed.
Register(q) ==
    /\ At(q, "login", "register") \/ At(q, "refresh", "register")
    /\ SetKey(req[q].new)
    /\ req' = [req EXCEPT ![q].pc = IF req[q].op = "login" THEN "answer" ELSE "rotate"]
    /\ UNCHANGED <<now, saved, held, blanked, history>>

\* Variant: the new key is set before the old one is deleted.
SetThenDelete(old, new) == (registered \cup {new}) \ {old}

\* Variant: the old key stays.
SetOnly(old, new) == registered \cup {new}

\* updateRefreshToken: del and set go out on one connection in this order.
DeleteThenSet(old, new) == (registered \ {old}) \cup {new}

NoteSpent(old, new) == spent' = IF old = new THEN spent ELSE spent \cup {old}

Rotate(q) ==
    /\ At(q, "refresh", "rotate")
    /\ registered' = DeleteThenSet(req[q].old, req[q].new)
    /\ NoteSpent(req[q].old, req[q].new)
    /\ req' = [req EXCEPT ![q].pc = "answer"]
    /\ UNCHANGED <<now, saved, held, blanked, signed, contended, disturbed, unanswered>>

\* Variant: a refresh answers with the token it was sent.
AnsweredOld(q) == IF req[q].op = "refresh" THEN req[q].old ELSE req[q].new

\* The refresh token of the answer.
Answered(q) == req[q].new

\* The browser gets the tokens, in the body and as cookies.
Answer(q) ==
    /\ At(q, "login", "answer") \/ At(q, "refresh", "answer")
    /\ held' = [held EXCEPT ![req[q].client] = Answered(q)]
    /\ blanked' = blanked \ {req[q].client}
    /\ Finish(q)
    /\ UNCHANGED <<now, registered, saved, history>>

\* 400 "Invalid refresh token".  The cookies were set before the status was
\* looked at, to tokens the result does not have: String(undefined).  The token
\* the browser had from a body is still there.
Refuse(q) ==
    /\ At(q, "refresh", "refused")
    /\ blanked' = blanked \cup {req[q].client}
    /\ Finish(q)
    /\ UNCHANGED <<now, registered, saved, held, history>>

\* Logout needs an access token that names a user, and the strategy takes the
\* one in the cookie first.  It clears both cookies; the key of the refresh
\* token stays in Redis.
HandleLogout(k) ==
    /\ k \notin blanked
    /\ held[k] # None /\ held[k].id # None
    /\ held' = [held EXCEPT ![k] = None]
    /\ UNCHANGED <<now, registered, saved, blanked, req, history>>

-----------------------------------------------------------------------------
(* Tokens from elsewhere. *)

\* loginWithGoogle signs a token of its own and passes it where
\* registerRefreshToken takes the id: the key it sets is not the token's.
LoginWithGoogle(u) == [id |-> u, by |-> "google"]

\* The callback of Google.
GoogleLogin(k, u) ==
    /\ held' = [held EXCEPT ![k] = LoginWithGoogle(u)]
    /\ blanked' = blanked \ {k}
    /\ UNCHANGED <<now, registered, saved, req, history>>

\* The last step of a signup signs a token for user.id, which createUser's
\* result does not have, and registers nothing.
SignupToken == [id |-> None, by |-> "signup"]

\* POST /register/signup answers.
FinishSignup(k) ==
    /\ held' = [held EXCEPT ![k] = SignupToken]
    /\ blanked' = blanked \ {k}
    /\ UNCHANGED <<now, registered, saved, req, history>>

\* The validated OTP of a signup answers a uuid and no token, and the access
\* cookie is set from it all the same.
ValidateOtp(k) ==
    /\ blanked' = blanked \cup {k}
    /\ UNCHANGED <<now, registered, saved, held, req, history>>

-----------------------------------------------------------------------------
(* Failures. *)

\* The awaited command throws before anything was deleted: 500.
RequestFails(q) ==
    /\ \/ At(q, "login", "register")
       \/ \E pc \in {"get", "sign", "register"} : At(q, "refresh", pc)
    /\ Finish(q)
    /\ UNCHANGED <<now, registered, saved, held, blanked, history>>

\* del succeeds and set throws: 500.
SetFails(q) ==
    /\ At(q, "refresh", "rotate")
    /\ registered' = registered \ {req[q].old}
    /\ spent' = spent \cup {req[q].old}
    /\ unanswered' = unanswered \cup {req[q].old}
    /\ Finish(q)
    /\ UNCHANGED <<now, saved, held, blanked, signed, contended, disturbed>>

\* The connection to the browser is lost before the answer.
AnswerLost(q) ==
    /\ At(q, "login", "answer") \/ At(q, "refresh", "answer")
    /\ unanswered' = IF req[q].op = "refresh" THEN unanswered \cup {req[q].old}
                                               ELSE unanswered
    /\ Finish(q)
    /\ UNCHANGED <<now, registered, saved, held, blanked, signed, contended, disturbed, spent>>

\* The process ends and drops every request.  An unhandled rejection ends it,
\* and del is not awaited.
Crash ==
    /\ req' = [q \in Req |-> Idle]
    /\ unanswered' = unanswered \cup
           {req[q].old : q \in {p \in Req : At(p, "refresh", "answer")}}
    /\ UNCHANGED <<now, registered, saved, held, blanked, signed, contended, disturbed, spent>>

\* The key expires or is evicted (maxmemory-policy allkeys-lru).
Evict(t) ==
    /\ registered' = registered \ {t}
    /\ disturbed' = disturbed \cup {t}
    /\ UNCHANGED <<now, saved, held, blanked, req, signed, contended, spent, unanswered>>

\* save 60 1
Save ==
    /\ saved' = registered
    /\ UNCHANGED <<now, registered, held, blanked, req, history>>

\* appendonly no: Redis comes back with the snapshot.
RedisRestart ==
    /\ registered' = saved
    /\ disturbed' = disturbed \cup (registered \ saved) \cup (saved \ registered)
    /\ UNCHANGED <<now, saved, held, blanked, req, signed, contended, spent, unanswered>>

-----------------------------------------------------------------------------
Next ==
    \/ Tick
    \/ \E q \in Req, k \in Client, u \in User : HandleLogin(q, k, u)
    \/ \E q \in Req, k \in Client : HandleRefresh(q, k)
    \/ \E q \in Req : GetKey(q)
    \/ \E q \in Req : SignNext(q)
    \/ \E q \in Req : Register(q)
    \/ \E q \in Req : Rotate(q)
    \/ \E q \in Req : Answer(q)
    \/ \E q \in Req : Refuse(q)
    \/ \E k \in Client : HandleLogout(k)
    \/ \E k \in Client, u \in User : GoogleLogin(k, u)
    \/ \E k \in Client : FinishSignup(k)
    \/ \E k \in Client : ValidateOtp(k)
    \/ \E q \in Req : RequestFails(q)
    \/ \E q \in Req : SetFails(q)
    \/ \E q \in Req : AnswerLost(q)
    \/ Crash
    \/ \E t \in registered : Evict(t)
    \/ Save
    \/ RedisRestart

Spec == Init /\ [][Next]_vars

-----------------------------------------------------------------------------
(* Properties. *)

\* A token a browser holds from a login or refresh has its key in Redis, unless
\* it was exchanged for a different one or Redis itself dropped it.  In
\* particular a refresh within the second the token was signed in, which signs
\* the same token again, does not delete the key of the token it answers with.
HeldTokenLives ==
    \A k \in Client :
        held[k] \in Token => held[k] \in registered \cup spent \cup disturbed

\* A refresh token is exchanged once: no refresh gets past its lookup with a
\* token that was exchanged already, unless two refreshes used it at the same
\* time, two requests signed it in the same second, or Redis restored its key.
SpentOnce ==
    \A q \in Req : \A t \in spent \ (contended \cup disturbed) : ~Using(q, t)

\* A browser is left with a token that was exchanged only while the answer to
\* its own refresh is on the way, or when the exchange was never answered, or in
\* the cases SpentOnce leaves out.
BrowserKeepsSession ==
    \A k \in Client :
        held[k] \in spent \ (contended \cup disturbed \cup unanswered) =>
            \E q \in Req : /\ At(q, "refresh", "answer")
                           /\ req[q].client = k
                           /\ req[q].old = held[k]

\* A refused refresh blanks the cookies of its browser only when its token was
\* exchanged, dropped by Redis or never registered; and if the browser holds a
\* session that lives, then only because the tokens of that session were
\* answered after the refused refresh began.
CookiesLostLate ==
    [][\A k \in blanked' \ blanked :
          \/ ValidateOtp(k)
          \/ \E q \in Req :
                /\ At(q, "refresh", "refused") /\ req'[q] = Idle /\ req[q].client = k
                /\ req[q].old \in Unregistered \cup spent \cup disturbed
                /\ held[k] \in registered \ (contended \cup disturbed) =>
                       req[q].old # held[k]]_vars

\* What the signature at register.repository.ts:148 says, id first and token
\* second: the refresh token handed out with a session is registered, whichever
\* way the session began, until it is exchanged or Redis drops it.  The Google
\* login swaps the two, and the signup registers nothing.
EverySessionRefreshes ==
    \A k \in Client :
        held[k] # None => held[k] \in registered \cup spent \cup disturbed

-----------------------------------------------------------------------------
(* The key of a refresh token as a OneTimeKey: a refresh holds it from its *)
(* lookup to its rotation.                                                 *)

Void(t) == t \in contended \/ t \in disturbed

KeyStatus(t) ==
    IF Void(t) THEN "void"
    ELSE IF t \in spent THEN "spent"
    ELSE IF t \in registered THEN "good" ELSE "new"
KeyHolders(t) == {q \in Req : ~Void(t) /\ Using(q, t)}

Key(t) == INSTANCE OneTimeKey WITH
              Worker <- Req, status <- KeyStatus(t), holders <- KeyHolders(t)

\* Refresh tokens are keys that are used once: one refresh at a time gets past
\* the lookup with a token, and none does once the token was exchanged, unless
\* requests overlapped on the token or signed it twice, or Redis dropped or
\* restored its key.
ImplementsOneTimeKey ==
    /\ \A t \in Token : Key(t)!Init
    /\ [][\A t \in Token : UNCHANGED Key(t)!vars \/ Key(t)!Next]_vars

=============================================================================
