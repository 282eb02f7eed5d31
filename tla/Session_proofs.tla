---------------------------- MODULE Session_proofs ----------------------------
(***************************************************************************)
(* What the refresh tokens guarantee for every number of users, browsers   *)
(* and concurrent requests, and however long the clock runs.               *)
(***************************************************************************)
EXTENDS Session, TLAPS

\* The kinds of records a request can be, by stage.
LEMMA ReqKind ==
  ASSUME TypeOK, NEW q \in Req
  PROVE  /\ \A pc : At(q, "login", pc) =>
               /\ req[q] \in Login
               /\ req[q].new \in Token
               /\ req[q].client \in Client
         /\ \A pc : At(q, "refresh", pc) =>
               /\ req[q] \in Refresh
               /\ req[q].client \in Client
         /\ \A pc \in {"sign", "register", "rotate", "answer"} :
               At(q, "refresh", pc) => req[q].old \in Token
         /\ \A pc \in {"register", "rotate", "answer"} :
               At(q, "refresh", pc) => req[q].new \in Token
  BY DEF TypeOK, At, Login, Refresh, Idle

LEMMA SignType == ASSUME TypeOK, NEW u \in User PROVE Sign(u) \in Token
  BY DEF TypeOK, Sign, Token

LEMMA TypeInit == Init => TypeOK
  BY MaxNowAssumption DEF Init, TypeOK, Second

LEMMA TypeNext == TypeOK /\ [Next]_vars => TypeOK'
<1> SUFFICES ASSUME TypeOK, [Next]_vars PROVE TypeOK'
  OBVIOUS
<1>1. CASE Tick
  BY <1>1, MaxNowAssumption DEF Tick, history, TypeOK, Second
<1>2. ASSUME NEW q \in Req, NEW k \in Client, NEW u \in User, HandleLogin(q, k, u)
      PROVE  TypeOK'
  <2>1. Sign(u) \in Token
    BY SignType
  <2>2. [op |-> "login", pc |-> "register", client |-> k, new |-> Sign(u)] \in Login
    BY <2>1 DEF Login
  <2> QED
    BY <1>2, <2>1, <2>2 DEF HandleLogin, NoteSigned, TypeOK
<1>3. ASSUME NEW q \in Req, NEW k \in Client, HandleRefresh(q, k) PROVE TypeOK'
  <2>1. [op |-> "refresh", pc |-> "get", client |-> k, old |-> held[k]] \in Refresh
    BY <1>3 DEF HandleRefresh, TypeOK, Refresh
  <2> QED
    BY <1>3, <2>1 DEF HandleRefresh, history, TypeOK
<1>4. ASSUME NEW q \in Req, GetKey(q) PROVE TypeOK'
  <2>1. req[q] \in [op : {"refresh"}, pc : {"get", "refused"}, client : Client,
                    old : Token \cup Unregistered]
    BY <1>4 DEF GetKey, At, TypeOK, Login, Refresh, Idle
  <2>2. CASE HasKey(req[q].old)
    <3>1. req[q].old \in Token
      BY <2>2 DEF HasKey, TypeOK
    <3>2. [req[q] EXCEPT !.pc = "sign"] \in Refresh
      BY <2>1, <3>1 DEF Refresh
    <3>3. req' = [req EXCEPT ![q].pc = "sign"] /\ contended' \subseteq Token
      BY <1>4, <2>2, <3>1 DEF GetKey, TypeOK
    <3> QED
      BY <1>4, <3>2, <3>3 DEF GetKey, TypeOK
  <2>3. CASE ~HasKey(req[q].old)
    <3>1. [req[q] EXCEPT !.pc = "refused"] \in Refresh
      BY <2>1 DEF Refresh
    <3> QED
      BY <1>4, <2>3, <3>1 DEF GetKey, TypeOK
  <2> QED
    BY <2>2, <2>3
<1>5. ASSUME NEW q \in Req, SignNext(q) PROVE TypeOK'
  <2>1. req[q].old \in Token /\ req[q].client \in Client
    BY <1>5, ReqKind DEF SignNext
  <2>2. Sign(req[q].old.id) \in Token
    BY <2>1, SignType DEF Token
  <2>3. [op |-> "refresh", pc |-> "register", client |-> req[q].client,
         old |-> req[q].old, new |-> Sign(req[q].old.id)] \in Refresh
    BY <2>1, <2>2 DEF Refresh
  <2> QED
    BY <1>5, <2>2, <2>3 DEF SignNext, NoteSigned, TypeOK
<1>6. ASSUME NEW q \in Req, Register(q) PROVE TypeOK'
  <2>1. CASE At(q, "login", "register")
    <3>1. req[q] \in Login /\ req[q].new \in Token /\ req[q].op = "login"
      BY <2>1, ReqKind DEF At
    <3>2. [req[q] EXCEPT !.pc = "answer"] \in Login
      BY <3>1 DEF Login
    <3> QED
      BY <1>6, <3>1, <3>2 DEF Register, SetKey, history, TypeOK
  <2>2. CASE At(q, "refresh", "register")
    <3>1. req[q] \in [op : {"refresh"}, pc : {"register", "rotate", "answer"},
                      client : Client, old : Token, new : Token]
      BY <2>2 DEF At, TypeOK, Login, Refresh, Idle
    <3>2. [req[q] EXCEPT !.pc = "rotate"] \in Refresh /\ req[q].op # "login"
      BY <3>1 DEF Refresh
    <3> QED
      BY <1>6, <3>1, <3>2 DEF Register, SetKey, history, TypeOK
  <2> QED
    BY <1>6, <2>1, <2>2 DEF Register, SetKey
<1>7. ASSUME NEW q \in Req, Rotate(q) PROVE TypeOK'
  <2>1. req[q] \in [op : {"refresh"}, pc : {"register", "rotate", "answer"},
                    client : Client, old : Token, new : Token]
    BY <1>7 DEF Rotate, At, TypeOK, Login, Refresh, Idle
  <2>2. [req[q] EXCEPT !.pc = "answer"] \in Refresh
    BY <2>1 DEF Refresh
  <2> QED
    BY <1>7, <2>1, <2>2 DEF Rotate, DeleteThenSet, NoteSpent, TypeOK
<1>8. ASSUME NEW q \in Req, Answer(q) PROVE TypeOK'
  <2>1. req[q].new \in Token /\ req[q].client \in Client
    BY <1>8, ReqKind DEF Answer
  <2> QED
    BY <1>8, <2>1 DEF Answer, Answered, Finish, history, TypeOK
<1>9. ASSUME NEW q \in Req, Refuse(q) PROVE TypeOK'
  <2>1. req[q].client \in Client
    BY <1>9, ReqKind DEF Refuse
  <2> QED
    BY <1>9, <2>1 DEF Refuse, Finish, history, TypeOK
<1>10. ASSUME NEW k \in Client, HandleLogout(k) PROVE TypeOK'
  BY <1>10 DEF HandleLogout, history, TypeOK
<1>11. ASSUME NEW k \in Client, NEW u \in User, GoogleLogin(k, u) PROVE TypeOK'
  <2>1. [id |-> u, by |-> "google"] \in Unregistered
    BY DEF Unregistered
  <2> QED
    BY <1>11, <2>1 DEF GoogleLogin, LoginWithGoogle, history, TypeOK
<1>12. ASSUME NEW k \in Client, FinishSignup(k) PROVE TypeOK'
  <2>1. [id |-> None, by |-> "signup"] \in Unregistered
    BY DEF Unregistered
  <2> QED
    BY <1>12, <2>1 DEF FinishSignup, SignupToken, history, TypeOK
<1>13. ASSUME NEW q \in Req, RequestFails(q) PROVE TypeOK'
  BY <1>13 DEF RequestFails, Finish, history, TypeOK
<1>14. ASSUME NEW q \in Req, SetFails(q) PROVE TypeOK'
  <2>1. req[q].old \in Token
    BY <1>14, ReqKind DEF SetFails
  <2> QED
    BY <1>14, <2>1 DEF SetFails, NoteSpent, Finish, TypeOK
<1>15. ASSUME NEW q \in Req, AnswerLost(q) PROVE TypeOK'
  <2>1. req[q].op = "refresh" => req[q].old \in Token
    BY <1>15, ReqKind DEF AnswerLost, At
  <2> QED
    BY <1>15, <2>1 DEF AnswerLost, Finish, TypeOK
<1>16. CASE Crash
  <2>1. {req[q].old : q \in {p \in Req : At(p, "refresh", "answer")}} \subseteq Token
    BY ReqKind
  <2> QED
    BY <1>16, <2>1 DEF Crash, TypeOK
<1>17. ASSUME NEW t \in registered, Evict(t) PROVE TypeOK'
  BY <1>17 DEF Evict, TypeOK
<1>18. CASE Save
  BY <1>18 DEF Save, history, TypeOK
<1>19. CASE RedisRestart
  BY <1>19 DEF RedisRestart, TypeOK
<1>20. ASSUME NEW k \in Client, ValidateOtp(k) PROVE TypeOK'
  BY <1>20 DEF ValidateOtp, history, TypeOK
<1>21. CASE UNCHANGED vars
  BY <1>21 DEF vars, TypeOK
<1> QED
  BY <1>1, <1>2, <1>3, <1>4, <1>5, <1>6, <1>7, <1>8, <1>9, <1>10, <1>11, <1>12,
     <1>13, <1>14, <1>15, <1>16, <1>17, <1>18, <1>19, <1>20, <1>21 DEF Next


HasNew(q) == \/ \E pc \in {"register", "answer"} : At(q, "login", pc)
             \/ \E pc \in {"register", "rotate", "answer"} : At(q, "refresh", pc)
HasOld(q) == req[q] # Idle /\ req[q].op = "refresh"

\* Every token anybody knows of was signed.
Traced ==
    /\ registered \cup saved \cup spent \subseteq signed
    /\ \A k \in Client : held[k] \in Token => held[k] \in signed
    /\ \A q \in Req : /\ HasNew(q) => req[q].new \in signed
                      /\ HasOld(q) /\ req[q].old \in Token => req[q].old \in signed

\* A token signed once is known only to the request that signed it until that
\* request is answered.
NewIsFresh ==
    \A q \in Req : HasNew(q) /\ req[q].new \notin contended =>
        /\ req[q].new \notin spent
        /\ \A k \in Client : held[k] # req[q].new
        /\ \A p \in Req : /\ HasOld(p) => req[p].old # req[q].new
                          /\ HasNew(p) /\ p # q => req[p].new # req[q].new

\* It is then known to one browser and its requests.
OneBrowser ==
    \A k \in Client : held[k] \in Token \ contended =>
        /\ \A l \in Client : held[l] = held[k] => l = k
        /\ \A q \in Req : HasOld(q) /\ req[q].old = held[k] => req[q].client = k

\* The key of an exchanged token is gone.
SpentIsGone == registered \cap (spent \ (contended \cup disturbed)) = {}

\* Two requests use a token at the same time only if it is noted as contended.
OneUser ==
    \A p, q \in Req : p # q /\ (\E t \in Token \ contended : Using(p, t) /\ Using(q, t)) => FALSE

Ready(q) == \/ At(q, "login", "answer")
            \/ At(q, "refresh", "rotate") \/ At(q, "refresh", "answer")

\* The token a request is about to answer with is registered.
NewLives ==
    \A q \in Req :
        Ready(q) => req[q].new \in registered \cup spent \cup disturbed

\* A refresh that was refused, or has not looked yet, has a token whose key is
\* gone for a reason.
RefusalsDue ==
    \A q \in Req :
        /\ At(q, "refresh", "get") =>
               req[q].old \in registered \cup spent \cup disturbed \cup Unregistered
        /\ At(q, "refresh", "refused") =>
               req[q].old \in spent \cup disturbed \cup Unregistered

Waits(q, t) == At(q, "refresh", "answer") /\ req[q].old = t

IInv == /\ TypeOK /\ Traced /\ NewIsFresh /\ OneBrowser
        /\ SpentIsGone /\ OneUser /\ SpentOnce
        /\ NewLives /\ HeldTokenLives /\ RefusalsDue /\ BrowserKeepsSession

-----------------------------------------------------------------------------
(* What a step does, as far as the invariants are concerned. *)

KeepsNew(p) == HasNew(p) /\ req'[p].new = req[p].new
Signs(p) == /\ req'[p].new \in signed'
            /\ req'[p].new \in signed => req'[p].new \in contended'

\* Who comes to know which token.
Learns ==
    /\ signed \subseteq signed' /\ contended \subseteq contended'
    /\ \A p \in Req : HasNew(p)' => \/ KeepsNew(p)
                                    \/ Signs(p) /\ \A r \in Req \ {p} : HasNew(r)' => KeepsNew(r)
    /\ \A p \in Req : HasOld(p)' =>
          \/ HasOld(p) /\ req'[p].old = req[p].old /\ req'[p].client = req[p].client
          \/ req'[p].client \in Client /\ held[req'[p].client] = req'[p].old
    /\ \/ \A k \in Client : held'[k] = held[k] \/ held'[k] \notin Token
       \/ \E q \in Req : /\ HasNew(q) /\ ~HasNew(q)' /\ ~HasOld(q)'
                         /\ \A k \in Client : \/ held'[k] = held[k]
                                              \/ k = req[q].client /\ held'[k] = req[q].new
                         /\ \A p \in Req : HasNew(p)' => KeepsNew(p)
                         /\ \A p \in Req : HasOld(p)' => HasOld(p) /\ req'[p].old = req[p].old


\* How the use of a token begins and ends, and when a token becomes exchanged.
Uses ==
    /\ contended \subseteq contended' /\ disturbed \subseteq disturbed'
    /\ \A p \in Req : \A t : Using(p, t)' =>
          \/ Using(p, t)
          \/ /\ t \in registered /\ spent' = spent
             /\ \A r \in Req \ {p} : Using(r, t)' => t \in contended'
    /\ \A t \in spent' \ spent :
          /\ t \notin registered'
          /\ \E q \in Req : /\ Using(q, t) /\ ~Using(q, t)'
                            /\ \A p \in Req : \A x : Using(p, x)' => Using(p, x)
    /\ \A t \in registered' \ registered :
          t \in disturbed' \/ \E q \in Req : HasNew(q) /\ req[q].new = t

\* Which keys stay, and that an answer only carries a registered token.
Keeps ==
    /\ \A t \in registered \cup spent \cup disturbed :
          t \in registered' \cup spent' \cup disturbed'
    /\ \A p \in Req : Ready(p)' => \/ Ready(p) /\ req'[p].new = req[p].new
                                   \/ req'[p].new \in registered'
    /\ \A k \in Client : \/ held'[k] = held[k] \/ held'[k] \notin Token
                         \/ \E q \in Req : Ready(q) /\ held'[k] = req[q].new

\* When a browser waits for the answer to an exchange, and when it stops.
Awaits ==
    /\ contended \subseteq contended' /\ disturbed \subseteq disturbed'
    /\ unanswered \subseteq unanswered'
    /\ \A q \in Req : \A t : Waits(q, t) =>
          \/ Waits(q, t)' /\ req'[q].client = req[q].client
          \/ t \in unanswered'
          \/ /\ HasNew(q) /\ spent' = spent
             /\ held' = [held EXCEPT ![req[q].client] = req[q].new]
    /\ \A t \in spent' \ spent :
          /\ held' = held
          /\ \/ t \in unanswered'
             \/ \E q \in Req : /\ HasOld(q) /\ req[q].old = t
                               /\ Waits(q, t)' /\ req'[q].client = req[q].client
    /\ \A k \in Client : \/ held'[k] = held[k] \/ held'[k] \notin Token
                         \/ \E q \in Req : /\ HasNew(q) /\ held'[k] = req[q].new
                                           /\ spent' = spent

\* How a refresh comes to be refused, and what a refusal does.
Refuses ==
    /\ spent \subseteq spent' /\ disturbed \subseteq disturbed'
    /\ \A q \in Req : At(q, "refresh", "get")' =>
          \/ At(q, "refresh", "get") /\ req'[q].old = req[q].old
          \/ \E k \in Client : held[k] # None /\ req'[q].old = held[k]
    /\ \A q \in Req : At(q, "refresh", "refused")' =>
          \/ At(q, "refresh", "refused") /\ req'[q].old = req[q].old
          \/ /\ At(q, "refresh", "get") /\ req'[q].old = req[q].old
             /\ req[q].old \notin registered
    /\ \A k \in blanked' \ blanked :
          \/ ValidateOtp(k)
          \/ \E q \in Req : /\ At(q, "refresh", "refused") /\ req'[q] = Idle
                            /\ req[q].client = k

LEMMA LearnsStep == TypeOK /\ [Next]_vars => Learns
<1> SUFFICES ASSUME TypeOK, [Next]_vars PROVE Learns
  OBVIOUS
<1> USE NoTokenAssumption DEF Learns, Signs, KeepsNew, HasNew, HasOld, Token, Unregistered,
           history, TypeOK, At, Login, Refresh, Idle
<1>1. CASE Tick
  BY <1>1 DEF Tick
<1>2. ASSUME NEW q \in Req, NEW k \in Client, NEW u \in User, HandleLogin(q, k, u)
      PROVE  Learns
  BY <1>2 DEF HandleLogin, NoteSigned
<1>3. ASSUME NEW q \in Req, NEW k \in Client, HandleRefresh(q, k) PROVE Learns
  BY <1>3 DEF HandleRefresh
<1>4. ASSUME NEW q \in Req, GetKey(q) PROVE Learns
  BY <1>4 DEF GetKey, HasKey
<1>5. ASSUME NEW q \in Req, SignNext(q) PROVE Learns
  BY <1>5 DEF SignNext, NoteSigned
<1>6. ASSUME NEW q \in Req, Register(q) PROVE Learns
  BY <1>6 DEF Register, SetKey
<1>7. ASSUME NEW q \in Req, Rotate(q) PROVE Learns
  BY <1>7 DEF Rotate, DeleteThenSet, NoteSpent
<1>8. ASSUME NEW q \in Req, Answer(q) PROVE Learns
  BY <1>8 DEF Answer, Answered, Finish
<1>9. ASSUME NEW q \in Req, Refuse(q) PROVE Learns
  BY <1>9 DEF Refuse, Finish
<1>10. ASSUME NEW k \in Client, HandleLogout(k) PROVE Learns
  BY <1>10 DEF HandleLogout
<1>11. ASSUME NEW k \in Client, NEW u \in User, GoogleLogin(k, u) PROVE Learns
  BY <1>11 DEF GoogleLogin, LoginWithGoogle
<1>12. ASSUME NEW k \in Client, FinishSignup(k) PROVE Learns
  BY <1>12 DEF FinishSignup, SignupToken
<1>13. ASSUME NEW q \in Req, RequestFails(q) PROVE Learns
  BY <1>13 DEF RequestFails, Finish
<1>14. ASSUME NEW q \in Req, SetFails(q) PROVE Learns
  BY <1>14 DEF SetFails, Finish
<1>15. ASSUME NEW q \in Req, AnswerLost(q) PROVE Learns
  BY <1>15 DEF AnswerLost, Finish
<1>16. CASE Crash
  BY <1>16 DEF Crash
<1>17. ASSUME NEW t \in registered, Evict(t) PROVE Learns
  BY <1>17 DEF Evict
<1>18. CASE Save
  BY <1>18 DEF Save
<1>19. CASE RedisRestart
  BY <1>19 DEF RedisRestart
<1>20. ASSUME NEW k \in Client, ValidateOtp(k) PROVE Learns
  BY <1>20 DEF ValidateOtp
<1>21. CASE UNCHANGED vars
  BY <1>21 DEF vars
<1> QED
  BY <1>1, <1>2, <1>3, <1>4, <1>5, <1>6, <1>7, <1>8, <1>9, <1>10, <1>11, <1>12,
     <1>13, <1>14, <1>15, <1>16, <1>17, <1>18, <1>19, <1>20, <1>21 DEF Next

LEMMA UsesStep == TypeOK /\ [Next]_vars => Uses
<1> SUFFICES ASSUME TypeOK, [Next]_vars PROVE Uses
  OBVIOUS
<1> USE DEF Uses, Using, HasNew, history, TypeOK, At, Login, Refresh, Idle
<1>1. CASE Tick
  BY <1>1 DEF Tick
<1>2. ASSUME NEW q \in Req, NEW k \in Client, NEW u \in User, HandleLogin(q, k, u)
      PROVE  Uses
  BY <1>2 DEF HandleLogin, NoteSigned
<1>3. ASSUME NEW q \in Req, NEW k \in Client, HandleRefresh(q, k) PROVE Uses
  BY <1>3 DEF HandleRefresh
<1>4. ASSUME NEW q \in Req, GetKey(q) PROVE Uses
  BY <1>4 DEF GetKey, HasKey
<1>5. ASSUME NEW q \in Req, SignNext(q) PROVE Uses
  BY <1>5 DEF SignNext, NoteSigned
<1>6. ASSUME NEW q \in Req, Register(q) PROVE Uses
  BY <1>6 DEF Register, SetKey
<1>7. ASSUME NEW q \in Req, Rotate(q) PROVE Uses
  BY <1>7 DEF Rotate, DeleteThenSet, NoteSpent
<1>8. ASSUME NEW q \in Req, Answer(q) PROVE Uses
  BY <1>8 DEF Answer, Answered, Finish
<1>9. ASSUME NEW q \in Req, Refuse(q) PROVE Uses
  BY <1>9 DEF Refuse, Finish
<1>10. ASSUME NEW k \in Client, HandleLogout(k) PROVE Uses
  BY <1>10 DEF HandleLogout
<1>11. ASSUME NEW k \in Client, NEW u \in User, GoogleLogin(k, u) PROVE Uses
  BY <1>11 DEF GoogleLogin
<1>12. ASSUME NEW k \in Client, FinishSignup(k) PROVE Uses
  BY <1>12 DEF FinishSignup
<1>13. ASSUME NEW q \in Req, RequestFails(q) PROVE Uses
  BY <1>13 DEF RequestFails, Finish
<1>14. ASSUME NEW q \in Req, SetFails(q) PROVE Uses
  BY <1>14 DEF SetFails, Finish
<1>15. ASSUME NEW q \in Req, AnswerLost(q) PROVE Uses
  BY <1>15 DEF AnswerLost, Finish
<1>16. CASE Crash
  BY <1>16 DEF Crash
<1>17. ASSUME NEW t \in registered, Evict(t) PROVE Uses
  BY <1>17 DEF Evict
<1>18. CASE Save
  BY <1>18 DEF Save
<1>19. CASE RedisRestart
  BY <1>19 DEF RedisRestart
<1>20. ASSUME NEW k \in Client, ValidateOtp(k) PROVE Uses
  BY <1>20 DEF ValidateOtp
<1>21. CASE UNCHANGED vars
  BY <1>21 DEF vars
<1> QED
  BY <1>1, <1>2, <1>3, <1>4, <1>5, <1>6, <1>7, <1>8, <1>9, <1>10, <1>11, <1>12,
     <1>13, <1>14, <1>15, <1>16, <1>17, <1>18, <1>19, <1>20, <1>21 DEF Next

LEMMA KeepsStep == TypeOK /\ [Next]_vars => Keeps
<1> SUFFICES ASSUME TypeOK, [Next]_vars PROVE Keeps
  OBVIOUS
<1> USE NoTokenAssumption DEF Keeps, Ready, Token, Unregistered, history, TypeOK, At, Login, Refresh, Idle
<1>1. CASE Tick
  BY <1>1 DEF Tick
<1>2. ASSUME NEW q \in Req, NEW k \in Client, NEW u \in User, HandleLogin(q, k, u)
      PROVE  Keeps
  BY <1>2 DEF HandleLogin, NoteSigned
<1>3. ASSUME NEW q \in Req, NEW k \in Client, HandleRefresh(q, k) PROVE Keeps
  BY <1>3 DEF HandleRefresh
<1>4. ASSUME NEW q \in Req, GetKey(q) PROVE Keeps
  BY <1>4 DEF GetKey, HasKey
<1>5. ASSUME NEW q \in Req, SignNext(q) PROVE Keeps
  BY <1>5 DEF SignNext, NoteSigned
<1>6. ASSUME NEW q \in Req, Register(q) PROVE Keeps
  BY <1>6 DEF Register, SetKey
<1>7. ASSUME NEW q \in Req, Rotate(q) PROVE Keeps
  BY <1>7 DEF Rotate, DeleteThenSet, NoteSpent
<1>8. ASSUME NEW q \in Req, Answer(q) PROVE Keeps
  BY <1>8 DEF Answer, Answered, Finish
<1>9. ASSUME NEW q \in Req, Refuse(q) PROVE Keeps
  BY <1>9 DEF Refuse, Finish
<1>10. ASSUME NEW k \in Client, HandleLogout(k) PROVE Keeps
  BY <1>10 DEF HandleLogout
<1>11. ASSUME NEW k \in Client, NEW u \in User, GoogleLogin(k, u) PROVE Keeps
  BY <1>11 DEF GoogleLogin, LoginWithGoogle
<1>12. ASSUME NEW k \in Client, FinishSignup(k) PROVE Keeps
  BY <1>12 DEF FinishSignup, SignupToken
<1>13. ASSUME NEW q \in Req, RequestFails(q) PROVE Keeps
  BY <1>13 DEF RequestFails, Finish
<1>14. ASSUME NEW q \in Req, SetFails(q) PROVE Keeps
  BY <1>14 DEF SetFails, Finish
<1>15. ASSUME NEW q \in Req, AnswerLost(q) PROVE Keeps
  BY <1>15 DEF AnswerLost, Finish
<1>16. CASE Crash
  BY <1>16 DEF Crash
<1>17. ASSUME NEW t \in registered, Evict(t) PROVE Keeps
  BY <1>17 DEF Evict
<1>18. CASE Save
  BY <1>18 DEF Save
<1>19. CASE RedisRestart
  BY <1>19 DEF RedisRestart
<1>20. ASSUME NEW k \in Client, ValidateOtp(k) PROVE Keeps
  BY <1>20 DEF ValidateOtp
<1>21. CASE UNCHANGED vars
  BY <1>21 DEF vars
<1> QED
  BY <1>1, <1>2, <1>3, <1>4, <1>5, <1>6, <1>7, <1>8, <1>9, <1>10, <1>11, <1>12,
     <1>13, <1>14, <1>15, <1>16, <1>17, <1>18, <1>19, <1>20, <1>21 DEF Next

LEMMA AwaitsStep == TypeOK /\ [Next]_vars => Awaits
<1> SUFFICES ASSUME TypeOK, [Next]_vars PROVE Awaits
  OBVIOUS
<1> USE NoTokenAssumption DEF Awaits, Waits, HasNew, HasOld, Token, Unregistered,
           history, TypeOK, At, Login, Refresh, Idle
<1>1. CASE Tick
  BY <1>1 DEF Tick
<1>2. ASSUME NEW q \in Req, NEW k \in Client, NEW u \in User, HandleLogin(q, k, u)
      PROVE  Awaits
  BY <1>2 DEF HandleLogin, NoteSigned
<1>3. ASSUME NEW q \in Req, NEW k \in Client, HandleRefresh(q, k) PROVE Awaits
  BY <1>3 DEF HandleRefresh
<1>4. ASSUME NEW q \in Req, GetKey(q) PROVE Awaits
  BY <1>4 DEF GetKey, HasKey
<1>5. ASSUME NEW q \in Req, SignNext(q) PROVE Awaits
  BY <1>5 DEF SignNext, NoteSigned
<1>6. ASSUME NEW q \in Req, Register(q) PROVE Awaits
  BY <1>6 DEF Register, SetKey
<1>7. ASSUME NEW q \in Req, Rotate(q) PROVE Awaits
  BY <1>7 DEF Rotate, DeleteThenSet, NoteSpent
<1>8. ASSUME NEW q \in Req, Answer(q) PROVE Awaits
  BY <1>8 DEF Answer, Answered, Finish
<1>9. ASSUME NEW q \in Req, Refuse(q) PROVE Awaits
  BY <1>9 DEF Refuse, Finish
<1>10. ASSUME NEW k \in Client, HandleLogout(k) PROVE Awaits
  BY <1>10 DEF HandleLogout
<1>11. ASSUME NEW k \in Client, NEW u \in User, GoogleLogin(k, u) PROVE Awaits
  BY <1>11 DEF GoogleLogin, LoginWithGoogle
<1>12. ASSUME NEW k \in Client, FinishSignup(k) PROVE Awaits
  BY <1>12 DEF FinishSignup, SignupToken
<1>13. ASSUME NEW q \in Req, RequestFails(q) PROVE Awaits
  BY <1>13 DEF RequestFails, Finish
<1>14. ASSUME NEW q \in Req, SetFails(q) PROVE Awaits
  BY <1>14 DEF SetFails, Finish
<1>15. ASSUME NEW q \in Req, AnswerLost(q) PROVE Awaits
  BY <1>15 DEF AnswerLost, Finish
<1>16. CASE Crash
  BY <1>16 DEF Crash
<1>17. ASSUME NEW t \in registered, Evict(t) PROVE Awaits
  BY <1>17 DEF Evict
<1>18. CASE Save
  BY <1>18 DEF Save
<1>19. CASE RedisRestart
  BY <1>19 DEF RedisRestart
<1>20. ASSUME NEW k \in Client, ValidateOtp(k) PROVE Awaits
  BY <1>20 DEF ValidateOtp
<1>21. CASE UNCHANGED vars
  BY <1>21 DEF vars
<1> QED
  BY <1>1, <1>2, <1>3, <1>4, <1>5, <1>6, <1>7, <1>8, <1>9, <1>10, <1>11, <1>12,
     <1>13, <1>14, <1>15, <1>16, <1>17, <1>18, <1>19, <1>20, <1>21 DEF Next

LEMMA RefusesStep == TypeOK /\ [Next]_vars => Refuses
<1> SUFFICES ASSUME TypeOK, [Next]_vars PROVE Refuses
  OBVIOUS
<1> USE DEF Refuses, history, TypeOK, At, Login, Refresh, Idle
<1>1. CASE Tick
  BY <1>1 DEF Tick
<1>2. ASSUME NEW q \in Req, NEW k \in Client, NEW u \in User, HandleLogin(q, k, u)
      PROVE  Refuses
  BY <1>2 DEF HandleLogin, NoteSigned
<1>3. ASSUME NEW q \in Req, NEW k \in Client, HandleRefresh(q, k) PROVE Refuses
  BY <1>3 DEF HandleRefresh
<1>4. ASSUME NEW q \in Req, GetKey(q) PROVE Refuses
  BY <1>4 DEF GetKey, HasKey
<1>5. ASSUME NEW q \in Req, SignNext(q) PROVE Refuses
  BY <1>5 DEF SignNext, NoteSigned
<1>6. ASSUME NEW q \in Req, Register(q) PROVE Refuses
  BY <1>6 DEF Register, SetKey
<1>7. ASSUME NEW q \in Req, Rotate(q) PROVE Refuses
  BY <1>7 DEF Rotate, DeleteThenSet, NoteSpent
<1>8. ASSUME NEW q \in Req, Answer(q) PROVE Refuses
  BY <1>8 DEF Answer, Answered, Finish
<1>9. ASSUME NEW q \in Req, Refuse(q) PROVE Refuses
  BY <1>9 DEF Refuse, Finish
<1>10. ASSUME NEW k \in Client, HandleLogout(k) PROVE Refuses
  BY <1>10 DEF HandleLogout
<1>11. ASSUME NEW k \in Client, NEW u \in User, GoogleLogin(k, u) PROVE Refuses
  BY <1>11 DEF GoogleLogin
<1>12. ASSUME NEW k \in Client, FinishSignup(k) PROVE Refuses
  BY <1>12 DEF FinishSignup
<1>13. ASSUME NEW q \in Req, RequestFails(q) PROVE Refuses
  BY <1>13 DEF RequestFails, Finish
<1>14. ASSUME NEW q \in Req, SetFails(q) PROVE Refuses
  BY <1>14 DEF SetFails, Finish
<1>15. ASSUME NEW q \in Req, AnswerLost(q) PROVE Refuses
  BY <1>15 DEF AnswerLost, Finish
<1>16. CASE Crash
  BY <1>16 DEF Crash
<1>17. ASSUME NEW t \in registered, Evict(t) PROVE Refuses
  BY <1>17 DEF Evict
<1>18. CASE Save
  BY <1>18 DEF Save
<1>19. CASE RedisRestart
  BY <1>19 DEF RedisRestart
<1>20. ASSUME NEW k \in Client, ValidateOtp(k) PROVE Refuses
  BY <1>20 DEF ValidateOtp
<1>21. CASE UNCHANGED vars
  BY <1>21 DEF vars
<1> QED
  BY <1>1, <1>2, <1>3, <1>4, <1>5, <1>6, <1>7, <1>8, <1>9, <1>10, <1>11, <1>12,
     <1>13, <1>14, <1>15, <1>16, <1>17, <1>18, <1>19, <1>20, <1>21 DEF Next

-----------------------------------------------------------------------------
(* The invariants. *)

\* Keys come back from the snapshot or are set for a token a request signed.
LEMMA KeysStep ==
  TypeOK /\ [Next]_vars =>
      /\ signed \subseteq signed'
      /\ \A t \in registered' \cup saved' :
            t \in registered \cup saved \/ \E q \in Req : HasNew(q) /\ req[q].new = t
      /\ \A t \in spent' \ spent : \E q \in Req : HasOld(q) /\ req[q].old = t
<1> SUFFICES ASSUME TypeOK, [Next]_vars
    PROVE  /\ signed \subseteq signed'
           /\ \A t \in registered' \cup saved' :
                 t \in registered \cup saved \/ \E q \in Req : HasNew(q) /\ req[q].new = t
           /\ \A t \in spent' \ spent : \E q \in Req : HasOld(q) /\ req[q].old = t
  OBVIOUS
<1>1. CASE Tick \/ Crash \/ Save \/ RedisRestart \/ UNCHANGED vars
  BY <1>1 DEF Tick, Crash, Save, RedisRestart, vars, history
<1>2. CASE \E q \in Req, k \in Client :
              (\E u \in User : HandleLogin(q, k, u)) \/ HandleRefresh(q, k)
  BY <1>2 DEF HandleLogin, NoteSigned, HandleRefresh, history
<1>3. CASE \E q \in Req : \/ GetKey(q) \/ SignNext(q) \/ Answer(q) \/ Refuse(q)
                          \/ RequestFails(q) \/ AnswerLost(q)
  BY <1>3 DEF GetKey, SignNext, NoteSigned, Answer, Refuse, RequestFails, AnswerLost, history
<1>4. CASE \E k \in Client : \/ HandleLogout(k) \/ FinishSignup(k) \/ ValidateOtp(k)
                             \/ \E u \in User : GoogleLogin(k, u)
  BY <1>4 DEF HandleLogout, FinishSignup, ValidateOtp, GoogleLogin, history
<1>5. CASE \E q \in Req : Register(q) \/ Rotate(q) \/ SetFails(q)
  BY <1>5 DEF Register, SetKey, Rotate, DeleteThenSet, NoteSpent, SetFails, HasNew, HasOld, At, history
<1>6. CASE \E t \in registered : Evict(t)
  BY <1>6 DEF Evict
<1> QED
  BY <1>1, <1>2, <1>3, <1>4, <1>5, <1>6 DEF Next

LEMMA TracedNext == IInv /\ [Next]_vars => Traced'
<1> SUFFICES ASSUME IInv, [Next]_vars PROVE Traced'
  OBVIOUS
<1>1. Learns /\ TypeOK /\ TypeOK'
  BY LearnsStep, TypeNext DEF IInv
<1>2. (registered \cup saved \cup spent)' \subseteq signed'
  BY <1>1, KeysStep DEF IInv, Traced, TypeOK
<1>3. ASSUME NEW k \in Client, held'[k] \in Token PROVE held'[k] \in signed'
  BY <1>1, <1>3 DEF Learns, IInv, Traced
<1>4. ASSUME NEW q \in Req, HasNew(q)' PROVE req'[q].new \in signed'
  BY <1>1, <1>4 DEF Learns, KeepsNew, Signs, IInv, Traced
<1>5. ASSUME NEW q \in Req, HasOld(q)', req'[q].old \in Token PROVE req'[q].old \in signed'
  BY <1>1, <1>5 DEF Learns, IInv, Traced
<1> QED
  BY <1>2, <1>3, <1>4, <1>5 DEF Traced

LEMMA NewIsFreshNext == IInv /\ [Next]_vars => NewIsFresh'
<1> SUFFICES ASSUME IInv, [Next]_vars, NEW q \in Req, HasNew(q)',
                    req'[q].new \notin contended'
             PROVE  /\ req'[q].new \notin spent'
                    /\ \A k \in Client : held'[k] # req'[q].new
                    /\ \A p \in Req : /\ HasOld(p)' => req'[p].old # req'[q].new
                                      /\ HasNew(p)' /\ p # q => req'[p].new # req'[q].new
  BY DEF NewIsFresh
<1>1. Learns /\ TypeOK /\ TypeOK'
  BY LearnsStep, TypeNext DEF IInv
<1>2. req'[q].new \in Token
  BY <1>1 DEF HasNew, At, TypeOK, Login, Refresh, Idle
<1>3. \A t \in spent' \ spent : \E p \in Req : HasOld(p) /\ req[p].old = t
  BY <1>1, KeysStep
<1>4. CASE KeepsNew(q)
  <2>1. /\ req[q].new = req'[q].new
        /\ req[q].new \notin contended
        /\ HasNew(q)
    BY <1>1, <1>4 DEF Learns, KeepsNew
  <2>2. /\ req[q].new \notin spent
        /\ \A k \in Client : held[k] # req[q].new
        /\ \A p \in Req : HasOld(p) => req[p].old # req[q].new
        /\ \A p \in Req : HasNew(p) /\ p # q => req[p].new # req[q].new
    BY <2>1 DEF IInv, NewIsFresh
  <2>3. req'[q].new \notin spent'
    BY <2>1, <2>2, <1>3
  <2>4. ASSUME NEW k \in Client PROVE held'[k] # req'[q].new
    BY <1>1, <1>2, <1>4, <2>1, <2>2 DEF Learns
  <2>5. ASSUME NEW p \in Req, HasOld(p)' PROVE req'[p].old # req'[q].new
    BY <1>1, <2>1, <2>2, <2>5 DEF Learns
  <2>6. ASSUME NEW p \in Req, HasNew(p)', p # q PROVE req'[p].new # req'[q].new
    <3>1. CASE KeepsNew(p)
      BY <2>1, <2>2, <2>6, <3>1 DEF KeepsNew
    <3>2. CASE Signs(p)
      <4>1. req[q].new \in signed
        BY <2>1 DEF IInv, Traced
      <4> QED
        BY <3>2, <4>1, <2>1 DEF Signs
    <3> QED
      BY <1>1, <2>6, <3>1, <3>2 DEF Learns
  <2> QED
    BY <2>3, <2>4, <2>5, <2>6
<1>5. CASE ~KeepsNew(q)
  <2>1. Signs(q) /\ \A r \in Req \ {q} : HasNew(r)' => KeepsNew(r)
    BY <1>1, <1>5 DEF Learns
  <2>2. req'[q].new \notin signed
    BY <2>1 DEF Signs
  <2>3. req'[q].new \notin spent'
    BY <1>2, <1>3, <2>2 DEF IInv, Traced
  <2>4. ASSUME NEW k \in Client PROVE held'[k] # req'[q].new
    BY <1>1, <1>2, <1>5, <2>2 DEF Learns, IInv, Traced
  <2>5. ASSUME NEW p \in Req, HasOld(p)' PROVE req'[p].old # req'[q].new
    BY <1>1, <1>2, <2>2, <2>5 DEF Learns, IInv, Traced
  <2>6. ASSUME NEW p \in Req, HasNew(p)', p # q PROVE req'[p].new # req'[q].new
    BY <2>1, <2>2, <2>6 DEF KeepsNew, IInv, Traced
  <2> QED
    BY <2>3, <2>4, <2>5, <2>6
<1> QED
  BY <1>4, <1>5

LEMMA OneBrowserNext == IInv /\ [Next]_vars => OneBrowser'
<1> SUFFICES ASSUME IInv, [Next]_vars, NEW k \in Client, held'[k] \in Token \ contended'
             PROVE  /\ \A l \in Client : held'[l] = held'[k] => l = k
                    /\ \A q \in Req : HasOld(q)' /\ req'[q].old = held'[k] =>
                                          req'[q].client = k
  BY DEF OneBrowser, Token
<1>1. Learns
  BY LearnsStep DEF IInv
<1>2. \A l \in Client : held[l] \in Token \ contended =>
        /\ \A m \in Client : held[m] = held[l] => m = l
        /\ \A q \in Req : HasOld(q) /\ req[q].old = held[l] => req[q].client = l
  BY DEF IInv, OneBrowser
<1>3. CASE \A l \in Client : held'[l] = held[l] \/ held'[l] \notin Token
  BY <1>1, <1>2, <1>3 DEF Learns
<1>4. CASE \E q \in Req : /\ HasNew(q) /\ ~HasNew(q)' /\ ~HasOld(q)'
                          /\ \A l \in Client : \/ held'[l] = held[l]
                                               \/ l = req[q].client /\ held'[l] = req[q].new
                          /\ \A p \in Req : HasNew(p)' => KeepsNew(p)
                          /\ \A p \in Req : HasOld(p)' => HasOld(p) /\ req'[p].old = req[p].old
  <2>1. PICK q \in Req : /\ HasNew(q) /\ ~HasNew(q)' /\ ~HasOld(q)'
                         /\ \A l \in Client : \/ held'[l] = held[l]
                                              \/ l = req[q].client /\ held'[l] = req[q].new
                         /\ \A p \in Req : HasOld(p)' => HasOld(p) /\ req'[p].old = req[p].old
    BY <1>4
  <2>2. req[q].new \notin contended =>
          /\ \A l \in Client : held[l] # req[q].new
          /\ \A p \in Req : HasOld(p) => req[p].old # req[q].new
    BY <2>1 DEF IInv, NewIsFresh
  <2> QED
    BY <1>1, <1>2, <2>1, <2>2 DEF Learns
<1> QED
  BY <1>1, <1>3, <1>4 DEF Learns

LEMMA UsesNext == IInv /\ [Next]_vars => SpentIsGone' /\ OneUser' /\ SpentOnce'
<1> SUFFICES ASSUME IInv, [Next]_vars PROVE SpentIsGone' /\ OneUser' /\ SpentOnce'
  OBVIOUS
<1>1. Uses /\ TypeOK'
  BY UsesStep, TypeNext DEF IInv
<1>2. ASSUME NEW t, t \in registered', t \in spent', t \notin contended', t \notin disturbed'
      PROVE  FALSE
  <2>1. t \in spent /\ t \notin contended /\ t \notin disturbed
    BY <1>1, <1>2 DEF Uses
  <2>2. t \notin registered
    BY <2>1 DEF IInv, SpentIsGone
  <2>3. PICK q \in Req : HasNew(q) /\ req[q].new = t
    BY <1>1, <1>2, <2>2 DEF Uses
  <2> QED
    BY <2>1, <2>3 DEF IInv, NewIsFresh
<1>3. ASSUME NEW p \in Req, NEW q \in Req, p # q, NEW t \in Token,
             Using(p, t)', Using(q, t)'
      PROVE  t \in contended'
  <2>1. CASE Using(p, t) /\ Using(q, t)
    BY <1>1, <1>3, <2>1 DEF Uses, IInv, OneUser
  <2> QED
    BY <1>1, <1>3, <2>1 DEF Uses
<1>4. ASSUME NEW q \in Req, NEW t, t \in spent', t \notin contended', t \notin disturbed',
             Using(q, t)'
      PROVE  FALSE
  <2>1. t \notin contended /\ t \notin disturbed /\ t \in Token
    BY <1>1, <1>4 DEF Uses, TypeOK
  <2>2. CASE t \in spent
    <3>1. ~Using(q, t)
      BY <2>1, <2>2 DEF IInv, SpentOnce
    <3>2. t \in registered
      BY <1>1, <1>4, <3>1 DEF Uses
    <3> QED
      BY <2>1, <2>2, <3>2 DEF IInv, SpentIsGone
  <2>3. CASE t \notin spent
    <3>1. PICK p \in Req : /\ Using(p, t) /\ ~Using(p, t)'
                           /\ \A r \in Req : \A x : Using(r, x)' => Using(r, x)
      BY <1>1, <1>4, <2>3 DEF Uses
    <3> QED
      BY <1>4, <2>1, <3>1 DEF IInv, OneUser
  <2> QED
    BY <2>2, <2>3
<1>5. SpentIsGone'
  BY <1>2 DEF SpentIsGone
<1>6. OneUser'
  BY <1>3 DEF OneUser, Token
<1>7. SpentOnce'
  BY <1>4 DEF SpentOnce
<1> QED
  BY <1>5, <1>6, <1>7

LEMMA LivesNext == IInv /\ [Next]_vars => NewLives' /\ HeldTokenLives'
<1> SUFFICES ASSUME IInv, [Next]_vars PROVE NewLives' /\ HeldTokenLives'
  OBVIOUS
<1>1. Keeps
  BY KeepsStep DEF IInv
<1>2. NewLives'
  BY <1>1 DEF Keeps, IInv, NewLives
<1>3. ASSUME NEW k \in Client, held'[k] \in Token
      PROVE  held'[k] \in registered' \cup spent' \cup disturbed'
  BY <1>1, <1>3 DEF Keeps, IInv, NewLives, HeldTokenLives
<1> QED
  BY <1>2, <1>3 DEF HeldTokenLives, Token

LEMMA RefusalsNext == IInv /\ [Next]_vars => RefusalsDue'
<1> SUFFICES ASSUME IInv, [Next]_vars PROVE RefusalsDue'
  OBVIOUS
<1>1. Refuses /\ Keeps
  BY RefusesStep, KeepsStep DEF IInv
<1>2. ASSUME NEW q \in Req, At(q, "refresh", "get")'
      PROVE  req'[q].old \in registered' \cup spent' \cup disturbed' \cup Unregistered
  <2>1. CASE At(q, "refresh", "get") /\ req'[q].old = req[q].old
    BY <1>1, <2>1 DEF IInv, RefusalsDue, Keeps
  <2>2. ASSUME NEW k \in Client, held[k] # None, req'[q].old = held[k]
        PROVE  req'[q].old \in registered' \cup spent' \cup disturbed' \cup Unregistered
    <3>1. held[k] \in registered \cup spent \cup disturbed \cup Unregistered
      BY <2>2 DEF IInv, TypeOK, HeldTokenLives
    <3> QED
      BY <1>1, <2>2, <3>1 DEF Keeps
  <2> QED
    BY <1>1, <1>2, <2>1, <2>2 DEF Refuses
<1>3. ASSUME NEW q \in Req, At(q, "refresh", "refused")'
      PROVE  req'[q].old \in spent' \cup disturbed' \cup Unregistered
  BY <1>1, <1>3 DEF Refuses, IInv, RefusalsDue
<1> QED
  BY <1>2, <1>3 DEF RefusalsDue

LEMMA BrowserNext == IInv /\ [Next]_vars => BrowserKeepsSession'
<1> SUFFICES ASSUME IInv, [Next]_vars, NEW k \in Client, NEW t, held'[k] = t,
                    t \in spent', t \notin contended', t \notin disturbed',
                    t \notin unanswered'
             PROVE  \E q \in Req : Waits(q, t)' /\ req'[q].client = k
  BY DEF BrowserKeepsSession, Waits
<1>1. Awaits /\ TypeOK'
  BY AwaitsStep, TypeNext DEF IInv
<1>2. /\ t \notin contended /\ t \notin disturbed
      /\ t \notin unanswered /\ t \in Token
  BY <1>1 DEF Awaits, TypeOK
<1>3. held[k] = t
  <2>1. ASSUME NEW q \in Req, HasNew(q), t = req[q].new, spent' = spent PROVE FALSE
    BY <2>1, <1>2 DEF IInv, NewIsFresh
  <2> QED
    BY <1>1, <1>2, <2>1 DEF Awaits
<1>4. CASE t \in spent
  <2>1. PICK q \in Req : Waits(q, t) /\ req[q].client = k
    BY <1>2, <1>3, <1>4 DEF IInv, BrowserKeepsSession, Waits
  <2>2. CASE /\ HasNew(q) /\ spent' = spent
             /\ held' = [held EXCEPT ![req[q].client] = req[q].new]
    <3>1. t = req[q].new
      BY <2>1, <2>2 DEF IInv, TypeOK
    <3> QED
      BY <1>2, <1>4, <2>2, <3>1 DEF IInv, NewIsFresh
  <2> QED
    BY <1>1, <2>1, <2>2 DEF Awaits
<1>5. CASE t \notin spent
  <2>1. PICK q \in Req : /\ HasOld(q) /\ req[q].old = t
                         /\ Waits(q, t)' /\ req'[q].client = req[q].client
    BY <1>1, <1>5 DEF Awaits
  <2>2. req[q].client = k
    BY <1>2, <1>3, <2>1 DEF IInv, OneBrowser
  <2> QED
    BY <2>1, <2>2
<1> QED
  BY <1>4, <1>5

LEMMA IInvInit == Init => IInv
  BY TypeInit, NoTokenAssumption
  DEF Init, IInv, Traced, NewIsFresh, OneBrowser, SpentIsGone, OneUser, SpentOnce, NewLives,
      HeldTokenLives, RefusalsDue, BrowserKeepsSession, HasNew, HasOld, Ready, Using, At

LEMMA IInvNext == IInv /\ [Next]_vars => IInv'
  BY TypeNext, TracedNext, NewIsFreshNext, OneBrowserNext, UsesNext, LivesNext,
     RefusalsNext, BrowserNext
  DEF IInv

\* The inductive invariant holds in every reachable state.
THEOREM IInvCorrect == Spec => []IInv
  BY IInvInit, IInvNext, PTL DEF Spec

-----------------------------------------------------------------------------
\* Every reachable state is well typed.
THEOREM TypeCorrect == Spec => []TypeOK
<1>1. IInv => TypeOK
  BY DEF IInv
<1> QED
  BY <1>1, IInvCorrect, PTL

\* A token a browser holds works until it is exchanged or Redis drops it,
\* whatever second the requests of its user are signed in.
THEOREM HeldTokensLive == Spec => []HeldTokenLives
<1>1. IInv => HeldTokenLives
  BY DEF IInv
<1> QED
  BY <1>1, IInvCorrect, PTL

\* A refresh token is exchanged once, but for overlapping refreshes, tokens
\* signed twice within a second, and keys Redis restored.
THEOREM ExchangedOnce == Spec => []SpentOnce
<1>1. IInv => SpentOnce
  BY DEF IInv
<1> QED
  BY <1>1, IInvCorrect, PTL

\* A browser keeps a working token or has an answer on its way, but for the
\* same cases and for exchanges that are never answered.
THEOREM BrowsersKeepSessions == Spec => []BrowserKeepsSession
<1>1. IInv => BrowserKeepsSession
  BY DEF IInv
<1> QED
  BY <1>1, IInvCorrect, PTL

\* A browser loses the cookies of a session that lives only to a refresh it
\* began before the tokens of that session were answered: the key of a token it
\* was refused is gone, and only a second signature or Redis brings it back.
THEOREM LostLate == Spec => CookiesLostLate
<1>1. ASSUME IInv, [Next]_vars, NEW k \in blanked' \ blanked
      PROVE  \/ ValidateOtp(k)
             \/ \E q \in Req :
                   /\ At(q, "refresh", "refused") /\ req'[q] = Idle /\ req[q].client = k
                   /\ req[q].old \in Unregistered \cup spent \cup disturbed
                   /\ held[k] \in registered \ (contended \cup disturbed) =>
                          req[q].old # held[k]
  <2>1. CASE ValidateOtp(k)
    BY <2>1
  <2>2. CASE ~ValidateOtp(k)
    <3>1. PICK q \in Req : /\ At(q, "refresh", "refused") /\ req'[q] = Idle
                           /\ req[q].client = k
      BY <1>1, <2>2, RefusesStep DEF IInv, Refuses
    <3>2. req[q].old \in Unregistered \cup spent \cup disturbed
      BY <1>1, <3>1 DEF IInv, RefusalsDue
    <3>3. ASSUME req[q].old \in registered \ (contended \cup disturbed) PROVE FALSE
      <4>1. req[q].old \notin Unregistered
        BY <1>1, <3>3 DEF IInv, TypeOK, Token, Unregistered
      <4> QED
        BY <1>1, <3>2, <3>3, <4>1 DEF IInv, SpentIsGone
    <3> QED
      BY <3>1, <3>2, <3>3
  <2> QED
    BY <2>1, <2>2
<1>2. IInv /\ [Next]_vars => [\A k \in blanked' \ blanked :
          \/ ValidateOtp(k)
          \/ \E q \in Req :
                /\ At(q, "refresh", "refused") /\ req'[q] = Idle /\ req[q].client = k
                /\ req[q].old \in Unregistered \cup spent \cup disturbed
                /\ held[k] \in registered \ (contended \cup disturbed) =>
                       req[q].old # held[k]]_vars
  BY <1>1
<1> QED
  BY <1>2, IInvCorrect, PTL DEF Spec, CookiesLostLate

-----------------------------------------------------------------------------
(* A refresh token is a OneTimeKey. *)

\* The key of a token in use is there, unless Redis dropped it or the token was
\* exchanged.
UsedLives == \A q \in Req : \A t : Using(q, t) => t \in registered \cup spent \cup disturbed

LEMMA UsedLivesNext == IInv /\ UsedLives /\ [Next]_vars => UsedLives'
<1> SUFFICES ASSUME IInv, UsedLives, [Next]_vars, NEW q \in Req, NEW t, Using(q, t)'
             PROVE  t \in registered' \cup spent' \cup disturbed'
  BY DEF UsedLives
<1>1. Uses /\ Keeps
  BY UsesStep, KeepsStep DEF IInv
<1>2. t \in registered \cup spent \cup disturbed
  BY <1>1 DEF Uses, UsedLives
<1> QED
  BY <1>1, <1>2 DEF Keeps

\* What the invariants say of a token that is not void: only one request uses it,
\* and its key is there as long as one does.
LEMMA UserAlone ==
  ASSUME IInv, UsedLives, NEW t \in Token, ~Void(t), NEW q \in Req, Using(q, t)
  PROVE  KeyStatus(t) = "good" /\ KeyHolders(t) = {q}
<1>1. t \in registered /\ t \notin spent
  BY DEF IInv, UsedLives, SpentOnce, Void
<1>2. \A p \in Req : Using(p, t) => p = q
  BY DEF IInv, OneUser, Void
<1> QED
  BY <1>1, <1>2 DEF KeyStatus, KeyHolders, Void

\* A token signed once is not in use before it is answered.
LEMMA NewUnused ==
  ASSUME IInv, NEW t \in Token, ~Void(t), NEW q \in Req, HasNew(q), req[q].new = t
  PROVE  t \notin spent /\ \A p \in Req : ~Using(p, t)
  BY DEF IInv, NewIsFresh, Void, Using, HasOld, At

\* What a step may leave as it was.
SameUse(t) == \A p \in Req : Using(p, t)' <=> Using(p, t)
SameStatus(t) == /\ t \in spent' <=> t \in spent
                 /\ t \in registered' <=> t \in registered

LEMMA KeyKept ==
  ASSUME NEW t, ~Void(t), ~Void(t)', SameUse(t), SameStatus(t)
  PROVE  UNCHANGED Key(t)!vars
  BY DEF SameUse, SameStatus, KeyStatus, KeyHolders, Key!vars

LEMMA KeyGivenBack ==
  ASSUME NEW t, ~Void(t), ~Void(t)', SameStatus(t), \A p \in Req : ~Using(p, t)'
  PROVE  Key(t)!Next
<1>1. KeyStatus(t)' = KeyStatus(t) /\ KeyHolders(t)' = {}
  BY DEF SameStatus, KeyStatus, KeyHolders
<1> QED
  BY <1>1 DEF Key!Next, Key!GiveBack

\* The request that deletes the key of a token it used is done with it.
LEMMA KeyUsedUp ==
  ASSUME IInv, UsedLives, NEW t \in Token, ~Void(t), ~Void(t)', t \in spent',
         NEW q \in Req, Using(q, t), \A p \in Req : Using(p, t)' => p # q /\ Using(p, t)
  PROVE  Key(t)!Next
<1>1. KeyStatus(t) = "good" /\ KeyHolders(t) = {q}
  BY UserAlone
<1>2. KeyStatus(t)' = "spent"
  BY DEF KeyStatus
<1>3. KeyHolders(t)' = {}
  BY <1>1 DEF KeyHolders
<1> QED
  BY <1>1, <1>2, <1>3 DEF Key!Next, Key!Use

LEMMA KeyNext ==
  ASSUME IInv, UsedLives, [Next]_vars, NEW t \in Token
  PROVE  UNCHANGED Key(t)!vars \/ Key(t)!Next
<1> DEFINE Goal == UNCHANGED Key(t)!vars \/ Key(t)!Next
<1>0. CASE Void(t)'
  <2>1. KeyStatus(t)' = "void" /\ KeyHolders(t)' = {}
    BY <1>0 DEF KeyStatus, KeyHolders
  <2> QED
    BY <2>1 DEF Key!Next, Key!Void
<1> SUFFICES ASSUME ~Void(t)' PROVE Goal
  BY <1>0
<1>a. Uses /\ Keeps /\ TypeOK
  BY UsesStep, KeepsStep DEF IInv
<1>b. ~Void(t)
  BY <1>a DEF Uses, Void
<1>1. CASE Tick \/ Save \/ UNCHANGED vars
  <2>1. SameUse(t) /\ SameStatus(t)
    BY <1>1 DEF SameUse, SameStatus, Using, At, Tick, Save, vars, history
  <2> QED
    BY <1>b, <2>1, KeyKept
<1>2. ASSUME NEW k \in Client,
             \/ HandleLogout(k) \/ FinishSignup(k) \/ ValidateOtp(k)
             \/ \E u \in User : GoogleLogin(k, u)
      PROVE  Goal
  <2>1. SameUse(t) /\ SameStatus(t)
    BY <1>2 DEF SameUse, SameStatus, Using, At, HandleLogout, FinishSignup, ValidateOtp,
                GoogleLogin, history
  <2> QED
    BY <1>b, <2>1, KeyKept
<1>3. ASSUME NEW q \in Req,
             \/ \E k \in Client : HandleRefresh(q, k) \/ \E u \in User : HandleLogin(q, k, u)
             \/ SignNext(q) \/ Answer(q) \/ Refuse(q) \/ AnswerLost(q)
      PROVE  Goal
  <2>1. SameStatus(t)
    BY <1>3 DEF SameStatus, HandleRefresh, HandleLogin, SignNext, Answer, Refuse, AnswerLost,
                history
  <2>2. SameUse(t)
    BY <1>3, <1>a DEF SameUse, Using, At, HandleRefresh, HandleLogin, SignNext, Answer, Refuse,
                AnswerLost, Finish, TypeOK, Login, Refresh, Idle
  <2> QED
    BY <1>b, <2>1, <2>2, KeyKept
<1>4. ASSUME NEW q \in Req, GetKey(q) PROVE Goal
  <2>1. SameStatus(t)
    BY <1>4 DEF SameStatus, GetKey
  <2>2. CASE req[q].old = t /\ HasKey(t)
    <3>1. /\ \A p \in Req \ {q} : ~Using(p, t)
          /\ t \in registered
      BY <1>4, <2>2 DEF GetKey, HasKey, Void
    <3>2. t \notin spent
      BY <1>b, <3>1 DEF IInv, SpentIsGone, Void
    <3>3. Using(q, t)' /\ \A p \in Req \ {q} : ~Using(p, t)'
      BY <1>4, <1>a, <2>2, <3>1 DEF GetKey, Using, At, TypeOK, Login, Refresh, Idle
    <3>4. ~Using(q, t)
      BY <1>4 DEF GetKey, Using, At
    <3>5. KeyStatus(t) = "good" /\ KeyHolders(t) = {}
      BY <1>b, <3>1, <3>2, <3>4 DEF KeyStatus, KeyHolders
    <3>6. KeyStatus(t)' = "good" /\ KeyHolders(t)' = {q}
      BY <2>1, <3>1, <3>2, <3>3 DEF KeyStatus, KeyHolders, SameStatus
    <3> QED
      BY <3>5, <3>6 DEF Key!Next, Key!Take
  <2>3. CASE ~(req[q].old = t /\ HasKey(t))
    <3>1. SameUse(t)
      BY <1>4, <1>a, <2>3 DEF GetKey, SameUse, Using, At, TypeOK, Login, Refresh, Idle
    <3> QED
      BY <1>b, <2>1, <3>1, KeyKept
  <2> QED
    BY <2>2, <2>3
<1>5. ASSUME NEW q \in Req, Register(q) PROVE Goal
  <2>1. SameUse(t)
    BY <1>5, <1>a DEF Register, SetKey, SameUse, Using, At, TypeOK, Login, Refresh, Idle
  <2>2. spent' = spent /\ registered' = registered \cup {req[q].new}
    BY <1>5 DEF Register, SetKey, history
  <2>3. CASE req[q].new = t
    <3>1. HasNew(q)
      BY <1>5 DEF Register, HasNew
    <3>2. t \notin spent /\ \A p \in Req : ~Using(p, t)
      BY <1>b, <2>3, <3>1, NewUnused
    <3>3. /\ KeyStatus(t) \in {"new", "good"} /\ KeyHolders(t) = {}
          /\ KeyStatus(t)' = "good" /\ KeyHolders(t)' = {}
      BY <1>b, <2>1, <2>2, <2>3, <3>2 DEF KeyStatus, KeyHolders, SameUse
    <3> QED
      BY <3>3 DEF Key!Next, Key!Issue, Key!vars
  <2>4. CASE req[q].new # t
    <3>1. SameStatus(t)
      BY <2>2, <2>4 DEF SameStatus
    <3> QED
      BY <1>b, <2>1, <3>1, KeyKept
  <2> QED
    BY <2>3, <2>4
<1>6. ASSUME NEW q \in Req, Rotate(q) PROVE Goal
  <2>1. \A p \in Req : Using(p, t)' => p # q /\ Using(p, t)
    BY <1>6, <1>a DEF Rotate, Using, At, TypeOK, Login, Refresh, Idle
  <2>2. \A p \in Req \ {q} : Using(p, t) => Using(p, t)'
    BY <1>6, <1>a DEF Rotate, Using, At, TypeOK
  <2>3. HasNew(q) /\ Ready(q)
    BY <1>6 DEF Rotate, HasNew, Ready
  <2>4. /\ registered' = (registered \ {req[q].old}) \cup {req[q].new}
        /\ spent' = IF req[q].old = req[q].new THEN spent ELSE spent \cup {req[q].old}
    BY <1>6 DEF Rotate, DeleteThenSet, NoteSpent
  <2>5. CASE req[q].new = t
    <3>1. t \notin spent /\ \A p \in Req : ~Using(p, t)
      BY <1>b, <2>3, <2>5, NewUnused
    <3>2. req[q].old # t
      BY <1>6, <3>1 DEF Rotate, Using
    <3>3. t \in registered
      BY <1>b, <2>3, <2>5, <3>1 DEF IInv, NewLives, Void
    <3>4. SameStatus(t) /\ SameUse(t)
      BY <2>1, <2>4, <2>5, <3>1, <3>2, <3>3 DEF SameStatus, SameUse
    <3> QED
      BY <1>b, <3>4, KeyKept
  <2>6. CASE req[q].new # t /\ req[q].old = t
    <3>1. Using(q, t) /\ t \in spent'
      BY <1>6, <2>4, <2>6 DEF Rotate, Using
    <3> QED
      BY <1>b, <2>1, <3>1, KeyUsedUp
  <2>7. CASE req[q].new # t /\ req[q].old # t
    <3>1. SameStatus(t) /\ SameUse(t)
      BY <2>1, <2>2, <2>4, <2>7 DEF SameStatus, SameUse, Using
    <3> QED
      BY <1>b, <3>1, KeyKept
  <2> QED
    BY <2>5, <2>6, <2>7
<1>7. ASSUME NEW q \in Req, SetFails(q) PROVE Goal
  <2>1. \A p \in Req : Using(p, t)' => p # q /\ Using(p, t)
    BY <1>7, <1>a DEF SetFails, Finish, Using, At, TypeOK
  <2>2. \A p \in Req \ {q} : Using(p, t) => Using(p, t)'
    BY <1>7, <1>a DEF SetFails, Finish, Using, At, TypeOK
  <2>3. registered' = registered \ {req[q].old} /\ spent' = spent \cup {req[q].old}
    BY <1>7 DEF SetFails
  <2>4. CASE req[q].old = t
    <3>1. Using(q, t) /\ t \in spent'
      BY <1>7, <2>3, <2>4 DEF SetFails, Using
    <3> QED
      BY <1>b, <2>1, <3>1, KeyUsedUp
  <2>5. CASE req[q].old # t
    <3>1. SameStatus(t) /\ SameUse(t)
      BY <2>1, <2>2, <2>3, <2>5 DEF SameStatus, SameUse, Using
    <3> QED
      BY <1>b, <3>1, KeyKept
  <2> QED
    BY <2>4, <2>5
<1>8. ASSUME NEW q \in Req, RequestFails(q) PROVE Goal
  <2>1. SameStatus(t)
    BY <1>8 DEF RequestFails, SameStatus, history
  <2>2. /\ \A p \in Req \ {q} : Using(p, t)' <=> Using(p, t)
        /\ ~Using(q, t)'
    BY <1>8, <1>a DEF RequestFails, Finish, Using, At, TypeOK
  <2>3. CASE Using(q, t)
    <3>1. KeyHolders(t) = {q}
      BY <1>b, <2>3, UserAlone
    <3>2. \A p \in Req : ~Using(p, t)'
      BY <1>b, <2>2, <3>1 DEF KeyHolders
    <3> QED
      BY <1>b, <2>1, <3>2, KeyGivenBack
  <2>4. CASE ~Using(q, t)
    <3>1. SameUse(t)
      BY <2>2, <2>4 DEF SameUse
    <3> QED
      BY <1>b, <2>1, <3>1, KeyKept
  <2> QED
    BY <2>3, <2>4
<1>9. CASE Crash
  <2>1. SameStatus(t) /\ \A p \in Req : ~Using(p, t)'
    BY <1>9 DEF Crash, SameStatus, Using, At
  <2> QED
    BY <1>b, <2>1, KeyGivenBack
<1>10. CASE RedisRestart \/ \E x \in registered : Evict(x)
  <2>1. SameUse(t) /\ SameStatus(t)
    BY <1>10 DEF SameUse, SameStatus, Using, At, RedisRestart, Evict, Void
  <2> QED
    BY <1>b, <2>1, KeyKept
<1> QED
  BY <1>1, <1>2, <1>3, <1>4, <1>5, <1>6, <1>7, <1>8, <1>9, <1>10 DEF Next

\* Every refresh token is a key that one refresh at a time finds and that is
\* exchanged once, but for overlaps and failures of Redis, for any number of
\* browsers, requests and seconds.
THEOREM TokensAreOneTimeKeys == Spec => ImplementsOneTimeKey
<1>1. Init => UsedLives /\ \A t \in Token : Key(t)!Init
  BY DEF Init, UsedLives, Key!Init, KeyStatus, KeyHolders, Void, Using, At
<1>2. IInv /\ UsedLives /\ [Next]_vars =>
          [\A t \in Token : UNCHANGED Key(t)!vars \/ Key(t)!Next]_vars
  BY KeyNext
<1> QED
  BY <1>1, <1>2, IInvCorrect, UsedLivesNext, PTL DEF Spec, ImplementsOneTimeKey
=============================================================================
