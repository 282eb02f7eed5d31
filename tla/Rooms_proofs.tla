---------------------------- MODULE Rooms_proofs ----------------------------
(***************************************************************************)
(* What profile updates, uploads and rooms guarantee for every number of   *)
(* users, emails, files, rooms and concurrent requests.                    *)
(***************************************************************************)
EXTENDS Rooms, TLAPS

Request == UpdateReq \cup UploadReq \cup CreateReq \cup OpenReq \cup ListReq
               \cup PosterReq \cup {Idle}

\* The kinds of records a request can be, by stage.
LEMMA Kinds ==
  ASSUME TypeOK, NEW q \in Req
  PROVE  /\ \A op : At(q, op, "guard") =>
               /\ req[q].by \in User \cup {None}
               /\ op = "update" => req[q].patch \in Patch
         /\ At(q, "update", "write") =>
               /\ req[q].by \in User \cup {None}
               /\ req[q].patch \in Patch /\ req[q].email \in Email
         /\ \A op \in {"upload", "poster"} : \A pc \in {"store", "write", "answer"} :
               At(q, op, pc) => /\ req[q].by \in User
                                /\ pc # "store" => req[q].photo \in Photo
         /\ \A pc \in {"insert", "answer"} :
               At(q, "create", pc) => req[q].by \in User /\ req[q].room \in Room
         /\ \A op \in {"find", "join"} : \A pc : At(q, op, pc) =>
               /\ req[q].room \in Room /\ req[q].known \in BOOLEAN
               /\ pc # "guard" => req[q].by \in User
         /\ \A pc \in {"find", "answer"} :
               At(q, "list", pc) => /\ req[q].by \in User
                                    /\ pc = "answer" => req[q].rooms \subseteq Room
  BY DEF TypeOK, At, UpdateReq, UploadReq, CreateReq, OpenReq, ListReq, PosterReq, Idle

\* A request that becomes another request leaves the types alone.
LEMMA Becomes ==
  ASSUME TypeOK, NEW q \in Req, NEW r \in Request, Become(q, r)
  PROVE  req' \in [Req -> Request]
  BY DEF TypeOK, Become, Request

LEMMA Guards ==
  ASSUME TypeOK, NEW q \in Req, NEW r, Authenticated(q) => r \in Request, Guard(q, r)
  PROVE  req' \in [Req -> Request]
  BY Becomes DEF Guard, Request


\* Only a profile update and an upload write an account.
LEMMA Writers ==
  ASSUME [Next]_vars
  PROVE  account' = account \/ \E q \in Req : WriteUpdate(q) \/ WritePhoto(q)
<1>1. ASSUME NEW q \in Req, ProfileNext(q)
      PROVE  account' = account \/ WriteUpdate(q) \/ WritePhoto(q)
  BY <1>1 DEF ProfileNext, profileVars, HandleUpdate, GuardUpdate, HandleReset,
              HandleUpload, GuardUpload, StoreFile, AnswerUpload, RequestFails
<1>2. ASSUME NEW q \in Req, RoomsNext(q) PROVE account' = account
  <2>1. ASSUME NEW u \in User \cup {None},
               HandleCreate(q, u) \/ HandleList(q, u) \/ HandlePoster(q, u)
        PROVE  account' = account
    BY <2>1 DEF HandleCreate, HandleList, HandlePoster, profileVars
  <2>2. ASSUME NEW op \in {"find", "join"}, NEW u \in User \cup {None}, NEW r \in Room,
               HandleOpen(q, op, u, r)
        PROVE  account' = account
    BY <2>2 DEF HandleOpen, profileVars
  <2>3. ASSUME NEW r \in Room, DrawInvite(q, r) PROVE account' = account
    BY <2>3 DEF DrawInvite, profileVars
  <2>4. ASSUME NEW f \in Photo, StorePoster(q, f) PROVE account' = account
    BY <2>4 DEF StorePoster
  <2> QED
    BY <1>2, <2>1, <2>2, <2>3, <2>4 DEF RoomsNext, InsertRoom, InsertFails, AnswerCreate,
       GuardOpen, FindByInvite, AnswerOpen, GuardList, FindByHost, AnswerList, GuardPoster,
       WritePoster, AnswerPoster, profileVars
<1> QED
  BY <1>1, <1>2 DEF Next, vars

\* An email somebody else has is refused by the database.
LEMMA EmailsStay == TypeOK /\ [Next]_vars => EmailsDiffer'
<1> SUFFICES ASSUME TypeOK, [Next]_vars PROVE EmailsDiffer'
  OBVIOUS
<1>1. CASE account' = account
  BY <1>1 DEF TypeOK, EmailsDiffer
<1>2. ASSUME NEW q \in Req, WriteUpdate(q) PROVE EmailsDiffer'
  <2>1. req[q].patch \in Patch
    BY <1>2, Kinds DEF WriteUpdate
  <2>2. \A u, v \in RowsWith(q) : u = v
    BY DEF RowsWith, TypeOK, EmailsDiffer
  <2>3. CASE Taken(req[q].patch.email, RowsWith(q))
    BY <1>2, <2>3 DEF WriteUpdate, TypeOK, EmailsDiffer
  <2>4. CASE ~Taken(req[q].patch.email, RowsWith(q))
    <3>1. \A u \in User : account'[u].email =
              IF u \in RowsWith(q) /\ req[q].patch.email # None
              THEN req[q].patch.email ELSE account[u].email
      BY <1>2, <2>4 DEF WriteUpdate, Merge
    <3> QED
      BY <2>2, <2>4, <3>1 DEF Taken, TypeOK, EmailsDiffer
  <2> QED
    BY <2>3, <2>4
<1>3. ASSUME NEW q \in Req, WritePhoto(q) PROVE EmailsDiffer'
  <2>1. \A u \in User : account'[u].email = account[u].email
    BY <1>3 DEF WritePhoto, TypeOK, Account
  <2> QED
    BY <2>1 DEF TypeOK, EmailsDiffer
<1> QED
  BY <1>1, <1>2, <1>3, Writers

LEMMA TypeInit == Init => TypeOK
  BY DEF Init, ProfileInit, TypeOK, Account

LEMMA TypeNext == TypeOK /\ [Next]_vars => TypeOK'
<1> SUFFICES ASSUME TypeOK, [Next]_vars PROVE TypeOK'
  OBVIOUS
<1>0. EmailsDiffer'
  BY EmailsStay
<1>1. ASSUME NEW q \in Req, NEW u \in User \cup {None}, NEW patch \in Sent,
             HandleUpdate(q, u, patch), UNCHANGED roomVars
      PROVE  TypeOK'
  <2>1. [op |-> "update", pc |-> "guard", by |-> u, patch |-> patch] \in Request
    BY <1>1, SentAssumption DEF HandleUpdate, Request, UpdateReq
  <2> QED
    BY <1>1, <2>1, <1>0, Becomes DEF HandleUpdate, TypeOK, Request, profileVars, roomVars
<1>2. ASSUME NEW q \in Req, GuardUpdate(q), UNCHANGED roomVars PROVE TypeOK'
  <2>1. ASSUME NEW e \in CallerEmail(q)
        PROVE  [op |-> "update", pc |-> "write", by |-> req[q].by,
                patch |-> req[q].patch, email |-> e] \in Request
    BY <1>2, Kinds DEF GuardUpdate, CallerEmail, TypeOK, Account, Request, UpdateReq
  <2> QED
    BY <1>2, <2>1, <1>0, Becomes DEF GuardUpdate, TypeOK, Request, profileVars, roomVars
<1>3. ASSUME NEW q \in Req, NEW e \in Email, NEW d \in Data, HandleReset(q, e, d),
             UNCHANGED roomVars
      PROVE  TypeOK'
  <2>1. Owner(e) \in User \cup {None}
    BY DEF Owner
  <2>2. [op |-> "update", pc |-> "write", by |-> Owner(e), email |-> e,
         patch |-> [email |-> None, data |-> d, photo |-> None]] \in Request
    BY <2>1 DEF Request, UpdateReq, Patch
  <2> QED
    BY <1>3, <2>2, <1>0, Becomes DEF HandleReset, TypeOK, Request, profileVars, roomVars
<1>4. ASSUME NEW q \in Req, WriteUpdate(q), UNCHANGED roomVars PROVE TypeOK'
  <2>1. req[q].patch \in Patch
    BY <1>4, Kinds DEF WriteUpdate
  <2>2. ASSUME NEW u \in User PROVE Merge(account[u], req[q].patch) \in Account
    BY <2>1 DEF Merge, TypeOK, Account, Patch
  <2>3. account' \in [User -> Account]
    BY <1>4, <2>2 DEF WriteUpdate, TypeOK
  <2> QED
    BY <1>4, <2>3, <1>0, Becomes DEF WriteUpdate, TypeOK, Request, roomVars
<1>5. ASSUME NEW q \in Req, NEW u \in User \cup {None}, HandleUpload(q, u),
             UNCHANGED roomVars
      PROVE  TypeOK'
  <2>1. [op |-> "upload", pc |-> "guard", by |-> u] \in Request
    BY <1>5 DEF HandleUpload, Request, UploadReq
  <2> QED
    BY <1>5, <2>1, <1>0, Becomes DEF HandleUpload, TypeOK, Request, profileVars, roomVars
<1>6. ASSUME NEW q \in Req, GuardUpload(q), UNCHANGED roomVars PROVE TypeOK'
  <2>1. Authenticated(q) => [op |-> "upload", pc |-> "store", by |-> req[q].by] \in Request
    BY <1>6, Kinds DEF GuardUpload, Authenticated, Request, UploadReq
  <2> QED
    BY <1>6, <2>1, <1>0, Guards DEF GuardUpload, TypeOK, Request, profileVars, roomVars
<1>7. ASSUME NEW q \in Req, NEW f \in Photo, StoreFile(q, f), UNCHANGED roomVars
      PROVE  TypeOK'
  <2>1. [op |-> "upload", pc |-> "write", by |-> req[q].by, photo |-> f] \in Request
    BY <1>7, Kinds DEF StoreFile, Request, UploadReq
  <2> QED
    BY <1>7, <2>1, <1>0, Becomes DEF StoreFile, TypeOK, Request, profileVars, roomVars
<1>8. ASSUME NEW q \in Req, WritePhoto(q), UNCHANGED roomVars PROVE TypeOK'
  <2>1. req[q] \in [op : {"upload"}, pc : {"write", "answer"}, by : User, photo : Photo]
    BY <1>8 DEF WritePhoto, At, TypeOK, UpdateReq, UploadReq, CreateReq, OpenReq, ListReq,
             PosterReq, Idle
  <2>2. [req[q] EXCEPT !.pc = "answer"] \in Request
    BY <2>1 DEF Request, UploadReq
  <2>3. account' \in [User -> Account]
    BY <1>8, <2>1 DEF WritePhoto, TypeOK, Account
  <2> QED
    BY <1>8, <2>2, <2>3, <1>0, Becomes DEF WritePhoto, TypeOK, Request, roomVars
<1>9. ASSUME NEW q \in Req, AnswerUpload(q), UNCHANGED roomVars PROVE TypeOK'
  <2>1. Idle \in Request
    BY DEF Request
  <2> QED
    BY <1>9, <2>1, <1>0, Kinds, Becomes DEF AnswerUpload, TypeOK, Request, profileVars,
       roomVars
<1>10. ASSUME NEW q \in Req, RequestFails(q), UNCHANGED roomVars PROVE TypeOK'
  <2>1. Idle \in Request
    BY DEF Request
  <2> QED
    BY <1>10, <2>1, <1>0, Kinds, Becomes DEF RequestFails, TypeOK, Request, profileVars,
       roomVars
<1>11. ASSUME NEW q \in Req, NEW u \in User \cup {None}, HandleCreate(q, u)
      PROVE  TypeOK'
  <2>1. [op |-> "create", pc |-> "guard", by |-> u] \in Request
    BY <1>11 DEF HandleCreate, Request, CreateReq
  <2> QED
    BY <1>11, <2>1, <1>0, Becomes DEF HandleCreate, TypeOK, Request, profileVars, roomVars
<1>12. ASSUME NEW q \in Req, NEW r \in Room, DrawInvite(q, r) PROVE TypeOK'
  <2>1. Authenticated(q) => [op |-> "create", pc |-> "insert", by |-> req[q].by,
                            room |-> r] \in Request
    BY <1>12, Kinds DEF DrawInvite, Authenticated, Request, CreateReq
  <2> QED
    BY <1>12, <2>1, <1>0, Guards DEF DrawInvite, TypeOK, Request, profileVars, roomVars
<1>13. ASSUME NEW q \in Req, InsertRoom(q) PROVE TypeOK'
  <2>1. req[q] \in [op : {"create"}, pc : {"insert", "answer"}, by : User, room : Room]
    BY <1>13 DEF InsertRoom, At, TypeOK, UpdateReq, UploadReq, CreateReq, OpenReq, ListReq,
             PosterReq, Idle
  <2>2. [req[q] EXCEPT !.pc = "answer"] \in Request
    BY <2>1 DEF Request, CreateReq
  <2>3. room' \in [Room -> Row \cup {NoRoom}]
    BY <1>13, <2>1 DEF InsertRoom, TypeOK, Row
  <2> QED
    BY <1>13, <2>2, <2>3, <1>0, Becomes DEF InsertRoom, TypeOK, Request, profileVars
<1>14. ASSUME NEW q \in Req, InsertFails(q) PROVE TypeOK'
  <2>1. Idle \in Request
    BY DEF Request
  <2> QED
    BY <1>14, <2>1, <1>0, Kinds, Becomes DEF InsertFails, Rethrow, TypeOK, Request,
       profileVars, roomVars
<1>15. ASSUME NEW q \in Req, AnswerCreate(q) PROVE TypeOK'
  <2>1. Idle \in Request
    BY DEF Request
  <2> QED
    BY <1>15, <2>1, <1>0, Kinds, Becomes DEF AnswerCreate, TypeOK, Request, profileVars,
       roomVars
<1>16. ASSUME NEW q \in Req, NEW op \in {"find", "join"}, NEW u \in User \cup {None},
              NEW r \in Room, HandleOpen(q, op, u, r)
      PROVE  TypeOK'
  <2>1. [op |-> op, pc |-> "guard", by |-> u, room |-> r,
      known |-> r \in shared] \in Request
    BY <1>16 DEF HandleOpen, Request, OpenReq
  <2> QED
    BY <1>16, <2>1, <1>0, Becomes DEF HandleOpen, TypeOK, Request, profileVars, roomVars
<1>17. ASSUME NEW q \in Req, GuardOpen(q) PROVE TypeOK'
  <2>1. req[q] \in [op : {"find", "join"}, pc : {"guard"}, by : User \cup {None},
                    room : Room, known : BOOLEAN]
    BY <1>17 DEF GuardOpen, At, TypeOK, UpdateReq, UploadReq, CreateReq, OpenReq, ListReq,
             PosterReq, Idle
  <2>2. Authenticated(q) => [req[q] EXCEPT !.pc = "find"] \in Request
    BY <2>1 DEF Authenticated, Request, OpenReq
  <2> QED
    BY <1>17, <2>2, <1>0, Guards DEF GuardOpen, TypeOK, Request, profileVars, roomVars
<1>18. ASSUME NEW q \in Req, FindByInvite(q) PROVE TypeOK'
  <2>1. req[q] \in [op : {"find", "join"}, pc : {"find", "answer", "refused"}, by : User,
                    room : Room, known : BOOLEAN]
    BY <1>18 DEF FindByInvite, At, TypeOK, UpdateReq, UploadReq, CreateReq, OpenReq,
       ListReq,
             PosterReq, Idle
  <2>2. \A pc \in {"answer", "refused"} : [req[q] EXCEPT !.pc = pc] \in Request
    BY <2>1 DEF Request, OpenReq
  <2> QED
    BY <1>18, <2>2, <1>0, Becomes DEF FindByInvite, TypeOK, Request, profileVars, roomVars
<1>19. ASSUME NEW q \in Req, AnswerOpen(q) PROVE TypeOK'
  <2>1. Idle \in Request
    BY DEF Request
  <2> QED
    BY <1>19, <2>1, <1>0, Kinds, Becomes DEF AnswerOpen, TypeOK, Request, profileVars,
       roomVars
<1>20. ASSUME NEW q \in Req, NEW u \in User \cup {None}, HandleList(q, u)
      PROVE  TypeOK'
  <2>1. [op |-> "list", pc |-> "guard", by |-> u] \in Request
    BY <1>20 DEF HandleList, Request, ListReq
  <2> QED
    BY <1>20, <2>1, <1>0, Becomes DEF HandleList, TypeOK, Request, profileVars, roomVars
<1>21. ASSUME NEW q \in Req, GuardList(q) PROVE TypeOK'
  <2>1. Authenticated(q) => [op |-> "list", pc |-> "find", by |-> req[q].by] \in Request
    BY <1>21, Kinds DEF GuardList, Authenticated, Request, ListReq
  <2> QED
    BY <1>21, <2>1, <1>0, Guards DEF GuardList, TypeOK, Request, profileVars, roomVars
<1>22. ASSUME NEW q \in Req, FindByHost(q) PROVE TypeOK'
  <2>1. [op |-> "list", pc |-> "answer", by |-> req[q].by,
      rooms |-> RoomsOf(req[q].by)] \in Request
    BY <1>22, Kinds DEF FindByHost, Request, ListReq, RoomsOf
  <2> QED
    BY <1>22, <2>1, <1>0, Becomes DEF FindByHost, TypeOK, Request, profileVars, roomVars
<1>23. ASSUME NEW q \in Req, AnswerList(q) PROVE TypeOK'
  <2>1. Idle \in Request
    BY DEF Request
  <2> QED
    BY <1>23, <2>1, <1>0, Kinds, Becomes DEF AnswerList, TypeOK, Request, profileVars,
       roomVars
<1>24. ASSUME NEW q \in Req, NEW u \in User \cup {None}, HandlePoster(q, u)
      PROVE  TypeOK'
  <2>1. [op |-> "poster", pc |-> "guard", by |-> u] \in Request
    BY <1>24 DEF HandlePoster, Request, PosterReq
  <2> QED
    BY <1>24, <2>1, <1>0, Becomes DEF HandlePoster, TypeOK, Request, profileVars, roomVars
<1>25. ASSUME NEW q \in Req, GuardPoster(q) PROVE TypeOK'
  <2>1. Authenticated(q) => [op |-> "poster", pc |-> "store", by |-> req[q].by] \in Request
    BY <1>25, Kinds DEF GuardPoster, Authenticated, Request, PosterReq
  <2> QED
    BY <1>25, <2>1, <1>0, Guards DEF GuardPoster, TypeOK, Request, profileVars, roomVars
<1>26. ASSUME NEW q \in Req, NEW f \in Photo, StorePoster(q, f) PROVE TypeOK'
  <2>1. [op |-> "poster", pc |-> "write", by |-> req[q].by, photo |-> f] \in Request
    BY <1>26, Kinds DEF StorePoster, Request, PosterReq
  <2> QED
    BY <1>26, <2>1, <1>0, Becomes DEF StorePoster, TypeOK, Request, profileVars, roomVars
<1>27. ASSUME NEW q \in Req, WritePoster(q) PROVE TypeOK'
  <2>1. req[q] \in [op : {"poster"}, pc : {"write", "answer"}, by : User, photo : Photo]
    BY <1>27 DEF WritePoster, At, TypeOK, UpdateReq, UploadReq, CreateReq, OpenReq, ListReq,
             PosterReq, Idle
  <2>2. [req[q] EXCEPT !.pc = "answer"] \in Request
    BY <2>1 DEF Request, PosterReq
  <2>3. RoomsById(q) = {}
    BY <2>1, RoomAssumption DEF RoomsById
  <2>4. room' \in [Room -> Row \cup {NoRoom}]
    BY <1>27, <2>3 DEF WritePoster, TypeOK
  <2> QED
    BY <1>27, <2>2, <2>4, <1>0, Becomes DEF WritePoster, TypeOK, Request, profileVars
<1>28. ASSUME NEW q \in Req, AnswerPoster(q) PROVE TypeOK'
  <2>1. Idle \in Request
    BY DEF Request
  <2> QED
    BY <1>28, <2>1, <1>0, Kinds, Becomes DEF AnswerPoster, TypeOK, Request, profileVars,
       roomVars
<1>29. CASE UNCHANGED vars
  BY <1>29 DEF vars, TypeOK, EmailsDiffer
<1> QED
  BY <1>1, <1>2, <1>3, <1>4, <1>5, <1>6, <1>7, <1>8, <1>9, <1>10, <1>11, <1>12,
     <1>13, <1>14, <1>15, <1>16, <1>17, <1>18, <1>19, <1>20, <1>21, <1>22,
     <1>23, <1>24, <1>25, <1>26, <1>27, <1>28, <1>29 DEF Next, RoomsNext,
     ProfileNext

-----------------------------------------------------------------------------
(* The email a request holds. *)

\* The email a profile update read is still that of its account, unless the
\* account is noted as changed.
EmailIsOwn ==
    \A q \in Req \ behind : At(q, "update", "write") /\ req[q].by \in User =>
        account[req[q].by].email = req[q].email

LEMMA EmailIsOwnNext == TypeOK /\ EmailIsOwn /\ [Next]_vars => EmailIsOwn'
<1> SUFFICES ASSUME TypeOK, EmailIsOwn, [Next]_vars PROVE EmailIsOwn'
  OBVIOUS
<1>1. ASSUME NEW q \in Req, NEW u \in User \cup {None}, NEW patch \in Sent,
             HandleUpdate(q, u, patch), UNCHANGED roomVars
      PROVE  EmailIsOwn'
  BY <1>1 DEF HandleUpdate, EmailIsOwn, Become, At, Idle, TypeOK, profileVars,
     roomVars
<1>2. ASSUME NEW q \in Req, GuardUpdate(q), UNCHANGED roomVars PROVE EmailIsOwn'
  <2>1. \A e \in CallerEmail(q) : req[q].by \in User => account[req[q].by].email = e
    BY DEF CallerEmail
  <2> QED
    BY <1>2, <2>1 DEF GuardUpdate, EmailIsOwn, Become, At, Idle, TypeOK, profileVars
<1>3. ASSUME NEW q \in Req, NEW e \in Email, NEW d \in Data, HandleReset(q, e, d),
             UNCHANGED roomVars
      PROVE  EmailIsOwn'
  <2>1. Owner(e) \in User => account[Owner(e)].email = e
    BY NoneAssumption DEF Owner
  <2> QED
    BY <1>3, <2>1 DEF HandleReset, EmailIsOwn, Become, At, Idle, TypeOK, profileVars
<1>4. ASSUME NEW q \in Req, WriteUpdate(q), UNCHANGED roomVars PROVE EmailIsOwn'
  BY <1>4 DEF WriteUpdate, EmailIsOwn, Become, At, Idle, TypeOK, profileVars,
     roomVars
<1>5. ASSUME NEW q \in Req, NEW u \in User \cup {None}, HandleUpload(q, u),
             UNCHANGED roomVars
      PROVE  EmailIsOwn'
  BY <1>5 DEF HandleUpload, EmailIsOwn, Become, At, Idle, TypeOK, profileVars,
     roomVars
<1>6. ASSUME NEW q \in Req, GuardUpload(q), UNCHANGED roomVars PROVE EmailIsOwn'
  BY <1>6 DEF GuardUpload, Guard, EmailIsOwn, Become, At, Idle, TypeOK, profileVars,
     roomVars
<1>7. ASSUME NEW q \in Req, NEW f \in Photo, StoreFile(q, f), UNCHANGED roomVars
      PROVE  EmailIsOwn'
  BY <1>7 DEF StoreFile, FreshName, EmailIsOwn, Become, At, Idle, TypeOK,
     profileVars, roomVars
<1>8. ASSUME NEW q \in Req, WritePhoto(q), UNCHANGED roomVars PROVE EmailIsOwn'
  <2>1. \A u \in User : account'[u].email = account[u].email
    BY <1>8 DEF WritePhoto, TypeOK, Account
  <2> QED
    BY <1>8, <2>1 DEF WritePhoto, EmailIsOwn, Become, At, Idle, TypeOK
<1>9. ASSUME NEW q \in Req, AnswerUpload(q), UNCHANGED roomVars PROVE EmailIsOwn'
  BY <1>9 DEF AnswerUpload, EmailIsOwn, Become, At, Idle, TypeOK, profileVars,
     roomVars
<1>10. ASSUME NEW q \in Req, RequestFails(q), UNCHANGED roomVars PROVE EmailIsOwn'
  BY <1>10 DEF RequestFails, EmailIsOwn, Become, At, Idle, TypeOK, profileVars,
     roomVars
<1>11. ASSUME NEW q \in Req, NEW u \in User \cup {None}, HandleCreate(q, u)
      PROVE  EmailIsOwn'
  BY <1>11 DEF HandleCreate, EmailIsOwn, Become, At, Idle, TypeOK, profileVars,
     roomVars
<1>12. ASSUME NEW q \in Req, NEW r \in Room, DrawInvite(q, r) PROVE EmailIsOwn'
  BY <1>12 DEF DrawInvite, Guard, EmailIsOwn, Become, At, Idle, TypeOK, profileVars,
     roomVars
<1>13. ASSUME NEW q \in Req, InsertRoom(q) PROVE EmailIsOwn'
  BY <1>13 DEF InsertRoom, EmailIsOwn, Become, At, Idle, TypeOK, profileVars, roomVars
<1>14. ASSUME NEW q \in Req, InsertFails(q) PROVE EmailIsOwn'
  BY <1>14 DEF InsertFails, Rethrow, EmailIsOwn, Become, At, Idle, TypeOK,
     profileVars, roomVars
<1>15. ASSUME NEW q \in Req, AnswerCreate(q) PROVE EmailIsOwn'
  BY <1>15 DEF AnswerCreate, EmailIsOwn, Become, At, Idle, TypeOK, profileVars,
     roomVars
<1>16. ASSUME NEW q \in Req, NEW op \in {"find", "join"}, NEW u \in User \cup {None},
              NEW r \in Room, HandleOpen(q, op, u, r)
      PROVE  EmailIsOwn'
  BY <1>16 DEF HandleOpen, EmailIsOwn, Become, At, Idle, TypeOK, profileVars, roomVars
<1>17. ASSUME NEW q \in Req, GuardOpen(q) PROVE EmailIsOwn'
  BY <1>17 DEF GuardOpen, Guard, EmailIsOwn, Become, At, Idle, TypeOK, profileVars,
     roomVars
<1>18. ASSUME NEW q \in Req, FindByInvite(q) PROVE EmailIsOwn'
  BY <1>18 DEF FindByInvite, EmailIsOwn, Become, At, Idle, TypeOK, profileVars,
     roomVars
<1>19. ASSUME NEW q \in Req, AnswerOpen(q) PROVE EmailIsOwn'
  BY <1>19 DEF AnswerOpen, EmailIsOwn, Become, At, Idle, TypeOK, profileVars, roomVars
<1>20. ASSUME NEW q \in Req, NEW u \in User \cup {None}, HandleList(q, u)
      PROVE  EmailIsOwn'
  BY <1>20 DEF HandleList, EmailIsOwn, Become, At, Idle, TypeOK, profileVars, roomVars
<1>21. ASSUME NEW q \in Req, GuardList(q) PROVE EmailIsOwn'
  BY <1>21 DEF GuardList, Guard, EmailIsOwn, Become, At, Idle, TypeOK, profileVars,
     roomVars
<1>22. ASSUME NEW q \in Req, FindByHost(q) PROVE EmailIsOwn'
  BY <1>22 DEF FindByHost, RoomsOf, EmailIsOwn, Become, At, Idle, TypeOK, profileVars,
     roomVars
<1>23. ASSUME NEW q \in Req, AnswerList(q) PROVE EmailIsOwn'
  BY <1>23 DEF AnswerList, EmailIsOwn, Become, At, Idle, TypeOK, profileVars, roomVars
<1>24. ASSUME NEW q \in Req, NEW u \in User \cup {None}, HandlePoster(q, u)
      PROVE  EmailIsOwn'
  BY <1>24 DEF HandlePoster, EmailIsOwn, Become, At, Idle, TypeOK, profileVars,
     roomVars
<1>25. ASSUME NEW q \in Req, GuardPoster(q) PROVE EmailIsOwn'
  BY <1>25 DEF GuardPoster, Guard, EmailIsOwn, Become, At, Idle, TypeOK, profileVars,
     roomVars
<1>26. ASSUME NEW q \in Req, NEW f \in Photo, StorePoster(q, f) PROVE EmailIsOwn'
  BY <1>26 DEF StorePoster, FreshName, EmailIsOwn, Become, At, Idle, TypeOK,
     profileVars, roomVars
<1>27. ASSUME NEW q \in Req, WritePoster(q) PROVE EmailIsOwn'
  BY <1>27 DEF WritePoster, EmailIsOwn, Become, At, Idle, TypeOK, profileVars,
     roomVars
<1>28. ASSUME NEW q \in Req, AnswerPoster(q) PROVE EmailIsOwn'
  BY <1>28 DEF AnswerPoster, EmailIsOwn, Become, At, Idle, TypeOK, profileVars,
     roomVars
<1>29. CASE UNCHANGED vars
  BY <1>29 DEF vars, EmailIsOwn, At, Idle
<1> QED
  BY <1>1, <1>2, <1>3, <1>4, <1>5, <1>6, <1>7, <1>8, <1>9, <1>10, <1>11, <1>12,
     <1>13, <1>14, <1>15, <1>16, <1>17, <1>18, <1>19, <1>20, <1>21, <1>22,
     <1>23, <1>24, <1>25, <1>26, <1>27, <1>28, <1>29 DEF Next, RoomsNext,
     ProfileNext

-----------------------------------------------------------------------------
(* The file a request holds. *)

Holds(q) == \E op \in {"upload", "poster"}, pc \in {"write", "answer"} : At(q, op, pc)

\* A file that is stored and not yet answered belongs to one request.
FilesDiffer ==
    /\ answered \subseteq asset
    /\ \A q \in Req : Holds(q) => req[q].photo \in asset \ answered
    /\ \A p, q \in Req : Holds(p) /\ Holds(q) /\ req[p].photo = req[q].photo => p = q

LEMMA FilesDifferNext == TypeOK /\ FilesDiffer /\ [Next]_vars => FilesDiffer'
<1> SUFFICES ASSUME TypeOK, FilesDiffer, [Next]_vars PROVE FilesDiffer'
  OBVIOUS
<1>1. ASSUME NEW q \in Req, NEW u \in User \cup {None}, NEW patch \in Sent,
             HandleUpdate(q, u, patch), UNCHANGED roomVars
      PROVE  FilesDiffer'
  BY <1>1 DEF HandleUpdate, FilesDiffer, Holds, Become, At, Idle, TypeOK,
     profileVars, roomVars
<1>2. ASSUME NEW q \in Req, GuardUpdate(q), UNCHANGED roomVars PROVE FilesDiffer'
  BY <1>2 DEF GuardUpdate, Guard, FilesDiffer, Holds, Become, At, Idle, TypeOK,
     profileVars, roomVars
<1>3. ASSUME NEW q \in Req, NEW e \in Email, NEW d \in Data, HandleReset(q, e, d),
             UNCHANGED roomVars
      PROVE  FilesDiffer'
  BY <1>3 DEF HandleReset, FilesDiffer, Holds, Become, At, Idle, TypeOK, profileVars,
     roomVars
<1>4. ASSUME NEW q \in Req, WriteUpdate(q), UNCHANGED roomVars PROVE FilesDiffer'
  BY <1>4 DEF WriteUpdate, FilesDiffer, Holds, Become, At, Idle, TypeOK, profileVars,
     roomVars
<1>5. ASSUME NEW q \in Req, NEW u \in User \cup {None}, HandleUpload(q, u),
             UNCHANGED roomVars
      PROVE  FilesDiffer'
  BY <1>5 DEF HandleUpload, FilesDiffer, Holds, Become, At, Idle, TypeOK,
     profileVars, roomVars
<1>6. ASSUME NEW q \in Req, GuardUpload(q), UNCHANGED roomVars PROVE FilesDiffer'
  BY <1>6 DEF GuardUpload, Guard, FilesDiffer, Holds, Become, At, Idle, TypeOK,
     profileVars, roomVars
<1>7. ASSUME NEW q \in Req, NEW f \in Photo, StoreFile(q, f), UNCHANGED roomVars
      PROVE  FilesDiffer'
  BY <1>7 DEF StoreFile, FreshName, FilesDiffer, Holds, Become, At, Idle, TypeOK,
     profileVars, roomVars
<1>8. ASSUME NEW q \in Req, WritePhoto(q), UNCHANGED roomVars PROVE FilesDiffer'
  BY <1>8 DEF WritePhoto, FilesDiffer, Holds, Become, At, Idle, TypeOK, profileVars,
     roomVars
<1>9. ASSUME NEW q \in Req, AnswerUpload(q), UNCHANGED roomVars PROVE FilesDiffer'
  BY <1>9 DEF AnswerUpload, FilesDiffer, Holds, Become, At, Idle, TypeOK,
     profileVars, roomVars
<1>10. ASSUME NEW q \in Req, RequestFails(q), UNCHANGED roomVars PROVE FilesDiffer'
  BY <1>10 DEF RequestFails, FilesDiffer, Holds, Become, At, Idle, TypeOK,
     profileVars, roomVars
<1>11. ASSUME NEW q \in Req, NEW u \in User \cup {None}, HandleCreate(q, u)
      PROVE  FilesDiffer'
  BY <1>11 DEF HandleCreate, FilesDiffer, Holds, Become, At, Idle, TypeOK,
     profileVars, roomVars
<1>12. ASSUME NEW q \in Req, NEW r \in Room, DrawInvite(q, r) PROVE FilesDiffer'
  BY <1>12 DEF DrawInvite, Guard, FilesDiffer, Holds, Become, At, Idle, TypeOK,
     profileVars, roomVars
<1>13. ASSUME NEW q \in Req, InsertRoom(q) PROVE FilesDiffer'
  BY <1>13 DEF InsertRoom, FilesDiffer, Holds, Become, At, Idle, TypeOK, profileVars,
     roomVars
<1>14. ASSUME NEW q \in Req, InsertFails(q) PROVE FilesDiffer'
  BY <1>14 DEF InsertFails, Rethrow, FilesDiffer, Holds, Become, At, Idle, TypeOK,
     profileVars, roomVars
<1>15. ASSUME NEW q \in Req, AnswerCreate(q) PROVE FilesDiffer'
  BY <1>15 DEF AnswerCreate, FilesDiffer, Holds, Become, At, Idle, TypeOK,
     profileVars, roomVars
<1>16. ASSUME NEW q \in Req, NEW op \in {"find", "join"}, NEW u \in User \cup {None},
              NEW r \in Room, HandleOpen(q, op, u, r)
      PROVE  FilesDiffer'
  BY <1>16 DEF HandleOpen, FilesDiffer, Holds, Become, At, Idle, TypeOK, profileVars,
     roomVars
<1>17. ASSUME NEW q \in Req, GuardOpen(q) PROVE FilesDiffer'
  BY <1>17 DEF GuardOpen, Guard, FilesDiffer, Holds, Become, At, Idle, TypeOK,
     profileVars, roomVars
<1>18. ASSUME NEW q \in Req, FindByInvite(q) PROVE FilesDiffer'
  BY <1>18 DEF FindByInvite, FilesDiffer, Holds, Become, At, Idle, TypeOK,
     profileVars, roomVars
<1>19. ASSUME NEW q \in Req, AnswerOpen(q) PROVE FilesDiffer'
  BY <1>19 DEF AnswerOpen, FilesDiffer, Holds, Become, At, Idle, TypeOK, profileVars,
     roomVars
<1>20. ASSUME NEW q \in Req, NEW u \in User \cup {None}, HandleList(q, u)
      PROVE  FilesDiffer'
  BY <1>20 DEF HandleList, FilesDiffer, Holds, Become, At, Idle, TypeOK, profileVars,
     roomVars
<1>21. ASSUME NEW q \in Req, GuardList(q) PROVE FilesDiffer'
  BY <1>21 DEF GuardList, Guard, FilesDiffer, Holds, Become, At, Idle, TypeOK,
     profileVars, roomVars
<1>22. ASSUME NEW q \in Req, FindByHost(q) PROVE FilesDiffer'
  BY <1>22 DEF FindByHost, RoomsOf, FilesDiffer, Holds, Become, At, Idle, TypeOK,
     profileVars, roomVars
<1>23. ASSUME NEW q \in Req, AnswerList(q) PROVE FilesDiffer'
  BY <1>23 DEF AnswerList, FilesDiffer, Holds, Become, At, Idle, TypeOK, profileVars,
     roomVars
<1>24. ASSUME NEW q \in Req, NEW u \in User \cup {None}, HandlePoster(q, u)
      PROVE  FilesDiffer'
  BY <1>24 DEF HandlePoster, FilesDiffer, Holds, Become, At, Idle, TypeOK,
     profileVars, roomVars
<1>25. ASSUME NEW q \in Req, GuardPoster(q) PROVE FilesDiffer'
  BY <1>25 DEF GuardPoster, Guard, FilesDiffer, Holds, Become, At, Idle, TypeOK,
     profileVars, roomVars
<1>26. ASSUME NEW q \in Req, NEW f \in Photo, StorePoster(q, f) PROVE FilesDiffer'
  BY <1>26 DEF StorePoster, FreshName, FilesDiffer, Holds, Become, At, Idle, TypeOK,
     profileVars, roomVars
<1>27. ASSUME NEW q \in Req, WritePoster(q) PROVE FilesDiffer'
  BY <1>27 DEF WritePoster, FilesDiffer, Holds, Become, At, Idle, TypeOK, profileVars,
     roomVars
<1>28. ASSUME NEW q \in Req, AnswerPoster(q) PROVE FilesDiffer'
  BY <1>28 DEF AnswerPoster, FilesDiffer, Holds, Become, At, Idle, TypeOK,
     profileVars, roomVars
<1>29. CASE UNCHANGED vars
  BY <1>29 DEF vars, FilesDiffer, Holds, At, Idle
<1> QED
  BY <1>1, <1>2, <1>3, <1>4, <1>5, <1>6, <1>7, <1>8, <1>9, <1>10, <1>11, <1>12,
     <1>13, <1>14, <1>15, <1>16, <1>17, <1>18, <1>19, <1>20, <1>21, <1>22,
     <1>23, <1>24, <1>25, <1>26, <1>27, <1>28, <1>29 DEF Next, RoomsNext,
     ProfileNext

-----------------------------------------------------------------------------
(* The room a request holds. *)

\* A room a client was told of is in the table, and a uuid that was drawn for a
\* room is inserted once.
Placed ==
    /\ \A r \in Room : Exists(r) => r \in drawn
    /\ \A r \in shared : Exists(r)
    /\ \A q \in Req : At(q, "create", "insert") =>
          /\ req[q].room \in drawn /\ ~Exists(req[q].room)
          /\ \A p \in Req : At(p, "create", "insert") /\ req[p].room = req[q].room => p = q
    /\ \A q \in Req : At(q, "create", "answer") => Exists(req[q].room)
    /\ \A q \in Req : At(q, "list", "answer") => \A r \in req[q].rooms : Exists(r)
    /\ \A op \in {"find", "join"} : \A pc : \A q \in Req :
          At(q, op, pc) /\ req[q].known => Exists(req[q].room)

LEMMA PlacedNext == TypeOK /\ Placed /\ [Next]_vars => Placed'
<1> SUFFICES ASSUME TypeOK, Placed, [Next]_vars PROVE Placed'
  OBVIOUS
<1>1. ASSUME NEW q \in Req, NEW u \in User \cup {None}, NEW patch \in Sent,
             HandleUpdate(q, u, patch), UNCHANGED roomVars
      PROVE  Placed'
  BY <1>1 DEF HandleUpdate, Placed, Exists, Become, At, Idle, TypeOK, profileVars,
     roomVars
<1>2. ASSUME NEW q \in Req, GuardUpdate(q), UNCHANGED roomVars PROVE Placed'
  BY <1>2 DEF GuardUpdate, Guard, Placed, Exists, Become, At, Idle, TypeOK,
     profileVars, roomVars
<1>3. ASSUME NEW q \in Req, NEW e \in Email, NEW d \in Data, HandleReset(q, e, d),
             UNCHANGED roomVars
      PROVE  Placed'
  BY <1>3 DEF HandleReset, Placed, Exists, Become, At, Idle, TypeOK, profileVars,
     roomVars
<1>4. ASSUME NEW q \in Req, WriteUpdate(q), UNCHANGED roomVars PROVE Placed'
  BY <1>4 DEF WriteUpdate, Placed, Exists, Become, At, Idle, TypeOK, profileVars,
     roomVars
<1>5. ASSUME NEW q \in Req, NEW u \in User \cup {None}, HandleUpload(q, u),
             UNCHANGED roomVars
      PROVE  Placed'
  BY <1>5 DEF HandleUpload, Placed, Exists, Become, At, Idle, TypeOK, profileVars,
     roomVars
<1>6. ASSUME NEW q \in Req, GuardUpload(q), UNCHANGED roomVars PROVE Placed'
  BY <1>6 DEF GuardUpload, Guard, Placed, Exists, Become, At, Idle, TypeOK,
     profileVars, roomVars
<1>7. ASSUME NEW q \in Req, NEW f \in Photo, StoreFile(q, f), UNCHANGED roomVars
      PROVE  Placed'
  BY <1>7 DEF StoreFile, FreshName, Placed, Exists, Become, At, Idle, TypeOK,
     profileVars, roomVars
<1>8. ASSUME NEW q \in Req, WritePhoto(q), UNCHANGED roomVars PROVE Placed'
  BY <1>8 DEF WritePhoto, Placed, Exists, Become, At, Idle, TypeOK, profileVars,
     roomVars
<1>9. ASSUME NEW q \in Req, AnswerUpload(q), UNCHANGED roomVars PROVE Placed'
  BY <1>9 DEF AnswerUpload, Placed, Exists, Become, At, Idle, TypeOK, profileVars,
     roomVars
<1>10. ASSUME NEW q \in Req, RequestFails(q), UNCHANGED roomVars PROVE Placed'
  BY <1>10 DEF RequestFails, Placed, Exists, Become, At, Idle, TypeOK, profileVars,
     roomVars
<1>11. ASSUME NEW q \in Req, NEW u \in User \cup {None}, HandleCreate(q, u)
      PROVE  Placed'
  BY <1>11 DEF HandleCreate, Placed, Exists, Become, At, Idle, TypeOK, profileVars,
     roomVars
<1>12. ASSUME NEW q \in Req, NEW r \in Room, DrawInvite(q, r) PROVE Placed'
  BY <1>12 DEF DrawInvite, Guard, Placed, Exists, Become, At, Idle, TypeOK,
     profileVars, roomVars
<1>13. ASSUME NEW q \in Req, InsertRoom(q) PROVE Placed'
  <2>1. /\ req[q].by \in User /\ req[q].room \in Room
        /\ ~Exists(req[q].room) /\ req[q].room \in drawn
    BY <1>13, Kinds DEF InsertRoom, Placed
  <2>2. \A r \in Room : Exists(r)' <=> Exists(r) \/ r = req[q].room
    BY <1>13, <2>1, NoneAssumption DEF InsertRoom, Exists, NoRoom, TypeOK
  <2>3. \A op, pc : At(q, op, pc)' => op = "create" /\ pc = "answer"
    BY <1>13 DEF InsertRoom, Become, At, TypeOK
  <2>4. \A p \in Req : req'[p].room = req[p].room
    BY <1>13 DEF InsertRoom, Become, TypeOK
  <2>5. \A p \in Req \ {q} : req'[p] = req[p]
    BY <1>13 DEF InsertRoom, Become, TypeOK
  <2>6. drawn' = drawn /\ shared' = shared
    BY <1>13 DEF InsertRoom
  <2>7. At(q, "create", "insert")
    BY <1>13 DEF InsertRoom
  <2>8. \A op, pc : \A p \in Req : At(p, op, pc)' =>
            \/ p = q /\ op = "create" /\ pc = "answer"
            \/ p # q /\ At(p, op, pc) /\ req'[p] = req[p]
    BY <2>3, <2>5 DEF At
  <2>9. \A p \in Req \ {q} : At(p, "create", "insert") =>
            req[p].room \in Room /\ req[p].room # req[q].room
    BY <2>7, Kinds DEF Placed
  <2>10. \A r \in Room : Exists(r)' => r \in drawn'
    BY <2>1, <2>2, <2>6 DEF Placed
  <2>11. \A r \in shared' : Exists(r)'
    BY <2>2, <2>6 DEF Placed, TypeOK
  <2>12. ASSUME NEW p \in Req, At(p, "create", "insert")'
         PROVE  /\ req'[p].room \in drawn' /\ ~Exists(req[p].room)'
                /\ \A o \in Req : At(o, "create", "insert")' /\ req'[o].room = req'[p].room
                                   => o = p
    <3>1. \A o \in Req : At(o, "create", "insert")' =>
             o # q /\ At(o, "create", "insert") /\ req'[o] = req[o]
      BY <2>8
    <3>2. req[p].room \in Room /\ req[p].room # req[q].room
      BY <2>9, <2>12, <3>1
    <3> QED
      BY <2>2, <2>6, <2>12, <3>1, <3>2 DEF Placed, Exists
  <2>13. ASSUME NEW p \in Req, At(p, "create", "answer")' PROVE Exists(req[p].room)'
    <3>1. req[p].room \in Room /\ (p # q => Exists(req[p].room))
      BY <2>1, <2>8, <2>13, Kinds DEF Placed
    <3> QED
      BY <2>2, <2>4, <3>1 DEF Exists
  <2>14. \A p \in Req : At(p, "list", "answer")' => \A r \in req'[p].rooms : Exists(r)'
    BY <2>2, <2>8, Kinds DEF Placed
  <2>15. ASSUME NEW op \in {"find", "join"}, NEW pc, NEW p \in Req, At(p, op, pc)',
                req'[p].known
         PROVE  Exists(req[p].room)'
    <3>1. At(p, op, pc) /\ req'[p] = req[p] /\ req[p].room \in Room
      BY <2>8, <2>15, Kinds
    <3> QED
      BY <2>2, <2>15, <3>1 DEF Placed, Exists
  <2> QED
    BY <2>10, <2>11, <2>12, <2>13, <2>14, <2>15 DEF Placed
<1>14. ASSUME NEW q \in Req, InsertFails(q) PROVE Placed'
  BY <1>14 DEF InsertFails, Rethrow, Placed, Exists, Become, At, Idle, TypeOK,
     profileVars, roomVars
<1>15. ASSUME NEW q \in Req, AnswerCreate(q) PROVE Placed'
  BY <1>15 DEF AnswerCreate, Placed, Exists, Become, At, Idle, TypeOK, profileVars,
     roomVars
<1>16. ASSUME NEW q \in Req, NEW op \in {"find", "join"}, NEW u \in User \cup {None},
              NEW r \in Room, HandleOpen(q, op, u, r)
      PROVE  Placed'
  BY <1>16 DEF HandleOpen, Placed, Exists, Become, At, Idle, TypeOK, profileVars,
     roomVars
<1>17. ASSUME NEW q \in Req, GuardOpen(q) PROVE Placed'
  BY <1>17 DEF GuardOpen, Guard, Placed, Exists, Become, At, Idle, TypeOK,
     profileVars, roomVars
<1>18. ASSUME NEW q \in Req, FindByInvite(q) PROVE Placed'
  BY <1>18 DEF FindByInvite, Placed, Exists, Become, At, Idle, TypeOK, profileVars,
     roomVars
<1>19. ASSUME NEW q \in Req, AnswerOpen(q) PROVE Placed'
  BY <1>19 DEF AnswerOpen, Placed, Exists, Become, At, Idle, TypeOK, profileVars,
     roomVars
<1>20. ASSUME NEW q \in Req, NEW u \in User \cup {None}, HandleList(q, u)
      PROVE  Placed'
  BY <1>20 DEF HandleList, Placed, Exists, Become, At, Idle, TypeOK, profileVars,
     roomVars
<1>21. ASSUME NEW q \in Req, GuardList(q) PROVE Placed'
  BY <1>21 DEF GuardList, Guard, Placed, Exists, Become, At, Idle, TypeOK,
     profileVars, roomVars
<1>22. ASSUME NEW q \in Req, FindByHost(q) PROVE Placed'
  BY <1>22 DEF FindByHost, RoomsOf, Placed, Exists, Become, At, Idle, TypeOK,
     profileVars, roomVars
<1>23. ASSUME NEW q \in Req, AnswerList(q) PROVE Placed'
  BY <1>23 DEF AnswerList, Placed, Exists, Become, At, Idle, TypeOK, profileVars,
     roomVars
<1>24. ASSUME NEW q \in Req, NEW u \in User \cup {None}, HandlePoster(q, u)
      PROVE  Placed'
  BY <1>24 DEF HandlePoster, Placed, Exists, Become, At, Idle, TypeOK, profileVars,
     roomVars
<1>25. ASSUME NEW q \in Req, GuardPoster(q) PROVE Placed'
  BY <1>25 DEF GuardPoster, Guard, Placed, Exists, Become, At, Idle, TypeOK,
     profileVars, roomVars
<1>26. ASSUME NEW q \in Req, NEW f \in Photo, StorePoster(q, f) PROVE Placed'
  BY <1>26 DEF StorePoster, FreshName, Placed, Exists, Become, At, Idle, TypeOK,
     profileVars, roomVars
<1>27. ASSUME NEW q \in Req, WritePoster(q) PROVE Placed'
  <2>1. RoomsById(q) = {}
    BY <1>27, Kinds, RoomAssumption DEF WritePoster, RoomsById
  <2>2. room' = room
    BY <1>27, <2>1 DEF WritePoster, TypeOK
  <2> QED
    BY <1>27, <2>2 DEF WritePoster, Placed, Exists, Become, At, Idle, TypeOK
<1>28. ASSUME NEW q \in Req, AnswerPoster(q) PROVE Placed'
  BY <1>28 DEF AnswerPoster, Placed, Exists, Become, At, Idle, TypeOK, profileVars,
     roomVars
<1>29. CASE UNCHANGED vars
  BY <1>29 DEF vars, Placed, Exists, At, Idle
<1> QED
  BY <1>1, <1>2, <1>3, <1>4, <1>5, <1>6, <1>7, <1>8, <1>9, <1>10, <1>11, <1>12,
     <1>13, <1>14, <1>15, <1>16, <1>17, <1>18, <1>19, <1>20, <1>21, <1>22,
     <1>23, <1>24, <1>25, <1>26, <1>27, <1>28, <1>29 DEF Next, RoomsNext,
     ProfileNext

\* A refusal was decided on a table in which every shared room already was.
LEMMA InviteOpensNext == TypeOK /\ Placed /\ InviteOpens /\ [Next]_vars => InviteOpens'
<1> SUFFICES ASSUME TypeOK, Placed, InviteOpens, [Next]_vars PROVE InviteOpens'
  OBVIOUS
<1>1. ASSUME NEW q \in Req, NEW u \in User \cup {None}, NEW patch \in Sent,
             HandleUpdate(q, u, patch), UNCHANGED roomVars
      PROVE  InviteOpens'
  BY <1>1 DEF HandleUpdate, InviteOpens, Become, At, Idle, TypeOK, profileVars,
     roomVars
<1>2. ASSUME NEW q \in Req, GuardUpdate(q), UNCHANGED roomVars PROVE InviteOpens'
  BY <1>2 DEF GuardUpdate, Guard, InviteOpens, Become, At, Idle, TypeOK, profileVars,
     roomVars
<1>3. ASSUME NEW q \in Req, NEW e \in Email, NEW d \in Data, HandleReset(q, e, d),
             UNCHANGED roomVars
      PROVE  InviteOpens'
  BY <1>3 DEF HandleReset, InviteOpens, Become, At, Idle, TypeOK, profileVars,
     roomVars
<1>4. ASSUME NEW q \in Req, WriteUpdate(q), UNCHANGED roomVars PROVE InviteOpens'
  BY <1>4 DEF WriteUpdate, InviteOpens, Become, At, Idle, TypeOK, profileVars,
     roomVars
<1>5. ASSUME NEW q \in Req, NEW u \in User \cup {None}, HandleUpload(q, u),
             UNCHANGED roomVars
      PROVE  InviteOpens'
  BY <1>5 DEF HandleUpload, InviteOpens, Become, At, Idle, TypeOK, profileVars,
     roomVars
<1>6. ASSUME NEW q \in Req, GuardUpload(q), UNCHANGED roomVars PROVE InviteOpens'
  BY <1>6 DEF GuardUpload, Guard, InviteOpens, Become, At, Idle, TypeOK, profileVars,
     roomVars
<1>7. ASSUME NEW q \in Req, NEW f \in Photo, StoreFile(q, f), UNCHANGED roomVars
      PROVE  InviteOpens'
  BY <1>7 DEF StoreFile, FreshName, InviteOpens, Become, At, Idle, TypeOK,
     profileVars, roomVars
<1>8. ASSUME NEW q \in Req, WritePhoto(q), UNCHANGED roomVars PROVE InviteOpens'
  BY <1>8 DEF WritePhoto, InviteOpens, Become, At, Idle, TypeOK, profileVars,
     roomVars
<1>9. ASSUME NEW q \in Req, AnswerUpload(q), UNCHANGED roomVars PROVE InviteOpens'
  BY <1>9 DEF AnswerUpload, InviteOpens, Become, At, Idle, TypeOK, profileVars,
     roomVars
<1>10. ASSUME NEW q \in Req, RequestFails(q), UNCHANGED roomVars PROVE InviteOpens'
  BY <1>10 DEF RequestFails, InviteOpens, Become, At, Idle, TypeOK, profileVars,
     roomVars
<1>11. ASSUME NEW q \in Req, NEW u \in User \cup {None}, HandleCreate(q, u)
      PROVE  InviteOpens'
  BY <1>11 DEF HandleCreate, InviteOpens, Become, At, Idle, TypeOK, profileVars,
     roomVars
<1>12. ASSUME NEW q \in Req, NEW r \in Room, DrawInvite(q, r) PROVE InviteOpens'
  BY <1>12 DEF DrawInvite, Guard, InviteOpens, Become, At, Idle, TypeOK, profileVars,
     roomVars
<1>13. ASSUME NEW q \in Req, InsertRoom(q) PROVE InviteOpens'
  <2>1. req[q].room \in Room /\ ~Exists(req[q].room) /\ At(q, "create", "insert")
    BY <1>13, Kinds DEF InsertRoom, Placed
  <2>2. \A r \in Room : Exists(r) => room'[r] = room[r]
    BY <1>13, <2>1 DEF InsertRoom, TypeOK
  <2>3. \A p \in Req, op \in {"find", "join"} : At(p, op, "refused")' =>
            At(p, op, "refused") /\ req'[p] = req[p]
    BY <1>13 DEF InsertRoom, Become, At, Idle, TypeOK
  <2>4. \A p \in Req, op \in {"find", "join"} : At(p, op, "refused") /\ req[p].known =>
            req[p].room \in Room /\ Exists(req[p].room)
    BY Kinds DEF Placed
  <2> QED
    BY <2>2, <2>3, <2>4 DEF InviteOpens
<1>14. ASSUME NEW q \in Req, InsertFails(q) PROVE InviteOpens'
  BY <1>14 DEF InsertFails, Rethrow, InviteOpens, Become, At, Idle, TypeOK,
     profileVars, roomVars
<1>15. ASSUME NEW q \in Req, AnswerCreate(q) PROVE InviteOpens'
  BY <1>15 DEF AnswerCreate, InviteOpens, Become, At, Idle, TypeOK, profileVars,
     roomVars
<1>16. ASSUME NEW q \in Req, NEW op \in {"find", "join"}, NEW u \in User \cup {None},
              NEW r \in Room, HandleOpen(q, op, u, r)
      PROVE  InviteOpens'
  BY <1>16 DEF HandleOpen, InviteOpens, Become, At, Idle, TypeOK, profileVars,
     roomVars
<1>17. ASSUME NEW q \in Req, GuardOpen(q) PROVE InviteOpens'
  BY <1>17 DEF GuardOpen, Guard, InviteOpens, Become, At, Idle, TypeOK, profileVars,
     roomVars
<1>18. ASSUME NEW q \in Req, FindByInvite(q) PROVE InviteOpens'
  <2>1. req[q].known => Exists(req[q].room)
    BY <1>18 DEF FindByInvite, Placed
  <2> QED
    BY <1>18, <2>1 DEF FindByInvite, MayOpen, MayFind, MayJoin, InviteOpens, Become, At, Idle, TypeOK,
       roomVars
<1>19. ASSUME NEW q \in Req, AnswerOpen(q) PROVE InviteOpens'
  BY <1>19 DEF AnswerOpen, InviteOpens, Become, At, Idle, TypeOK, profileVars,
     roomVars
<1>20. ASSUME NEW q \in Req, NEW u \in User \cup {None}, HandleList(q, u)
      PROVE  InviteOpens'
  BY <1>20 DEF HandleList, InviteOpens, Become, At, Idle, TypeOK, profileVars,
     roomVars
<1>21. ASSUME NEW q \in Req, GuardList(q) PROVE InviteOpens'
  BY <1>21 DEF GuardList, Guard, InviteOpens, Become, At, Idle, TypeOK, profileVars,
     roomVars
<1>22. ASSUME NEW q \in Req, FindByHost(q) PROVE InviteOpens'
  BY <1>22 DEF FindByHost, RoomsOf, InviteOpens, Become, At, Idle, TypeOK,
     profileVars, roomVars
<1>23. ASSUME NEW q \in Req, AnswerList(q) PROVE InviteOpens'
  BY <1>23 DEF AnswerList, InviteOpens, Become, At, Idle, TypeOK, profileVars,
     roomVars
<1>24. ASSUME NEW q \in Req, NEW u \in User \cup {None}, HandlePoster(q, u)
      PROVE  InviteOpens'
  BY <1>24 DEF HandlePoster, InviteOpens, Become, At, Idle, TypeOK, profileVars,
     roomVars
<1>25. ASSUME NEW q \in Req, GuardPoster(q) PROVE InviteOpens'
  BY <1>25 DEF GuardPoster, Guard, InviteOpens, Become, At, Idle, TypeOK, profileVars,
     roomVars
<1>26. ASSUME NEW q \in Req, NEW f \in Photo, StorePoster(q, f) PROVE InviteOpens'
  BY <1>26 DEF StorePoster, FreshName, InviteOpens, Become, At, Idle, TypeOK,
     profileVars, roomVars
<1>27. ASSUME NEW q \in Req, WritePoster(q) PROVE InviteOpens'
  <2>1. RoomsById(q) = {}
    BY <1>27, Kinds, RoomAssumption DEF WritePoster, RoomsById
  <2>2. room' = room
    BY <1>27, <2>1 DEF WritePoster, TypeOK
  <2> QED
    BY <1>27, <2>2 DEF WritePoster, InviteOpens, Become, At, Idle, TypeOK
<1>28. ASSUME NEW q \in Req, AnswerPoster(q) PROVE InviteOpens'
  BY <1>28 DEF AnswerPoster, InviteOpens, Become, At, Idle, TypeOK, profileVars,
     roomVars
<1>29. CASE UNCHANGED vars
  BY <1>29 DEF vars, InviteOpens, At, Idle
<1> QED
  BY <1>1, <1>2, <1>3, <1>4, <1>5, <1>6, <1>7, <1>8, <1>9, <1>10, <1>11, <1>12,
     <1>13, <1>14, <1>15, <1>16, <1>17, <1>18, <1>19, <1>20, <1>21, <1>22,
     <1>23, <1>24, <1>25, <1>26, <1>27, <1>28, <1>29 DEF Next, RoomsNext,
     ProfileNext

-----------------------------------------------------------------------------
(* The theorems. *)

IInv == TypeOK /\ EmailIsOwn /\ FilesDiffer /\ Placed /\ InviteOpens

THEOREM Invariance == Spec => []IInv
<1>1. Init => IInv
  BY TypeInit DEF Init, ProfileInit, IInv, EmailIsOwn, FilesDiffer, Placed, InviteOpens,
                  Holds, At, Idle, Exists
<1>2. IInv /\ [Next]_vars => IInv'
  BY TypeNext, EmailIsOwnNext, FilesDifferNext, PlacedNext, InviteOpensNext DEF IInv
<1> QED
  BY <1>1, <1>2, PTL DEF Spec

\* Every reachable state is well typed and no two accounts have one email.
THEOREM TypeCorrect == Spec => []TypeOK
BY Invariance, PTL DEF IInv

\* An invite that its host was answered opens the room from then on, whatever
\* fails and whatever else is created meanwhile.
THEOREM InvitesOpen == Spec => []InviteOpens
BY Invariance, PTL DEF IInv

\* A profile update writes the account that asked for it unless its email
\* changed meanwhile: the email the guard read is still that account's, and no
\* other account can have it.
THEOREM OwnRow == Spec => WritesOwnRow
<1>1. ASSUME IInv, [Next]_vars, NEW u \in User, account'[u] # account[u]
      PROVE  \E q \in Req : /\ req[q] # Idle /\ req[q].pc = "write" /\ req'[q] # req[q]
                            /\ req[q].by \in {u, None} \/ q \in behind
  <2>1. PICK q \in Req : WriteUpdate(q) \/ WritePhoto(q)
    BY <1>1, Writers
  <2>2. req[q] # Idle /\ req[q].pc = "write" /\ req'[q] # req[q]
    <3>1. CASE WriteUpdate(q)
      BY <1>1, <3>1 DEF WriteUpdate, At, Become, Idle, IInv, TypeOK
    <3>2. CASE WritePhoto(q)
      <4>1. req'[q].pc = "answer"
        BY <1>1, <3>2 DEF WritePhoto, At, Become, IInv, TypeOK, UpdateReq, UploadReq,
                          CreateReq, OpenReq, ListReq, PosterReq, Idle
      <4> QED
        BY <3>2, <4>1 DEF WritePhoto, At
    <3> QED
      BY <2>1, <3>1, <3>2
  <2>3. CASE WritePhoto(q)
    <3>1. req[q].by = u
      BY <1>1, <2>3 DEF WritePhoto, IInv, TypeOK
    <3> QED
      BY <2>2, <3>1
  <2>4. CASE WriteUpdate(q) /\ q \notin behind /\ req[q].by # None
    <3>1. u \in RowsWith(q)
      BY <1>1, <2>4 DEF WriteUpdate
    <3>2. req[q].by \in User /\ account[req[q].by].email = req[q].email
      BY <1>1, <2>4, Kinds DEF WriteUpdate, IInv, EmailIsOwn
    <3>3. req[q].by = u
      BY <1>1, <3>1, <3>2 DEF RowsWith, IInv, TypeOK, EmailsDiffer
    <3> QED
      BY <2>2, <3>3
  <2> QED
    BY <2>1, <2>2, <2>3, <2>4
<1>2. IInv /\ [Next]_vars => [\A u \in User : account'[u] # account[u] =>
          \E q \in Req : /\ req[q] # Idle /\ req[q].pc = "write" /\ req'[q] # req[q]
                         /\ req[q].by \in {u, None} \/ q \in behind]_vars
  BY <1>1
<1> QED
  BY <1>2, Invariance, PTL DEF Spec, WritesOwnRow

\* The photo never goes back to a file whose upload was answered: a file has one
\* upload, which writes it before it is answered.
THEOREM NoneOld == Spec => NoOldPhoto
<1>1. ASSUME IInv, [Next]_vars, NEW u \in User, account'[u].photo # account[u].photo,
             account'[u].photo \in answered
      PROVE  \E q \in Req : /\ At(q, "update", "write")
                            /\ req[q].patch.photo = account'[u].photo
  <2>1. PICK q \in Req : WriteUpdate(q) \/ WritePhoto(q)
    BY <1>1, Writers
  <2>2. ~WritePhoto(q)
    <3> SUFFICES ASSUME WritePhoto(q) PROVE FALSE
      OBVIOUS
    <3>1. account'[u].photo = req[q].photo
      BY <1>1 DEF WritePhoto, IInv, TypeOK, Account
    <3>2. req[q].photo \notin answered
      BY <1>1 DEF WritePhoto, IInv, FilesDiffer, Holds
    <3> QED
      BY <1>1, <3>1, <3>2
  <2>3. WriteUpdate(q) /\ At(q, "update", "write")
    BY <2>1, <2>2 DEF WriteUpdate
  <2>4. req[q].patch.photo = account'[u].photo
    BY <1>1, <2>3 DEF WriteUpdate, Merge
  <2> QED
    BY <2>3, <2>4
<1>2. IInv /\ [Next]_vars => [\A u \in User : account'[u].photo # account[u].photo =>
          \/ account'[u].photo \notin answered
          \/ \E q \in Req : /\ At(q, "update", "write")
                            /\ req[q].patch.photo = account'[u].photo]_vars
  BY <1>1
<1> QED
  BY <1>2, Invariance, PTL DEF Spec, NoOldPhoto
=============================================================================
