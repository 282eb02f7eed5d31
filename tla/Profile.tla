------------------------------- MODULE Profile -------------------------------
(***************************************************************************)
(* Accounts after the signup: POST /register/updateUser, the new password  *)
(* at the end of a reset, POST /upload/profile, and the guard that every   *)
(* request passes first.                                                   *)
(*                                                                         *)
(* The guard reads the caller's row and the handler runs later: bcrypt,    *)
(* Cloudinary and the write are awaited in between.  Profile updates find  *)
(* their row by the email the guard read, uploads find it by id.  Requests *)
(* of Rooms share the slots of req.                                        *)
(***************************************************************************)

CONSTANTS
    User,     \* ids of accounts (accounts are never deleted)
    Email,
    Data,     \* values of the fields a request sets and nothing reads
    Photo,    \* urls of files at Cloudinary
    Sent,     \* the updates clients send
    Req,      \* slots for HTTP requests being handled
    None      \* "no caller", "no photo" and a field left out of an update

ASSUME NoneAssumption == None \notin User \cup Email \cup Data \cup Photo

VARIABLES
    account,   \* the User table
    asset,     \* files stored at Cloudinary so far
    req,       \* requests being handled
    behind,    \* history: updates whose account changed its email since they
               \* read it
    answered   \* history: uploads answered with 201

profileVars == <<account, asset, behind, answered>>

Account == [email : Email, data : Data, photo : Photo \cup {None}]

\* Every field of UpdateUserDto is optional.
Patch == [email : Email \cup {None}, data : Data \cup {None}, photo : Photo \cup {None}]

ASSUME SentAssumption == Sent \subseteq Patch

Idle == [op |-> "idle"]
UpdateReq == [op : {"update"}, pc : {"guard"}, by : User \cup {None}, patch : Patch]
        \cup [op : {"update"}, pc : {"write"}, by : User \cup {None}, patch : Patch,
            email : Email]
UploadReq == [op : {"upload"}, pc : {"guard"}, by : User \cup {None}]
        \cup [op : {"upload"}, pc : {"store"}, by : User]
        \cup [op : {"upload"}, pc : {"write", "answer"}, by : User, photo : Photo]

EmailsDiffer == \A u, v \in User : account[u].email = account[v].email => u = v

ProfileInit ==
    /\ account \in [User -> [email : Email, data : Data, photo : {None}]]
    /\ EmailsDiffer
    /\ asset = {}
    /\ req = [q \in Req |-> Idle]
    /\ behind = {}
    /\ answered = {}

-----------------------------------------------------------------------------
At(q, op, pc) == req[q] # Idle /\ req[q].op = op /\ req[q].pc = pc
Become(q, r) == req' = [req EXCEPT ![q] = r]

\* Variant: the route is public.
AnyCaller(q) == TRUE

\* The guard finds the account the access token names.  The token of a signup
\* names none.
Authenticated(q) == req[q].by \in User

\* 401 unless the guard finds the caller; r is the request that goes on.
Guard(q, r) == Become(q, IF Authenticated(q) THEN r ELSE Idle)

-----------------------------------------------------------------------------
(* POST /register/updateUser, and setPassWord of a password reset *)

HandleUpdate(q, u, patch) ==
    /\ req[q] = Idle
    /\ Become(q, [op |-> "update", pc |-> "guard", by |-> u, patch |-> patch])
    /\ UNCHANGED profileVars

\* validate selects the email of the row with the token's id.
CallerEmail(q) == {account[u].email : u \in User \cap {req[q].by}}

GuardUpdate(q) ==
    /\ At(q, "update", "guard")
    /\ \/ ~Authenticated(q) /\ Become(q, Idle)
       \/ \E e \in CallerEmail(q) :
              Become(q, [op |-> "update", pc |-> "write", by |-> req[q].by,
                         patch |-> req[q].patch, email |-> e])
    /\ UNCHANGED profileVars

\* The account with an email, if there is one.
Owner(e) == IF \E u \in User : account[u].email = e
            THEN CHOOSE u \in User : account[u].email = e ELSE None

\* A reset is begun for an email, and nobody waits for the lookup of it; the key
\* in Redis keeps the email for hours.
HandleReset(q, e, d) ==
    /\ req[q] = Idle
    /\ Become(q, [op |-> "update", pc |-> "write", by |-> Owner(e), email |-> e,
                  patch |-> [email |-> None, data |-> d, photo |-> None]])
    /\ UNCHANGED profileVars

\* Variant: the row is found by the email the update brings, if it does.
RowsWithNew(q) ==
    {u \in User : account[u].email = IF req[q].patch.email = None THEN req[q].email
                                                                  ELSE req[q].patch.email}

\* where: { email } is the email read by the guard.
RowsWith(q) == {u \in User : account[u].email = req[q].email}

Merge(row, patch) ==
    [f \in {"email", "data", "photo"} |-> IF patch[f] = None THEN row[f] ELSE patch[f]]

Taken(e, rows) == \E v \in User \ rows : account[v].email = e

\* No such row (P2025) and an email of somebody else (P2002) make the update
\* throw: the answer says 500 and nothing is written.
WriteUpdate(q) ==
    /\ At(q, "update", "write")
    /\ account' = IF Taken(req[q].patch.email, RowsWith(q)) THEN account
                  ELSE [u \in User |-> IF u \in RowsWith(q)
                                       THEN Merge(account[u], req[q].patch)
                                       ELSE account[u]]
    /\ behind' = {p \in Req \ {q} :
                     \/ p \in behind
                     \/ /\ At(p, "update", "write") /\ req[p].by \in User
                        /\ account'[req[p].by].email # account[req[p].by].email}
    /\ Become(q, Idle)
    /\ UNCHANGED <<asset, answered>>

-----------------------------------------------------------------------------
(* POST /upload/profile *)

HandleUpload(q, u) ==
    /\ req[q] = Idle
    /\ Become(q, [op |-> "upload", pc |-> "guard", by |-> u])
    /\ UNCHANGED profileVars

GuardUpload(q) ==
    /\ At(q, "upload", "guard")
    /\ Guard(q, [op |-> "upload", pc |-> "store", by |-> req[q].by])
    /\ UNCHANGED profileVars

\* Variant: files are named after their user (overwrite is on).
AnyName(p) == TRUE

\* No public_id is given: Cloudinary names every file anew.
FreshName(p) == p \notin asset

StoreFile(q, p) ==
    /\ At(q, "upload", "store")
    /\ FreshName(p)
    /\ asset' = asset \cup {p}
    /\ Become(q, [op |-> "upload", pc |-> "write", by |-> req[q].by, photo |-> p])
    /\ UNCHANGED <<account, behind, answered>>

\* update by id, or an update that throws: the repository returns an object
\* that says 500, and the service takes either for the url.
WritePhoto(q) ==
    /\ At(q, "upload", "write")
    /\ account' \in {account, [account EXCEPT ![req[q].by].photo = req[q].photo]}
    /\ Become(q, [req[q] EXCEPT !.pc = "answer"])
    /\ UNCHANGED <<asset, behind, answered>>

\* 201 "file uploaded successfully", whatever became of the row.
AnswerUpload(q) ==
    /\ At(q, "upload", "answer")
    /\ answered' = answered \cup {req[q].photo}
    /\ Become(q, Idle)
    /\ UNCHANGED <<account, asset, behind>>

-----------------------------------------------------------------------------
\* An awaited call throws, the answer is lost or the process ends.
RequestFails(q) ==
    /\ req[q] # Idle
    /\ Become(q, Idle)
    /\ behind' = behind \ {q}
    /\ UNCHANGED <<account, asset, answered>>

ProfileNext(q) ==
    \/ \E u \in User \cup {None}, patch \in Sent : HandleUpdate(q, u, patch)
    \/ GuardUpdate(q)
    \/ \E e \in Email, d \in Data : HandleReset(q, e, d)
    \/ WriteUpdate(q)
    \/ \E u \in User \cup {None} : HandleUpload(q, u)
    \/ GuardUpload(q)
    \/ \E p \in Photo : StoreFile(q, p)
    \/ WritePhoto(q)
    \/ AnswerUpload(q)
    \/ RequestFails(q)
=============================================================================
