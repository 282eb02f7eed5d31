# Together API: specification and proofs

TLA+ models of the Together backend (NestJS, Prisma/PostgreSQL, Redis, socket.io), the TLC
configurations that check them and TLAPS proofs of what they guarantee. Paths below are relative
to the repository; `transmission/` and the like are directories of `src/`.

The server is one Node.js process. JavaScript runs to the next `await` without interruption, so the
atoms of these models are the stretches of code between two awaits of something outside the process:
a Prisma query, a Redis command, a mail. Everything else on the event loop (other requests, socket
events, disconnects) can run in between, and that is where the code can go wrong.

## Inventory

| Part | State | Operations | Interacts with | What is hard | What must hold |
|---|---|---|---|---|---|
| transmission (`transmission/`) | `activeTransmissions`, a Map in memory; socket.io rooms | start, control, stop, status, disconnect | the `Room` table; sockets that joined with chat's `join-room` | start awaits a query before it writes the Map; a disconnect can run first; restarts lose the Map | one owner per room, the host; what members are told while they are members is true; nothing is replaced; every start is answered |
| friends (`friends/`) | `Friendship` table, no unique constraint, no transactions | send, respond, remove, statistics, lists | `User` table | check and write are separate queries; a client loads two lists one after the other | no duplicates, decisions stay, removed stays removed, only the parties write, the lists miss nobody |
| login and refresh (`auth/`, `refresh-token/`) | `refresh_token:<jwt>` keys in Redis, two cookies | login, refresh with rotation, logout | Google login and signup hand out tokens too | tokens signed in one second are equal; two tabs; lost answers; Redis snapshots; a refused refresh overwrites the cookies | a held token works, is exchanged once, and no browser is left behind; cookies of a live session are lost only to an answer that is late |
| signup (`users/register`, `users/otp`, `email-service/`) | `signup:<uuid>` keys; `User` rows | register, validate OTP, sign up, resend | mail, settings | three requests chained by uuids, two shapes of entry; overlapping validations; crash between delete and set; resend never finds its key | accounts come from validated entries, an OTP counts once, answered uuids work |
| Google login (`auth-google/`) | `User`, `Settings` rows, tokens | callback | signup of the same email | lookup long before insert | an account is never replaced |
| settings (`settings/`) | `Settings` row, unique per user | get (creates), update (upsert), creation for new accounts | signup, Google login | check-then-insert; the signup's creation is not awaited, and a rejection ends the process | chosen settings survive; creation collides only with the user's own requests; settings follow an account |
| password reset (`auth/`) | `reset:<uuid>` keys, `User.password` | forgot, verify, reset | mail | no write but the last is awaited: a failing one ends the process | an answered uuid works, is used once, and leaves no key behind |
| chat (`chat/`) | `Message` rows, socket.io rooms | join, send, history | rooms, transmission | save order and broadcast order; joining, the history and the live stream | nothing is missed between history and stream; what was shown is stored; replies come after what they reply to |
| direct messages (`direct-message/`) | `DirectMessage` rows | send (HTTP, socket), conversation | users | stored but not delivered or confirmed; the receiver's socket.io room | the same, for the feed of a receiver |
| rooms (`rooms/`) | `Room` rows, an invite token each | create, find by invite, join by invite, list | transmission reads the host; posters | the invite is drawn before the insert, which may fail | an invite its host was answered opens the room from then on; an uploaded poster is set (it never is) |
| profile and upload (`users/register`, `upload/`) | `User` rows, files at Cloudinary | update the profile, new password of a reset, upload a photo or a poster | the guard; signup and reset know users by email | the row is found by an email read by an earlier query; two uploads overlap; a failed write is answered 201 | nobody's row is written for somebody else; no photo goes back to an old one |
| guards (`auth/guards`, `auth/strategies`) | none | validate the token, read the caller's email | every handler | the email they read may be old when it is used | no handler runs for nobody |
| redis (`redis/`, `docker-compose.yml`) | keys | get, set, del with expiry | everything above | `allkeys-lru`, `appendonly no`, `save 60 1` | commands of one connection keep their order |
| filters, middlewares, admin, bootstrap | none that lasts | | | middlewares are never applied, admin is commented out | not modelled, but for the end of a request that throws |

`PROJECT.json` lists every part with its status, and the hazards of the code line by line with the
properties that would catch them.

## Modules

| Module | Models | Proofs |
|---|---|---|
| `RoomSlots` | abstract: what a screen-sharing coordinator promises, slots taken when free, by the room's host, and released one by one, all of a user's, or all; it does not say who releases one | |
| `Transmission` | the gateway and the service; implements `RoomSlots` with `slot <- active` | `Transmission_proofs` |
| `Tie` | abstract: what a pair of users is promised: a tie begins with a request, is accepted once, ends for good | |
| `Friends` | controller, service and repository, query by query; implements `Tie` for every pair | `Friends_proofs` |
| `OneTimeKey` | abstract: what a key in Redis promises: one request at a time finds it, and none after it was used up | `OneTimeKey_proofs` |
| `Session` | refresh tokens, Redis command by command; every token implements `OneTimeKey` | `Session_proofs` |
| `Signup` | signup, Google account creation and settings; every uuid implements `OneTimeKey` | `Signup_proofs` |
| `Profile` | the guard, profile updates, the row a password reset writes, and photos | in `Rooms_proofs` |
| `Rooms` | rooms, invites and posters; extends `Profile`, whose requests run beside its own | `Rooms_proofs` |
| `Messages` | chat and direct messages, stored, emitted and read back | `Messages_proofs` |
| `Reset` | the password reset over one Redis connection; every uuid implements `OneTimeKey` | `Reset_proofs` |

`MC*.tla` give TLC symmetry sets where they are used; every `MC*.cfg` is one run. `Rooms` composes
with `Profile`: one table of users, one store of files, one guard and one set of request slots, so
every request of the one interleaves with every request of the other. The other modules share only
rows that do not change under them (the host of a room, registered users) and Redis, whose key
families are disjoint. What one hands another is in both, at the same line of the code:
`SignupToken` and `LoginWithGoogle` of `Session` are the token side of `CreateUser` and the Google
steps of `Signup`; `HandleReset` of `Profile` is the row side of the last step of `Reset`.

### How the models correspond to the code

A request is a record in `req` (or `call`): `op` is the handler, `pc` the await it is at, the other
fields are the locals it still needs. `Idle` is a free slot. An action is what the handler does from
one await to the next; early returns and thrown exceptions end the request. `map` in `PROJECT.json`
names the lines of every definition.

**Transmission.** `HandleStartTransmission` runs up to the room query, `FindRoom` is the database's
answer, `StartTransmission` or a rejection the continuation. Stop, control and status await only
promises that are settled already, and microtasks run before the next socket event, so each is one
action; so is the disconnect, which deletes every entry of the user. Emissions are reduced to the
last word and the last control each socket was sent about a room: socket.io keeps the order to a
connected socket. `join-room` sends nothing and clears nothing, so a joiner keeps the word it heard
before: a guest who asks for the status, hears "stopped" and joins after the start believes "stopped"
while the transmission is live, and a host's connection that started from outside the room, missed the
stop and joins then believes "started". The history `outside` marks words that reached a socket outside
the room, and `WordIsTrue` is about the others. `Connect` binds a user to a socket: nothing in the source sets
`client.data.userId`, so this is external, as is the registration of `TransmissionModule`, which
`app.module.ts` does not do.

**Friends.** Each operation is its queries: users, existing, create; find, update; find, delete; two
counts. `Lists` is a client that asks for its pending requests and then its friends, two requests
that anything may come between; `due` remembers what it has to be shown. `QueryFails` ends a request
anywhere. `raced` remembers pairs of users two
of whose requests were between check and write at once.

**Session.** A token is its payload, `(id, iat)`, with `iat` in seconds, so signing twice in a second
gives the same token. `Register`, `Rotate` (del, then set, on one connection), `Answer` are steps;
`SetFails`, `AnswerLost`, `RequestFails`, `Crash`, `Evict`, `Save`, `RedisRestart` are the failures.
`blanked` says whose cookies hold the text "undefined": `Refuse` sets them before it looks at the
status, and `ValidateOtp` from an answer that has no token; the refresh token the browser has from
a body (`held`) survives that. The histories `contended`, `disturbed`, `unanswered` name the
circumstances in which a guarantee does not hold, so that the properties can say it holds in all
others.

**Signup.** An entry is written once under a fresh uuid and never changed; `cached` says whose key
is in Redis now. `stage` is the shape of the JSON: `{data, otp}` or the bare user data. The OTP of a
request is right or wrong. A signup whose entry has the first shape fails in `bcrypt.hash(undefined)`.
`floating` is the `createSettings` that `createUser` starts without awaiting: when its insert is
refused the rejection is unhandled and Node ends the process (`FloatingRejects`). `account` is the
row as it was created: later changes of it are in `Profile`. `update-settings` is one native
upsert. `resend-otp` passes the whole body where a uuid is expected, so that the key it looks up is
the text of that body. For a JSON object, the only body modelled, it is "[object Object]"
(`ResendKey`): every resend is refused, also with a uuid whose key is in Redis. A body that is a JSON
array of one string has that string for its text, so `["<uuid>"]` does reach what the service does
with a key it finds (`register.service.ts:153-168`: a new OTP is mailed and the entry moves to a
new uuid). No document or DTO gives that shape; it is outside the inputs of the model.

**Profile.** `Guard` is the first await of every request: `JwtStrategy.validate` reads the row of the
id in the token, and the handler goes on with the email it found. bcrypt, Cloudinary and the update
are awaited after that, so the email an update finds its row by may be old: `behind` remembers the
updates whose account changed its email meanwhile. `HandleReset` is the same update begun for an
email hours before. `RowsWith` and `Taken` are the two ways Prisma refuses an update. An upload
stores its file under a name of its own (`FreshName`), then writes the row by id, and a write that
fails is answered like one that did not.

**Rooms.** An invite is drawn before the insert, so `DrawInvite` and `InsertRoom` are two steps, and
an insert that fails leaves a drawn invite nobody was answered. `MayFind` and `MayJoin` are what the
two lookups ask; joining writes nothing. `shared` are the rooms answered to their host by create or
list; a lookup remembers whether its room was shared when it began (`known`). A poster is written to
the room whose id is the caller's, which is none (uuids of different tables differ,
`RoomAssumption`), and answered 201: the run `rooms_poster` shows that against what the endpoint's
documentation says of it.

**Messages.** Chat and direct messages share one socket.io server and one shape: check, insert, and
emit in the continuation of the insert. A message is what its handler knows of it (`msg`), its row
(`table`) and who was shown it (`heard`); `view` is a client's last request for a history, whose rows
are read in one query and shown later. `join-room` puts a socket into any room it names: a room's id,
or its own user id, which is how it comes to hear direct messages. `stamp` is the time of the request
until the commit, then the row's `createdAt`. `POST /dm` is stored and answered, and emitted to
nobody. An insert may fail, or commit without an answer (`CreateAnswerLost`); `Restart` ends
connections and handlers and keeps rows. Two histories serve the properties: `sure`, that a client
was in the room when it asked, and `after`, what had been emitted when a message was sent.

**Reset.** `conn` holds the Redis commands that were sent and not executed, in order: `AuthService`
reaches Redis through one repository and so one ioredis connection. A command carries the request
that awaits it or `NoReq`. `ResetEmail`, and `VerifyOtp` once its `get` is answered, are one step
each, because they await none of their writes; `reset-password` is its `get`, the hash, the update and
an awaited `del`. A command that is awaited and fails ends its request (`CommandFails`); one that is
not ends the process (`Crash`). Any email gets a uuid, since the lookup is not awaited, and
`reset-password` takes the uuid of either earlier step. `used`, `contended` and `disturbed` are
histories as in `Session`.

## Runs

| Run | Bounds | Shows | States |
|---|---|---|---|
| `transmission` | host and guest, 1 room, 2 sockets, 2 calls, 3 starts | `OwnerIsHost`, `WordIsTrue`, `SameControls`, `LiveHasCaster`, `StartAnswered`, refinement of `RoomSlots` | 357,710 |
| `transmission_orphan` | as the first | a start that outlives its socket leaves a transmission nobody ends | violation |
| `transmission_channel` | as the first | the `transmission:` channel hears no events | violation |
| `friends` | 3 users, 1 unknown id, 2 rows, 2 requests | `DuplicatesAreRaces`, `WritersAreAllowed`, `StatsCountOnce`, `ListsMissNone`, `DecisionsStay`, refinement of `Tie` | 913,186 |
| `friends_duplicates` | 2 users | two overlapping requests give two rows | violation |
| `session` | 1 user, 1 browser, 2 requests, 2 seconds | `HeldTokenLives`, refinement of `OneTimeKey`, `BrowserKeepsSession`, `CookiesLostLate` | 1,702,960 |
| `session_every` | as above | a Google session cannot be refreshed | violation |
| `signup` | 1 email, 2 requests, 2 uuids, 1 password | `AccountWasValidated`, refinement of `OneTimeKey`, `KnownUuidWorks`, `SettingsRace`, `AccountsStay`, `ChosenStay`, `SettingsFollow` | 1,132,280 |
| `messages` | 3 users, 1 without a row, 1 room, 1 socket, 2 messages, 2 milliseconds | `NothingMissed`, `HeardIsStored`, `HistoryKeepsOrder` | 544,129 |
| `reset` | 1 registered email and 1 that is not, 2 uuids, 2 requests | `AnsweredUuidWorks`, refinement of `OneTimeKey`, `NoKeyLeft` | 361,148 |
| `rooms` | 2 users, 3 emails, 2 files, 1 room, 2 requests | `InviteOpens`, `WritesOwnRow`, `NoOldPhoto` | 1,465,824 |
| `rooms_poster` | 1 user, 2 emails, 2 files, 1 room, 2 requests | an uploaded poster is answered 201 and set on no room | violation |

Why the bounds are enough: every property relates at most two requests (or sockets) and one shared
thing, so two slots reach every overlap of two handlers, and restarts, evictions and failures may
happen anywhere. Two rows are the least for a duplicate; three starts let a room be taken, freed and
taken again while a call waits; two seconds distinguish a refresh in the same second from a later
one; two uuids are a signup and its validation, with a second validation of the first uuid getting
as far as its delete. The runs cannot tell whether two signups with different passwords mix; the
theorem `SignupsValidated` covers it. In `messages` one socket is enough: every property is about one
listener, and messages are sent by it, by an earlier connection of its slot or over HTTP; the proofs
hold for any number. `transmission` has one room: that a disconnect ends the transmissions of its user
in every room, and leaves those of others, is in the theorems `CasterStays` and `Refinement`, which
hold for any number. In `rooms` the third email lets an account give its email up
for another to take, which is how an update can find somebody else's row; two files are an upload and
the one it must not bring back. Two uuids let `reset` go from forgot-password to verify-otp and on to the
password. Bounds are `MaxStarts`, `MaxNow`, `MaxUuid` and `MaxClock` and the sizes of
the sets. Symmetry is used for interchangeable slots and users, and never in a run with a liveness
property. No system here stops: deadlock is checked everywhere.

The refinements that are parameterised (`Key(x)`, `TieOf(P)`) are stated as the initial predicate and
the next-state action of the abstract specification for every `x` or `P`, which is its `Spec` for each:
TLC evaluates no temporal formula under a quantifier over instances.

The five violations are disagreements between the code and what a document, a comment or a
signature of the repository says; `findings` in `PROJECT.json` quotes them.

### Fairness

`StartAnswered` assumes that a query which was sent is answered or fails and that its continuation
runs: weak fairness of `FindRoom \/ FindRoomFails` and of `StartTransmission \/ RejectStart`, for
each call. Prisma settles every promise and the event loop runs every continuation. `SettingsFollow`
assumes the same of the floating `createSettings`. Nothing is assumed of clients: no fairness on any
handler being called.

## What the abstract specifications say

`OneTimeKey` has one key with a `status` (new, good, spent, void) and its `holders`. `Take` needs a good
key that nobody holds, `Use` spends it, and only the one holder does. The three modules map to it per key:

| | good | holders | spent | void |
|---|---|---|---|---|
| `Session`, a token | registered | refreshes past the lookup, before the delete | exchanged | signed twice or refreshed by two at once; dropped or restored by Redis |
| `Signup`, a uuid | its entry in Redis | validations between finding the entry and deleting it | its OTP was accepted | two validations at once; dropped or restored by Redis |
| `Reset`, a uuid | its `set` executed or on its way | requests whose `get` was answered, until they used it | its OTP accepted or a password set with it | a second request at once; a `del` or an answer lost to a failure or crash, a Redis that dropped or restored it |

`Void` is the escape: it says exactly when the code's del-after-get is not a lock. A key is never good
again once it was spent, and what leaves it void is an overlap or a failure that the histories
`contended` and `disturbed` name at the step that causes it. `OneTimeKey_proofs` draws the
consequences once for all three, `HeldByOne` and `SpentForGood`.

`Tie` has who `agreed` in a pair of users (nobody, the one who asked, both). The rows of `Friends` map
to it: a pending row is the agreement of its requester, an accepted one of both, a rejected one of
nobody; a pair in `raced` is contended. An insert is `Ask`, an answer `Accept` or `Drop`, a removal
`Drop`. What `Tie` cannot see is who sent the answer: that is `WritersAreAllowed`.

## Proofs

Each `*_proofs` module proves properties of the runs for all values of the constants, from the
assumptions named in the modules only (`None`/`NoUser` is not an element of the set it extends, the
bounds are naturals, `Registered` is a subset of `User`). The pattern is the same everywhere: type
correctness first, then invariants that say what a request between two awaits still knows, then the
property.

- **OneTimeKey.** The abstract specification alone: `HeldByOne`, `SpentForGood`.
- **Transmission.** `RowIsCurrent`: the host read by a waiting call is still the host. `CallerIsCurrent`:
  while its socket is connected, it is the same connection of the same user. With them `HostOwns` and
  `CasterStays`. `WordInv` adds `HeardOutside`: a socket outside a room was sent nothing about it, or
  was outside when it was sent the last word. So a socket that joins either knows nothing or has a word
  that `WordIsTrue` excepts, and with `TellTrue`, one lemma for the three handlers that send a word, the
  invariant is inductive: `MembersHearTruth`. It says nothing of words from before the join, which can
  be false. `ControlInv` adds that controls reach members only. `NoReplacement` and `Refinement` are step arguments over the type
  invariant.
- **Friends.** `RacesNoted`: when two requests of one pair are past their checks the pair is in
  `raced`; `SendFresh` and `AnswerFresh`: a request that is alone past its check still sees what it
  checked. Hence `DuplicatesNeedRaces` and `DecisionsHold`. `WriterInv` carries the parties of a row
  from check to write. `OneAtATime` concludes that without overlap there are no duplicates at all.
  `PairsAreTies`
  is the refinement of `Tie`, one lemma per query that writes: `TieCreate` needs `SendFresh`, `TieUpdate`
  `AnswerFresh`, and `TieUpdate` and `TieDelete` that an open row of the pair is its only one (`TieIsRow`,
  from `DuplicatesAreRaces`).
  `Settled`: a row that is not pending any more never turns pending again, whoever writes between two
  queries; with it `CountedOnce` and `NoneMissed`, one for each order of the two.
- **Session.** Where tokens come from (`Traced`), that a token being signed is new to Redis or
  contended, that a spent token is gone from Redis or disturbed (`SpentIsGone`), that at most one
  request uses an uncontended token (`OneUser`). These are inductive together with the three properties.
  `RefusalsDue` adds that the key of a refused refresh is gone for a reason: it was exchanged, removed
  or restored by Redis, or never set, which `LostLate` needs of the step that blanks the cookies.
  `TokensAreOneTimeKeys` is the refinement: a lookup is `Take` because `UserAlone` makes the refresh the
  only one, the delete of the rotation is `Use`, and `UsedLives` (a token in use that is not void is
  registered and not spent) was added to the invariant for it.
- **Signup.** `Written`: a uuid in use was drawn, and its entry was written; type correctness is not
  inductive without it. `Validated`: an entry of the second shape, and a request past the comparison,
  had its OTP sent back. `Deleted`, `Overlap` and `AnswerWorks` do for uuids what `SpentIsGone` and
  `OneUser` do for tokens. `Owned`: whoever makes the settings of a new account created it and is
  alone; `UuidsAreOneTimeKeys` adds
  `HeldLives`, as `UsedLives` does. `Raced`: settings that are there while they are being made were asked for by a settings request.
- **Rooms.** `TypeOK` holds the emails apart; `EmailIsOwn`: the email an update carries is its
  account's, or the update is in `behind`, or it is a reset's for an email nobody had. From it `OwnRow`.
  `FilesDiffer`: no two requests, and no answered upload, have the same file: `NoneOld`. `Placed`: a
  room that is there or shared was drawn, and a request past its insert has its row; with it
  `InviteOpens` is inductive: `InvitesOpen`.
- **Messages.** `RowInv`: only messages past their insert have a row, whoever heard one heard a row, and
  what a message was sent after is stored with an earlier stamp (`Stored`, `HasRow`, `Ordered`); hence
  `HeardStored` and `OrderHolds`. `WatchInv` follows a client from its join to the history it is shown:
  an emitted message of its feed is in what it heard or was in the table when the query ran.
- **Reset.** `TypeInv` ties each waiting request to its one command. `SetFirst`: a `set` on the
  connection precedes everything else about its uuid, so no `get` overtakes it and it cannot bring a
  used key back; with `KeyThere` (a drawn uuid is used, disturbed, cached or on its way) and `NoKeyLeft`
  it is inductive and gives `AnsweredWorks` and `NoneLeft`. `HeldTwice` and `HeldUsed` say that a uuid two
  requests hold, or a used one that is held, is excused by an overlap or a failure: `OnceOnly`. `UuidsAreOneTimeKeys` follows from
  them: the status of a uuid changes only where its commands are sent and executed (`StatusNext`). That
  commands leave `conn` at its head is what all of it rests on.

Steps are grouped first (`KeySteps`, `RowSteps` in `Signup_proofs`): those that cannot touch what an
invariant speaks of are one case.

Only model-checked: the liveness properties `StartAnswered` and `SettingsFollow`; fairness is beyond
the prover.

## Not modelled

- The generated Prisma client (`prisma/@prisma/client`, some 4,200 of the lines of the repository):
  it is machine-made from `schema.prisma`, whose constraints the models use where they matter.
- The middlewares: `AppModule.configure` is commented out, so none is ever applied.
- Admin: its methods are stubs or commented out. Bootstrap, the modules and the documentation
  decorators: wiring. What they leave out is noted where it matters.
- Handlers that only read one row and keep nothing: user and profile lists.
- How an OTP is made, a password hashed, a token signed and verified, and what passport does with
  Google: an OTP is right or wrong, a token names its user or nobody.
- Input validation, wording, the contents of mails and messages, the values of profile fields.

The reasons, part by part, are in `components`.

## Plan

Done: transmission, friends, sessions with their cookies, signup and settings, messages, password
reset, profiles, uploads and rooms, with their proofs, and the abstract specifications `RoomSlots`,
`OneTimeKey` and `Tie` with the proofs that the code implements them. What would come next:

1. The deliveries of `Messages` against an abstract log of what a listener is to hear.
2. A run for the delivery of direct messages. `direct-message/README.md:129-131` says `receiver-dm` is
   sent to the receiver in real time, `:199-201` that a connected receiver gets it, and the page in
   `DM_TESTING.md` connects two sockets, joins no room and expects it. The gateway emits to the
   socket.io room of the receiver's id, and only `join-room` puts a socket there, so a connected
   receiver that never named its own id hears nothing. `NothingMissed` is about those that did. The
   divergence is known and not a run yet.
3. `transmission` with two rooms in one run, which with the liveness property and the words each
   socket was told in each room is some millions of states.
