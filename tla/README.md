# come_together_server: verification project

TLA+ models of the come_together server, model-checked with TLC; every safety
property that the runs establish is also proved with TLAPS, for every size of the
system. Every module names the source it translates; `PROJECT.json` maps each
definition to its lines.

## 1. The system

The server is a C++ gRPC process. Clients log in (`LoginUser`), subscribe to a
stream of events (`SubscribeToEvents`), put meetings ("markers") on a map, chat,
and upload images. Synchronous RPC handlers run on gRPC's thread pool; one
completion-queue thread (`MainEndpointImpl::m_event_senders`) runs everything
that belongs to the asynchronous event streams. State lives in memory
(`UserStorageImpl`, `User`, `UserInstance`, `FileManager`, `Mailer`), in MongoDB
(`DBMongo`) and in a folder of image files.

| Component | State | Operations | Talks to |
|---|---|---|---|
| `UserInstance` | `m_state` (atomic), `m_events`, `m_mtx`, the gRPC writer | `SendEvent`, `OnAsyncEventFinished`, `OnFinished` | called by `User` with `m_instances_mutex` held, and by the completion queue; calls `m_on_logoff` |
| `User`, `UserStorageImpl` | `m_users`, `m_instances`, `m_connected_devices`, `m_mtx`, `m_instances_mutex` | `LoginUser`, `OnNewEventsSubscriber`, `PostToAllUsers`, `PostEventToUser`, `PostEventToInstance`, both log-off callbacks, `GetUuidByAccessToken` | RPC handlers, completion queue, `DBMongo::GetUuidByAppId` |
| `CommonCallData`, the completion queue | armed call objects, tags of outstanding operations | `WaitForEventsSubscriptionAsync`, `OnAsyncEventFinished`, the loop `cq_routine` | gRPC, `UserStorageImpl` |
| Meetings and chats (`MainEndpointImpl` over `DBMongo`) | collections `markers` and `chats` | `AddMarker`, `GetAllMarkers`, `JoinChat`, `SendChatMessage`, `GetChatMessages`, `GetUserChats` | MongoDB; posts through `UserStorageImpl` |
| Accounts (`DBMongo`, `VerificationServiceImpl`) | collection of user documents | `LoginUser`, `UpdateInfo`, `GetUserInfo`, `UpdateVerifStatus`, `ValidatePhoto` | MongoDB, the AI service |
| `FileManager` and images | folder, `m_cache`, `image_ids` | `ManageImage`, `SaveFile`, `GetImages`, `GetFile`, `AddUserImage`, `AddMarkerImage` | disk, MongoDB |
| `Mailer` | `m_tokens` | `SendToken`, `VerifyToken` | SMTP through curl, `get_random_string` |
| `ConnectionPool` | free connections, condition variable | `AcquireConnection`, `ReleaseConnection` | `DBPostgres` |
| `DBPostgres`, `QueryManager` (a second back end; it leaves nine pure virtual functions of `DBInterface` unimplemented, so at this commit it is an abstract class that nothing can instantiate, and all that is said of it is dormant) | an open transaction per operation; the tables in PostgreSQL | `Check`, `RegisterUser`, `LoginUser`, `GetUserInfo`, `GetAllImagesUuid`, `AddMarker`, `GetAllMarkers`, `GetAllPushTokens` | `ConnectionPool`, PostgreSQL |
| `Server` | builds the others | `Start`: listen, then `PostConstruct` arms the first call | - |
| `PushSender`, tests | none, or constant after start | - | - |

What is hard here: two threads meeting on an atomic and a mutex that protect
different things (`UserInstance`); two mutexes taken in both orders by different
operations (`User`, `UserStorageImpl`); completion tags that are addresses of
vector elements which move; a login and a subscription that each do one half of
a match; handlers made of several MongoDB operations, any of which can fail;
files written without a lock while they are read; crashes between the steps of an
upload; timed waits; commits that throw after the server has committed. `PROJECT.json` lists these under "hazards", each at its line.

What makes each part correct:

- stream: one `Write` at a time; no event duplicated or lost; bounded reordering;
  silence after a failure;
- registry: each stream has one owner, tokens are unique, a device whose user is
  known gets attached, and only to a user who logged in with it (unless its strings
  are read from a destroyed call), log-offs find what they erase (unless a login
  moved the instance before its token was read), a call never changes hands, nobody
  waits for ever;
- meetings: a chat that a client learns of can be joined; a participant that
  has read the history misses no message, and what was delivered is in a history;
- accounts: a device whose login was answered OK stays known; who has logged in is
  never answered with an empty profile;
- images: a recorded image exists, settled files are complete, none is sent
  truncated;
- mailer: only a mailed token that was not superseded is accepted;
- pool: a connection has one user, nobody sleeps in front of a free one;
- PostgreSQL: what is answered is committed, no connection is put back inside a
  transaction, every call ends.

## 2. Modules

| Module | Models | Extended by |
|---|---|---|
| `EventChannel` | abstract specification of a stream: an unordered channel that closes for good | instantiated by `UserInstance` |
| `UserInstance` | `core/UserInstance.cpp` for one instance | `MCUserInstance`, `UserInstanceProofs` |
| `CallLifecycle` | abstract specification of a subscription: waiting, taken, parked, attached to one user, ended | instantiated by `UserStorage` |
| `UserStorage` | `core/UserStorageImpl.cpp`, `core/User.cpp`, `network/CommonCallData.cpp`, the completion queue and `LoginUser` of `network/MainEndpointImpl.cpp`, `Server::Start` | `MCUserStorage`, `UserStorageProofs` |
| `Meetings` | marker and chat handlers over `database/DBMongo.cpp` | `MCMeetings`, `MeetingsProofs` |
| `Accounts` | user documents of `DBMongo`, `VerificationServiceImpl` | `MCAccounts`, `AccountsProofs` |
| `Images` | `utils/FileManager.cpp` and the image handlers | `MCImages`, `ImagesProofs` |
| `Mailer` | `utils/Mailer.cpp`, `get_random_string` | `MCMailer`, `MailerProofs` |
| `ConnectionPool` | `database/ConnectionPool.cpp` and what its callers may do | `DBPostgres`, `ConnectionPoolProofs` |
| `DBPostgres` | `database/DBPostgres.cpp` and `QueryManager.cpp` over the pool | `MCDBPostgres`, `DBPostgresProofs` |

Conventions. A thread's position is `pc[t]`; a label is named after what the
thread does next. A step is an access to an atomic, a critical section that waits
for nothing, or one MongoDB or disk operation, the units in which the code can
really interleave. Where a thread waits for a second mutex while it holds the first,
both mutexes are explicit variables. Requests come from clients at any time.
An operator whose comment begins with "Mutant:" is a plausible mistake in the
definition that follows it; no specification uses it. Each property is shown to
notice one of them.

### UserInstance

`SendEventLoad` is the early return on `SHUTDOWN`, `SendEventExchange` the
`m_state.exchange(WRITING)`, `SendEventWrite` the direct `Write`, `SendEventPush`
the push under `m_mtx`. `NextOk` and `NextNotOk` are the completion queue
returning a tag; `FinishedLoad` .. `FinishedPop` are `OnAsyncEventFinished`,
`OnFinished` and the log-off follow a failure. The gRPC writer is external:
`Write` adds an outstanding operation whose tag comes back once, with `ok = false`
only when the client is gone. `posted` and `handed` are history. A destroyed
instance (`erased`) receives no more events, because the owning `User` no longer
iterates over it.

### UserStorage

An instance is named by the subscription call it owns. Its access token (`token`) is
the app id of the device, unless undefined behaviour makes it another string: an app
id or one of `Junk`, the strings that are none. Inside an instance only the
outstanding `Write` (`tag`) and a running `OnFinished` (`finishing`) are kept; the rest
is `UserInstance`.

Undefined behaviour becomes a choice over its outcomes (that it may also kill the
process is left out: then nothing happens any more):

- the tag of a `Write` is the address of a vector element. `erase` and a
  reallocating `emplace_back` move elements (`ahead`, `MovedByErase`, `Relocate`);
  a stale tag is delivered to any instance of that user or to nobody (`Targets`);
- `OnNewEventsSubscriber` reads `app_id` through a reference into a call that
  a failed `emplace` has destroyed. It reads it three times, once to find the user
  and once for each argument of `LoginUser`, and each read yields any string
  (`AppIdRead`, `LookupUser`). A device that is attached with such strings is in
  `misread`;
- `OnFinished` unlocks and then reads `m_on_logoff` and `m_access_token`
  (`UserInstance.cpp:83-85`). If a login has moved or destroyed the element meanwhile,
  the callback looks empty or gets any token (`WriteFailed`, `CallLogoff`,
  `CallLogoffMoved`);
- the log-off callback erases what `std::find_if` returned; `erase(end())` destroys the
  last element or nothing (`ErasedByLogoff`);
- `m_on_logoff` is assigned under `m_mtx` and tested without it: the test may
  fail when a login has just replaced it (`UserLogoffSkipped`).

`MainEndpointImpl` inherits `std::enable_shared_from_this` privately, so
`std::make_shared` does not initialise it and `weak_from_this().lock()` always
fails: the subscriber callback arms nothing, and only `PostConstruct` and
`LoginUser` do. `armed` counts the result. `Init` is the server after
`BuildAndStart`, when clients are served and nothing is armed yet; `PostConstruct` may
come late. `LoginUserFails` is a login whose MongoDB write took effect although the
driver threw: the device is known, the client was told otherwise, and a parked call
stays parked (`missed`, which also holds calls whose lookup failed).

`CallLifecycle` is what the registry promises about one call. The refinement mapping
`Place` reads the place of a call off gRPC's queue, the completion-queue thread, the
map of parked devices and the vectors of the users. A call leaves its user alone
(`Leave`: its client left or subscribed again) or together with all others of that
user (`End`: the log-off of the user).

### Meetings, Accounts

A MongoDB operation is one atomic step on one document. An operation that fails
throws; each module follows the handler of that exception (`CATCH_ALL` with its
empty result, or the failed RPC). A chat is created with its marker and so has its
name. `update_one` and `find_one` take any of the matching documents. A cursor
returns every document that was there when it was opened, and any of those
inserted later.

`AddMarker` of `DBMongo` answers two empty uuids when the creator is empty or any of its
three operations fails (`InsertMarkerFails`, `AddMarkerFails`), and the handler posts
`MARKER_ADDED` with them all the same (`PostMarker`): `announced` is a set of markers
with the chat that the event names, or none. A client can ask to join the chats that it
has been told of (`KnownChatJoinable`).

`unsaved` remembers the messages whose `SaveChatMessage` failed, which the handler
ignores; `DeliveredIsKept` is about all others. `GetChatMessagesFails` is the driver
error that the client sees as an empty history with an OK status; such a history does not
count as read in `NoMessageMissed`, and replaces one that was. `abandoned` holds the
messages whose sender could not read the participants.

`GetInfo` fails when `other_info` is not a string, and when the driver throws
(`GetInfoFails`); `GetUserInfo` has no handler for either. An insertion that MongoDB
applies after the driver has given up is not modelled in `Accounts`.

### Images, Mailer

Images are named by the SHA-256 of their content, so a file stands for its
content; what a file or a cache entry holds is absent, a part, or all. A crash
empties the memory and leaves the disk. `GetImages` reads its list of names first
(`list`), then takes each through `GetFile` and sends it; the list of one document is
any subset of the recorded names. The empty name, which a failed `SaveFile` returns
and `ManageImage` records, makes `GetFile` open the folder itself (`GetFolder`). A file
that exists may fail to open, for lack of descriptors for instance: `GetFile` then
returns an empty string that is not cached, and `GetImages` sends it as an image with
status OK; or reading it throws and the call ends (`ReadFails`).
`Mailer` draws any token of five digits, the same one twice included;
`rand_number` shows that the digit 9 is never drawn.

### ConnectionPool, DBPostgres

The five-second timeout of `wait_for` may fire at any time while a thread sleeps or
has just been notified. `DBPostgres` extends `ConnectionPool`: each of its actions is
an action of the pool or one inside the transaction of a thread that holds a
connection. Every operation of the code has the same frame (acquire, `pqxx::work`, one
statement, commit, read the result, destroy the work, destroy the wrapper), so the
frame is modelled once and an operation is the set of outcomes its statement can
have (`Check` .. `GetAllPushTokens`, `Queries`). The pool does not know what its
caller wants, so the operation is chosen at `Exec`. Inserted rows are kept in the
job until `Commit`. `CommitThrows` leaves open whether the server has committed.
Connections break at any time and stay broken. The stored procedures are not in the
repository: what they return is taken from how the code reads their results.

## 3. Runs

All state counts are of complete searches.

| Run | Bounds | States | What it shows |
|---|---|---|---|
| `stream` | 2 senders, 4 events | 18 690 | `OneOutstandingWrite`, `EachEventOnce`, `NoWriteAfterFailure`; an event is overtaken by at most one later event (`AtMostOneOvertake`); posting a later event gets every earlier one out (`OlderEventsHanded`); the stream implements `EventChannel` (`ImplementsChannel`) |
| `stream_stall` | same | - | violated: `EveryEventHanded` |
| `registry` | 2 handlers, 2 users, 2 app ids, 3 calls, 2 logins, 1 post | 595 934 | `OneOwner`, `TokenUnique`, `TokenOfLoggedIn`, `NoStrandedDevice`, `LogoffFindsInstance`, `NoEmptyUser` |
| `registry_live` | 1 handler, 2 users, 1 app id, 2 calls, 2 logins, 1 post | 73 812 | `OperationsEnd` (no deadlock between the two mutexes), `SubscriptionAfterLoginServed`; every call lives as `CallLifecycle` says (`ImplementsLifecycle`) |
| `registry_slots` | 1 user, 1 app id, 3 calls, 1 login | - | violated: `SubscriptionServed` |
| `registry_logoff` | 1 user, 1 app id, 2 calls, 2 logins | - | violated: `LogoffDeletesFinished` |
| `meetings` | 2 handlers, 2 users, 1 marker, 2 messages | 1 143 037 | `KnownChatJoinable`, `NoMessageMissed`, `DeliveredIsKept` |
| `map_listed` | 2 handlers, 1 user, 2 markers | - | violated: `AnnouncedMarkerListed` |
| `accounts` | 2 handlers, 1 user, 2 devices, 3 documents | 5 203 | `DeviceRemembered`, `DuplicatesBounded`, `NoEmptyProfile` |
| `images` | 3 handlers, 2 files, 1 crash | 862 228 | `RecordedImageExists`, `SettledFileComplete`, `CacheNeverDegrades`, `SentImageNotTruncated` |
| `mailer` | 2 handlers, 2 addresses, 2 tokens | 7 269 | `StoredTokenMailed`, `SupersededTokenRefused` |
| `pool` | 2 threads, up to 2 connections, 1 name | 33 192 | `ConnectionExclusive`, `NoLostWakeUp`, `TransactionsOwned`, `AckedIsCommitted`, `CallsEnd` |

Why the bounds are enough for what they are used for. The invariants, the safety
action properties and the refinements are proved for all sizes (section 5); for them
the runs show that the model reaches the interesting cases, and that the properties
notice a mistake. For liveness and for the findings the runs are all there is.

- `stream`: a second sender can only wait for `m_instances_mutex`, so two show every
  race; four events allow one in flight, one queued and two that would have to
  overtake.
- `registry`: three calls give a stream, its reconnection and a neighbour in the
  same vector whose address moves; two logins, either of which may fail half way, let
  one happen before and one after a log-off; one post is enough for a `Write` whose
  tag goes stale. Two users make a post visit several and let one app id belong to
  both. `Junk` holds the empty string only: nothing is compared with another string that
  is no app id, so one stands for all.
- `registry_live`: the threads that wait for each other's mutexes are a handler inside
  a login or a post and the completion-queue thread inside a subscription or a
  log-off; two calls and two logins let each of them come first. It uses no symmetry,
  which would be unsound for liveness.
- `meetings`: the properties speak of one marker, one user and one message at a
  time; the second user is the one who joins a chat created by the other, the
  second message arrives after the history was read.
- `accounts`: one document more than two overlapping first logins can insert, so
  that `DuplicatesBounded` is not a consequence of the bound.
- `images`: two writers of one file and a reader.
- `pool`: the constructor may have opened two connections, so that two transactions
  overlap, or one or none, so that a thread waits, is woken or times out. No symmetry,
  because of `CallsEnd`.

Symmetry sets contain only constants that no definition tells apart, and are used
only with invariants and action properties.

`CHECK_DEADLOCK FALSE` is set where the system may really stop: in the stream and
registry runs (clients may stop calling, and the bounds on logins, posts and events
run out), and in `pool` (after `std::terminate` nothing moves). All other runs
check for deadlock.

Fairness. `UserInstance` and `UserStorage` assume weak fairness of each RPC
handler's steps inside an operation and of the completion-queue thread: the
operating system schedules every thread, `cq_routine` loops for ever and a gRPC
operation ends. Nothing obliges a client to log in, to post, to subscribe or to
disconnect. `PostConstruct` is fair because the main thread calls it right after
`BuildAndStart`. `DBPostgres` assumes weak fairness of the steps of a thread inside an
operation, of the clock of `wait_for` and of the dereference of what
`AcquireConnection` returned; that a call comes, that a connection breaks and that a
wait ends early are not assumed. `std::mutex` is not fair, but the number of requests is bounded, so
weak fairness is enough for a waiting thread to get in. The other modules state
only safety and assume no fairness.

## 4. Findings

1. `stream_stall`. `SendEvent` chooses the queue by `m_state.exchange`
   (`UserInstance.cpp:52`) before it takes `m_mtx`. If `OnAsyncEventFinished`
   sees the queue empty and stores `IDLE` in between, the event is queued on an idle
   stream and stays there until another event is posted. `OlderEventsHanded` and
   `AtMostOneOvertake` give the limits of the damage.
2. `registry_slots`. A client that subscribes again without logging in waits for
   ever, because nothing arms another `CommonCallData`
   (`MainEndpointImpl.cpp:337`). `SubscriptionAfterLoginServed` says when
   subscriptions are taken.
3. `registry_logoff`. The log-off callback looks for the token after it has waited
   for `m_instances_mutex` (`User.cpp:58`); if the device has reconnected, the
   new stream is destroyed and not the finished one.
4. `map_listed`. A marker whose `chat_id` is not written yet, or never will be
   after a failure, makes `GetAllMarkers` return nothing at all (`DBMongo.cpp:264`).

Noted while reading, and in the models, but not the subject of a run:

- `UpdateInfo` stores `other_info` as a document (`DBMongo.cpp:328`) and
  `GetUserInfo` reads it with `get_utf8` (`DBMongo.cpp:118`), which throws: after one
  `UpdateInfo`, `GetInfo` about the user fails. `NoEmptyProfile` accepts a failed RPC.
- A failed `AddMarker` is announced to everybody as a marker with empty uuids
  (`MainEndpointImpl.cpp:164-171`), which nobody can join.
- A failed `GetChatMessages` (`DBMongo.cpp:402`) is answered like an empty chat, with
  status OK: the client cannot tell that it misses every message.
- A file that `GetFile` cannot open (`FileManager.cpp:70-74`) is sent as an empty image
  with status OK.
- A second subscription with an app id that is parked destroys the new call, whose
  `app_id` is then read three more times (`UserStorageImpl.cpp:61-65`): what it reads can
  attach a parked device to a user who never logged in with it.
- A log-off that reads the token of an instance that a login has just moved
  (`UserInstance.cpp:84-85`) can look for a token that is not there; `erase(end())`
  (`User.cpp:61`) is logged and executed.
- `ValidatePhoto` passes the app id where `UpdateVerifStatus` filters by e-mail
  (`VerificationServiceImpl.cpp:42`, `DBMongo.cpp:299`): the result reaches nobody.
- `AddUserImage` finds the user by e-mail, `GetAllImagesUuid` by object id
  (`DBMongo.cpp:162`): with the uuid that the server hands out, `bsoncxx::oid` throws
  out of `GetImages`. A user's images cannot be listed.
- After one failed `SaveFile` the empty name is in `image_ids`, and on Linux every
  later `GetImages` of that target fails when it reads the folder as a file.
- `JoinChat` of a client without a stream adds "" to the participants and answers OK.
- A failed mail leaks a curl handle and its recipients (`Mailer.cpp:139`).
- A PostgreSQL connection that lost its server is put back and never replaced.
- A stale write tag, or a login between `m_instances.empty()` (`User.cpp:64`) and
  `m_users.erase`, ends the stream of a device that is still connected.
- A file cut short by a crash keeps the name of its full content and is never
  repaired (`torn` in `Images`).
- `ConnectionWrapper::operator*` of an empty wrapper executes `throw;` without an
  exception, which terminates the process (`terminated` in `ConnectionPool`).

## 5. Proofs

Each component has a module of proofs that extends its model. The constants are
arbitrary sets with the named assumptions of the model: that the null values
(`NoThread`, `NoCall`, ...) are not in the sets, that handlers and the
completion-queue thread differ, and, where something is counted, that the set of
threads or connections is finite. The bounds on logins, posts and crashes are
arbitrary natural numbers, so they limit no proof.

Every module follows one plan. An inductive invariant is the conjunction of the
type invariant, the properties, and parts that track what each thread works on at
its position. One lemma per handler or step shows that it keeps the invariant; a
theorem `Spec => []Inv` collects them; each property of a run follows from it. All
inductive invariants were checked with TLC before they were proved.

### UserInstanceProofs

- `Invariance`: `IInv == TypeOK /\ LocksHeld /\ WriterExclusive`.
  `OneOutstandingWrite` alone is not inductive: a state with a `Write` outstanding and
  `m_state = IDLE` would let the next sender write again. `WriterExclusive` says that
  gRPC, a sender that found `IDLE`, and the completion-queue thread inside
  `OnAsyncEventFinished` exclude each other, that none of them exists after a failure,
  and that `m_state` is `IDLE` only when there is none. `LocksHeld` ties the positions
  of the threads to the mutexes, so that two senders are never inside `SendEvent`
  together and the queue that is popped is not empty.
- `TypeCorrect`, `WriteSerialised`, `FailureIsFinal`: `TypeOK`,
  `OneOutstandingWrite` and the action property `NoWriteAfterFailure`, from `IInv`.
- `EventsOnce`: `EachEventOnce`, inductive together with `EventsTracked` (idle
  senders hold nothing, `SHUTDOWN` implies a failure, only posted events exist).
- `OvertakeBounded`: `AtMostOneOvertake`, from `OrderInv`. The queue keeps the order of
  posting (`OrderKept`). An idle stream has at most one event queued or about to be
  queued (`IdleQueue`): the race of finding 1 strands one event, and the next sender
  finds `IDLE` and writes past it. From then on the stream is busy, so the overtaken
  event is the front of the queue and the next one to be popped (`OvertakenIsNext`);
  nothing overtakes it again (`OneOvertaker`).
- `Refinement`: `Spec => ImplementsChannel`. `pending` is what is queued or in a
  sender's hands, `sent` is `handed`, `busy` is an outstanding `Write`, `open` is
  "not failed". `EventChannel` has no fairness, so this is a safety refinement.

### UserStorageProofs

`RegistryInvariance`: `Spec => []RegistryInv`. Besides the properties it needs

- `ThreadsTracked`: who logs in is known to MongoDB with that app id, and looks for the
  token that is the app id, which is what makes `TokenOfLoggedIn` true after
  `emplace_back`. On the completion-queue thread this holds only while the device it finds
  is its own, since otherwise the strings may come from a destroyed call;
- `LocksTracked`: `m_mtx` is held exactly between `login_wait` and the end of a login
  and while a post visits; an `m_instances_mutex` is held at `login_emplace`. So no
  two logins interleave, and no log-off erases between the two halves of a login;
- `CallsTracked` and `OneOwner`: a call is in one of gRPC's queue, the hands of the
  completion-queue thread, the map of devices, and one vector; a tag that is exact
  names an instance of its owner, which is what a log-off looks for;
- `TokensTracked`: an instance has the app id of its device as token, and its user
  logged in with it, or it is in `misread`; the instance with the same token is gone
  when a login emplaces;
- `LogoffTracked`: `OnFinished` runs for a registered user, and `finishing` is an instance
  of that user: the vector keeps it until a login moves it, which resets `finishing`;
- `LoginsTracked`: who attaches has found the parked device, and its user exists
  (`m_users.erase` needs `m_mtx`);
- `DevicesTracked`: sharper than `NoStrandedDevice`. It names the very call that the
  completion-queue thread looks up; otherwise a second subscription with the same app
  id could stand in for a device that nobody will attach.

`RegistryTypes`, `CallHasOneOwner`, `TokensUnique`, `TokensOfLoggedIn`, `NoneStranded`,
`LogoffFinds` and `NoneEmpty` are the invariants of the run. `LogoffErases` is the
action property `LogoffErasesInstance`: when the log-off callback erases what
`std::find_if` returned (`User.cpp:61`), which is logged but not guarded, it is not
`end()`, unless a login moved the instance before `OnFinished` had read its token. The
race after the token was read is harmless: a login erases an instance only to put
another with the same token in its place under the same lock.

`LifecycleRefinement`: `Spec => ImplementsLifecycle`. One lemma for each kind of
abstract step (`Move`, `Attach`, `Leave`, `End`, stuttering) says what it takes for a
step of the registry to map to it, and each action is an instance of one of them.
`OneOwner` makes `Place` well defined; an erase maps to `Leave` or to stuttering because
by `TokenUnique`, and by what `erase(end())` can do, it destroys at most one instance
(`ErasedFacts`).

### MeetingsProofs

`MeetingsInvariance`. `ChatsTracked` follows the three writes of `AddMarker`: `chat_id`
is set only after the marker and its chat exist, and a marker without `chat_id` is
listed nowhere and announced without a chat, hence `ChatsJoinable`
(`KnownChatJoinable`). `SendsTracked`
says that a message in flight belongs to one handler and one chat, and that the history
of that chat has it, or its save failed, before the participants are read. With
`ReadersTracked` (a reader of the history is a participant and online) this gives
`NothingMissed` (`NoMessageMissed`) and `DeliveredKept` (`DeliveredIsKept`): who reads
the history before the save is a participant when the list is read, and who reads it
later finds the message there. The exceptions are those of the code: a sender that could
not read the participants, and a history that was answered empty after a driver error.

### AccountsProofs

`AccountsInvariance`. `LoginsTracked` says that a login that has written left its app id
in a document of its user, and documents are never deleted (`DevicesRemembered`).
`FewDuplicates` counts: `InsertsBounded` adds the documents of a user and the handlers
that are about to insert one. A handler joins these only while there is no document, and an
insertion moves one from the second number to the first, so the sum never exceeds the
number of handlers, which must be finite. `ProfileNotEmpty` is the action property
`NoEmptyProfile`: the document that `LoginsTracked` promises is there when `GetInfo` looks
for it, so the answer is the info or an error.

### ImagesProofs

`ImagesInvariance`. `RequestsTracked` gives `RecordedExist`; `DiskTracked` (an
incomplete file is being written or is torn by a crash) gives `SettledComplete` and
`SentNotTruncated` (an image sent empty was not read at all). `CacheTracked` is what `SettledFileComplete` lacks: a reader that holds
an incomplete copy either finds the complete one in the cache when it searches again,
or is ahead of a writer that has not put it there yet. `CacheKept` is
`CacheNeverDegrades`. All of it holds across any number of crashes.

### MailerProofs

`MailerInvariance`. A request reaches the store only after its mail went out, and
what it will supersede has been stored before (`RequestsTracked`); the current token
was mailed and is not stale (`CurrentToken`). `VerifiedWasMailed` and
`SupersededRefused` follow from what `VerifyToken` compares.

### ConnectionPoolProofs, DBPostgresProofs

- `PoolExclusive`: `ConnectionExclusive`, from `PoolInv == TypeOK /\
  ConnectionExclusive`.
- `WakeUpsKept`: `NoLostWakeUp`. The formula is inductive together with `PoolInv`: a
  release adds a free connection and a notifier, a notifier becomes a waiter that is
  awake, and whoever takes a connection takes at most itself from those awake.
  `ConnectionExclusive` is needed for the release to add exactly one. The counting
  uses the cardinality theorems of the library; threads and connections are finite.
- `DBInvariance`: `DBInv == PoolInv /\ DBTypeOK /\ TransactionsOwned /\
  AckedIsCommitted`. Each step of `DBPostgres` is one of the pool or leaves it alone (lemma
  `PoolSteps`), so `PoolInv` carries over. `PoolInv` is needed because a thread that begins a transaction
  must hold a real connection. The argument for `TransactionsOwned`: the thread that
  owns a transaction is "using", no step of another thread moves it, and its own
  release requires that its work is destroyed.
- `DBTypes`, `TransactionsEnded`, `AnswersCommitted`: the three properties.

### Only model-checked

Liveness: `OlderEventsHanded`, `OperationsEnd`, `SubscriptionAfterLoginServed`,
`CallsEnd`. Fairness and `ENABLED` are beyond the proof system. The four findings
are counterexamples, which TLC finds and nothing has to be proved about.

## 6. Not modelled

- `GetUuidByAccessToken`, `GetUserChats`, `VerifyToken` and other pure reads have no
  action of their own; they take the same locks as the posts, or none. They are
  operators, and properties use them.
- `DBMongo::Check`, `RegisterUser` and `GetAllPushTokens` return `{}`, as do
  `UpdateInfo` and `UpdateVerifStatus` of `DBPostgres`; `SendPushToken` only logs and
  `PushSender` has a constructor only; `IsOnline` answers false.
- `FileManager::AddFileToCache`, `DBMongo::GetMarkerInfo` and `generate_uuid_v4` are
  called nowhere, and `markers_routing` of `MainEndpointImpl` is never started.
- `CommonCallData::OnFinished` runs only when the completion queue is shut down,
  and the server never does that.
- Names, texts, timestamps, coordinates, pictures, the JWT of a login and the wording
  of mails and SQL are left out or are model values.
- `main.cpp` starts the server and logs what it throws; the rest of it is commented
  out. `tests/tests.cpp` is a client that asserts nothing.

## 7. Plan

Done: the models of every component with state of its own, their runs, the two
abstract specifications, and the proofs of every invariant, safety action property
and refinement that a run checks. Left:

1. action properties in the style of `LogoffErases`, where an invariant implies that
   an untested access of the code is safe;
2. a composition of `UserStorage` with one `UserInstance` per call, to state the
   bounded reordering from the post to the client of a device that reconnects.
