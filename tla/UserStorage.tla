---------------------------- MODULE UserStorage ----------------------------
(***************************************************************************)
(* The registry of subscribed devices: UserStorageImpl and User            *)
(* (core/), the call objects of CommonCallData and the parts of            *)
(* MainEndpointImpl that drive them (network/).                            *)
(*                                                                         *)
(* A client calls SubscribeToEvents with its app id; the call is matched   *)
(* with a CommonCallData that the server armed, and the completion-queue   *)
(* thread parks it in m_connected_devices and, when MongoDB knows a user   *)
(* of that app id, attaches it to the user.  LoginUser, on an RPC handler  *)
(* thread, records the app id in MongoDB and attaches a parked call.       *)
(* Both pass the app id as access token; an instance is named by its call. *)
(*                                                                         *)
(* m_mtx and every m_instances_mutex are explicit: LoginUser and the posts *)
(* wait for the second while they hold the first.  A critical section that *)
(* waits for nothing is one step.  What SendEvent does inside an instance  *)
(* is module UserInstance; here an instance has a Write outstanding or not.*)
(***************************************************************************)
EXTENDS Naturals, FiniteSets

CONSTANTS
    Users,      \* user uuids
    Apps,       \* app ids, also used as access tokens
    Calls,      \* SubscribeToEvents calls; each is made at most once
    Handlers,   \* RPC handler threads
    CqThread,   \* the thread of MainEndpointImpl::m_event_senders
    Junk,       \* strings that are no app id, the empty one included
    NoThread, NoUser, NoApp, NoCall,
    MaxLogins,  \* bound: LoginUser RPCs that write to MongoDB
    MaxPosts    \* bound: RPCs that post an event

ASSUME RegistryAssumption ==
    /\ CqThread \notin Handlers
    /\ NoThread \notin Handlers \cup {CqThread}
    /\ NoUser \notin Users
    /\ NoApp \in Junk
    /\ Junk \cap Apps = {}
    /\ NoCall \notin Calls
    /\ MaxLogins \in Nat
    /\ MaxPosts \in Nat

VARIABLES
    m_connected_devices, \* UserStorageImpl: app id -> parked call
    m_users,             \* UserStorageImpl: the keys of m_users
    m_instances,         \* User: the calls in the vector m_instances
    m_mtx,               \* holder of UserStorageImpl::m_mtx
    m_instances_mutex,   \* holder of each User::m_instances_mutex
    ahead,               \* the instances in front of a call in its vector
    app_ids,             \* MongoDB: user -> set of app ids
    pc,                  \* where each thread is
    arg,                 \* what each thread works on
    visiting,            \* users a posting handler has still to visit
    armed,               \* gRPC: CommonCallData waiting for a subscriber
    app,                 \* gRPC: the app id in the request of a call
    waiting,             \* gRPC: calls not matched with a CommonCallData
    connected,           \* gRPC: calls neither cancelled nor destroyed
    tag,                 \* gRPC: the tag of the outstanding Write of a call
    finishing,           \* the instance in OnFinished, while it stays in place
    owner,               \* the user whose instance a call became
    token,               \* UserInstance::m_access_token of each call
    misread,             \* calls attached with strings of a destroyed call
    missed,              \* parked calls that a failed MongoDB operation left
    constructed,         \* Server::Start has called PostConstruct
    logins, failures,    \* bounded counters: LoginUser RPCs answered OK,
    posts                \* those that failed after the write, and posts

attached == <<ahead, owner, token, misread>>
registry == <<m_connected_devices, m_users, m_instances, attached>>
locks    == <<m_mtx, m_instances_mutex>>
pins     == <<tag, finishing>>   \* what holds the address of an instance
grpc     == <<armed, app, waiting, connected, pins>>
progress == <<constructed, logins, failures, posts>>

vars == <<registry, locks, app_ids, pc, arg, visiting, grpc, missed,
          progress>>

Threads == Handlers \cup {CqThread}

LoginLabels == {"login_lock", "login_wait", "login_emplace"}

HandlerLabels == LoginLabels \cup {"idle", "rearm", "visit"}

CqLabels == LoginLabels \cup {"idle", "sub_emplace", "sub_lookup", "finished",
                              "logoff", "check_empty", "user_logoff"}

(* What can be passed as an app id or an access token.                     *)
Tokens == Apps \cup Junk

Job(u, a, c) == [user |-> u, app |-> a, token |-> a, call |-> c]

Goto(t, label) == pc' = [pc EXCEPT ![t] = label]

WorkOn(t, u, a, c) == arg' = [arg EXCEPT ![t] = Job(u, a, c)]

Drop(t) == WorkOn(t, NoUser, NoApp, NoCall)

Return(t) == Goto(t, "idle") /\ Drop(t)

-----------------------------------------------------------------------------
(* Server::Start has built the parts, and the completion-queue thread runs.*)
(* BuildAndStart has returned: clients are served, but nothing is armed.   *)
Init ==
    /\ m_connected_devices = [a \in Apps |-> NoCall]
    /\ m_users = {}
    /\ m_instances = [u \in Users |-> {}]
    /\ m_mtx = NoThread
    /\ m_instances_mutex = [u \in Users |-> NoThread]
    /\ ahead = [c \in Calls |-> {}]
    /\ app_ids = [u \in Users |-> {}]
    /\ pc = [t \in Threads |-> "idle"]
    /\ arg = [t \in Threads |-> Job(NoUser, NoApp, NoCall)]
    /\ visiting = [h \in Handlers |-> {}]
    /\ armed = 0
    /\ app = [c \in Calls |-> NoApp]
    /\ waiting = {}
    /\ connected = {}
    /\ tag = [c \in Calls |-> "none"]
    /\ finishing = NoCall
    /\ owner = [c \in Calls |-> NoUser]
    /\ token = [c \in Calls |-> NoApp]
    /\ misread = {}
    /\ missed = {}
    /\ constructed = FALSE
    /\ logins = 0
    /\ failures = 0
    /\ posts = 0

(* The main thread arms the first CommonCallData after the server has      *)
(* begun to listen, then waits for ever.                                   *)
PostConstruct ==
    /\ ~constructed
    /\ constructed' = TRUE
    /\ armed' = armed + 1
    /\ UNCHANGED <<registry, locks, app_ids, pc, arg, visiting, app, waiting,
                   connected, pins, missed, logins, failures, posts>>

-----------------------------------------------------------------------------
(* Clients.                                                                *)

Subscribe(c, a) ==
    /\ app[c] = NoApp
    /\ app' = [app EXCEPT ![c] = a]
    /\ waiting' = waiting \cup {c}
    /\ connected' = connected \cup {c}
    /\ UNCHANGED <<registry, locks, app_ids, pc, arg, visiting, armed, pins,
                   missed, progress>>

Disconnect(c) ==
    /\ c \in connected
    /\ connected' = connected \ {c}
    /\ UNCHANGED <<registry, locks, app_ids, pc, arg, visiting, armed, app,
                   waiting, pins, missed, progress>>

-----------------------------------------------------------------------------
(* The tag of a Write is the address of its UserInstance, an element of    *)
(* the vector m_instances.  When the element is erased or moved while the  *)
(* Write is outstanding, the tag no longer names it; the same happens to   *)
(* the this of an OnFinished that is running.                              *)

Relocate(moved) ==
    /\ tag' = [c \in Calls |-> IF c \in moved /\ tag[c] = "exact" THEN "moved"
                                                               ELSE tag[c]]
    /\ finishing' = IF finishing \in moved THEN NoCall ELSE finishing

(* vector::erase destroys one element and moves down those behind it.      *)
MovedByErase(u, gone) ==
    gone \cup {c \in m_instances[u] : gone \cap ahead[c] # {}}

(* Instances destroyed: their calls end with them.                         *)
Erase(u, gone) ==
    /\ m_instances' = [m_instances EXCEPT ![u] = @ \ gone]
    /\ Relocate(MovedByErase(u, gone))
    /\ connected' = connected \ gone

(* The instances that a completed Write of c may be delivered to.  A stale *)
(* tag is undefined behaviour: it reaches whatever lies at the address.    *)
Targets(c) ==
    IF tag[c] = "exact" THEN {c} ELSE m_instances[owner[c]] \cup {NoCall}

-----------------------------------------------------------------------------
(* UserStorageImpl::LoginUser(user, token, app), on any thread t.          *)

(* m_connected_devices.find                                                *)
Device(a) == IF a \in Apps THEN m_connected_devices[a] ELSE NoCall

(* Where LoginUser returns to: the end of OnNewEventsSubscriber, or the    *)
(* last statement of MainEndpointImpl::LoginUser.                          *)
ReturnFromLogin(t) ==
    /\ Goto(t, IF t = CqThread THEN "idle" ELSE "rearm")
    /\ Drop(t)

(* Mutant: only a user that is not registered yet gets the instance.       *)
LoginLockNewUserOnly(t) ==
    /\ pc[t] = "login_lock"
    /\ m_mtx = NoThread
    /\ IF Device(arg[t].app) = NoCall \/ arg[t].user \in m_users
       THEN /\ ReturnFromLogin(t)
            /\ UNCHANGED <<m_mtx, m_users>>
       ELSE /\ Goto(t, "login_wait")
            /\ m_mtx' = t
            /\ m_users' = m_users \cup {arg[t].user}
            /\ UNCHANGED arg
    /\ UNCHANGED <<m_connected_devices, m_instances, attached,
                   m_instances_mutex, app_ids, visiting, grpc,
                   missed, progress>>

(* Lock m_mtx and look for the device; if there is none, return.  If there *)
(* is one, make sure the user exists and call LoginNewInstance.            *)
LoginLock(t) ==
    /\ pc[t] = "login_lock"
    /\ m_mtx = NoThread
    /\ IF Device(arg[t].app) = NoCall
       THEN /\ ReturnFromLogin(t)
            /\ UNCHANGED <<m_mtx, m_users>>
       ELSE /\ Goto(t, "login_wait")
            /\ m_mtx' = t
            /\ m_users' = m_users \cup {arg[t].user}
            /\ UNCHANGED arg
    /\ UNCHANGED <<m_connected_devices, m_instances, attached,
                   m_instances_mutex, app_ids, visiting, grpc,
                   missed, progress>>

(* Mutant: no instance is found for the token.                             *)
NoneWithToken(u, a) == {}

(* std::find_if over m_instances by access token.                          *)
SameToken(u, a) == {c \in m_instances[u] : token[c] = a}

(* Mutant: LoginNewInstance returns once it has deleted the old instance.  *)
LoginEraseAndReturn(t) ==
    LET u == arg[t].user
        old == SameToken(u, arg[t].token)
    IN  /\ pc[t] = "login_wait"
        /\ m_instances_mutex[u] = NoThread
        /\ Erase(u, old)
        /\ IF old = {}
           THEN /\ m_instances_mutex' = [m_instances_mutex EXCEPT ![u] = t]
                /\ Goto(t, "login_emplace")
                /\ UNCHANGED <<m_mtx, arg>>
           ELSE /\ m_mtx' = NoThread
                /\ ReturnFromLogin(t)
                /\ UNCHANGED m_instances_mutex
        /\ UNCHANGED <<m_connected_devices, m_users, attached, app_ids,
                       visiting, armed, app, waiting, missed, progress>>

(* LoginNewInstance: lock m_instances_mutex and erase the instance that    *)
(* already has the token, which destroys its call.                         *)
LoginEraseSameToken(t) ==
    LET u == arg[t].user
    IN  /\ pc[t] = "login_wait"
        /\ m_instances_mutex[u] = NoThread
        /\ m_instances_mutex' = [m_instances_mutex EXCEPT ![u] = t]
        /\ Erase(u, SameToken(u, arg[t].token))
        /\ Goto(t, "login_emplace")
        /\ UNCHANGED <<m_connected_devices, m_users, attached, m_mtx,
                       app_ids, arg, visiting, armed, app, waiting,
                       missed, progress>>

(* emplace_back, which may reallocate the vector and so move every         *)
(* element; back in LoginUser the device becomes left.                     *)
EmplaceInstance(t, c, left) ==
    LET u == arg[t].user
    IN  /\ pc[t] = "login_emplace"
        /\ ahead' = [ahead EXCEPT ![c] = m_instances[u]]
        /\ m_instances' = [m_instances EXCEPT ![u] = @ \cup {c}]
        /\ owner' = [owner EXCEPT ![c] = u]
        /\ token' = [token EXCEPT ![c] = arg[t].token]
        /\ misread' = IF t = CqThread /\ c # arg[t].call THEN misread \cup {c}
                                                        ELSE misread
        /\ m_connected_devices' =
               [m_connected_devices EXCEPT ![arg[t].app] = left]
        /\ UNCHANGED pins \/ Relocate(m_instances[u])
        /\ m_instances_mutex' = [m_instances_mutex EXCEPT ![u] = NoThread]
        /\ m_mtx' = NoThread
        /\ ReturnFromLogin(t)
        /\ UNCHANGED <<m_users, app_ids, visiting, armed, app, waiting,
                       connected, missed, progress>>

(* Mutant: the device stays in m_connected_devices.                        *)
LoginKeepDevice(t) ==
    LET c == m_connected_devices[arg[t].app] IN EmplaceInstance(t, c, c)

(* Mutant: the first parked device is taken, not the one that was found.   *)
LoginAnyDevice(t) ==
    \E a \in Apps :
        /\ m_connected_devices[a] # NoCall
        /\ EmplaceInstance(t, m_connected_devices[a], NoCall)

(* The parked device becomes an instance and is erased from                *)
(* m_connected_devices.                                                    *)
LoginEmplace(t) == EmplaceInstance(t, m_connected_devices[arg[t].app], NoCall)

StorageLoginUser(t) ==
    \/ LoginLock(t)
    \/ LoginEraseSameToken(t)
    \/ LoginEmplace(t)

-----------------------------------------------------------------------------
(* RPC handlers.                                                           *)

(* MainEndpointImpl::LoginUser: m_db->LoginUser adds the app id to the     *)
(* user.                                                                   *)
LoginUser(h, u, a) ==
    /\ pc[h] = "idle"
    /\ logins + failures < MaxLogins
    /\ logins' = logins + 1
    /\ app_ids' = [app_ids EXCEPT ![u] = @ \cup {a}]
    /\ WorkOn(h, u, a, NoCall)
    /\ Goto(h, "login_lock")
    /\ UNCHANGED <<registry, locks, visiting, grpc, missed, constructed,
                   failures, posts>>

(* When it does not return OK the RPC ends; but the driver may have thrown *)
(* after the app id was written, and a parked device is left parked.       *)
LoginUserFails(h, u, a) ==
    /\ pc[h] = "idle"
    /\ logins + failures < MaxLogins
    /\ failures' = failures + 1
    /\ app_ids' = [app_ids EXCEPT ![u] = @ \cup {a}]
    /\ missed' = missed \cup ({m_connected_devices[a]} \ {NoCall})
    /\ UNCHANGED <<registry, locks, pc, arg, visiting, grpc, constructed,
                   logins, posts>>

(* Mutant: LoginUser returns without arming another CommonCallData.        *)
LoginNoRearm(h) ==
    /\ pc[h] = "rearm"
    /\ Goto(h, "idle")
    /\ UNCHANGED <<registry, locks, app_ids, arg, visiting, grpc,
                   missed, progress>>

(* The end of LoginUser: WaitForEventsSubscriptionAsync, on every OK path. *)
WaitForEventsSubscriptionAsync(h) ==
    /\ pc[h] = "rearm"
    /\ armed' = armed + 1
    /\ Goto(h, "idle")
    /\ UNCHANGED <<registry, locks, app_ids, arg, visiting, app, waiting,
                   connected, pins, missed, progress>>

(* PostToAllUsers (to = m_users), PostEventToUser and PostEventToInstance  *)
(* (to = {user}, if registered): m_mtx is held while the users are visited;*)
(* NoApp stands for "all instances".                                       *)
StartPost(h, to, a) ==
    /\ pc[h] = "idle"
    /\ posts < MaxPosts
    /\ posts' = posts + 1
    /\ m_mtx = NoThread
    /\ m_mtx' = h
    /\ visiting' = [visiting EXCEPT ![h] = to \cap m_users]
    /\ WorkOn(h, NoUser, a, NoCall)
    /\ Goto(h, "visit")
    /\ UNCHANGED <<registry, m_instances_mutex, app_ids, grpc, missed,
                   constructed, logins, failures>>

PostToAllUsers(h) == StartPost(h, Users, NoApp)

PostEventToUser(h, u) == StartPost(h, {u}, NoApp)

PostEventToInstance(h, u, a) == StartPost(h, {u}, a)

(* SendEvent on c writes unless a Write is outstanding or OnFinished has   *)
(* shut the instance down.                                                 *)
Writes(c) ==
    /\ tag[c] = "none"
    /\ ~(pc[CqThread] \in {"finished", "logoff"} /\ arg[CqThread].call = c)

(* User::PostEvent and User::PostEventToInstance, under m_instances_mutex. *)
PostEvent(h, u) ==
    LET to == IF arg[h].app = NoApp THEN m_instances[u]
                                    ELSE SameToken(u, arg[h].app)
    IN  /\ pc[h] = "visit"
        /\ u \in visiting[h]
        /\ m_instances_mutex[u] = NoThread
        /\ tag' = [c \in Calls |-> IF c \in to /\ Writes(c) THEN "exact"
                                                            ELSE tag[c]]
        /\ visiting' = [visiting EXCEPT ![h] = @ \ {u}]
        /\ UNCHANGED <<registry, locks, app_ids, pc, arg, armed, app, waiting,
                       connected, finishing, missed, progress>>

EndPost(h) ==
    /\ pc[h] = "visit"
    /\ visiting[h] = {}
    /\ m_mtx' = NoThread
    /\ Return(h)
    /\ UNCHANGED <<registry, m_instances_mutex, app_ids, visiting, grpc,
                   missed, progress>>

Request(h) ==
    \/ \E u \in Users, a \in Apps :
           LoginUser(h, u, a) \/ LoginUserFails(h, u, a)
    \/ PostToAllUsers(h)
    \/ \E u \in Users : PostEventToUser(h, u)
    \/ \E u \in Users, a \in Apps : PostEventToInstance(h, u, a)

HandlerStep(h) ==
    \/ StorageLoginUser(h)
    \/ WaitForEventsSubscriptionAsync(h)
    \/ \E u \in Users : PostEvent(h, u)
    \/ EndPost(h)

-----------------------------------------------------------------------------
(* The completion-queue thread: subscriptions.                             *)

(* The tag of a CommonCallData comes back: a call was matched with it.     *)
(* CommonCallData::OnAsyncEventFinished calls OnNewEventsSubscriber.       *)
NewSubscriber(c) ==
    /\ pc[CqThread] = "idle"
    /\ armed > 0
    /\ c \in waiting
    /\ armed' = armed - 1
    /\ waiting' = waiting \ {c}
    /\ WorkOn(CqThread, NoUser, app[c], c)
    /\ Goto(CqThread, "sub_emplace")
    /\ UNCHANGED <<registry, locks, app_ids, visiting, app, connected, pins,
                   missed, progress>>

(* Mutant: m_connected_devices[app_id] = std::move(data).                  *)
AssignDevice ==
    LET a == arg[CqThread].app
        c == arg[CqThread].call
    IN  /\ pc[CqThread] = "sub_emplace"
        /\ m_mtx = NoThread
        /\ m_connected_devices' = [m_connected_devices EXCEPT ![a] = c]
        /\ connected' = connected \ {m_connected_devices[a]}
        /\ Goto(CqThread, "sub_lookup")
        /\ UNCHANGED <<m_users, m_instances, attached, locks, app_ids, arg,
                       visiting, armed, app, waiting, pins, missed,
                       progress>>

(* Under m_mtx, m_connected_devices.emplace.  An app id that is already    *)
(* there keeps its old call; the new one dies with its CommonCallData.     *)
EmplaceDevice ==
    LET a == arg[CqThread].app
        c == arg[CqThread].call
    IN  /\ pc[CqThread] = "sub_emplace"
        /\ m_mtx = NoThread
        /\ IF m_connected_devices[a] = NoCall
           THEN /\ m_connected_devices' = [m_connected_devices EXCEPT ![a] = c]
                /\ UNCHANGED connected
           ELSE /\ connected' = connected \ {c}
                /\ UNCHANGED m_connected_devices
        /\ Goto(CqThread, "sub_lookup")
        /\ UNCHANGED <<m_users, m_instances, attached, locks, app_ids, arg,
                       visiting, armed, app, waiting, pins, missed,
                       progress>>

(* OnNewEventsSubscriber reads the app id through a reference into the     *)
(* call that it has moved into the map.  Once the call is destroyed, by    *)
(* the failed emplace, each read yields any string.                        *)
AppIdRead ==
    LET c == arg[CqThread].call
        alive == \/ \E a \in Apps : m_connected_devices[a] = c
                 \/ \E u \in Users : c \in m_instances[u]
    IN  IF alive THEN {arg[CqThread].app} ELSE Tokens

(* DBMongo::GetUuidByAppId: the users of whom MongoDB may return one.      *)
GetUuidByAppId(a) == {u \in Users : a \in app_ids[u]}

(* LoginUser(uuid, app_id, app_id): the token is a copy, the app id        *)
(* another.                                                                *)
CallLoginUser(u, k, a) ==
    /\ arg' = [arg EXCEPT ![CqThread] = [user |-> u, app |-> a, token |-> k,
                                         call |-> @.call]]
    /\ Goto(CqThread, "login_lock")

(* Mutant: the empty uuid is logged in like any other.                     *)
LookupUserUnchecked ==
    /\ pc[CqThread] = "sub_lookup"
    /\ \E a, k, b \in AppIdRead :
           \E u \in IF GetUuidByAppId(a) = {} THEN {NoUser}
                                             ELSE GetUuidByAppId(a) :
              CallLoginUser(u, k, b)
    /\ UNCHANGED <<registry, locks, app_ids, visiting, grpc, missed,
                   progress>>

(* A user found is logged in with the app id, read once to find the user   *)
(* and twice more for the arguments.  Back in the subscriber callback      *)
(* weak_from_this() is empty, because MainEndpointImpl inherits            *)
(* enable_shared_from_this privately, and no CommonCallData is armed, here *)
(* or after LoginUser.                                                     *)
LookupUser ==
    /\ pc[CqThread] = "sub_lookup"
    /\ \E a \in AppIdRead :
           \/ \E u \in GetUuidByAppId(a), k, b \in AppIdRead :
                CallLoginUser(u, k, b)
           \/ /\ GetUuidByAppId(a) = {}
              /\ Return(CqThread)
    /\ UNCHANGED <<registry, locks, app_ids, visiting, grpc, missed,
                   progress>>

(* An exception of the driver is caught in GetUuidByAppId, which returns   *)
(* an empty uuid.                                                          *)
LookupFails ==
    /\ pc[CqThread] = "sub_lookup"
    /\ missed' = missed \cup
           ({m_connected_devices[arg[CqThread].app]} \ {NoCall})
    /\ Return(CqThread)
    /\ UNCHANGED <<registry, locks, app_ids, visiting, grpc, progress>>

-----------------------------------------------------------------------------
(* The completion-queue thread: finished Writes.                           *)

(* ok: OnAsyncEventFinished of the target, which changes no registry.  The *)
(* m_state that a stale tag leaves behind is not followed: the call may    *)
(* be written to again, which allows every later log-off.                  *)
WriteFinished(c) ==
    /\ pc[CqThread] = "idle"
    /\ tag[c] # "none"
    /\ tag' = [tag EXCEPT ![c] = "none"]
    /\ UNCHANGED <<registry, locks, app_ids, pc, arg, visiting, armed, app,
                   waiting, connected, finishing, missed, progress>>

(* not ok: OnFinished of the target stores SHUTDOWN and unlocks m_mtx.     *)
WriteFailed(c) ==
    /\ pc[CqThread] = "idle"
    /\ tag[c] # "none"
    /\ c \notin connected
    /\ tag' = [tag EXCEPT ![c] = "none"]
    /\ \E d \in Targets(c) :
           IF d = NoCall
           THEN UNCHANGED <<pc, arg, finishing>>
           ELSE /\ WorkOn(CqThread, owner[d], NoApp, d)
                /\ finishing' = d
                /\ Goto(CqThread, "finished")
    /\ UNCHANGED <<registry, locks, app_ids, visiting, armed, app, waiting,
                   connected, missed, progress>>

(* if (m_on_logoff) m_on_logoff(m_access_token), without any lock: the     *)
(* log-off callback of the user is called with the token.                  *)
CallLogoff ==
    /\ pc[CqThread] = "finished"
    /\ finishing # NoCall
    /\ finishing' = NoCall
    /\ WorkOn(CqThread, arg[CqThread].user, token[finishing], finishing)
    /\ Goto(CqThread, "logoff")
    /\ UNCHANGED <<registry, locks, app_ids, visiting, armed, app, waiting,
                   connected, tag, missed, progress>>

(* A login has moved or destroyed the instance meanwhile, and this points  *)
(* to what is left of it, to its neighbour or to freed memory: the         *)
(* callback looks empty, or is called with any string.                     *)
CallLogoffMoved ==
    /\ pc[CqThread] = "finished"
    /\ finishing = NoCall
    /\ \/ Return(CqThread)
       \/ /\ \E k \in Tokens : WorkOn(CqThread, arg[CqThread].user, k, NoCall)
          /\ Goto(CqThread, "logoff")
    /\ UNCHANGED <<registry, locks, app_ids, visiting, grpc, missed,
                   progress>>

(* The last element of the vector.                                         *)
Last(u) == {c \in m_instances[u] : m_instances[u] \subseteq ahead[c] \cup {c}}

(* m_instances.erase(it), whatever find_if has found: erase(end()) is      *)
(* undefined, destroys the last element or nothing.                        *)
ErasedByLogoff(u, k) ==
    IF SameToken(u, k) # {} THEN {SameToken(u, k)}
                            ELSE {{}} \cup {{c} : c \in Last(u)}

(* The log-off callback: lock m_instances_mutex, erase the instance with   *)
(* the token; holder keeps the mutex when m_on_logoff is called.           *)
EraseLoggedOff(holder) ==
    LET u == arg[CqThread].user
    IN  /\ pc[CqThread] = "logoff"
        /\ m_instances_mutex[u] = NoThread
        /\ m_instances_mutex' = [m_instances_mutex EXCEPT ![u] = holder]
        /\ \E gone \in ErasedByLogoff(u, arg[CqThread].token) : Erase(u, gone)
        /\ Goto(CqThread, "check_empty")
        /\ UNCHANGED <<m_connected_devices, m_users, attached, m_mtx,
                       app_ids, arg, visiting, armed, app, waiting,
                       missed, progress>>

(* Mutant: the lock is not released before m_on_logoff.                    *)
InstanceLogoffKeepsLock == EraseLoggedOff(CqThread)

(* lock.unlock() comes before the emptiness check and m_on_logoff.         *)
InstanceLogoff == EraseLoggedOff(NoThread)

(* Mutant: the user is kept although its last instance has left.           *)
CheckEmptyNever ==
    /\ pc[CqThread] = "check_empty"
    /\ Return(CqThread)
    /\ UNCHANGED <<registry, locks, app_ids, visiting, grpc,
                   missed, progress>>

(* if (m_instances.empty()), read without any lock.                        *)
CheckEmpty ==
    /\ pc[CqThread] = "check_empty"
    /\ IF m_instances[arg[CqThread].user] = {}
       THEN Goto(CqThread, "user_logoff") /\ UNCHANGED arg
       ELSE Return(CqThread)
    /\ UNCHANGED <<registry, locks, app_ids, visiting, grpc, missed,
                   progress>>

(* m_on_logoff of the user: lock m_mtx, erase the user with its instances. *)
UserLogoff ==
    LET u == arg[CqThread].user
    IN  /\ pc[CqThread] = "user_logoff"
        /\ m_mtx = NoThread
        /\ m_users' = m_users \ {u}
        /\ Erase(u, m_instances[u])
        /\ Return(CqThread)
        /\ UNCHANGED <<m_connected_devices, attached, locks, app_ids,
                       visiting, armed, app, waiting, missed, progress>>

(* LoginUser replaces m_on_logoff under m_mtx only, a data race with its   *)
(* test here: an assignment that comes with a new instance of the user can *)
(* make it look empty for a moment.                                        *)
UserLogoffSkipped ==
    /\ pc[CqThread] = "user_logoff"
    /\ m_instances[arg[CqThread].user] # {}
    /\ Return(CqThread)
    /\ UNCHANGED <<registry, locks, app_ids, visiting, grpc, missed,
                   progress>>

CqStep ==
    \/ \E c \in Calls : NewSubscriber(c) \/ WriteFinished(c) \/ WriteFailed(c)
    \/ EmplaceDevice \/ LookupUser \/ LookupFails
    \/ StorageLoginUser(CqThread)
    \/ CallLogoff \/ CallLogoffMoved \/ InstanceLogoff
    \/ CheckEmpty \/ UserLogoff \/ UserLogoffSkipped

Next ==
    \/ PostConstruct
    \/ \E c \in Calls, a \in Apps : Subscribe(c, a)
    \/ \E c \in Calls : Disconnect(c)
    \/ \E h \in Handlers : Request(h) \/ HandlerStep(h)
    \/ CqStep

(* Every thread keeps running; std::mutex is not fair, but the bounded     *)
(* number of requests lets every waiting thread in.                        *)
Fairness ==
    /\ \A h \in Handlers : WF_vars(HandlerStep(h))
    /\ WF_vars(CqStep)
    /\ WF_vars(PostConstruct)

Spec == Init /\ [][Next]_vars /\ Fairness

-----------------------------------------------------------------------------
(* Properties.                                                             *)

(* Every variable stays in its type.                                       *)
TypeOK ==
    /\ m_connected_devices \in [Apps -> Calls \cup {NoCall}]
    /\ m_users \in SUBSET Users
    /\ m_instances \in [Users -> SUBSET Calls]
    /\ m_mtx \in Threads \cup {NoThread}
    /\ m_instances_mutex \in [Users -> Threads \cup {NoThread}]
    /\ ahead \in [Calls -> SUBSET Calls]
    /\ app_ids \in [Users -> SUBSET Apps]
    /\ pc \in [Threads -> HandlerLabels \cup CqLabels]
    /\ arg \in [Threads -> [user : Users \cup {NoUser},
                            app : Tokens, token : Tokens,
                            call : Calls \cup {NoCall}]]
    /\ visiting \in [Handlers -> SUBSET Users]
    /\ armed \in Nat
    /\ app \in [Calls -> Apps \cup {NoApp}]
    /\ waiting \in SUBSET Calls
    /\ connected \in SUBSET Calls
    /\ tag \in [Calls -> {"none", "exact", "moved"}]
    /\ finishing \in Calls \cup {NoCall}
    /\ owner \in [Calls -> Users \cup {NoUser}]
    /\ token \in [Calls -> Tokens]
    /\ misread \in SUBSET Calls
    /\ missed \in SUBSET Calls
    /\ constructed \in BOOLEAN
    /\ logins \in Nat
    /\ failures \in Nat
    /\ posts \in Nat

(* The stream of a subscriber has one owner at a time: it waits in gRPC,   *)
(* is in the hands of OnNewEventsSubscriber, is parked under its app id,   *)
(* or belongs to one user.  LoginUser moves it between the last two under  *)
(* m_mtx while the completion-queue thread parks others.                   *)
OneOwner ==
    /\ \A u, v \in Users : u # v => m_instances[u] \cap m_instances[v] = {}
    /\ \A a \in Apps, u \in Users : m_connected_devices[a] \notin m_instances[u]
    /\ \A a \in Apps :
           m_connected_devices[a] # NoCall => app[m_connected_devices[a]] = a
    /\ \A c \in Calls :
           (c \in waiting \/ (pc[CqThread] = "sub_emplace"
                              /\ arg[CqThread].call = c))
           => /\ \A u \in Users : c \notin m_instances[u]
              /\ \A a \in Apps : m_connected_devices[a] # c

(* LoginNewInstance keeps access tokens unique within a user, although it  *)
(* only looks at the instances it finds when it gets m_instances_mutex.    *)
TokenUnique ==
    \A u \in Users : \A c, d \in m_instances[u] : token[c] = token[d] => c = d

(* UserStorageImpl::GetUuidByAccessToken: any user with such an instance.  *)
GetUuidByAccessToken(a) == {u \in m_users : SameToken(u, a) # {}}

(* A device is attached to a user only after a login of that user with the *)
(* app id of the device, and is found by that app id: although two threads *)
(* attach devices and one app id can belong to several users.  The one     *)
(* exception are devices that OnNewEventsSubscriber attaches when it has   *)
(* read its strings from a call that was destroyed.                        *)
TokenOfLoggedIn ==
    \A k \in Tokens : \A u \in GetUuidByAccessToken(k) :
        \A c \in SameToken(u, k) \ misread : app[c] = k /\ k \in app_ids[u]

(* Where a call is.                                                        *)
Place(c) ==
    IF c \in waiting THEN "waiting"
    ELSE IF app[c] = NoApp THEN "new"
    ELSE IF pc[CqThread] = "sub_emplace" /\ arg[CqThread].call = c THEN "taken"
    ELSE IF \E a \in Apps : m_connected_devices[a] = c THEN "parked"
    ELSE IF \E u \in Users : c \in m_instances[u] THEN "attached"
    ELSE "ended"

Lifecycle ==
    INSTANCE CallLifecycle WITH
        place <- [c \in Calls |-> Place(c)],
        user <- [c \in Calls |-> IF \E u \in Users : c \in m_instances[u]
                                 THEN owner[c] ELSE NoUser]

(* Every subscription lives as CallLifecycle says, whichever threads park, *)
(* attach, replace and log off calls at the same time.                     *)
ImplementsLifecycle == Lifecycle!Spec

InLogin(t, a) == pc[t] \in LoginLabels /\ arg[t].app = a

(* A device that is parked although MongoDB knows its user is about to be  *)
(* attached: LoginUser and OnNewEventsSubscriber cannot miss each other    *)
(* (one writes MongoDB before it looks for the device, the other parks     *)
(* the device before it reads MongoDB), unless MongoDB failed.             *)
NoStrandedDevice ==
    \A a \in Apps :
        (m_connected_devices[a] # NoCall /\ \E u \in Users : a \in app_ids[u])
        => \/ m_connected_devices[a] \in missed
           \/ \E t \in Threads : InLogin(t, a)
           \/ pc[CqThread] = "sub_lookup" /\ arg[CqThread].app = a

(* The log-off callback erases the iterator it finds without testing it    *)
(* (PLOG_ERROR_IF "instance not found" only logs).  A token that was read  *)
(* from the instance in its place is still there when m_instances_mutex is *)
(* obtained, and the user exists, whatever logs in meanwhile.  Only when a *)
(* login moved the instance before the token was read (call = NoCall) may  *)
(* the callback miss.                                                      *)
LogoffFindsInstance ==
    pc[CqThread] = "logoff" =>
        /\ arg[CqThread].user \in m_users
        /\ \/ arg[CqThread].call = NoCall
           \/ SameToken(arg[CqThread].user, arg[CqThread].token) # {}
           \/ \E t \in Threads : /\ pc[t] = "login_emplace"
                                 /\ arg[t].user = arg[CqThread].user
                                 /\ arg[t].token = arg[CqThread].token

BeingAttached(u) ==
    \E t \in Threads : /\ pc[t] \in {"login_wait", "login_emplace"}
                       /\ arg[t].user = u

(* A registered user has an instance, or gets one, or is being removed.    *)
NoEmptyUser ==
    \A u \in Users :
        IF u \in m_users
        THEN \/ m_instances[u] # {}
             \/ BeingAttached(u)
             \/ /\ pc[CqThread] \in {"check_empty", "user_logoff"}
                /\ arg[CqThread].user = u
        ELSE m_instances[u] = {}

(* No thread waits for ever: m_mtx is taken before m_instances_mutex, and  *)
(* the log-off callback unlocks the second before it takes the first.      *)
OperationsEnd == \A t \in Threads : pc[t] # "idle" ~> pc[t] = "idle"

FinishedLogins ==
    logins - Cardinality({h \in Handlers : pc[h] \in LoginLabels \cup {"rearm"}})

Subscribed == {c \in Calls : app[c] # NoApp}

(* As long as clients subscribe no more often than they logged in (once    *)
(* more, for the CommonCallData of PostConstruct), every subscription is   *)
(* taken.                                                                  *)
SubscriptionAfterLoginServed ==
    \A c \in Calls :
        (c \in waiting /\ Cardinality(Subscribed) <= 1 + FinishedLogins)
        ~> (c \notin waiting \/ Cardinality(Subscribed) > 1 + FinishedLogins)

(* README.md: after the login "the client should call SubscribeOfEvents",  *)
(* which "returns a stream of events": a subscription whose client stays   *)
(* is taken.                                                               *)
SubscriptionServed ==
    \A c \in Calls : c \in waiting ~> (c \notin waiting \/ c \notin connected)

(* UserInstance.cpp: "UserInstance will be deleted inside m_on_logoff":    *)
(* the log-off callback deletes the instance whose OnFinished called it,   *)
(* at least when it was still in its place.                                *)
LogoffDeletesFinished ==
    [][pc[CqThread] = "logoff" /\ pc'[CqThread] = "check_empty"
       /\ arg[CqThread].call # NoCall
       => arg[CqThread].call \in m_instances[arg[CqThread].user]]_vars

=============================================================================
