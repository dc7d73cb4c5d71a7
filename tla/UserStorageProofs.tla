-------------------------- MODULE UserStorageProofs --------------------------
(***************************************************************************)
(* Proofs about UserStorage for any users, app ids, calls and handlers:    *)
(* what logins, subscriptions, posts and log-offs that overlap make of the *)
(* registry, and that every call lives as CallLifecycle says.              *)
(***************************************************************************)
EXTENDS UserStorage, TLAPS

Attaching == {"login_wait", "login_emplace"}

LogoffLabels == {"finished", "logoff", "check_empty", "user_logoff"}

(* What each thread works on, by its position.  A login is one of a user   *)
(* that MongoDB knows with the app id; one of OnNewEventsSubscriber as     *)
(* long as it attaches its own device, whose strings it could read.        *)
ThreadsTracked ==
    /\ \A h \in Handlers : pc[h] \in HandlerLabels
    /\ pc[CqThread] \in CqLabels
    /\ \A t \in Threads : pc[t] \in LoginLabels =>
           /\ arg[t].user \in Users
           /\ t = CqThread => arg[t].call \in Calls
           /\ (t = CqThread => Device(arg[t].app) = arg[t].call) =>
                 arg[t].token = arg[t].app /\ arg[t].app \in app_ids[arg[t].user]
    /\ pc[CqThread] \in {"sub_emplace", "sub_lookup"} =>
           /\ arg[CqThread].call \in Calls
           /\ arg[CqThread].app = app[arg[CqThread].call]
           /\ arg[CqThread].app \in Apps
    /\ pc[CqThread] \in LogoffLabels => arg[CqThread].user \in Users

(* Which thread holds which mutex, by its position.                        *)
LocksTracked ==
    /\ \A t \in Threads : m_mtx = t <=> pc[t] \in Attaching \cup {"visit"}
    /\ \A t \in Threads, u \in Users :
           m_instances_mutex[u] = t
           <=> pc[t] = "login_emplace" /\ arg[t].user = u

(* Where a call can be, beyond OneOwner; whose instance it is; and whom    *)
(* the tag of its Write may name.                                          *)
CallsTracked ==
    /\ \A c \in Calls : app[c] = NoApp =>
           /\ c \notin waiting
           /\ \A u \in Users : c \notin m_instances[u]
    /\ pc[CqThread] = "sub_emplace" => arg[CqThread].call \notin waiting
    /\ \A u \in Users : \A c \in m_instances[u] : owner[c] = u
    /\ \A c \in Calls : tag[c] # "none" => owner[c] \in Users
    /\ \A c \in Calls : tag[c] = "exact" => c \in m_instances[owner[c]]

(* An instance of a user has the app id of its device as token, with which *)
(* the user has logged in, unless it was attached with the strings of a    *)
(* destroyed call.                                                         *)
TokenOf(u, c) == token[c] = app[c] /\ app[c] \in app_ids[u]

(* The tokens of a user, and of the instance that is about to be added.    *)
TokensTracked ==
    /\ \A u \in Users : \A c \in m_instances[u] : c \in misread \/ TokenOf(u, c)
    /\ \A t \in Threads : pc[t] = "login_emplace" =>
           SameToken(arg[t].user, arg[t].token) = {}

(* Who attaches a device has found it, and its user exists.                *)
LoginsTracked ==
    \A t \in Threads : pc[t] \in Attaching =>
        /\ Device(arg[t].app) # NoCall
        /\ arg[t].user \in m_users

(* OnFinished runs for a registered user; while its instance stays in its  *)
(* place, it is the one whose Write has failed.                            *)
LogoffTracked ==
    /\ pc[CqThread] = "finished" => arg[CqThread].user \in m_users
    /\ finishing # NoCall =>
           /\ pc[CqThread] = "finished"
           /\ arg[CqThread].call = finishing
           /\ finishing \in m_instances[arg[CqThread].user]

(* Sharper than NoStrandedDevice: the completion-queue thread looks for    *)
(* the user of the very device that is parked.                             *)
DevicesTracked ==
    \A a \in Apps :
        (m_connected_devices[a] # NoCall /\ \E u \in Users : a \in app_ids[u])
        => \/ m_connected_devices[a] \in missed
           \/ \E t \in Threads : InLogin(t, a)
           \/ /\ pc[CqThread] = "sub_lookup"
              /\ arg[CqThread].call = m_connected_devices[a]

(* The inductive invariant.                                                *)
RegistryInv ==
    /\ TypeOK /\ ThreadsTracked /\ LocksTracked
    /\ OneOwner /\ CallsTracked
    /\ TokenUnique /\ TokensTracked
    /\ LoginsTracked /\ NoEmptyUser
    /\ LogoffTracked /\ LogoffFindsInstance
    /\ DevicesTracked

-----------------------------------------------------------------------------
LEMMA RegistryInvInit == Init => RegistryInv
  <1> SUFFICES ASSUME Init PROVE RegistryInv
    OBVIOUS
  <1> USE RegistryAssumption DEF Init, Job, Threads, Tokens
  <1>1. TypeOK
    BY DEF TypeOK, HandlerLabels, CqLabels
  <1>2. ThreadsTracked /\ LocksTracked
    BY DEF ThreadsTracked, LocksTracked, HandlerLabels, CqLabels, LoginLabels,
           LogoffLabels, Attaching
  <1>3. OneOwner /\ CallsTracked
    BY DEF OneOwner, CallsTracked
  <1>4. TokenUnique /\ TokensTracked
    BY DEF TokenUnique, TokensTracked
  <1>5. LoginsTracked /\ NoEmptyUser /\ DevicesTracked
    BY DEF LoginsTracked, NoEmptyUser, DevicesTracked, Attaching
  <1>6. LogoffTracked /\ LogoffFindsInstance
    BY DEF LogoffTracked, LogoffFindsInstance
  <1> QED BY <1>1, <1>2, <1>3, <1>4, <1>5, <1>6 DEF RegistryInv

(* What a thread can work on.                                              *)
Jobs == [user : Users \cup {NoUser}, app : Tokens, token : Tokens,
         call : Calls \cup {NoCall}]

LEMMA JobTypes ==
  ASSUME NEW u \in Users \cup {NoUser}, NEW a \in Tokens,
         NEW c \in Calls \cup {NoCall}
  PROVE  Job(u, a, c) \in Jobs
  BY DEF Job, Jobs

LEMMA TokenTypes == NoApp \in Tokens /\ Apps \subseteq Tokens /\ NoApp \notin Apps
  BY RegistryAssumption DEF Tokens

(* Positions outside of every operation on the registry.                   *)
Plain == {"idle", "rearm", "visit"}

(* The parts of the invariant about the registry.                          *)
RegistryParts ==
    /\ OneOwner /\ CallsTracked /\ TokenUnique /\ TokensTracked
    /\ LoginsTracked /\ NoEmptyUser
    /\ LogoffTracked /\ LogoffFindsInstance
    /\ DevicesTracked

(* Steps of threads outside of the registry keep the parts about it.       *)
LEMMA PlainSteps ==
  ASSUME RegistryInv,
         UNCHANGED <<registry, app_ids, app, waiting, pins, missed>>,
         \A t \in Threads : \/ pc'[t] = pc[t] /\ arg'[t] = arg[t]
                            \/ pc[t] \in Plain /\ pc'[t] \in Plain
  PROVE  RegistryParts'
  <1> USE DEF RegistryInv, registry, attached, pins
  <1>0. CqThread \in Threads
    BY DEF Threads
  <1>1. OneOwner' /\ CallsTracked'
    BY <1>0 DEF OneOwner, CallsTracked, Plain
  <1>2. TokenUnique' /\ TokensTracked'
    BY DEF TokenUnique, TokensTracked, TokenOf, SameToken, Plain
  <1>3. LoginsTracked'
    BY DEF LoginsTracked, Device, Plain, Attaching
  <1>4. NoEmptyUser'
    BY <1>0 DEF NoEmptyUser, BeingAttached, Plain
  <1>5. LogoffTracked' /\ LogoffFindsInstance'
    BY <1>0 DEF LogoffTracked, LogoffFindsInstance, SameToken, Plain
  <1>6. DevicesTracked'
    BY <1>0 DEF DevicesTracked, InLogin, LoginLabels, Plain
  <1> QED BY <1>1, <1>2, <1>3, <1>4, <1>5, <1>6 DEF RegistryParts

(* The main thread, clients that leave, and the frame of the posts.        *)
LEMMA OutsideInv ==
  ASSUME RegistryInv,
         \/ PostConstruct
         \/ \E c \in Calls : Disconnect(c)
         \/ UNCHANGED vars
  PROVE  RegistryInv'
  <1> USE DEF RegistryInv, registry, attached, locks, pins, grpc, progress
  <1>1. UNCHANGED <<registry, locks, app_ids, pc, arg, visiting, app, waiting,
                    pins, missed>>
    BY DEF PostConstruct, Disconnect, vars
  <1>2. TypeOK'
    <2>1. CASE PostConstruct
      BY <1>1, <2>1 DEF TypeOK, PostConstruct
    <2>2. CASE \E c \in Calls : Disconnect(c)
      BY <1>1, <2>2 DEF TypeOK, Disconnect
    <2>3. CASE UNCHANGED vars
      BY <2>3 DEF TypeOK, vars
    <2> QED BY <2>1, <2>2, <2>3
  <1>3. ThreadsTracked' /\ LocksTracked'
    BY <1>1 DEF ThreadsTracked, LocksTracked, Device
  <1>4. RegistryParts'
    BY <1>1, PlainSteps
  <1> QED BY <1>2, <1>3, <1>4 DEF RegistryParts

LEMMA HandlerIsThread ==
  ASSUME NEW h \in Handlers
  PROVE  h \in Threads /\ h # CqThread
  BY RegistryAssumption DEF Threads

LEMMA StartPostInv ==
  ASSUME RegistryInv, NEW h \in Handlers, NEW to, NEW a \in Tokens,
         StartPost(h, to, a)
  PROVE  RegistryInv'
  <1> USE HandlerIsThread, RegistryAssumption
      DEF RegistryInv, StartPost, Goto, WorkOn, Job, registry, attached, pins,
          grpc
  <1>1. TypeOK'
    BY DEF TypeOK, HandlerLabels
  <1>2. ThreadsTracked'
    BY DEF TypeOK, ThreadsTracked, Device, HandlerLabels, LoginLabels
  <1>3. LocksTracked'
    BY DEF TypeOK, LocksTracked, Attaching, Threads
  <1>4. RegistryParts'
    BY PlainSteps DEF TypeOK, Plain
  <1> QED BY <1>1, <1>2, <1>3, <1>4 DEF RegistryParts

LEMMA EndPostInv ==
  ASSUME RegistryInv, NEW h \in Handlers, EndPost(h)
  PROVE  RegistryInv'
  <1> USE HandlerIsThread, RegistryAssumption
      DEF RegistryInv, EndPost, Goto, Return, Drop, WorkOn, Job, registry,
          attached, pins, grpc, progress
  <1>1. TypeOK'
    BY TokenTypes DEF TypeOK, HandlerLabels
  <1>2. ThreadsTracked'
    BY DEF TypeOK, ThreadsTracked, Device, HandlerLabels, LoginLabels
  <1>3. LocksTracked'
    BY DEF TypeOK, LocksTracked, Attaching, Threads
  <1>4. RegistryParts'
    BY PlainSteps DEF TypeOK, Plain
  <1> QED BY <1>1, <1>2, <1>3, <1>4 DEF RegistryParts

LEMMA RearmInv ==
  ASSUME RegistryInv, NEW h \in Handlers, WaitForEventsSubscriptionAsync(h)
  PROVE  RegistryInv'
  <1> USE HandlerIsThread, RegistryAssumption
      DEF RegistryInv, WaitForEventsSubscriptionAsync, Goto, registry,
          attached, locks, pins, progress
  <1>1. TypeOK'
    BY DEF TypeOK, HandlerLabels
  <1>2. ThreadsTracked'
    BY DEF TypeOK, ThreadsTracked, Device, HandlerLabels, LoginLabels
  <1>3. LocksTracked'
    BY DEF TypeOK, LocksTracked, Attaching, Threads
  <1>4. RegistryParts'
    BY PlainSteps DEF TypeOK, Plain
  <1> QED BY <1>1, <1>2, <1>3, <1>4 DEF RegistryParts

-----------------------------------------------------------------------------
(* A call that nobody knows begins to wait.                                *)
LEMMA SubscribeInv ==
  ASSUME RegistryInv, NEW c \in Calls, NEW a \in Apps, Subscribe(c, a)
  PROVE  RegistryInv'
  <1> USE RegistryAssumption
      DEF RegistryInv, Subscribe, registry, attached, locks, pins, progress
  <1>1. TypeOK'
    BY DEF TypeOK
  <1>2. \A d \in Calls : d # c => app'[d] = app[d]
    BY DEF TypeOK
  <1>3. /\ \A u \in Users : c \notin m_instances[u]
        /\ \A b \in Apps : m_connected_devices[b] # c
        /\ app'[c] = a
    BY TokenTypes DEF TypeOK, CallsTracked, OneOwner
  <1>4. ThreadsTracked'
    BY <1>2 DEF ThreadsTracked, Device, TypeOK
  <1>5. LocksTracked'
    BY DEF LocksTracked
  <1>6. OneOwner'
    <2>1. /\ \A b \in Apps : m_connected_devices[b] # NoCall
                 => app'[m_connected_devices[b]] = b
      BY <1>2, <1>3 DEF OneOwner, TypeOK
    <2>2. pc[CqThread] = "sub_emplace" => arg[CqThread].call # c
      BY DEF ThreadsTracked
    <2> QED BY <1>3, <2>1, <2>2 DEF OneOwner
  <1>7. CallsTracked'
    <2>1. pc[CqThread] = "sub_emplace" => arg[CqThread].call # c
      BY DEF ThreadsTracked
    <2> QED BY <1>2, <1>3, <2>1 DEF CallsTracked
  <1>8. \A u \in Users : \A d \in m_instances[u] : d # c /\ app'[d] = app[d]
    BY <1>2, <1>3 DEF TypeOK
  <1>9. TokenUnique' /\ TokensTracked'
    BY <1>8 DEF TokenUnique, TokensTracked, TokenOf, SameToken
  <1>10. LoginsTracked' /\ NoEmptyUser' /\ DevicesTracked'
    BY DEF LoginsTracked, Device, NoEmptyUser, BeingAttached, DevicesTracked,
           InLogin
  <1>11. LogoffTracked' /\ LogoffFindsInstance'
    BY DEF LogoffTracked, LogoffFindsInstance, SameToken
  <1> QED BY <1>1, <1>4, <1>5, <1>6, <1>7, <1>9, <1>10, <1>11

(* What only the tags of the calls change.                                 *)
LEMMA TagSteps ==
  ASSUME RegistryInv, TypeOK',
         UNCHANGED <<registry, locks, app_ids, pc, arg, app, waiting, finishing,
                     missed>>,
         \A c \in Calls : /\ tag'[c] # "none" => owner[c] \in Users
                          /\ tag'[c] = "exact" => c \in m_instances[owner[c]]
  PROVE  RegistryInv'
  <1> USE DEF RegistryInv, registry, attached, locks
  <1>1. ThreadsTracked' /\ LocksTracked' /\ OneOwner'
    BY DEF ThreadsTracked, Device, LocksTracked, OneOwner
  <1>2. CallsTracked'
    BY DEF CallsTracked
  <1>3. TokenUnique' /\ TokensTracked'
    BY DEF TokenUnique, TokensTracked, TokenOf, SameToken
  <1>4. LoginsTracked' /\ NoEmptyUser' /\ DevicesTracked'
    BY DEF LoginsTracked, Device, NoEmptyUser, BeingAttached, DevicesTracked,
           InLogin
  <1>5. LogoffTracked' /\ LogoffFindsInstance'
    BY DEF LogoffTracked, LogoffFindsInstance, SameToken
  <1> QED BY <1>1, <1>2, <1>3, <1>4, <1>5

LEMMA PostEventInv ==
  ASSUME RegistryInv, NEW h \in Handlers, NEW u \in Users, PostEvent(h, u)
  PROVE  RegistryInv'
  <1> USE DEF RegistryInv, PostEvent, registry, attached, locks, progress
  <1>1. TypeOK'
    BY DEF TypeOK
  <1>2. ASSUME NEW c \in Calls
        PROVE  /\ tag'[c] # "none" => owner[c] \in Users
               /\ tag'[c] = "exact" => c \in m_instances[owner[c]]
    BY DEF CallsTracked, SameToken
  <1> QED BY <1>1, <1>2, TagSteps

LEMMA WriteFinishedInv ==
  ASSUME RegistryInv, NEW c \in Calls, WriteFinished(c)
  PROVE  RegistryInv'
  <1> USE DEF RegistryInv, WriteFinished, registry, attached, locks, progress
  <1>1. TypeOK'
    BY DEF TypeOK
  <1>2. ASSUME NEW d \in Calls
        PROVE  /\ tag'[d] # "none" => owner[d] \in Users
               /\ tag'[d] = "exact" => d \in m_instances[owner[d]]
    BY DEF CallsTracked, TypeOK
  <1> QED BY <1>1, <1>2, TagSteps

-----------------------------------------------------------------------------
(* The handler LoginUser: MongoDB knows the app id before the device is    *)
(* looked for.                                                             *)
LEMMA LoginUserInv ==
  ASSUME RegistryInv, NEW h \in Handlers, NEW u \in Users, NEW a \in Apps,
         LoginUser(h, u, a)
  PROVE  RegistryInv'
  <1> USE HandlerIsThread
      DEF RegistryInv, LoginUser, Goto, WorkOn, Job, registry, attached, locks,
          pins, grpc
  <1>1. TypeOK'
    BY RegistryAssumption, TokenTypes DEF TypeOK, HandlerLabels, LoginLabels
  <1>2. \A t \in Threads : t # h => pc'[t] = pc[t] /\ arg'[t] = arg[t]
    BY DEF TypeOK
  <1>3. /\ pc'[h] = "login_lock"
        /\ arg'[h] = [user |-> u, app |-> a, token |-> a, call |-> NoCall]
    BY DEF TypeOK
  <1>4. \A v \in Users : /\ app_ids[v] \subseteq app_ids'[v]
                         /\ \A b \in app_ids'[v] : b \in app_ids[v]
                                                   \/ (v = u /\ b = a)
    BY DEF TypeOK
  <1>5. a \in app_ids'[u]
    BY DEF TypeOK
  <1>6. ThreadsTracked'
    BY <1>2, <1>3, <1>4, <1>5 DEF ThreadsTracked, Device, HandlerLabels,
                                  LoginLabels, LogoffLabels, Threads
  <1>7. LocksTracked'
    BY <1>2, <1>3 DEF LocksTracked, Attaching
  <1>8. UNCHANGED <<pc[CqThread], arg[CqThread]>>
    BY <1>2 DEF Threads
  <1>9. OneOwner' /\ CallsTracked'
    BY <1>8 DEF OneOwner, CallsTracked
  <1>10. TokenUnique' /\ TokensTracked'
    BY <1>2, <1>3, <1>4 DEF TokenUnique, TokensTracked, TokenOf, SameToken
  <1>11. LoginsTracked'
    BY <1>2, <1>3 DEF LoginsTracked, Device, Attaching
  <1>12. NoEmptyUser'
    BY <1>2, <1>3, <1>8 DEF NoEmptyUser, BeingAttached
  <1>13. LogoffTracked' /\ LogoffFindsInstance'
    BY <1>2, <1>3, <1>8 DEF LogoffTracked, LogoffFindsInstance, SameToken
  <1>14. DevicesTracked'
    <2>1. \A t \in Threads, b \in Apps : InLogin(t, b) => InLogin(t, b)'
      BY <1>2, <1>3 DEF InLogin, LoginLabels
    <2>2. InLogin(h, a)'
      BY <1>3 DEF InLogin, LoginLabels
    <2> QED BY <1>4, <1>8, <2>1, <2>2 DEF DevicesTracked
  <1> QED BY <1>1, <1>6, <1>7, <1>9, <1>10, <1>11, <1>12, <1>13, <1>14

LEMMA LoginUserFailsInv ==
  ASSUME RegistryInv, NEW h \in Handlers, NEW u \in Users, NEW a \in Apps,
         LoginUserFails(h, u, a)
  PROVE  RegistryInv'
  <1> USE DEF RegistryInv, LoginUserFails, registry, attached, locks, pins, grpc
  <1>1. TypeOK'
    BY RegistryAssumption DEF TypeOK
  <1>2. \A v \in Users : /\ app_ids[v] \subseteq app_ids'[v]
                         /\ \A b \in app_ids'[v] : b \in app_ids[v]
                                                   \/ (v = u /\ b = a)
    BY DEF TypeOK
  <1>3. ThreadsTracked' /\ LocksTracked'
    BY <1>2 DEF ThreadsTracked, Device, LocksTracked
  <1>4. OneOwner' /\ CallsTracked'
    BY DEF OneOwner, CallsTracked
  <1>5. TokenUnique' /\ TokensTracked'
    BY <1>2 DEF TokenUnique, TokensTracked, TokenOf, SameToken
  <1>6. LoginsTracked' /\ NoEmptyUser' /\ LogoffTracked' /\ LogoffFindsInstance'
    BY DEF LoginsTracked, Device, NoEmptyUser, BeingAttached, LogoffTracked,
           LogoffFindsInstance, SameToken
  <1>7. DevicesTracked'
    BY <1>2 DEF DevicesTracked, InLogin
  <1> QED BY <1>1, <1>3, <1>4, <1>5, <1>6, <1>7

-----------------------------------------------------------------------------
(* Instances that are erased: what is left of the registry, and which tags *)
(* still name an instance.                                                 *)
LEMMA EraseFacts ==
  ASSUME RegistryInv, NEW u \in Users, NEW gone, Erase(u, gone)
  PROVE  /\ m_instances' \in [Users -> SUBSET Calls]
         /\ tag' \in [Calls -> {"none", "exact", "moved"}]
         /\ finishing' \in Calls \cup {NoCall}
         /\ connected' \in SUBSET Calls
         /\ m_instances'[u] = m_instances[u] \ gone
         /\ \A v \in Users : v # u => m_instances'[v] = m_instances[v]
         /\ \A v \in Users : m_instances'[v] \subseteq m_instances[v]
         /\ \A c \in Calls :
               /\ tag'[c] # "none" => tag[c] # "none"
               /\ tag'[c] = "exact" => tag[c] = "exact" /\ c \notin gone
         /\ finishing' # NoCall => finishing' = finishing /\ finishing \notin gone
  <1> USE DEF RegistryInv, TypeOK, Erase, Relocate, MovedByErase
  <1>1. m_instances' \in [Users -> SUBSET Calls] /\ connected' \in SUBSET Calls
    OBVIOUS
  <1>2. tag' \in [Calls -> {"none", "exact", "moved"}]
    OBVIOUS
  <1>3. /\ m_instances'[u] = m_instances[u] \ gone
        /\ \A v \in Users : v # u => m_instances'[v] = m_instances[v]
    OBVIOUS
  <1>4. \A c \in Calls :
               /\ tag'[c] # "none" => tag[c] # "none"
               /\ tag'[c] = "exact" => tag[c] = "exact" /\ c \notin gone
    OBVIOUS
  <1>5. /\ finishing' \in Calls \cup {NoCall}
        /\ finishing' # NoCall => finishing' = finishing /\ finishing \notin gone
    OBVIOUS
  <1> QED BY <1>1, <1>2, <1>3, <1>4, <1>5

(* What is erased leaves the rest of the registry as it was.               *)
LEMMA EraseParts ==
  ASSUME RegistryInv, NEW u \in Users, NEW gone, Erase(u, gone),
         UNCHANGED <<m_connected_devices, attached, app_ids, app, waiting>>,
         pc'[CqThread] = "sub_emplace" =>
             pc[CqThread] = "sub_emplace" /\ arg'[CqThread] = arg[CqThread]
  PROVE  /\ OneOwner' /\ CallsTracked' /\ TokenUnique'
         /\ \A v \in Users : \A c \in m_instances'[v] :
                c \in misread' \/ TokenOf(v, c)'
  <1> USE EraseFacts DEF RegistryInv, attached
  <1>1. \A v \in Users : m_instances'[v] \subseteq m_instances[v]
    OBVIOUS
  <1>2. OneOwner'
    BY <1>1 DEF OneOwner
  <1>3. CallsTracked'
    <2>1. \A c \in Calls : tag'[c] = "exact" => c \in m_instances'[owner[c]]
      BY DEF CallsTracked
    <2> QED BY <1>1, <2>1 DEF CallsTracked
  <1>4. TokenUnique'
    BY <1>1 DEF TokenUnique
  <1>5. \A v \in Users : \A c \in m_instances'[v] :
            c \in misread' \/ TokenOf(v, c)'
    BY <1>1 DEF TokensTracked, TokenOf
  <1> QED BY <1>2, <1>3, <1>4, <1>5

(* A thread in a login works for a user; once it has found a device, with  *)
(* an app id.                                                              *)
LEMMA LoginArg ==
  ASSUME RegistryInv, NEW t \in Threads, pc[t] \in LoginLabels
  PROVE  /\ arg[t].user \in Users /\ arg[t] \in Jobs
         /\ pc[t] \in Attaching => arg[t].app \in Apps
  BY DEF RegistryInv, ThreadsTracked, LoginsTracked, Device, TypeOK, Jobs

(* Where LoginUser returns to is outside of the registry.                  *)
LEMMA ReturnFacts ==
  ASSUME RegistryInv, NEW t \in Threads, ReturnFromLogin(t)
  PROVE  /\ pc' \in [Threads -> HandlerLabels \cup CqLabels]
         /\ arg' \in [Threads -> Jobs]
         /\ pc'[t] \in {"idle", "rearm"}
         /\ t = CqThread => pc'[t] = "idle"
         /\ \A s \in Threads : s # t => pc'[s] = pc[s] /\ arg'[s] = arg[s]
  BY TokenTypes DEF RegistryInv, TypeOK, ReturnFromLogin, Goto, Drop, WorkOn, Job,
                    Jobs, HandlerLabels, CqLabels

LEMMA LoginLockInv ==
  ASSUME RegistryInv, NEW t \in Threads, LoginLock(t)
  PROVE  RegistryInv'
  <1> USE RegistryAssumption
      DEF RegistryInv, LoginLock, attached, pins, grpc, progress
  <1>0. CqThread \in Threads
    BY DEF Threads
  <1>1. arg[t].user \in Users
    BY LoginArg DEF LoginLabels
  <1>2. CASE Device(arg[t].app) = NoCall
    <2> USE <1>2
    <2>1. ReturnFromLogin(t) /\ UNCHANGED <<m_mtx, m_users>>
      OBVIOUS
    <2>2. TypeOK'
      BY <2>1, ReturnFacts DEF TypeOK, Jobs
    <2>3. pc'[t] \in {"idle", "rearm"} /\ (t = CqThread => pc'[t] = "idle")
      BY <2>1, ReturnFacts
    <2>4. \A s \in Threads : s # t => pc'[s] = pc[s] /\ arg'[s] = arg[s]
      BY <2>1, ReturnFacts
    <2>5. ThreadsTracked' /\ LocksTracked'
      <3>1. ThreadsTracked'
        BY <1>0, <2>3, <2>4
           DEF ThreadsTracked, Device, HandlerLabels, CqLabels, LoginLabels,
               LogoffLabels, Threads
      <3>2. LocksTracked'
        BY <2>1, <2>3, <2>4 DEF LocksTracked, Attaching
      <3> QED BY <3>1, <3>2
    <2>6. OneOwner' /\ CallsTracked'
      BY <1>0, <2>3, <2>4 DEF OneOwner, CallsTracked
    <2>7. /\ TokenUnique' /\ TokensTracked'
          /\ LogoffTracked' /\ LogoffFindsInstance'
      BY <1>0, <2>1, <2>3, <2>4
         DEF TokenUnique, TokensTracked, TokenOf, LogoffTracked,
             LogoffFindsInstance, SameToken
    <2>8. LoginsTracked' /\ NoEmptyUser'
      BY <1>0, <2>1, <2>3, <2>4
         DEF LoginsTracked, Device, NoEmptyUser, BeingAttached, Attaching
    <2>9. DevicesTracked'
      BY <1>0, <2>3, <2>4 DEF DevicesTracked, Device, InLogin, LoginLabels
    <2> QED BY <2>2, <2>5, <2>6, <2>7, <2>8, <2>9
  <1>3. CASE Device(arg[t].app) # NoCall
    <2> USE <1>3
    <2>1. /\ m_mtx' = t
          /\ m_users' = m_users \cup {arg[t].user}
          /\ arg' = arg
          /\ pc'[t] = "login_wait"
          /\ \A s \in Threads : s # t => pc'[s] = pc[s]
      BY DEF Goto, TypeOK
    <2>2. TypeOK'
      BY <1>1, <2>1 DEF TypeOK, Goto, HandlerLabels, LoginLabels
    <2>5. ThreadsTracked' /\ LocksTracked'
      <3>1. ThreadsTracked'
        BY <1>0, <2>1
           DEF ThreadsTracked, Device, HandlerLabels, CqLabels, LoginLabels,
               LogoffLabels, Threads
      <3>2. LocksTracked'
        BY <2>1 DEF LocksTracked, Attaching, Threads
      <3> QED BY <3>1, <3>2
    <2>6. OneOwner' /\ CallsTracked'
      BY <1>0, <2>1 DEF OneOwner, CallsTracked
    <2>7. /\ TokenUnique' /\ TokensTracked'
          /\ LogoffTracked' /\ LogoffFindsInstance'
      BY <1>0, <2>1
         DEF TokenUnique, TokensTracked, TokenOf, LogoffTracked,
             LogoffFindsInstance, SameToken
    <2>8. LoginsTracked'
      BY <2>1 DEF LoginsTracked, Device, Attaching
    <2>9. NoEmptyUser'
      BY <1>0, <1>1, <2>1 DEF NoEmptyUser, BeingAttached
    <2>10. DevicesTracked'
      BY <1>0, <2>1 DEF DevicesTracked, InLogin, LoginLabels
    <2> QED BY <2>2, <2>5, <2>6, <2>7, <2>8, <2>9, <2>10
  <1> QED BY <1>2, <1>3

LEMMA LoginEraseInv ==
  ASSUME RegistryInv, NEW t \in Threads, LoginEraseSameToken(t)
  PROVE  RegistryInv'
  <1> DEFINE u == arg[t].user
             a == arg[t].token
  <1> USE RegistryAssumption
      DEF RegistryInv, LoginEraseSameToken, attached, progress
  <1>0. CqThread \in Threads
    BY DEF Threads
  <1>1. u \in Users
    BY LoginArg DEF LoginLabels
  <1>2. Erase(u, SameToken(u, a))
    OBVIOUS
  <1>3. /\ pc'[t] = "login_emplace"
        /\ \A s \in Threads : s # t => pc'[s] = pc[s]
        /\ arg' = arg
    BY DEF Goto, TypeOK
  <1>4. /\ m_instances' \in [Users -> SUBSET Calls]
        /\ tag' \in [Calls -> {"none", "exact", "moved"}]
        /\ finishing' \in Calls \cup {NoCall}
        /\ connected' \in SUBSET Calls
    BY <1>1, <1>2, EraseFacts
  <1>5. /\ m_instances'[u] = m_instances[u] \ SameToken(u, a)
        /\ \A v \in Users : v # u => m_instances'[v] = m_instances[v]
        /\ finishing' # NoCall =>
               finishing' = finishing /\ finishing \notin SameToken(u, a)
    BY <1>1, <1>2, EraseFacts
  <1>6. TypeOK'
    <2>1. pc' \in [Threads -> HandlerLabels \cup CqLabels]
      BY DEF TypeOK, Goto, HandlerLabels, LoginLabels
    <2>2. m_instances_mutex' \in [Users -> Threads \cup {NoThread}]
      BY DEF TypeOK
    <2> QED BY <1>3, <1>4, <2>1, <2>2 DEF TypeOK
  <1>7. ThreadsTracked'
    BY <1>0, <1>3
       DEF ThreadsTracked, Device, HandlerLabels, CqLabels, LoginLabels,
           LogoffLabels, Threads
  <1>8. LocksTracked'
    <2>1. /\ m_instances_mutex'[u] = t
          /\ \A v \in Users : v # u => m_instances_mutex'[v] = m_instances_mutex[v]
      BY <1>1 DEF TypeOK
    <2>2. NoThread \notin Threads
      BY DEF Threads
    <2> QED BY <1>1, <1>3, <2>1, <2>2 DEF LocksTracked, Attaching
  <1>9. /\ OneOwner' /\ CallsTracked' /\ TokenUnique'
        /\ \A v \in Users : \A c \in m_instances'[v] :
               c \in misread' \/ TokenOf(v, c)'
    BY <1>0, <1>1, <1>2, <1>3, EraseParts
  <1>10. /\ SameToken(u, a)' = {}
         /\ \A v \in Users : \A b : SameToken(v, b)' \subseteq SameToken(v, b)
         /\ \A v \in Users : \A b : v # u \/ b # a
               => SameToken(v, b)' = SameToken(v, b)
    BY <1>3, <1>5 DEF SameToken
  <1>11. TokensTracked'
    BY <1>1, <1>3, <1>9, <1>10 DEF TokensTracked, ThreadsTracked, LoginLabels
  <1>12. LoginsTracked'
    BY <1>3 DEF LoginsTracked, Device, Attaching
  <1>13. NoEmptyUser'
    <2>1. BeingAttached(u)'
      BY <1>3 DEF BeingAttached
    <2>2. u \in m_users
      BY DEF LoginsTracked, Attaching
    <2>3. \A v \in Users : BeingAttached(v) => BeingAttached(v)'
      BY <1>3 DEF BeingAttached
    <2> QED BY <1>0, <1>3, <1>5, <2>1, <2>2, <2>3 DEF NoEmptyUser
  <1>14. LogoffFindsInstance'
    <2> SUFFICES ASSUME pc'[CqThread] = "logoff" PROVE LogoffFindsInstance'
      BY DEF LogoffFindsInstance
    <2>1. pc[CqThread] = "logoff" /\ t # CqThread
      BY <1>0, <1>3
    <2>2. CASE arg[CqThread].user = u /\ arg[CqThread].token = a
      BY <1>3, <2>1, <2>2 DEF LogoffFindsInstance
    <2>3. CASE ~(arg[CqThread].user = u /\ arg[CqThread].token = a)
      <3>1. SameToken(arg[CqThread].user, arg[CqThread].token)'
            = SameToken(arg[CqThread].user, arg[CqThread].token)
        BY <1>3, <1>10, <2>1, <2>3 DEF ThreadsTracked, LogoffLabels
      <3> QED BY <1>3, <2>1, <3>1 DEF LogoffFindsInstance
    <2> QED BY <2>2, <2>3
  <1>16. LogoffTracked'
    BY <1>0, <1>1, <1>3, <1>5 DEF LogoffTracked, ThreadsTracked, LogoffLabels
  <1>15. DevicesTracked'
    BY <1>0, <1>3 DEF DevicesTracked, InLogin, LoginLabels
  <1> QED BY <1>6, <1>7, <1>8, <1>9, <1>11, <1>12, <1>13, <1>14, <1>15, <1>16

(* The device that LoginUser attaches: parked under the app id, so nobody  *)
(* else's.                                                                 *)
LEMMA DeviceFacts ==
  ASSUME RegistryInv, NEW t \in Threads, pc[t] = "login_emplace"
  PROVE  LET c == m_connected_devices[arg[t].app]
         IN  /\ c \in Calls
             /\ app[c] = arg[t].app
             /\ \A v \in Users : c \notin m_instances[v]
             /\ \A b \in Apps : m_connected_devices[b] = c => b = arg[t].app
             /\ c \notin waiting
             /\ pc[CqThread] = "sub_emplace" => arg[CqThread].call # c
  <1> DEFINE a == arg[t].app
             c == m_connected_devices[a]
  <1> USE RegistryAssumption DEF RegistryInv
  <1>1. arg[t].user \in Users /\ a \in Apps
    BY LoginArg DEF LoginLabels, Attaching
  <1>2. c # NoCall /\ c \in Calls
    BY <1>1 DEF LoginsTracked, Device, Attaching, TypeOK
  <1>3. app[c] = a /\ \A b \in Apps : m_connected_devices[b] = c => b = a
    BY <1>1, <1>2 DEF OneOwner
  <1>4. \A v \in Users : c \notin m_instances[v]
    BY <1>1 DEF OneOwner
  <1>5. c \notin waiting /\ (pc[CqThread] = "sub_emplace" => arg[CqThread].call # c)
    BY <1>1, <1>2 DEF OneOwner
  <1> QED BY <1>2, <1>3, <1>4, <1>5

LEMMA LoginEmplaceInv ==
  ASSUME RegistryInv, NEW t \in Threads, LoginEmplace(t)
  PROVE  RegistryInv'
  <1> DEFINE u == arg[t].user
             a == arg[t].app
             c == m_connected_devices[a]
             k == arg[t].token
  <1> USE RegistryAssumption
      DEF RegistryInv, LoginEmplace, EmplaceInstance, pins, progress
  <1>0. CqThread \in Threads /\ NoThread \notin Threads
    BY DEF Threads
  <1>1. u \in Users /\ a \in Apps /\ k \in Tokens
    BY LoginArg DEF LoginLabels, Attaching, Jobs
  <1>2. /\ c \in Calls /\ app[c] = a
        /\ \A v \in Users : c \notin m_instances[v]
        /\ \A b \in Apps : m_connected_devices[b] = c => b = a
        /\ c \notin waiting
        /\ pc[CqThread] = "sub_emplace" => arg[CqThread].call # c
    BY DeviceFacts
  <1>3. /\ pc' \in [Threads -> HandlerLabels \cup CqLabels]
        /\ arg' \in [Threads -> Jobs]
        /\ pc'[t] \in {"idle", "rearm"}
        /\ t = CqThread => pc'[t] = "idle"
        /\ \A s \in Threads : s # t => pc'[s] = pc[s] /\ arg'[s] = arg[s]
    BY ReturnFacts
  <1>4. /\ m_instances'[u] = m_instances[u] \cup {c}
        /\ \A v \in Users : v # u => m_instances'[v] = m_instances[v]
        /\ owner'[c] = u
        /\ \A d \in Calls : d # c => owner'[d] = owner[d]
        /\ token'[c] = k
        /\ \A d \in Calls : d # c => token'[d] = token[d]
    BY <1>1, <1>2 DEF TypeOK
  <1>5. /\ m_connected_devices'[a] = NoCall
        /\ \A b \in Apps : b # a => m_connected_devices'[b] = m_connected_devices[b]
    BY <1>1 DEF TypeOK
  <1>6. /\ tag' \in [Calls -> {"none", "exact", "moved"}]
        /\ \A d \in Calls : /\ tag'[d] # "none" => tag[d] # "none"
                            /\ tag'[d] = "exact" => tag[d] = "exact"
        /\ finishing' \in Calls \cup {NoCall}
        /\ finishing' # NoCall => finishing' = finishing
    BY DEF TypeOK, Relocate
  <1>f. UNCHANGED <<m_users, app_ids, visiting, armed, app, waiting, connected,
                    missed, constructed, logins, failures, posts>>
    OBVIOUS
  <1>7. TypeOK'
    <2>1. /\ m_connected_devices' \in [Apps -> Calls \cup {NoCall}]
          /\ m_instances' \in [Users -> SUBSET Calls]
          /\ ahead' \in [Calls -> SUBSET Calls]
      BY <1>1, <1>2 DEF TypeOK
    <2>2. /\ m_mtx' \in Threads \cup {NoThread}
          /\ m_instances_mutex' \in [Users -> Threads \cup {NoThread}]
          /\ owner' \in [Calls -> Users \cup {NoUser}]
      BY <1>1 DEF TypeOK
    <2>3. token' \in [Calls -> Tokens] /\ misread' \in SUBSET Calls
      BY <1>1, <1>2 DEF TypeOK
    <2> HIDE DEF LoginEmplace, EmplaceInstance
    <2> QED BY <1>3, <1>6, <1>f, <2>1, <2>2, <2>3 DEF TypeOK, Jobs
  <1>8. \A s \in Threads : pc'[s] \in Attaching => FALSE
    BY <1>3 DEF LocksTracked, Attaching
  <1>9. ThreadsTracked'
    <2>1. \A s \in Threads : pc'[s] \in LoginLabels => s # t
      BY <1>3 DEF LoginLabels
    <2>2. \A b \in Tokens : Device(b)' \in {Device(b), NoCall}
      BY <1>5 DEF Device
    <2>3. \A s \in Threads : arg[s].app \in Tokens
      BY DEF TypeOK
    <2>4. ASSUME NEW s \in Threads, pc'[s] \in LoginLabels
          PROVE  /\ arg'[s].user \in Users
                 /\ s = CqThread => arg'[s].call \in Calls
                 /\ (s = CqThread => Device(arg[s].app)' = arg'[s].call) =>
                       /\ arg'[s].token = arg'[s].app
                       /\ arg'[s].app \in app_ids'[arg'[s].user]
      BY <1>3, <2>1, <2>2, <2>3, <2>4 DEF ThreadsTracked
    <2>5. /\ \A h \in Handlers : pc'[h] \in HandlerLabels
          /\ pc'[CqThread] \in CqLabels
      BY <1>0, <1>3 DEF ThreadsTracked, HandlerLabels, CqLabels, Threads
    <2>6. /\ pc'[CqThread] \in {"sub_emplace", "sub_lookup"} =>
                /\ arg'[CqThread].call \in Calls
                /\ arg'[CqThread].app = app'[arg'[CqThread].call]
                /\ arg'[CqThread].app \in Apps
          /\ pc'[CqThread] \in LogoffLabels => arg'[CqThread].user \in Users
      BY <1>0, <1>3, <1>f DEF ThreadsTracked, LogoffLabels
    <2> HIDE DEF LoginEmplace, EmplaceInstance
    <2> QED BY <2>4, <2>5, <2>6 DEF ThreadsTracked
  <1>10. LocksTracked'
    <2>1. /\ m_instances_mutex'[u] = NoThread
          /\ \A v \in Users : v # u => m_instances_mutex'[v] = m_instances_mutex[v]
      BY <1>1 DEF TypeOK
    <2> QED BY <1>0, <1>1, <1>3, <2>1 DEF LocksTracked, Attaching
  <1>11. OneOwner'
    <2>1. \A v, w \in Users : v # w => m_instances'[v] \cap m_instances'[w] = {}
      BY <1>2, <1>4 DEF OneOwner
    <2>2. \A b \in Apps, v \in Users : m_connected_devices'[b] \notin m_instances'[v]
      BY <1>2, <1>4, <1>5, <1>7 DEF OneOwner, TypeOK
    <2>3. pc'[CqThread] = "sub_emplace" =>
              pc[CqThread] = "sub_emplace" /\ arg'[CqThread] = arg[CqThread]
      BY <1>0, <1>3
    <2> HIDE DEF LoginEmplace, EmplaceInstance
    <2>4. \A b \in Apps : m_connected_devices'[b] # NoCall
              => app[m_connected_devices'[b]] = b
      BY <1>5 DEF OneOwner
    <2> QED BY <1>2, <1>4, <1>5, <1>f, <2>1, <2>2, <2>3, <2>4 DEF OneOwner
  <1>12. CallsTracked'
    <2>1. \A d \in Calls : d \in waiting => d # c
      BY <1>2
    <2>2. \A v \in Users : \A d \in m_instances'[v] : owner'[d] = v
      BY <1>2, <1>4, <1>7 DEF CallsTracked, TypeOK
    <2>3. \A d \in Calls : tag'[d] # "none" => owner'[d] \in Users
      BY <1>1, <1>4, <1>6 DEF CallsTracked
    <2>4. \A d \in Calls : tag'[d] = "exact" => d \in m_instances'[owner'[d]]
      BY <1>2, <1>4, <1>6 DEF CallsTracked
    <2>5. pc'[CqThread] = "sub_emplace" =>
              pc[CqThread] = "sub_emplace" /\ arg'[CqThread] = arg[CqThread]
      BY <1>0, <1>3
    <2> HIDE DEF LoginEmplace, EmplaceInstance
    <2> QED BY <1>1, <1>2, <1>4, <1>f, <2>1, <2>2, <2>3, <2>4, <2>5
            DEF CallsTracked
  <1>13. TokenUnique'
    <2>1. \A d \in m_instances[u] : token[d] # k
      BY DEF TokensTracked, SameToken
    <2>2. \A v \in Users : m_instances[v] \subseteq Calls
      BY DEF TypeOK
    <2> HIDE DEF LoginEmplace, EmplaceInstance
    <2> QED BY <1>2, <1>4, <2>1, <2>2 DEF TokenUnique
  <1>14. TokensTracked'
    <2>1. c \in misread' \/ (k = a /\ a \in app_ids[u])
      BY <1>1 DEF ThreadsTracked, LoginLabels, Device
    <2>2. misread \subseteq misread'
      OBVIOUS
    <2>3. \A v \in Users : m_instances[v] \subseteq Calls
      BY DEF TypeOK
    <2> HIDE DEF LoginEmplace, EmplaceInstance
    <2>4. \A v \in Users : \A d \in m_instances'[v] :
              d \in misread' \/ TokenOf(v, d)'
      BY <1>2, <1>4, <1>f, <2>1, <2>2, <2>3 DEF TokensTracked, TokenOf
    <2> QED BY <1>8, <2>4 DEF TokensTracked, Attaching
  <1>15. LoginsTracked'
    BY <1>8 DEF LoginsTracked
  <1>16. NoEmptyUser'
    <2>1. u \in m_users
      BY DEF LoginsTracked, Attaching
    <2>2. \A v \in Users : v # u /\ BeingAttached(v) => BeingAttached(v)'
      BY <1>3 DEF BeingAttached
    <2>3. m_instances'[u] # {}
      BY <1>4
    <2>4. pc[CqThread] \in {"check_empty", "user_logoff"} =>
              pc'[CqThread] = pc[CqThread] /\ arg'[CqThread] = arg[CqThread]
      BY <1>0, <1>3
    <2> QED BY <1>4, <2>1, <2>2, <2>3, <2>4 DEF NoEmptyUser
  <1>17. LogoffFindsInstance'
    <2> SUFFICES ASSUME pc'[CqThread] = "logoff" PROVE LogoffFindsInstance'
      BY DEF LogoffFindsInstance
    <2>1. pc[CqThread] = "logoff" /\ arg'[CqThread] = arg[CqThread]
      BY <1>0, <1>3
    <2>2. \A v \in Users : m_instances[v] \subseteq m_instances'[v]
      BY <1>4
    <2>3. /\ c \in m_instances'[u] /\ token'[c] = k
          /\ \A v \in Users : \A d \in m_instances[v] : token'[d] = token[d]
      BY <1>2, <1>4 DEF TypeOK
    <2>4. \A s \in Threads : pc[s] = "login_emplace" => s = t
      BY <1>3, <1>8 DEF Attaching
    <2>5. arg[CqThread].call # NoCall
          => SameToken(arg[CqThread].user, arg[CqThread].token)' # {}
      <3>1. arg[CqThread].user \in Users
        BY <2>1 DEF ThreadsTracked, LogoffLabels
      <3>2. arg[CqThread].call # NoCall =>
              \E d \in m_instances'[arg[CqThread].user] :
                  token'[d] = arg[CqThread].token
        BY <2>1, <2>2, <2>3, <2>4, <3>1 DEF LogoffFindsInstance, SameToken
      <3> QED BY <2>1, <3>2 DEF SameToken
    <2> QED BY <2>1, <2>5 DEF LogoffFindsInstance
  <1>18. DevicesTracked'
    <2>1. \A s \in Threads, b \in Apps : b # a /\ InLogin(s, b) => InLogin(s, b)'
      BY <1>3 DEF InLogin
    <2> QED BY <1>0, <1>3, <1>5, <2>1 DEF DevicesTracked
  <1>19. LogoffTracked'
    <2>1. pc[CqThread] = "finished" \/ pc'[CqThread] = "finished" =>
              /\ pc'[CqThread] = pc[CqThread] /\ arg'[CqThread] = arg[CqThread]
              /\ arg[CqThread].user \in Users
      BY <1>0, <1>3 DEF ThreadsTracked, LogoffLabels
    <2>2. \A v \in Users : m_instances[v] \subseteq m_instances'[v]
      BY <1>4
    <2> HIDE DEF LoginEmplace, EmplaceInstance
    <2> QED BY <1>6, <1>f, <2>1, <2>2 DEF LogoffTracked
  <1> QED BY <1>7, <1>9, <1>10, <1>11, <1>12, <1>13, <1>14, <1>15, <1>16, <1>17,
             <1>18, <1>19

-----------------------------------------------------------------------------
(* A step of the completion-queue thread alone: where it is and what it    *)
(* works on afterwards.                                                    *)
CqGoes(label, job) ==
    /\ pc' = [pc EXCEPT ![CqThread] = label]
    /\ arg' = [arg EXCEPT ![CqThread] = job]

LEMMA CqGoesFacts ==
  ASSUME RegistryInv, NEW label, NEW job, CqGoes(label, job)
  PROVE  /\ CqThread \in Threads
         /\ pc'[CqThread] = label /\ arg'[CqThread] = job
         /\ \A t \in Threads : t # CqThread => pc'[t] = pc[t] /\ arg'[t] = arg[t]
         /\ \A h \in Handlers : pc'[h] = pc[h]
  BY RegistryAssumption DEF RegistryInv, TypeOK, CqGoes, Threads

LEMMA NewSubscriberInv ==
  ASSUME RegistryInv, NEW c \in Calls, NewSubscriber(c)
  PROVE  RegistryInv'
  <1> USE RegistryAssumption
      DEF RegistryInv, NewSubscriber, registry, attached, locks, pins, progress
  <1>0. CqGoes("sub_emplace", Job(NoUser, app[c], c))
    BY DEF CqGoes, Goto, WorkOn
  <1>1. /\ CqThread \in Threads /\ pc'[CqThread] = "sub_emplace"
        /\ arg'[CqThread] = [user |-> NoUser, app |-> app[c], token |-> app[c],
                             call |-> c]
        /\ \A t \in Threads : t # CqThread => pc'[t] = pc[t] /\ arg'[t] = arg[t]
        /\ \A h \in Handlers : pc'[h] = pc[h]
    BY <1>0, CqGoesFacts DEF Job
  <1>2. app[c] \in Apps
    BY DEF CallsTracked, TypeOK
  <1>3. TypeOK'
    <2>1. pc' \in [Threads -> HandlerLabels \cup CqLabels]
      BY DEF TypeOK, Goto, CqLabels
    <2>2. arg' \in [Threads -> Jobs]
      BY <1>2, TokenTypes DEF TypeOK, WorkOn, Job, Jobs
    <2>3. armed' \in Nat
      BY DEF TypeOK
    <2> QED BY <2>1, <2>2, <2>3 DEF TypeOK, Jobs
  <1>4. ThreadsTracked'
    BY <1>1, <1>2 DEF ThreadsTracked, Device, CqLabels, LoginLabels, LogoffLabels
  <1>5. LocksTracked'
    BY <1>1 DEF LocksTracked, Attaching
  <1>6. OneOwner'
    BY <1>1 DEF OneOwner
  <1>7. CallsTracked'
    BY <1>1 DEF CallsTracked
  <1>8. TokenUnique' /\ TokensTracked'
    BY <1>1 DEF TokenUnique, TokensTracked, TokenOf, SameToken
  <1>9. /\ LoginsTracked' /\ NoEmptyUser'
        /\ LogoffTracked' /\ LogoffFindsInstance'
    BY <1>1 DEF LoginsTracked, Device, NoEmptyUser, BeingAttached, LogoffTracked,
                LogoffFindsInstance, Attaching
  <1>10. DevicesTracked'
    BY <1>1 DEF DevicesTracked, InLogin, LoginLabels
  <1> QED BY <1>3, <1>4, <1>5, <1>6, <1>7, <1>8, <1>9, <1>10

LEMMA EmplaceDeviceInv ==
  ASSUME RegistryInv, EmplaceDevice
  PROVE  RegistryInv'
  <1> DEFINE a == arg[CqThread].app
             c == arg[CqThread].call
  <1> USE RegistryAssumption
      DEF RegistryInv, EmplaceDevice, attached, locks, pins, progress
  <1>1. /\ CqThread \in Threads /\ pc'[CqThread] = "sub_lookup" /\ arg' = arg
        /\ \A t \in Threads : t # CqThread => pc'[t] = pc[t]
        /\ \A h \in Handlers : pc'[h] = pc[h]
    BY DEF TypeOK, Goto, Threads
  <1>2. /\ c \in Calls /\ a = app[c] /\ a \in Apps
        /\ c \notin waiting
        /\ \A u \in Users : c \notin m_instances[u]
        /\ \A b \in Apps : m_connected_devices[b] # c
    BY DEF ThreadsTracked, CallsTracked, OneOwner
  <1>3. /\ \A b \in Apps : b # a => m_connected_devices'[b] = m_connected_devices[b]
        /\ m_connected_devices'[a] = IF m_connected_devices[a] = NoCall
                                     THEN c ELSE m_connected_devices[a]
    BY <1>2 DEF TypeOK
  <1>4. TypeOK'
    <2>1. pc' \in [Threads -> HandlerLabels \cup CqLabels]
      BY DEF TypeOK, Goto, CqLabels
    <2>2. /\ m_connected_devices' \in [Apps -> Calls \cup {NoCall}]
          /\ connected' \in SUBSET Calls
      BY <1>2 DEF TypeOK
    <2> QED BY <1>1, <2>1, <2>2 DEF TypeOK
  <1>5. ThreadsTracked'
    BY <1>1, <1>2 DEF ThreadsTracked, CqLabels, LoginLabels, LogoffLabels
  <1>6. LocksTracked'
    BY <1>1 DEF LocksTracked, Attaching
  <1>7. OneOwner'
    <2>1. \A b \in Apps, u \in Users : m_connected_devices'[b] \notin m_instances[u]
      BY <1>2, <1>3 DEF OneOwner
    <2>2. \A b \in Apps : m_connected_devices'[b] # NoCall
              => app[m_connected_devices'[b]] = b
      BY <1>2, <1>3 DEF OneOwner
    <2>3. \A d \in waiting : \A b \in Apps : m_connected_devices'[b] # d
      BY <1>2, <1>3 DEF OneOwner, TypeOK
    <2> QED BY <1>1, <2>1, <2>2, <2>3 DEF OneOwner
  <1>8. CallsTracked'
    BY <1>1 DEF CallsTracked
  <1>9. TokenUnique' /\ TokensTracked'
    BY <1>1 DEF TokenUnique, TokensTracked, TokenOf, SameToken
  <1>10. LoginsTracked'
    <2>1. \A b : Device(b) # NoCall => Device(b)' # NoCall
      BY <1>2, <1>3 DEF Device
    <2> QED BY <1>1, <2>1 DEF LoginsTracked, Attaching
  <1>11. NoEmptyUser' /\ LogoffTracked' /\ LogoffFindsInstance'
    BY <1>1 DEF NoEmptyUser, BeingAttached, LogoffTracked, LogoffFindsInstance
  <1>12. DevicesTracked'
    <2>1. \A t \in Threads, b \in Apps : InLogin(t, b) => InLogin(t, b)'
      BY <1>1 DEF InLogin, LoginLabels
    <2> QED BY <1>1, <1>2, <1>3, <2>1 DEF DevicesTracked
  <1> QED BY <1>4, <1>5, <1>6, <1>7, <1>8, <1>9, <1>10, <1>11, <1>12

(* The completion-queue thread leaves one operation or begins another and  *)
(* only its position changes; what the other threads and the registry do   *)
(* not see.                                                                *)
LEMMA CqMoves ==
  ASSUME RegistryInv, NEW label, NEW job, CqGoes(label, job),
         UNCHANGED <<registry, locks, app_ids, app, waiting>>,
         pc[CqThread] \notin Attaching,
         label \in {"idle", "login_lock", "finished", "logoff", "user_logoff"},
         label = "login_lock" =>
             /\ job.user \in Users /\ job.call \in Calls
             /\ Device(job.app) = job.call =>
                   job.token = job.app /\ job.app \in app_ids[job.user],
         label \in LogoffLabels => job.user \in Users
  PROVE  /\ ThreadsTracked' /\ LocksTracked' /\ OneOwner'
         /\ TokenUnique' /\ TokensTracked' /\ LoginsTracked'
  <1> USE RegistryAssumption DEF RegistryInv, registry, attached, locks
  <1>1. /\ CqThread \in Threads
        /\ pc'[CqThread] = label /\ arg'[CqThread] = job
        /\ \A t \in Threads : t # CqThread => pc'[t] = pc[t] /\ arg'[t] = arg[t]
        /\ \A h \in Handlers : pc'[h] = pc[h]
    BY CqGoesFacts
  <1>2. ThreadsTracked'
    BY <1>1 DEF ThreadsTracked, Device, CqLabels, LoginLabels, LogoffLabels
  <1>3. LocksTracked'
    <2>1. pc[CqThread] # "visit"
      BY DEF ThreadsTracked, CqLabels, LoginLabels
    <2> QED BY <1>1, <2>1 DEF LocksTracked, Attaching
  <1>4. OneOwner'
    BY <1>1 DEF OneOwner
  <1>5. TokenUnique' /\ TokensTracked'
    BY <1>1 DEF TokenUnique, TokensTracked, TokenOf, SameToken
  <1>6. LoginsTracked'
    BY <1>1 DEF LoginsTracked, Device, Attaching
  <1> QED BY <1>2, <1>3, <1>4, <1>5, <1>6

(* The types of the threads' state after such a step.                      *)
LEMMA CqTypes ==
  ASSUME RegistryInv, NEW label \in CqLabels, NEW job \in Jobs,
         CqGoes(label, job)
  PROVE  /\ pc' \in [Threads -> HandlerLabels \cup CqLabels]
         /\ arg' \in [Threads -> Jobs]
  BY DEF RegistryInv, TypeOK, CqGoes, Jobs

LEMMA NoJobTypes == Job(NoUser, NoApp, NoCall) \in Jobs
  BY JobTypes, TokenTypes

(* The app id that OnNewEventsSubscriber reads is that of its device as    *)
(* long as the device is parked.                                           *)
LEMMA AppIdOfParked ==
  ASSUME RegistryInv, pc[CqThread] = "sub_lookup",
         NEW b \in Apps, m_connected_devices[b] = arg[CqThread].call
  PROVE  arg[CqThread].app = b /\ AppIdRead = {b}
  <1>1. arg[CqThread].app = b
    BY RegistryAssumption DEF RegistryInv, ThreadsTracked, OneOwner
  <1> QED BY <1>1 DEF AppIdRead

LEMMA LookupUserInv ==
  ASSUME RegistryInv, LookupUser
  PROVE  RegistryInv'
  <1> DEFINE c == arg[CqThread].call
             Login(u, k, b) == [user |-> u, app |-> b, token |-> k, call |-> c]
  <1> USE RegistryAssumption
      DEF RegistryInv, registry, attached, locks, pins, grpc, progress
  <1>0. /\ pc[CqThread] = "sub_lookup"
        /\ UNCHANGED <<registry, locks, app_ids, visiting, grpc, missed, progress>>
    BY DEF LookupUser
  <1>1. PICK a \in AppIdRead :
           \/ \E u \in GetUuidByAppId(a), k, b \in AppIdRead :
                CallLoginUser(u, k, b)
           \/ /\ GetUuidByAppId(a) = {}
              /\ CqGoes("idle", Job(NoUser, NoApp, NoCall))
    BY DEF LookupUser, CqGoes, Goto, WorkOn, Return, Drop
  <1>2. c \in Calls /\ AppIdRead \subseteq Tokens
    BY <1>0, TokenTypes DEF ThreadsTracked, AppIdRead
  <1>3. \A b \in Apps : m_connected_devices[b] = c => AppIdRead = {b}
    BY <1>0, AppIdOfParked
  <1>4. pc[CqThread] \notin Attaching
    BY <1>0 DEF Attaching
  <1>5. CASE \E u \in GetUuidByAppId(a), k, b \in AppIdRead :
                CallLoginUser(u, k, b)
    <2>1. PICK u \in GetUuidByAppId(a), k \in AppIdRead, b \in AppIdRead :
              CallLoginUser(u, k, b)
      BY <1>5
    <2>2. u \in Users /\ a \in app_ids[u]
      BY DEF GetUuidByAppId
    <2>3. CqGoes("login_lock", Login(u, k, b))
      BY <2>1 DEF CallLoginUser, CqGoes, Goto, TypeOK
    <2>4. Login(u, k, b) \in Jobs
      BY <1>2, <2>2 DEF Jobs
    <2>5. Device(b) = c => k = b /\ b \in app_ids[u]
      BY <1>1, <1>2, <1>3, <2>2 DEF Device
    <2>6. /\ CqThread \in Threads
          /\ pc'[CqThread] = "login_lock" /\ arg'[CqThread] = Login(u, k, b)
          /\ \A t \in Threads : t # CqThread => pc'[t] = pc[t] /\ arg'[t] = arg[t]
      BY <2>3, CqGoesFacts
    <2>7. TypeOK'
      BY <1>0, <2>3, <2>4, CqTypes DEF TypeOK, Jobs, CqLabels, LoginLabels
    <2>8. /\ ThreadsTracked' /\ LocksTracked' /\ OneOwner'
          /\ TokenUnique' /\ TokensTracked' /\ LoginsTracked'
      BY <1>0, <1>2, <1>4, <2>2, <2>3, <2>5, CqMoves DEF LogoffLabels
    <2>9. /\ CallsTracked' /\ NoEmptyUser'
          /\ LogoffTracked' /\ LogoffFindsInstance'
      BY <1>0, <2>6 DEF CallsTracked, NoEmptyUser, BeingAttached, LogoffTracked,
                        LogoffFindsInstance
    <2>10. DevicesTracked'
      <3>1. \A d \in Apps : m_connected_devices[d] = c => InLogin(CqThread, d)'
        BY <1>3, <2>6 DEF InLogin, LoginLabels
      <3>2. \A t \in Threads, d \in Apps : InLogin(t, d) => InLogin(t, d)'
        BY <1>0, <2>6 DEF InLogin, LoginLabels
      <3> QED BY <1>0, <2>6, <3>1, <3>2 DEF DevicesTracked
    <2> QED BY <2>7, <2>8, <2>9, <2>10
  <1>6. CASE /\ GetUuidByAppId(a) = {}
             /\ CqGoes("idle", Job(NoUser, NoApp, NoCall))
    <2>1. CqGoes("idle", Job(NoUser, NoApp, NoCall))
      BY <1>6
    <2>2. \A u \in Users : a \notin app_ids[u]
      BY <1>6 DEF GetUuidByAppId
    <2>3. /\ CqThread \in Threads /\ pc'[CqThread] = "idle"
          /\ \A t \in Threads : t # CqThread => pc'[t] = pc[t] /\ arg'[t] = arg[t]
      BY <2>1, CqGoesFacts
    <2>4. TypeOK'
      BY <1>0, <2>1, NoJobTypes, CqTypes DEF TypeOK, Jobs, CqLabels
    <2>5. /\ ThreadsTracked' /\ LocksTracked' /\ OneOwner'
          /\ TokenUnique' /\ TokensTracked' /\ LoginsTracked'
      BY <1>0, <1>4, <2>1, CqMoves DEF LogoffLabels
    <2>6. /\ CallsTracked' /\ NoEmptyUser'
          /\ LogoffTracked' /\ LogoffFindsInstance'
      BY <1>0, <2>3 DEF CallsTracked, NoEmptyUser, BeingAttached, LogoffTracked,
                        LogoffFindsInstance
    <2>7. DevicesTracked'
      <3>1. \A t \in Threads, b \in Apps : InLogin(t, b) => InLogin(t, b)'
        BY <1>0, <2>3 DEF InLogin, LoginLabels
      <3>2. \A b \in Apps : m_connected_devices[b] = c => b = a
        BY <1>1, <1>3
      <3> QED BY <1>0, <2>2, <2>3, <3>1, <3>2 DEF DevicesTracked
    <2> QED BY <2>4, <2>5, <2>6, <2>7
  <1> QED BY <1>1, <1>5, <1>6

LEMMA LookupFailsInv ==
  ASSUME RegistryInv, LookupFails
  PROVE  RegistryInv'
  <1> USE RegistryAssumption
      DEF RegistryInv, LookupFails, registry, attached, locks, pins, grpc, progress
  <1>1. CqGoes("idle", Job(NoUser, NoApp, NoCall))
    BY DEF CqGoes, Goto, WorkOn, Return, Drop
  <1>2. /\ CqThread \in Threads /\ pc'[CqThread] = "idle"
        /\ \A t \in Threads : t # CqThread => pc'[t] = pc[t] /\ arg'[t] = arg[t]
    BY <1>1, CqGoesFacts
  <1>3. TypeOK'
    <2>1. missed' \in SUBSET Calls
      BY DEF TypeOK, ThreadsTracked
    <2> QED BY <1>1, <2>1, NoJobTypes, CqTypes DEF TypeOK, Jobs, CqLabels
  <1>4. /\ ThreadsTracked' /\ LocksTracked' /\ OneOwner'
        /\ TokenUnique' /\ TokensTracked' /\ LoginsTracked'
    BY <1>1, CqMoves DEF Attaching, LogoffLabels
  <1>5. CallsTracked' /\ NoEmptyUser' /\ LogoffTracked' /\ LogoffFindsInstance'
    BY <1>2 DEF CallsTracked, NoEmptyUser, BeingAttached, LogoffTracked,
                LogoffFindsInstance
  <1>6. DevicesTracked'
    <2>1. \A t \in Threads, b \in Apps : InLogin(t, b) => InLogin(t, b)'
      BY <1>2 DEF InLogin, LoginLabels
    <2>2. \A b \in Apps : m_connected_devices[b] = arg[CqThread].call
                          => b = arg[CqThread].app
      BY AppIdOfParked
    <2> QED BY <1>2, <2>1, <2>2 DEF DevicesTracked
  <1> QED BY <1>3, <1>4, <1>5, <1>6

-----------------------------------------------------------------------------
(* Wherever a stale tag leads, it leads to an instance of a registered     *)
(* user.                                                                   *)
LEMMA TargetFacts ==
  ASSUME RegistryInv, NEW c \in Calls, tag[c] # "none",
         NEW d \in Targets(c), d # NoCall
  PROVE  /\ d \in Calls /\ owner[d] \in Users /\ d \in m_instances[owner[d]]
         /\ owner[d] \in m_users
  <1> USE DEF RegistryInv
  <1>1. owner[c] \in Users
    BY DEF CallsTracked
  <1>2. d \in m_instances[owner[c]]
    BY <1>1 DEF Targets, CallsTracked, TypeOK
  <1>3. d \in Calls /\ owner[d] = owner[c]
    BY <1>1, <1>2 DEF TypeOK, CallsTracked
  <1>4. owner[d] \in m_users
    BY <1>1, <1>2, <1>3 DEF NoEmptyUser
  <1> QED BY <1>1, <1>2, <1>3, <1>4

LEMMA WriteFailedInv ==
  ASSUME RegistryInv, NEW c \in Calls, WriteFailed(c)
  PROVE  RegistryInv'
  <1> USE RegistryAssumption
      DEF RegistryInv, WriteFailed, registry, attached, locks, progress
  <1>1. /\ tag' \in [Calls -> {"none", "exact", "moved"}]
        /\ \A d \in Calls : tag'[d] = tag[d] \/ tag'[d] = "none"
    BY DEF TypeOK
  <1>2. PICK d \in Targets(c) :
           \/ d = NoCall /\ UNCHANGED <<pc, arg, finishing>>
           \/ /\ d # NoCall /\ finishing' = d
              /\ CqGoes("finished", Job(owner[d], NoApp, d))
    BY DEF CqGoes, Goto, WorkOn
  <1>3. CASE d = NoCall /\ UNCHANGED <<pc, arg, finishing>>
    <2>1. TypeOK'
      BY <1>1, <1>3 DEF TypeOK
    <2>2. ASSUME NEW e \in Calls
          PROVE  /\ tag'[e] # "none" => owner[e] \in Users
                 /\ tag'[e] = "exact" => e \in m_instances[owner[e]]
      BY <1>1 DEF CallsTracked
    <2> QED BY <1>3, <2>1, <2>2, TagSteps
  <1>4. CASE /\ d # NoCall /\ finishing' = d
             /\ CqGoes("finished", Job(owner[d], NoApp, d))
    <2>1. CqGoes("finished", Job(owner[d], NoApp, d))
      BY <1>4
    <2>2. /\ d \in Calls /\ owner[d] \in Users /\ owner[d] \in m_users
          /\ d \in m_instances[owner[d]]
      BY <1>4, TargetFacts
    <2>3. /\ CqThread \in Threads /\ pc'[CqThread] = "finished"
          /\ arg'[CqThread] = [user |-> owner[d], app |-> NoApp, token |-> NoApp,
                               call |-> d]
          /\ \A t \in Threads : t # CqThread => pc'[t] = pc[t] /\ arg'[t] = arg[t]
      BY <2>1, CqGoesFacts DEF Job
    <2>4. TypeOK'
      BY <1>1, <1>4, <2>1, <2>2, JobTypes, TokenTypes, CqTypes
         DEF TypeOK, Jobs, CqLabels
    <2>5. /\ ThreadsTracked' /\ LocksTracked' /\ OneOwner'
          /\ TokenUnique' /\ TokensTracked' /\ LoginsTracked'
      BY <2>1, <2>2, CqMoves DEF Attaching, Job
    <2>6. CallsTracked'
      BY <1>1, <2>3 DEF CallsTracked
    <2>7. NoEmptyUser'
      BY <2>3 DEF NoEmptyUser, BeingAttached
    <2>8. LogoffTracked' /\ LogoffFindsInstance'
      BY <1>4, <2>2, <2>3 DEF LogoffTracked, LogoffFindsInstance
    <2>9. DevicesTracked'
      BY <2>3 DEF DevicesTracked, InLogin, LoginLabels
    <2> QED BY <2>4, <2>5, <2>6, <2>7, <2>8, <2>9
  <1> QED BY <1>2, <1>3, <1>4

(* The end of OnFinished: the callback of the user is called with the      *)
(* token of the instance, or with anything once the instance has moved.    *)
LEMMA CallLogoffInv ==
  ASSUME RegistryInv, CallLogoff \/ CallLogoffMoved
  PROVE  RegistryInv'
  <1> DEFINE j == arg[CqThread]
  <1> USE RegistryAssumption
      DEF RegistryInv, registry, attached, locks, pins, grpc, progress
  <1>1. /\ pc[CqThread] = "finished" /\ finishing' = NoCall
        /\ UNCHANGED <<registry, locks, app_ids, visiting, armed, app, waiting,
                       connected, tag, missed, progress>>
    BY DEF CallLogoff, CallLogoffMoved
  <1>2. CqThread \in Threads /\ j.user \in Users /\ j.user \in m_users
    BY <1>1 DEF Threads, ThreadsTracked, LogoffLabels, LogoffTracked
  <1>3. \/ \E k \in Tokens, c \in Calls \cup {NoCall} :
              /\ CqGoes("logoff", Job(j.user, k, c))
              /\ c # NoCall => SameToken(j.user, k) # {}
        \/ CqGoes("idle", Job(NoUser, NoApp, NoCall))
    <2>1. CASE CallLogoff
      <3>1. /\ finishing \in Calls /\ j.call = finishing
            /\ finishing \in m_instances[j.user]
        BY <2>1 DEF CallLogoff, LogoffTracked, TypeOK
      <3>2. token[finishing] \in Tokens
            /\ SameToken(j.user, token[finishing]) # {}
        BY <3>1 DEF TypeOK, SameToken
      <3> QED BY <2>1, <3>1, <3>2 DEF CallLogoff, CqGoes, Goto, WorkOn
    <2>2. CASE CallLogoffMoved
      BY <2>2 DEF CallLogoffMoved, CqGoes, Goto, WorkOn, Return, Drop
    <2> QED BY <2>1, <2>2
  <1>4. PICK label \in {"logoff", "idle"}, job \in Jobs :
           /\ CqGoes(label, job)
           /\ label = "logoff" =>
                 /\ job.user = j.user
                 /\ job.call # NoCall => SameToken(j.user, job.token) # {}
    <2>1. CASE \E k \in Tokens, c \in Calls \cup {NoCall} :
                  /\ CqGoes("logoff", Job(j.user, k, c))
                  /\ c # NoCall => SameToken(j.user, k) # {}
      <3>1. PICK k \in Tokens, c \in Calls \cup {NoCall} :
                  /\ CqGoes("logoff", Job(j.user, k, c))
                  /\ c # NoCall => SameToken(j.user, k) # {}
        BY <2>1
      <3>2. Job(j.user, k, c) \in Jobs
        BY <1>2, JobTypes
      <3> QED BY <3>1, <3>2 DEF Job
    <2>2. CASE CqGoes("idle", Job(NoUser, NoApp, NoCall))
      BY <2>2, NoJobTypes
    <2> QED BY <1>3, <2>1, <2>2
  <1>5. /\ pc'[CqThread] = label /\ arg'[CqThread] = job
        /\ \A t \in Threads : t # CqThread => pc'[t] = pc[t] /\ arg'[t] = arg[t]
    BY <1>4, CqGoesFacts
  <1>6. TypeOK'
    <2>1. label \in CqLabels
      BY DEF CqLabels
    <2> QED BY <1>1, <1>4, <2>1, CqTypes DEF TypeOK, Jobs
  <1>7. /\ ThreadsTracked' /\ LocksTracked' /\ OneOwner'
        /\ TokenUnique' /\ TokensTracked' /\ LoginsTracked'
    BY <1>1, <1>2, <1>4, CqMoves DEF Attaching, LogoffLabels
  <1>8. CallsTracked' /\ NoEmptyUser'
    BY <1>1, <1>5 DEF CallsTracked, NoEmptyUser, BeingAttached
  <1>9. LogoffTracked' /\ LogoffFindsInstance'
    BY <1>1, <1>2, <1>4, <1>5 DEF LogoffTracked, LogoffFindsInstance, SameToken
  <1>10. DevicesTracked'
    BY <1>1, <1>5 DEF DevicesTracked, InLogin, LoginLabels
  <1> QED BY <1>6, <1>7, <1>8, <1>9, <1>10

(* Whatever find_if finds, an instance of the user is erased or none.      *)
LEMMA ErasedFacts ==
  ASSUME RegistryInv, NEW u \in Users, NEW k, NEW gone \in ErasedByLogoff(u, k)
  PROVE  gone \in SUBSET m_instances[u] /\ \A c, d \in gone : c = d
  BY DEF RegistryInv, TokenUnique, ErasedByLogoff, SameToken, Last

LEMMA InstanceLogoffInv ==
  ASSUME RegistryInv, InstanceLogoff
  PROVE  RegistryInv'
  <1> DEFINE u == arg[CqThread].user
  <1> USE RegistryAssumption
      DEF RegistryInv, InstanceLogoff, EraseLoggedOff, attached, progress
  <1>1. u \in Users /\ u \in m_users
    BY DEF ThreadsTracked, LogoffLabels, LogoffFindsInstance
  <1>2. PICK gone \in ErasedByLogoff(u, arg[CqThread].token) : Erase(u, gone)
    OBVIOUS
  <1>3. /\ CqThread \in Threads /\ pc'[CqThread] = "check_empty" /\ arg' = arg
        /\ \A t \in Threads : t # CqThread => pc'[t] = pc[t]
        /\ \A h \in Handlers : pc'[h] = pc[h]
    BY DEF TypeOK, Goto, Threads
  <1>4. /\ m_instances' \in [Users -> SUBSET Calls]
        /\ tag' \in [Calls -> {"none", "exact", "moved"}]
        /\ finishing' \in Calls \cup {NoCall}
        /\ connected' \in SUBSET Calls
        /\ \A v \in Users : m_instances'[v] \subseteq m_instances[v]
        /\ \A v \in Users : v # u => m_instances'[v] = m_instances[v]
        /\ finishing' # NoCall => finishing' = finishing
    BY <1>1, <1>2, EraseFacts
  <1>5. m_instances_mutex' = m_instances_mutex
    BY <1>1 DEF TypeOK
  <1>6. TypeOK'
    <2>1. pc' \in [Threads -> HandlerLabels \cup CqLabels]
      BY DEF TypeOK, Goto, CqLabels
    <2>2. UNCHANGED <<m_connected_devices, m_users, ahead, owner, token, misread,
                      m_mtx, m_instances_mutex, app_ids, arg, visiting, armed,
                      app, waiting, missed, constructed, logins, failures, posts>>
      BY <1>5
    <2> HIDE DEF InstanceLogoff, EraseLoggedOff
    <2> QED BY <1>4, <2>1, <2>2 DEF TypeOK
  <1>7. ThreadsTracked'
    BY <1>3 DEF ThreadsTracked, Device, CqLabels, LoginLabels, LogoffLabels
  <1>8. LocksTracked'
    BY <1>3, <1>5 DEF LocksTracked, Attaching
  <1>9. /\ OneOwner' /\ CallsTracked' /\ TokenUnique'
        /\ \A v \in Users : \A c \in m_instances'[v] :
               c \in misread' \/ TokenOf(v, c)'
    BY <1>1, <1>2, <1>3, EraseParts
  <1>10. TokensTracked'
    <2>1. \A v \in Users : \A b : SameToken(v, b)' \subseteq SameToken(v, b)
      BY <1>4 DEF SameToken
    <2> QED BY <1>3, <1>9, <2>1 DEF TokensTracked, ThreadsTracked, LoginLabels
  <1>11. LoginsTracked' /\ LogoffTracked' /\ LogoffFindsInstance'
    BY <1>3, <1>4 DEF LoginsTracked, Device, LogoffTracked, LogoffFindsInstance,
                      Attaching
  <1>12. NoEmptyUser'
    BY <1>1, <1>3, <1>4 DEF NoEmptyUser, BeingAttached
  <1>13. DevicesTracked'
    BY <1>3 DEF DevicesTracked, InLogin, LoginLabels
  <1> QED BY <1>6, <1>7, <1>8, <1>9, <1>10, <1>11, <1>12, <1>13

(* The tests of the log-off callback change nothing but the thread.        *)
LEMMA LogoffTestInv ==
  ASSUME RegistryInv, CheckEmpty \/ UserLogoffSkipped
  PROVE  RegistryInv'
  <1> DEFINE j == arg[CqThread]
             none == Job(NoUser, NoApp, NoCall)
  <1> USE RegistryAssumption
      DEF RegistryInv, registry, attached, locks, pins, grpc, progress
  <1>1. /\ UNCHANGED <<registry, locks, app_ids, visiting, grpc, missed, progress>>
        /\ pc[CqThread] \in {"check_empty", "user_logoff"}
    BY DEF CheckEmpty, UserLogoffSkipped
  <1>2. j.user \in Users /\ j \in Jobs
    BY <1>1 DEF ThreadsTracked, TypeOK, Threads, Jobs, LogoffLabels
  <1>4. \/ m_instances[j.user] = {} /\ CqGoes("user_logoff", j)
        \/ m_instances[j.user] # {} /\ CqGoes("idle", none)
    <2>1. arg = [arg EXCEPT ![CqThread] = j]
      BY DEF TypeOK, Threads
    <2> QED BY <2>1 DEF CheckEmpty, UserLogoffSkipped, CqGoes, Goto, WorkOn,
                        Return, Drop
  <1>5. PICK label \in {"user_logoff", "idle"}, job \in {j, none} :
           /\ CqGoes(label, job)
           /\ m_instances[j.user] = {} => label = "user_logoff"
           /\ label = "user_logoff" => job = j
    BY <1>4
  <1>6. /\ CqThread \in Threads
        /\ pc'[CqThread] = label /\ arg'[CqThread] = job
        /\ \A t \in Threads : t # CqThread => pc'[t] = pc[t] /\ arg'[t] = arg[t]
    BY <1>5, CqGoesFacts
  <1>7. TypeOK'
    <2>1. label \in CqLabels
      BY DEF CqLabels
    <2>2. /\ pc' \in [Threads -> HandlerLabels \cup CqLabels]
          /\ arg' \in [Threads -> Jobs]
      BY <1>2, <1>5, <2>1, NoJobTypes, CqTypes
    <2> QED BY <1>1, <2>2 DEF TypeOK, Jobs
  <1>8. /\ ThreadsTracked' /\ LocksTracked' /\ OneOwner'
        /\ TokenUnique' /\ TokensTracked' /\ LoginsTracked'
    <2>1. pc[CqThread] \notin Attaching
      BY <1>1 DEF Attaching
    <2>2. label \in LogoffLabels => job.user \in Users
      BY <1>2, <1>5 DEF LogoffLabels
    <2> QED BY <1>1, <1>5, <2>1, <2>2, CqMoves
  <1>9. CallsTracked' /\ LogoffTracked' /\ LogoffFindsInstance'
    BY <1>1, <1>6 DEF CallsTracked, LogoffTracked, LogoffFindsInstance
  <1>10. NoEmptyUser'
    BY <1>1, <1>5, <1>6 DEF NoEmptyUser, BeingAttached
  <1>11. DevicesTracked'
    BY <1>1, <1>6 DEF DevicesTracked, InLogin, LoginLabels
  <1> QED BY <1>7, <1>8, <1>9, <1>10, <1>11

LEMMA UserLogoffInv ==
  ASSUME RegistryInv, UserLogoff
  PROVE  RegistryInv'
  <1> DEFINE u == arg[CqThread].user
  <1> USE RegistryAssumption
      DEF RegistryInv, UserLogoff, attached, locks, progress
  <1>1. u \in Users
    BY DEF ThreadsTracked, LogoffLabels
  <1>2. Erase(u, m_instances[u])
    OBVIOUS
  <1>3. CqGoes("idle", Job(NoUser, NoApp, NoCall))
    BY DEF CqGoes, Goto, WorkOn, Return, Drop
  <1>4. /\ CqThread \in Threads /\ pc'[CqThread] = "idle"
        /\ \A t \in Threads : t # CqThread => pc'[t] = pc[t] /\ arg'[t] = arg[t]
        /\ \A h \in Handlers : pc'[h] = pc[h]
    BY <1>3, CqGoesFacts
  <1>5. /\ m_instances' \in [Users -> SUBSET Calls]
        /\ tag' \in [Calls -> {"none", "exact", "moved"}]
        /\ finishing' \in Calls \cup {NoCall}
        /\ connected' \in SUBSET Calls
        /\ m_instances'[u] = {}
        /\ \A v \in Users : v # u => m_instances'[v] = m_instances[v]
        /\ finishing' # NoCall => finishing' = finishing
    BY <1>1, <1>2, EraseFacts
  <1>6. TypeOK'
    BY <1>3, <1>5, NoJobTypes, CqTypes DEF TypeOK, Jobs, CqLabels
  <1>7. \A t \in Threads : pc'[t] \notin Attaching
    <2>1. NoThread \notin Threads
      BY DEF Threads
    <2> QED BY <1>4, <2>1 DEF LocksTracked, Attaching
  <1>8. ThreadsTracked'
    BY <1>4 DEF ThreadsTracked, Device, CqLabels, LoginLabels, LogoffLabels
  <1>9. LocksTracked'
    BY <1>4 DEF LocksTracked, Attaching
  <1>10. /\ OneOwner' /\ CallsTracked' /\ TokenUnique'
         /\ \A v \in Users : \A c \in m_instances'[v] :
                c \in misread' \/ TokenOf(v, c)'
    BY <1>1, <1>2, <1>4, EraseParts
  <1>11. /\ TokensTracked' /\ LoginsTracked'
         /\ LogoffTracked' /\ LogoffFindsInstance'
    BY <1>4, <1>5, <1>7, <1>10
       DEF TokensTracked, LoginsTracked, LogoffTracked, LogoffFindsInstance,
           Attaching
  <1>12. NoEmptyUser'
    BY <1>1, <1>4, <1>5 DEF NoEmptyUser, BeingAttached
  <1>13. DevicesTracked'
    BY <1>4 DEF DevicesTracked, InLogin, LoginLabels
  <1> QED BY <1>6, <1>8, <1>9, <1>10, <1>11, <1>12, <1>13

-----------------------------------------------------------------------------
(* Theorems.                                                               *)

(* Whatever logins, subscriptions, posts and log-offs overlap, threads,    *)
(* mutexes, calls, tokens and users fit together.                          *)
THEOREM RegistryInvariance == Spec => []RegistryInv
  <1>1. RegistryInv /\ [Next]_vars => RegistryInv'
    <2> SUFFICES ASSUME RegistryInv, [Next]_vars PROVE RegistryInv'
      OBVIOUS
    <2>1. ASSUME NEW t \in Threads, StorageLoginUser(t)
          PROVE  RegistryInv'
      BY <2>1, LoginLockInv, LoginEraseInv, LoginEmplaceInv DEF StorageLoginUser
    <2>2. ASSUME NEW h \in Handlers, Request(h)
          PROVE  RegistryInv'
      BY <2>2, TokenTypes, LoginUserInv, LoginUserFailsInv, StartPostInv
         DEF Request, PostToAllUsers, PostEventToUser, PostEventToInstance
    <2>3. ASSUME NEW h \in Handlers, HandlerStep(h)
          PROVE  RegistryInv'
      BY <2>1, <2>3, HandlerIsThread, RearmInv, PostEventInv, EndPostInv
         DEF HandlerStep
    <2>4. CASE CqStep
      <3>1. CqThread \in Threads
        BY DEF Threads
      <3> QED BY <2>1, <2>4, <3>1, NewSubscriberInv, WriteFinishedInv,
                 WriteFailedInv, EmplaceDeviceInv, LookupUserInv,
                 LookupFailsInv, CallLogoffInv, InstanceLogoffInv,
                 LogoffTestInv, UserLogoffInv DEF CqStep
    <2> QED BY <2>2, <2>3, <2>4, OutsideInv, SubscribeInv DEF Next
  <1> QED BY <1>1, RegistryInvInit, PTL DEF Spec

(* Every variable keeps its type.                                          *)
THEOREM RegistryTypes == Spec => []TypeOK
  <1>1. RegistryInv => TypeOK
    BY DEF RegistryInv
  <1> QED BY <1>1, RegistryInvariance, PTL

(* The stream of a subscriber has one owner at a time.                     *)
THEOREM CallHasOneOwner == Spec => []OneOwner
  <1>1. RegistryInv => OneOwner
    BY DEF RegistryInv
  <1> QED BY <1>1, RegistryInvariance, PTL

(* No user has two instances with the same access token.                   *)
THEOREM TokensUnique == Spec => []TokenUnique
  <1>1. RegistryInv => TokenUnique
    BY DEF RegistryInv
  <1> QED BY <1>1, RegistryInvariance, PTL

(* An access token finds only users who logged in with that app id, and    *)
(* only devices with it, but for those that were attached with the strings *)
(* of a destroyed call.                                                    *)
THEOREM TokensOfLoggedIn == Spec => []TokenOfLoggedIn
  <1>1. RegistryInv => TokenOfLoggedIn
    BY DEF RegistryInv, TypeOK, TokensTracked, TokenOf, TokenOfLoggedIn,
           GetUuidByAccessToken, SameToken
  <1> QED BY <1>1, RegistryInvariance, PTL

(* LoginUser and OnNewEventsSubscriber do not miss each other.             *)
THEOREM NoneStranded == Spec => []NoStrandedDevice
  <1>1. RegistryInv => NoStrandedDevice
    BY AppIdOfParked DEF RegistryInv, DevicesTracked, NoStrandedDevice
  <1> QED BY <1>1, RegistryInvariance, PTL

(* The log-off callback runs for a registered user; a token read from an   *)
(* instance in its place is there or is being renewed.                     *)
THEOREM LogoffFinds == Spec => []LogoffFindsInstance
  <1>1. RegistryInv => LogoffFindsInstance
    BY DEF RegistryInv
  <1> QED BY <1>1, RegistryInvariance, PTL

(* A user stays registered exactly as long as it has instances, gets one,  *)
(* or is on its way out.                                                   *)
THEOREM NoneEmpty == Spec => []NoEmptyUser
  <1>1. RegistryInv => NoEmptyUser
    BY DEF RegistryInv
  <1> QED BY <1>1, RegistryInvariance, PTL

(* The erase of the log-off callback, which only logs a failed find_if and *)
(* erases in any case, has an instance to erase when the token was read    *)
(* from an instance in its place: once the callback gets m_instances_mutex *)
(* the token that it looks for is in the vector.                           *)
LogoffErasesInstance ==
    [][InstanceLogoff /\ arg[CqThread].call # NoCall =>
         SameToken(arg[CqThread].user, arg[CqThread].token) # {}]_vars

(* No log-off erases end() unless a login moved its instance before the    *)
(* token was read, however logins replace the instance afterwards.         *)
THEOREM LogoffErases == Spec => LogoffErasesInstance
  <1>1. RegistryInv /\ InstanceLogoff /\ arg[CqThread].call # NoCall =>
            SameToken(arg[CqThread].user, arg[CqThread].token) # {}
    <2> SUFFICES ASSUME RegistryInv, InstanceLogoff, arg[CqThread].call # NoCall
                 PROVE  SameToken(arg[CqThread].user, arg[CqThread].token) # {}
      OBVIOUS
    <2>1. /\ pc[CqThread] = "logoff"
          /\ m_instances_mutex[arg[CqThread].user] = NoThread
      BY DEF InstanceLogoff, EraseLoggedOff
    <2>2. arg[CqThread].user \in Users /\ NoThread \notin Threads
      BY <2>1, RegistryAssumption
         DEF RegistryInv, ThreadsTracked, LogoffLabels, Threads
    <2> QED BY <2>1, <2>2 DEF RegistryInv, LogoffFindsInstance, LocksTracked
  <1> QED BY <1>1, RegistryInvariance, PTL DEF LogoffErasesInstance

-----------------------------------------------------------------------------
(* The calls live as CallLifecycle says.                                   *)

(* In the hands of OnNewEventsSubscriber.                                  *)
Taken(c) == pc[CqThread] = "sub_emplace" /\ arg[CqThread].call = c

(* The mapped variables.                                                   *)
Places == [c \in Calls |-> Place(c)]

UsersOf == [c \in Calls |-> IF \E u \in Users : c \in m_instances[u]
                            THEN owner[c] ELSE NoUser]

LifecycleStep == [Lifecycle!Next]_<<Places, UsersOf>>

LEMMA LifecycleInit == Init => Lifecycle!Init
  <1> SUFFICES ASSUME Init PROVE Lifecycle!Init
    OBVIOUS
  <1>1. \A c \in Calls : Place(c) = "new" /\ ~\E u \in Users : c \in m_instances[u]
    BY DEF Init, Place
  <1> QED BY <1>1 DEF Lifecycle!Init

(* What does not move a call.                                              *)
LEMMA LifecycleStutter ==
  ASSUME UNCHANGED <<waiting, app, m_connected_devices, m_instances, owner>>,
         \A c \in Calls : Taken(c)' <=> Taken(c)
  PROVE  LifecycleStep
  <1>1. \A c \in Calls : Place(c)' = Place(c)
    BY DEF Place, Taken
  <1>2. UNCHANGED Places
    BY <1>1 DEF Places
  <1>3. UNCHANGED UsersOf
    BY DEF UsersOf
  <1> QED BY <1>2, <1>3 DEF LifecycleStep

(* A step that moves one call and attaches none.                           *)
LEMMA LifecycleMove ==
  ASSUME NEW c \in Calls, NEW from, NEW to,
         <<from, to>> \in {<<"new", "waiting">>, <<"waiting", "taken">>,
                           <<"taken", "parked">>, <<"taken", "ended">>},
         Place(c) = from, Place(c)' = to,
         \A d \in Calls : d # c => Place(d)' = Place(d),
         UNCHANGED <<m_instances, owner>>
  PROVE  LifecycleStep
  <1>1. Places' = [Places EXCEPT ![c] = to] /\ Places[c] = from
    BY DEF Places
  <1>2. UNCHANGED UsersOf
    BY DEF UsersOf
  <1>3. Lifecycle!Move(c, from, to)
    BY <1>1, <1>2 DEF Lifecycle!Move, Places, UsersOf
  <1>4. Lifecycle!Next
    BY <1>3 DEF Lifecycle!Next
  <1> QED BY <1>4 DEF LifecycleStep

(* Erased instances end, and nothing else moves.                           *)
LEMMA LifecycleErase ==
  ASSUME RegistryInv, NEW u \in Users, NEW gone \in SUBSET m_instances[u],
         Erase(u, gone),
         UNCHANGED <<m_connected_devices, owner, app, waiting>>,
         \A c \in Calls : Taken(c)' <=> Taken(c)
  PROVE  /\ gone \subseteq Calls
         /\ \A c \in gone : UsersOf[c] = u
         /\ \A c \in Calls : UsersOf[c] = u => c \in m_instances[u]
         /\ UsersOf' = [c \in Calls |-> IF c \in gone THEN NoUser ELSE UsersOf[c]]
         /\ Places' = [c \in Calls |-> IF c \in gone THEN "ended" ELSE Places[c]]
  <1> USE DEF RegistryInv
  <1>1. /\ m_instances'[u] = m_instances[u] \ gone
        /\ \A v \in Users : v # u => m_instances'[v] = m_instances[v]
    BY EraseFacts
  <1>2. gone \subseteq Calls
    BY DEF TypeOK
  <1>3. /\ \A c \in gone : owner[c] = u
        /\ \A c \in gone, v \in Users : v # u => c \notin m_instances[v]
    BY DEF CallsTracked, OneOwner
  <1>4. \A c \in gone : UsersOf[c] = u
    BY <1>2, <1>3 DEF UsersOf
  <1>5. \A c \in Calls : UsersOf[c] = u => c \in m_instances[u]
    BY RegistryAssumption DEF UsersOf, CallsTracked
  <1>6. \A c \in Calls : (\E v \in Users : c \in m_instances'[v])
                         <=> c \notin gone /\ \E v \in Users : c \in m_instances[v]
    BY <1>1, <1>3
  <1>7. UsersOf' = [c \in Calls |-> IF c \in gone THEN NoUser ELSE UsersOf[c]]
    BY <1>6 DEF UsersOf
  <1>8. ASSUME NEW c \in gone
        PROVE  Place(c)' = "ended"
    <2>1. /\ c \notin waiting /\ app[c] # NoApp /\ ~Taken(c)
          /\ \A a \in Apps : m_connected_devices[a] # c
      BY <1>2, <1>8 DEF OneOwner, CallsTracked, Taken
    <2> QED BY <1>2, <1>6, <1>8, <2>1 DEF Place, Taken
  <1>9. \A c \in Calls : c \notin gone => Place(c)' = Place(c)
    BY <1>6 DEF Place, Taken
  <1>10. Places' = [c \in Calls |-> IF c \in gone THEN "ended" ELSE Places[c]]
    BY <1>2, <1>8, <1>9 DEF Places
  <1> QED BY <1>2, <1>4, <1>5, <1>7, <1>10

(* A reconnection or a log-off ends one call at most.                      *)
LEMMA LifecycleLeave ==
  ASSUME RegistryInv, NEW u \in Users, NEW gone \in SUBSET m_instances[u],
         \A c, d \in gone : c = d,
         Erase(u, gone),
         UNCHANGED <<m_connected_devices, owner, app, waiting>>,
         \A c \in Calls : Taken(c)' <=> Taken(c)
  PROVE  LifecycleStep
  <1>3. /\ gone \subseteq Calls
        /\ \A c \in gone : UsersOf[c] = u
        /\ UsersOf' = [c \in Calls |-> IF c \in gone THEN NoUser ELSE UsersOf[c]]
        /\ Places' = [c \in Calls |-> IF c \in gone THEN "ended" ELSE Places[c]]
    BY LifecycleErase
  <1>4. CASE gone = {}
    BY <1>3, <1>4 DEF LifecycleStep, Places, UsersOf
  <1>5. CASE gone # {}
    <2>1. PICK c \in Calls : gone = {c}
      BY <1>3, <1>5
    <2>2. /\ UsersOf[c] # NoUser
          /\ UsersOf' = [UsersOf EXCEPT ![c] = NoUser]
          /\ Places' = [Places EXCEPT ![c] = "ended"]
      BY <1>3, <2>1, RegistryAssumption DEF UsersOf, Places
    <2>3. Lifecycle!Leave(c)
      BY <2>2 DEF Lifecycle!Leave, UsersOf, Places
    <2> QED BY <2>3 DEF Lifecycle!Next, LifecycleStep
  <1> QED BY <1>4, <1>5

(* The log-off of a user ends all of its calls.                            *)
LEMMA LifecycleEnd ==
  ASSUME RegistryInv, UserLogoff
  PROVE  LifecycleStep
  <1>1. PICK u \in Users : u = arg[CqThread].user
    BY DEF UserLogoff, RegistryInv, ThreadsTracked, LogoffLabels
  <1>2. \A c \in Calls : Taken(c)' <=> Taken(c)
    BY DEF UserLogoff, Return, Goto, Taken, RegistryInv, TypeOK, Threads
  <1>3. /\ m_instances[u] \subseteq Calls
        /\ \A c \in Calls : c \in m_instances[u] <=> UsersOf[c] = u
        /\ UsersOf' = [c \in Calls |-> IF c \in m_instances[u] THEN NoUser
                                                              ELSE UsersOf[c]]
        /\ Places' = [c \in Calls |-> IF c \in m_instances[u] THEN "ended"
                                                             ELSE Places[c]]
    BY <1>1, <1>2, LifecycleErase DEF UserLogoff, attached
  <1>4. CASE m_instances[u] = {}
    BY <1>3, <1>4 DEF LifecycleStep, Places, UsersOf
  <1>5. CASE m_instances[u] # {}
    <2>1. /\ \E c \in Calls : UsersOf[c] = u
          /\ UsersOf' = [c \in Calls |-> IF UsersOf[c] = u THEN NoUser
                                                           ELSE UsersOf[c]]
          /\ Places' = [c \in Calls |-> IF UsersOf[c] = u THEN "ended"
                                                          ELSE Places[c]]
      BY <1>3, <1>5
    <2>2. Lifecycle!End(u)
      BY <2>1 DEF Lifecycle!End, UsersOf, Places
    <2> QED BY <2>2 DEF Lifecycle!Next, LifecycleStep
  <1> QED BY <1>4, <1>5

(* LoginUser attaches the device that was parked, to the user who logs in. *)
LEMMA LifecycleAttach ==
  ASSUME RegistryInv, NEW t \in Threads, LoginEmplace(t)
  PROVE  LifecycleStep
  <1> USE RegistryAssumption DEF RegistryInv, LoginEmplace, EmplaceInstance
  <1>1. PICK u \in Users, a \in Apps : u = arg[t].user /\ a = arg[t].app
    BY LoginArg DEF LoginLabels, Attaching
  <1>0. PICK c \in Calls : c = m_connected_devices[a]
    BY <1>1, DeviceFacts
  <1>2. /\ app[c] = a
        /\ \A v \in Users : c \notin m_instances[v]
        /\ \A b \in Apps : m_connected_devices[b] = c => b = a
        /\ c \notin waiting /\ ~Taken(c)
    BY <1>0, <1>1, DeviceFacts DEF Taken
  <1>3. /\ m_instances'[u] = m_instances[u] \cup {c}
        /\ \A v \in Users : v # u => m_instances'[v] = m_instances[v]
        /\ owner'[c] = u
        /\ \A d \in Calls : d # c => owner'[d] = owner[d]
    BY <1>0, <1>1 DEF TypeOK
  <1>4. /\ m_connected_devices'[a] = NoCall
        /\ \A b \in Apps : b # a => m_connected_devices'[b] = m_connected_devices[b]
    BY <1>1 DEF TypeOK
  <1>5. \A d \in Calls : Taken(d)' <=> Taken(d)
    <2>1. \/ pc'[CqThread] = pc[CqThread] /\ arg'[CqThread] = arg[CqThread]
          \/ pc[CqThread] = "login_emplace" /\ pc'[CqThread] = "idle"
      BY ReturnFacts DEF Threads
    <2> QED BY <2>1 DEF Taken
  <1>6. Place(c) = "parked"
    BY <1>0, <1>2 DEF Place, Taken
  <1>7. Place(c)' = "attached"
    <2>1. c \notin waiting' /\ app'[c] # NoApp /\ ~Taken(c)'
      BY <1>1, <1>2, <1>5
    <2>2. \A b \in Apps : m_connected_devices'[b] # c
      BY <1>2, <1>4
    <2>3. \E v \in Users : c \in m_instances'[v]
      BY <1>1, <1>3
    <2> QED BY <2>1, <2>2, <2>3 DEF Place, Taken
  <1>8. \A d \in Calls : d # c =>
            /\ (\E v \in Users : d \in m_instances'[v])
               <=> \E v \in Users : d \in m_instances[v]
            /\ (\E b \in Apps : m_connected_devices'[b] = d)
               <=> \E b \in Apps : m_connected_devices[b] = d
    BY <1>0, <1>3, <1>4
  <1>9. \A d \in Calls : d # c => Place(d)' = Place(d)
    BY <1>5, <1>8 DEF Place, Taken
  <1>10. Places[c] = "parked" /\ Places' = [Places EXCEPT ![c] = "attached"]
    BY <1>2, <1>6, <1>7, <1>9 DEF Places
  <1>11. UsersOf' = [UsersOf EXCEPT ![c] = u]
    <2>1. \E v \in Users : c \in m_instances'[v]
      BY <1>3
    <2>2. UsersOf' = [d \in Calls |-> IF d = c THEN u ELSE UsersOf[d]]
      BY <1>3, <1>8, <2>1 DEF UsersOf
    <2> QED BY <2>2 DEF UsersOf
  <1>12. Lifecycle!Attach(c, u)
    BY <1>10, <1>11 DEF Lifecycle!Attach, Places, UsersOf
  <1> QED BY <1>12 DEF Lifecycle!Next, LifecycleStep

LEMMA LifecycleSubscribe ==
  ASSUME RegistryInv, NEW c \in Calls, NEW a \in Apps, Subscribe(c, a)
  PROVE  LifecycleStep
  <1> USE DEF RegistryInv, Subscribe, registry, attached
  <1>1. Place(c) = "new"
    BY DEF Place, CallsTracked
  <1>2. Place(c)' = "waiting"
    BY DEF Place
  <1>3. \A d \in Calls : d # c => Place(d)' = Place(d)
    BY DEF Place, TypeOK
  <1> QED BY <1>1, <1>2, <1>3, LifecycleMove

LEMMA LifecycleTake ==
  ASSUME RegistryInv, NEW c \in Calls, NewSubscriber(c)
  PROVE  LifecycleStep
  <1> USE DEF RegistryInv, NewSubscriber, registry, attached
  <1>1. /\ pc'[CqThread] = "sub_emplace" /\ arg'[CqThread].call = c
        /\ app[c] # NoApp
    BY DEF Goto, WorkOn, Job, TypeOK, Threads, CallsTracked
  <1>2. Place(c) = "waiting"
    BY DEF Place
  <1>3. Place(c)' = "taken"
    BY <1>1 DEF Place
  <1>4. \A d \in Calls : d # c => Place(d)' = Place(d)
    BY <1>1 DEF Place
  <1> QED BY <1>2, <1>3, <1>4, LifecycleMove

(* A device is parked unless its app id is taken: then it ends at once.    *)
LEMMA LifecyclePark ==
  ASSUME RegistryInv, EmplaceDevice
  PROVE  LifecycleStep
  <1> USE RegistryAssumption DEF RegistryInv, EmplaceDevice, attached
  <1>1. PICK c \in Calls, a \in Apps : c = arg[CqThread].call /\ a = arg[CqThread].app
    BY DEF ThreadsTracked
  <1>2. pc'[CqThread] = "sub_lookup"
    BY DEF Goto, TypeOK, Threads
  <1>3. /\ a = app[c] /\ c \notin waiting
        /\ \A u \in Users : c \notin m_instances[u]
        /\ \A b \in Apps : m_connected_devices[b] # c
    BY <1>1 DEF ThreadsTracked, CallsTracked, OneOwner
  <1>4. Place(c) = "taken"
    BY <1>1, <1>3 DEF Place
  <1>5. \A d \in Calls : d # c =>
            ((\E b \in Apps : m_connected_devices'[b] = d)
             <=> \E b \in Apps : m_connected_devices[b] = d)
    BY <1>1 DEF TypeOK
  <1>6. \A d \in Calls : d # c => Place(d)' = Place(d)
    BY <1>1, <1>2, <1>5 DEF Place
  <1>7. CASE m_connected_devices[a] = NoCall
    <2>1. m_connected_devices'[a] = c
      BY <1>1, <1>7 DEF TypeOK
    <2>2. Place(c)' = "parked"
      BY <1>2, <1>3, <2>1 DEF Place
    <2> QED BY <1>4, <1>6, <2>2, LifecycleMove
  <1>8. CASE m_connected_devices[a] # NoCall
    <2>1. m_connected_devices' = m_connected_devices
      BY <1>1, <1>8
    <2>2. Place(c)' = "ended"
      BY <1>2, <1>3, <2>1 DEF Place
    <2> QED BY <1>4, <1>6, <2>2, LifecycleMove
  <1> QED BY <1>7, <1>8

(* What only moves threads, posts events or ends Writes moves no call.     *)
LEMMA LifecycleOther ==
  ASSUME RegistryInv,
         \/ PostConstruct
         \/ \E c \in Calls : Disconnect(c) \/ WriteFinished(c) \/ WriteFailed(c)
         \/ \E h \in Handlers : Request(h)
         \/ \E h \in Handlers : WaitForEventsSubscriptionAsync(h) \/ EndPost(h)
         \/ \E h \in Handlers, u \in Users : PostEvent(h, u)
         \/ \E t \in Threads : LoginLock(t)
         \/ LookupUser \/ LookupFails
         \/ CallLogoff \/ CallLogoffMoved \/ CheckEmpty \/ UserLogoffSkipped
         \/ UNCHANGED vars
  PROVE  LifecycleStep
  <1> USE DEF RegistryInv, registry, attached, grpc
  <1>1. UNCHANGED <<waiting, app, m_connected_devices, m_instances, owner>>
    BY DEF PostConstruct, Disconnect, WriteFinished, WriteFailed, Request,
           LoginUser, LoginUserFails, PostToAllUsers, PostEventToUser,
           PostEventToInstance, StartPost, WaitForEventsSubscriptionAsync,
           EndPost, PostEvent, LoginLock, LookupUser, LookupFails, CallLogoff,
           CallLogoffMoved, CheckEmpty, UserLogoffSkipped, vars
  <1>2. \A c \in Calls : Taken(c)' <=> Taken(c)
    <2>0. CqThread \in Threads /\ \A h \in Handlers : h \in Threads /\ h # CqThread
      BY HandlerIsThread DEF Threads
    <2>1. CASE \/ PostConstruct
               \/ \E c \in Calls : Disconnect(c) \/ WriteFinished(c)
               \/ \E h \in Handlers, u \in Users : PostEvent(h, u)
               \/ UNCHANGED vars
      BY <2>1 DEF PostConstruct, Disconnect, WriteFinished, PostEvent, vars, Taken
    <2>2. CASE \E c \in Calls : WriteFailed(c)
      BY <2>0, <2>2 DEF WriteFailed, Goto, WorkOn, TypeOK, Taken
    <2>3. CASE \E h \in Handlers : \/ Request(h) \/ EndPost(h)
                                   \/ WaitForEventsSubscriptionAsync(h)
      <3>1. pc'[CqThread] = pc[CqThread] /\ arg'[CqThread] = arg[CqThread]
        BY <2>0, <2>3 DEF Request, LoginUser, LoginUserFails, PostToAllUsers,
             PostEventToUser, PostEventToInstance, StartPost, EndPost, Return,
             Drop, WaitForEventsSubscriptionAsync, Goto, WorkOn, TypeOK
      <3> QED BY <3>1 DEF Taken
    <2>4. CASE \E t \in Threads : LoginLock(t)
      <3>1. PICK t \in Threads : LoginLock(t)
        BY <2>4
      <3>2. CASE t = CqThread
        BY <2>0, <3>1, <3>2 DEF LoginLock, ReturnFromLogin, Goto, TypeOK, Taken
      <3>3. CASE t # CqThread
        BY <2>0, <3>1, <3>3 DEF LoginLock, ReturnFromLogin, Drop, Goto, WorkOn,
                                TypeOK, Taken
      <3> QED BY <3>2, <3>3
    <2>5. CASE \/ LookupUser \/ LookupFails
               \/ CallLogoff \/ CallLogoffMoved \/ CheckEmpty \/ UserLogoffSkipped
      <3>1. pc[CqThread] # "sub_emplace" /\ pc'[CqThread] # "sub_emplace"
        BY <2>0, <2>5 DEF LookupUser, CallLoginUser, LookupFails, CallLogoff,
             CallLogoffMoved, CheckEmpty, UserLogoffSkipped, Return, Goto, TypeOK
      <3> QED BY <3>1 DEF Taken
    <2> QED BY <2>1, <2>2, <2>3, <2>4, <2>5
  <1> QED BY <1>1, <1>2, LifecycleStutter

LEMMA LifecycleNext == RegistryInv /\ [Next]_vars => LifecycleStep
  <1> SUFFICES ASSUME RegistryInv, [Next]_vars PROVE LifecycleStep
    OBVIOUS
  <1>0. CqThread \in Threads /\ \A h \in Handlers : h \in Threads
    BY DEF Threads
  <1>1. ASSUME NEW t \in Threads, LoginEraseSameToken(t)
        PROVE  LifecycleStep
    <2>1. PICK u \in Users : u = arg[t].user
      BY <1>1, LoginArg DEF LoginEraseSameToken, LoginLabels
    <2>2. \A c \in Calls : Taken(c)' <=> Taken(c)
      BY <1>0, <1>1 DEF LoginEraseSameToken, Goto, Taken, RegistryInv, TypeOK
    <2> DEFINE gone == SameToken(u, arg[t].token)
    <2>3. gone \in SUBSET m_instances[u] /\ \A c, d \in gone : c = d
      BY DEF RegistryInv, TokenUnique, SameToken
    <2>4. Erase(u, gone) /\ UNCHANGED <<m_connected_devices, owner, app, waiting>>
      BY <1>1, <2>1 DEF LoginEraseSameToken, attached
    <2> HIDE DEF gone
    <2> QED BY <2>2, <2>3, <2>4, LifecycleLeave
  <1>2. CASE InstanceLogoff
    <2>1. PICK u \in Users : u = arg[CqThread].user
      BY <1>2 DEF InstanceLogoff, EraseLoggedOff, RegistryInv, ThreadsTracked,
                  LogoffLabels
    <2>2. \A c \in Calls : Taken(c)' <=> Taken(c)
      BY <1>0, <1>2 DEF InstanceLogoff, EraseLoggedOff, Goto, Taken,
                        RegistryInv, TypeOK
    <2>3. PICK gone \in ErasedByLogoff(u, arg[CqThread].token) : Erase(u, gone)
      BY <1>2, <2>1 DEF InstanceLogoff, EraseLoggedOff
    <2>4. gone \in SUBSET m_instances[u] /\ \A c, d \in gone : c = d
      BY <2>3, ErasedFacts
    <2>5. UNCHANGED <<m_connected_devices, owner, app, waiting>>
      BY <1>2 DEF InstanceLogoff, EraseLoggedOff, attached
    <2> QED BY <2>2, <2>3, <2>4, <2>5, LifecycleLeave
  <1>3. ASSUME NEW t \in Threads, StorageLoginUser(t)
        PROVE  LifecycleStep
    BY <1>1, <1>3, LifecycleOther, LifecycleAttach DEF StorageLoginUser
  <1>4. ASSUME NEW h \in Handlers, Request(h) \/ HandlerStep(h)
        PROVE  LifecycleStep
    BY <1>0, <1>3, <1>4, LifecycleOther DEF HandlerStep
  <1>5. CASE CqStep
    BY <1>0, <1>2, <1>3, <1>5, LifecycleTake, LifecyclePark, LifecycleEnd,
       LifecycleOther DEF CqStep
  <1> QED BY <1>4, <1>5, LifecycleSubscribe, LifecycleOther DEF Next

(* Every subscription lives as CallLifecycle says: taken once, parked      *)
(* until it is attached to one user, ended once, whichever threads work on *)
(* it.                                                                     *)
THEOREM LifecycleRefinement == Spec => ImplementsLifecycle
  <1>1. RegistryInv /\ [Next]_vars
        => [Lifecycle!Next]_<<[c \in Calls |-> Place(c)],
                              [c \in Calls |->
                                 IF \E u \in Users : c \in m_instances[u]
                                 THEN owner[c] ELSE NoUser]>>
    BY LifecycleNext DEF LifecycleStep, Places, UsersOf
  <1> QED BY <1>1, LifecycleInit, RegistryInvariance, PTL
          DEF Spec, ImplementsLifecycle, Lifecycle!Spec

=============================================================================
