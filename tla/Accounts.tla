------------------------------ MODULE Accounts ------------------------------
(***************************************************************************)
(* The user documents of MongoDB: DBMongo::LoginUser, UpdateInfo,          *)
(* GetUserInfo and UpdateVerifStatus, with the handlers LoginUser,         *)
(* UpdateInfo and GetInfo of MainEndpointImpl and ValidatePhoto of         *)
(* VerificationServiceImpl.  A user's uuid is the e-mail of the Google     *)
(* token.  LoginUser makes two MongoDB operations, each atomic on one      *)
(* document; where a filter matches several documents, find_one and        *)
(* update_one take any of them.                                            *)
(***************************************************************************)
EXTENDS Naturals, FiniteSets

CONSTANTS
    Handlers,   \* RPC handler threads
    Users,      \* e-mails
    Apps,       \* app ids, also used as access tokens
    Docs,       \* bound: documents that can be inserted
    NoUser, NoApp

(* An app id is never an e-mail; the thread pool is finite.                *)
ASSUME AccountsAssumption ==
    /\ IsFiniteSet(Handlers)
    /\ NoUser \notin Users
    /\ NoApp \notin Apps
    /\ Users \cap Apps = {}

VARIABLES
    email,         \* field of each document; NoUser: not inserted
    app_ids,       \* field of each document
    other_info,    \* BSON type of the field: "missing" or "document"
    verification,  \* the field verification_result is set
    pc, job,       \* where each handler is and what it works on
    loggedIn,      \* (user, app) pairs whose LoginUser was answered OK
    reply          \* what the last GetInfo about a user returned

docs == <<email, app_ids, other_info, verification>>

vars == <<docs, pc, job, loggedIn, reply>>

Nothing == [user |-> NoUser, app |-> NoApp]

DocsOf(key) == {d \in Docs : email[d] = key}

Goto(h, label) == pc' = [pc EXCEPT ![h] = label]

Return(h) == Goto(h, "idle") /\ job' = [job EXCEPT ![h] = Nothing]

Init ==
    /\ email = [d \in Docs |-> NoUser]
    /\ app_ids = [d \in Docs |-> {}]
    /\ other_info = [d \in Docs |-> "missing"]
    /\ verification = [d \in Docs |-> FALSE]
    /\ pc = [h \in Handlers |-> "idle"]
    /\ job = [h \in Handlers |-> Nothing]
    /\ loggedIn = {}
    /\ reply = [u \in Users |-> "none"]

-----------------------------------------------------------------------------
(* LoginUser with a Google token.  Other requests and tokens that cannot   *)
(* be decoded are answered OTHER before anything is read.                  *)

(* Mutant: the result of find_one is not tested.                           *)
FindUserIgnored(h, u, a) ==
    /\ pc[h] = "idle"
    /\ job' = [job EXCEPT ![h] = [user |-> u, app |-> a]]
    /\ Goto(h, "insert")
    /\ UNCHANGED <<docs, loggedIn, reply>>

(* find_one by e-mail decides between update_one and insert_one.           *)
FindUser(h, u, a) ==
    /\ pc[h] = "idle"
    /\ job' = [job EXCEPT ![h] = [user |-> u, app |-> a]]
    /\ Goto(h, IF DocsOf(u) = {} THEN "insert" ELSE "update")
    /\ UNCHANGED <<docs, loggedIn, reply>>

(* Mutant: $set app_ids instead of $addToSet.                              *)
UpdateUserSet(h) ==
    /\ pc[h] = "update"
    /\ \E d \in DocsOf(job[h].user) :
           app_ids' = [app_ids EXCEPT ![d] = {job[h].app}]
    /\ Goto(h, "answer")
    /\ UNCHANGED <<email, other_info, verification, job, loggedIn, reply>>

(* update_one: $set the names, $addToSet app_ids.                          *)
UpdateUser(h) ==
    /\ pc[h] = "update"
    /\ \E d \in DocsOf(job[h].user) :
           app_ids' = [app_ids EXCEPT ![d] = @ \cup {job[h].app}]
    /\ Goto(h, "answer")
    /\ UNCHANGED <<email, other_info, verification, job, loggedIn, reply>>

(* insert_one of a document with this one app id.                          *)
InsertUser(h) ==
    /\ pc[h] = "insert"
    /\ \E d \in DocsOf(NoUser) :
           /\ email' = [email EXCEPT ![d] = job[h].user]
           /\ app_ids' = [app_ids EXCEPT ![d] = {job[h].app}]
    /\ Goto(h, "answer")
    /\ UNCHANGED <<other_info, verification, job, loggedIn, reply>>

(* Mutant: the result of a login that threw is OK.                         *)
LoginFailsAnswersOk(h) ==
    /\ pc[h] \in {"insert", "update", "answer"}
    /\ loggedIn' = loggedIn \cup {<<job[h].user, job[h].app>>}
    /\ Return(h)
    /\ UNCHANGED <<docs, reply>>

(* The driver throws, before or after the server has written: CATCH_ALL    *)
(* answers OTHER.  A write that the server applies later is not modelled.  *)
LoginFails(h) ==
    /\ pc[h] \in {"insert", "update", "answer"}
    /\ Return(h)
    /\ UNCHANGED <<docs, loggedIn, reply>>

(* Mutant: out_uuid is left empty.                                         *)
LoginAnswersNoUuid(h) ==
    /\ pc[h] = "answer"
    /\ loggedIn' = loggedIn \cup {<<NoUser, job[h].app>>}
    /\ Return(h)
    /\ UNCHANGED <<docs, reply>>

(* result_OK, with the e-mail in out_uuid.                                 *)
LoginAnswersOk(h) ==
    /\ pc[h] = "answer"
    /\ loggedIn' = loggedIn \cup {<<job[h].user, job[h].app>>}
    /\ Return(h)
    /\ UNCHANGED <<docs, reply>>

-----------------------------------------------------------------------------
(* GetUuidByAccessToken: a user attached with the app id, or "" when none  *)
(* is.  An attached device is in app_ids of the user, put there by a login *)
(* that may have failed after the write (TokenOfLoggedIn of UserStorage).  *)
UuidByAccessToken(a) ==
    {u \in Users : \E d \in DocsOf(u) : a \in app_ids[d]} \cup {NoUser}

(* UpdateInfo of a user: other_info becomes the document that from_json    *)
(* makes of the request; text that is no JSON is answered OTHER.           *)
UpdateInfo(a) ==
    /\ \E u \in UuidByAccessToken(a) \ {NoUser} : \E d \in DocsOf(u) :
           other_info' = [other_info EXCEPT ![d] = "document"]
    /\ UNCHANGED <<email, app_ids, verification, pc, job, loggedIn, reply>>

(* GetValue<std::string>: {} for a missing field; get_utf8 of any type but *)
(* a string throws.                                                        *)
GetValue(type) == IF type = "document" THEN "throws" ELSE "value"

(* GetInfo: GetUserInfo has no handler for exceptions, so the RPC fails    *)
(* when other_info is not a string.                                        *)
GetInfo(u) ==
    /\ \/ DocsOf(u) = {} /\ reply' = [reply EXCEPT ![u] = "empty"]
       \/ \E d \in DocsOf(u) :
              reply' = [reply EXCEPT ![u] =
                  IF GetValue(other_info[d]) = "throws" THEN "error"
                                                        ELSE "info"]
    /\ UNCHANGED <<docs, pc, job, loggedIn>>

(* Nor for an exception of the driver.                                     *)
GetInfoFails(u) ==
    /\ reply' = [reply EXCEPT ![u] = "error"]
    /\ UNCHANGED <<docs, pc, job, loggedIn>>

-----------------------------------------------------------------------------
(* ValidatePhoto, as far as the server goes on with the answer of the AI   *)
(* service.  The uuid of the app id is only logged.                        *)
ValidatePhoto(h, a) ==
    /\ pc[h] = "idle"
    /\ job' = [job EXCEPT ![h].app = a]
    /\ Goto(h, "verified")
    /\ UNCHANGED <<docs, loggedIn, reply>>

(* What update_one may change: one of the documents found, or none.        *)
UpdateOne(key) ==
    IF DocsOf(key) = {} THEN {{}} ELSE {{d} : d \in DocsOf(key)}

(* UpdateVerifStatus(app id, result): the filter is e-mail = app id, which *)
(* no document meets.                                                      *)
UpdateVerifStatus(h) ==
    /\ pc[h] = "verified"
    /\ \E found \in UpdateOne(job[h].app) :
           verification' = [d \in Docs |-> verification[d] \/ d \in found]
    /\ Return(h)
    /\ UNCHANGED <<email, app_ids, other_info, loggedIn, reply>>

Next ==
    \/ \E h \in Handlers :
          \/ \E u \in Users, a \in Apps : FindUser(h, u, a)
          \/ UpdateUser(h) \/ InsertUser(h)
          \/ LoginFails(h) \/ LoginAnswersOk(h)
          \/ \E a \in Apps : ValidatePhoto(h, a)
          \/ UpdateVerifStatus(h)
    \/ \E a \in Apps : UpdateInfo(a)
    \/ \E u \in Users : GetInfo(u) \/ GetInfoFails(u)

Spec == Init /\ [][Next]_vars

-----------------------------------------------------------------------------
(* Properties.                                                             *)

(* Every variable stays in its type.                                       *)
TypeOK ==
    /\ email \in [Docs -> Users \cup {NoUser}]
    /\ app_ids \in [Docs -> SUBSET Apps]
    /\ other_info \in [Docs -> {"missing", "document"}]
    /\ verification \in [Docs -> BOOLEAN]
    /\ pc \in [Handlers -> {"idle", "insert", "update", "answer", "verified"}]
    /\ job \in [Handlers -> [user : Users \cup {NoUser},
                             app : Apps \cup {NoApp}]]
    /\ loggedIn \subseteq Users \X Apps
    /\ reply \in [Users -> {"none", "empty", "info", "error"}]

(* README.md: "the server saves the mapping session_id -> user_id".  A     *)
(* device whose LoginUser was answered OK stays known to GetUuidByAppId,   *)
(* whatever other logins of the same user, first ones included, run at the *)
(* same time, and although some of them fail half way.                     *)
DeviceRemembered ==
    \A u \in Users, a \in Apps :
        <<u, a>> \in loggedIn => \E d \in DocsOf(u) : a \in app_ids[d]

(* Nothing makes e-mails unique: first logins of one user that overlap     *)
(* each insert a document.  But a thread that has inserted one finds it    *)
(* the next time, so there are never more than threads.                    *)
DuplicatesBounded ==
    \A u \in Users : Cardinality(DocsOf(u)) <= Cardinality(Handlers)

(* tests/tests.cpp: "GetUserInfo" asks for the info of a user.  GetInfo    *)
(* never answers OK with an empty profile for a user who has logged in,    *)
(* although the document is inserted, updated or duplicated by logins that *)
(* overlap and fail: it answers the info, or the RPC fails, because the    *)
(* driver threw or UpdateInfo has stored what GetValue cannot read.        *)
NoEmptyProfile ==
    [][\A u \in Users :
           (reply'[u] # reply[u] /\ \E a \in Apps : <<u, a>> \in loggedIn)
           => reply'[u] \in {"info", "error"}]_vars

=============================================================================
