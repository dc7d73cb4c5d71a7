----------------------------- MODULE DBPostgres -----------------------------
(***************************************************************************)
(* The PostgreSQL back end (database/DBPostgres.cpp): every operation      *)
(* borrows a connection from ConnectionPool, opens a pqxx::work on it,     *)
(* executes one statement of QueryManager, commits, reads the answer off   *)
(* the result and leaves its scope, which destroys first the work (an      *)
(* abort, unless committed) and then the ConnectionWrapper.                *)
(*                                                                         *)
(* The pool knows nothing of the request, so what a thread was asked to do *)
(* is chosen when it executes the statement.  The stored procedures are    *)
(* external; what they insert is kept apart until the commit.              *)
(***************************************************************************)
EXTENDS ConnectionPool

CONSTANT Names  \* whom a row is about: an e-mail with its login

VARIABLES
    rows,    \* committed rows
    broken,  \* connections that have lost their server; none reconnects
    open,    \* connections with a pqxx::work that was not ended
    job      \* the operation each thread executes

dbvars == <<rows, broken, open, job>>

Rows == {"user", "token", "marker"} \X Names

(* An answer an operation gives and the rows it inserts for it.            *)
Outcome(answer, inserts) ==
    [stage |-> "executed", answer |-> answer, inserts |-> inserts]

Stage(label) == [stage |-> label, answer |-> "none", inserts |-> {}]

-----------------------------------------------------------------------------
(* The operations: what the statement can return and how it is answered.   *)

(* exec1 of a query without a row throws unexpected_rows.                  *)
NoRow == {}

Check(n) ==
    {Outcome(IF <<"user", n>> \in rows THEN "TAKEN" ELSE "AVAILABLE", {})}

(* Unset fields are answered NOT_SET before a connection is acquired.      *)
(* add_user returns "1" for a taken e-mail and "2" for a taken login.      *)
RegisterUser(n) ==
    IF <<"user", n>> \in rows
    THEN {Outcome(a, {}) :
             a \in {"EMAIL_ALREADY_TAKEN", "LOGIN_ALREADY_TAKEN"}}
    ELSE {Outcome("OK", {<<"user", n>>})}

(* By password login_user makes an access token, by token it looks it up.  *)
LoginUser(n) ==
    (IF <<"user", n>> \in rows
     THEN {Outcome("OK", {<<"token", n>>}),
           Outcome("WRONG_PASSWORD", {})}
     ELSE {Outcome("USER_NOT_FOUND", {})})
    \cup
    {Outcome(IF <<"token", n>> \in rows THEN "OK"
                                        ELSE "ACCESS_TOKEN_NOT_FOUND", {})}

GetUserInfo(n) ==
    {Outcome(IF <<"user", n>> \in rows THEN "data" ELSE "empty", {})}

GetAllImagesUuid(n) ==
    IF \E table \in {"user", "marker"} : <<table, n>> \in rows
    THEN {Outcome("data", {})}
    ELSE NoRow

AddMarker(n) == {Outcome("data", {<<"marker", n>>})}

GetAllMarkers == {Outcome("data", {})}

GetAllPushTokens == {Outcome("data", {})}

(* QueryManager::Get has a statement for each of them.                     *)
Queries ==
    GetAllMarkers \cup GetAllPushTokens \cup
    (UNION {Check(n) \cup RegisterUser(n) \cup LoginUser(n)
            \cup GetUserInfo(n) \cup GetAllImagesUuid(n)
            \cup AddMarker(n) : n \in Names})

-----------------------------------------------------------------------------
DBInit ==
    /\ Init
    /\ rows = {}
    /\ broken = {}
    /\ open = {}
    /\ job = [t \in Threads |-> Stage("none")]

(* AcquireConnection and the dereference of what it returns.               *)
Acquire(t) ==
    /\ \/ AcquireConnection(t) \/ StartWaiting(t) \/ WakeUp(t)
       \/ Timeout(t) \/ DereferenceEmpty(t)
    /\ UNCHANGED dbvars

InStage(t, stage) == Running /\ pc[t] = "using" /\ job[t].stage = stage

(* The scope is left, with what was done for the caller: by return, or by  *)
(* an exception that CATCH_ALL turns into OTHER or an empty value.         *)
(* GetAllImagesUuid has no CATCH_ALL, and gRPC answers for it.             *)
Leave(t, done) ==
    job' = [job EXCEPT ![t] = [stage |-> "leaving", answer |-> "none",
                               inserts |-> done]]

(* The constructor of pqxx::work executes BEGIN, or throws.                *)
BeginWork(t) ==
    /\ InStage(t, "none")
    /\ \/ /\ held[t] \notin broken
          /\ open' = open \cup {held[t]}
          /\ job' = [job EXCEPT ![t] = Stage("working")]
       \/ /\ Leave(t, {})
          /\ UNCHANGED open
    /\ UNCHANGED <<vars, rows, broken>>

(* work.exec or work.exec1 returns a result.                               *)
Exec(t) ==
    /\ InStage(t, "working")
    /\ held[t] \notin broken
    /\ \E q \in Queries : job' = [job EXCEPT ![t] = q]
    /\ UNCHANGED <<vars, rows, broken, open>>

(* It throws (a lost server, an SQL error, not exactly one row), or it is  *)
(* not called: a check_type, typ or image_type without a case returns.     *)
ExecThrows(t) ==
    /\ InStage(t, "working")
    /\ Leave(t, {})
    /\ UNCHANGED <<vars, rows, broken, open>>

(* Mutant: the answer is returned without work.commit().                   *)
AnswerUncommitted(t) ==
    /\ InStage(t, "executed")
    /\ held[t] \notin broken
    /\ Leave(t, job[t].inserts)
    /\ UNCHANGED <<vars, rows, broken, open>>

(* work.commit(), then the answer is made of the result.                   *)
Commit(t) ==
    /\ InStage(t, "executed")
    /\ held[t] \notin broken
    /\ rows' = rows \cup job[t].inserts
    /\ Leave(t, job[t].inserts)
    /\ UNCHANGED <<vars, broken, open>>

(* work.commit() throws, when the server may have committed all the same,  *)
(* or reading the result does after it.                                    *)
CommitThrows(t) ==
    /\ InStage(t, "executed")
    /\ rows' \in {rows, rows \cup job[t].inserts}
    /\ Leave(t, {})
    /\ UNCHANGED <<vars, broken, open>>

(* ~work, before ~ConnectionWrapper: work was declared after conn.         *)
DestroyWork(t) ==
    /\ InStage(t, "leaving")
    /\ held[t] \in open
    /\ open' = open \ {held[t]}
    /\ UNCHANGED <<vars, rows, broken, job>>

(* Mutant: the wrapper is declared after the work and destroyed before it. *)
ReleaseOpen(t) ==
    /\ InStage(t, "leaving")
    /\ ReleaseConnection(t)
    /\ UNCHANGED dbvars

(* ~ConnectionWrapper.                                                     *)
DestroyWrapper(t) ==
    /\ InStage(t, "leaving")
    /\ held[t] \notin open
    /\ ReleaseConnection(t)
    /\ UNCHANGED dbvars

(* The end of ReleaseConnection; the caller gets its answer.               *)
Answer(t) ==
    /\ NotifyOne(t)
    /\ job' = [job EXCEPT ![t] = Stage("none")]
    /\ UNCHANGED <<rows, broken, open>>

(* The server or the network drops a connection: libpqxx 7 does not        *)
(* reconnect, and ReleaseConnection puts it back all the same.             *)
Break(c) ==
    /\ Running
    /\ c \notin broken
    /\ broken' = broken \cup {c}
    /\ UNCHANGED <<vars, rows, open, job>>

Spurious(t) == SpuriousWakeUp(t) /\ UNCHANGED dbvars

Work(t) ==
    \/ BeginWork(t) \/ Exec(t) \/ ExecThrows(t) \/ Commit(t)
    \/ CommitThrows(t) \/ DestroyWork(t) \/ DestroyWrapper(t) \/ Answer(t)

DBNext ==
    \/ \E t \in Threads : Acquire(t) \/ Spurious(t) \/ Work(t)
    \/ \E c \in Connections : Break(c)

(* A thread with work to do goes on, and the clock of wait_for runs.  No   *)
(* call need ever come.                                                    *)
DBFairness ==
    \A t \in Threads :
        /\ WF_<<vars, dbvars>>(Work(t))
        /\ WF_<<vars, dbvars>>(Timeout(t) /\ UNCHANGED dbvars)
        /\ WF_<<vars, dbvars>>(DereferenceEmpty(t) /\ UNCHANGED dbvars)

DBSpec == DBInit /\ [][DBNext]_<<vars, dbvars>> /\ DBFairness

-----------------------------------------------------------------------------
(* Properties.                                                             *)

Stages == {"none", "working", "executed", "leaving"}

Answers == {"none", "OK", "AVAILABLE", "TAKEN", "EMAIL_ALREADY_TAKEN",
            "LOGIN_ALREADY_TAKEN", "USER_NOT_FOUND", "WRONG_PASSWORD",
            "ACCESS_TOKEN_NOT_FOUND", "data", "empty"}

(* Every variable stays in its type.                                       *)
DBTypeOK ==
    /\ TypeOK
    /\ rows \subseteq Rows
    /\ broken \subseteq Connections
    /\ open \subseteq Connections
    /\ job \in [Threads -> [stage : Stages, answer : Answers,
                            inserts : SUBSET Rows]]

(* A transaction that was begun is ended by the thread that began it,      *)
(* whatever its operation returned or threw, before the connection can be  *)
(* acquired again.                                                         *)
TransactionsOwned ==
    \A c \in open :
        \E t \in Threads : held[t] = c /\ pc[t] = "using" /\ job[t].stage # "none"

(* What a caller was told is registered, logged in or added is committed,  *)
(* although the commit may throw and the connection may break at any time. *)
AckedIsCommitted ==
    \A t \in Threads : job[t].stage = "leaving" => job[t].inserts \subseteq rows

(* Every call ends with an answer, or with std::terminate when no          *)
(* connection came in time: a sleeper is woken by a release or by its      *)
(* time-out, also if the pool has no connection at all.                    *)
CallsEnd ==
    \A t \in Threads : pc[t] # "idle" ~> (pc[t] = "idle" \/ terminated)

=============================================================================
