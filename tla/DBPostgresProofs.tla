-------------------------- MODULE DBPostgresProofs --------------------------
(***************************************************************************)
(* Proofs about DBPostgres for any threads, connections and names.  Its    *)
(* steps conjoin those of the pool, so the invariant of the pool is        *)
(* inherited; on top of it the transactions and answers are right.         *)
(***************************************************************************)
EXTENDS DBPostgres, ConnectionPoolProofs

all == <<vars, dbvars>>

(* Every step of DBPostgres is a step of the pool or leaves it alone.      *)
LEMMA PoolSteps == [DBNext]_all => [Next]_vars
  <1> SUFFICES ASSUME [DBNext]_all PROVE [Next]_vars
    OBVIOUS
  <1>1. ASSUME NEW t \in Threads, Acquire(t) \/ Spurious(t)
        PROVE  Next
    BY <1>1 DEF Acquire, Spurious, Next
  <1>2. ASSUME NEW t \in Threads, Work(t)
        PROVE  [Next]_vars
    <2>1. CASE DestroyWrapper(t) \/ Answer(t)
      BY <2>1 DEF DestroyWrapper, Answer, Next
    <2>2. CASE \/ BeginWork(t) \/ Exec(t) \/ ExecThrows(t) \/ Commit(t)
               \/ CommitThrows(t) \/ DestroyWork(t)
      BY <2>2 DEF BeginWork, Exec, ExecThrows, Commit, CommitThrows,
                  DestroyWork
    <2> QED BY <1>2, <2>1, <2>2 DEF Work
  <1>3. ASSUME NEW c \in Connections, Break(c)
        PROVE  UNCHANGED vars
    BY <1>3 DEF Break
  <1>4. CASE UNCHANGED all
    BY <1>4 DEF all
  <1> QED BY <1>1, <1>2, <1>3, <1>4 DEF DBNext

-----------------------------------------------------------------------------
Jobs == [stage : Stages, answer : Answers, inserts : SUBSET Rows]

(* The inductive invariant: the one of the pool, the types, and the two    *)
(* properties themselves.                                                  *)
DBInv ==
    /\ PoolInv
    /\ DBTypeOK
    /\ TransactionsOwned
    /\ AckedIsCommitted

(* What a statement returns is a result that waits for its commit.         *)
LEMMA QueriesType ==
  ASSUME NEW q \in Queries
  PROVE  q \in Jobs /\ q.stage = "executed"
  <1>1. ASSUME NEW a \in Answers, NEW i \in SUBSET Rows
        PROVE  Outcome(a, i) \in Jobs /\ Outcome(a, i).stage = "executed"
    BY DEF Outcome, Jobs, Stages
  <1>2. \A n \in Names, table \in {"user", "token", "marker"} :
            {<<table, n>>} \in SUBSET Rows
    BY DEF Rows
  <1> DEFINE Good(set) == \A r \in set : r \in Jobs /\ r.stage = "executed"
  <1>3. ASSUME NEW n \in Names
        PROVE  /\ Good(Check(n)) /\ Good(RegisterUser(n))
               /\ Good(LoginUser(n)) /\ Good(GetUserInfo(n))
               /\ Good(GetAllImagesUuid(n)) /\ Good(AddMarker(n))
    BY <1>1, <1>2 DEF Check, RegisterUser, LoginUser, GetUserInfo,
                      GetAllImagesUuid, AddMarker, NoRow, Answers
  <1>4. Good(GetAllMarkers) /\ Good(GetAllPushTokens)
    BY <1>1 DEF GetAllMarkers, GetAllPushTokens, Answers
  <1> QED BY <1>3, <1>4 DEF Queries

(* A stage a thread is put into has the type of a job.                     *)
LEMMA StageType ==
  ASSUME NEW l \in Stages
  PROVE  Stage(l) \in Jobs /\ Stage(l).stage = l /\ Stage(l).inserts = {}
  BY DEF Stage, Jobs, Answers

(* Steps of the pool other than the two that DestroyWrapper and Answer     *)
(* make: a thread with a transaction is not among those that move.         *)
LEMMA AcquireInv ==
  ASSUME DBInv, PoolInv', NEW t \in Threads, Acquire(t) \/ Spurious(t)
  PROVE  DBInv'
  <1>1. UNCHANGED dbvars
    BY DEF Acquire, Spurious
  <1>2. \A s \in Threads : pc[s] = "using" =>
            pc'[s] = "using" /\ held'[s] = held[s]
    BY DEF Acquire, Spurious, AcquireConnection, StartWaiting, WakeUp,
           Timeout, DereferenceEmpty, SpuriousWakeUp, GetConn, Goto,
           DBInv, PoolInv, TypeOK
  <1>3. DBTypeOK'
    BY <1>1 DEF DBInv, DBTypeOK, PoolInv, dbvars
  <1>4. TransactionsOwned'
    BY <1>1, <1>2 DEF DBInv, TransactionsOwned, dbvars
  <1>5. AckedIsCommitted'
    BY <1>1 DEF DBInv, AckedIsCommitted, dbvars
  <1> QED BY <1>3, <1>4, <1>5 DEF DBInv

(* Steps inside a transaction, which leave the pool alone: thread t is     *)
(* using its connection and gets the job j.                                *)
LEMMA WorkInv ==
  ASSUME DBInv, PoolInv', NEW t \in Threads, UNCHANGED vars,
         pc[t] = "using", NEW j \in Jobs, j.stage # "none",
         job' = [job EXCEPT ![t] = j],
         open' = open \/ open' = open \cup {held[t]},
         rows' \in SUBSET Rows, rows \subseteq rows',
         j.stage = "leaving" => j.inserts \subseteq rows',
         UNCHANGED broken
  PROVE  DBInv'
  <1>1. held[t] \in Connections
    BY DEF DBInv, PoolInv, TypeOK, ConnectionExclusive
  <1>2. DBTypeOK'
    BY <1>1 DEF DBInv, DBTypeOK, PoolInv, Jobs
  <1>3. TransactionsOwned'
    BY DEF DBInv, DBTypeOK, TransactionsOwned, vars
  <1>4. AckedIsCommitted'
    BY DEF DBInv, DBTypeOK, AckedIsCommitted
  <1> QED BY <1>2, <1>3, <1>4 DEF DBInv

(* Every step keeps the invariant.                                         *)
LEMMA DBStep == DBInv /\ [DBNext]_all => DBInv'
  <1> SUFFICES ASSUME DBInv, [DBNext]_all PROVE DBInv'
    OBVIOUS
  <1>0. PoolInv' /\ job \in [Threads -> Jobs] /\ rows \in SUBSET Rows
    BY PoolSteps, PoolStep DEF DBInv, DBTypeOK, Jobs
  <1>1. ASSUME NEW t \in Threads, Acquire(t) \/ Spurious(t) PROVE DBInv'
    BY <1>0, <1>1, AcquireInv
  <1>2. ASSUME NEW t \in Threads, NEW done \in SUBSET Rows, Leave(t, done),
               pc[t] = "using", done \subseteq rows', rows' \in SUBSET Rows,
               rows \subseteq rows', UNCHANGED <<vars, broken, open>>
        PROVE  DBInv'
    <2> DEFINE j == [stage |-> "leaving", answer |-> "none", inserts |-> done]
    <2>1. j \in Jobs /\ j.stage = "leaving" /\ j.inserts = done
      BY DEF Jobs, Stages, Answers
    <2>2. job' = [job EXCEPT ![t] = j]
      BY <1>2 DEF Leave
    <2> HIDE DEF j
    <2> QED BY <1>0, <1>2, <2>1, <2>2, WorkInv
  <1>3. ASSUME NEW t \in Threads, BeginWork(t) PROVE DBInv'
    <2>1. CASE Leave(t, {}) /\ UNCHANGED open
      BY <1>3, <1>2, <2>1, <1>0 DEF BeginWork, InStage
    <2>2. CASE /\ open' = open \cup {held[t]}
               /\ job' = [job EXCEPT ![t] = Stage("working")]
      <3>1. Stage("working") \in Jobs /\ Stage("working").stage = "working"
        BY StageType DEF Stages
      <3> QED BY <1>0, <1>3, <2>2, <3>1, WorkInv DEF BeginWork, InStage
    <2> QED BY <1>3, <2>1, <2>2 DEF BeginWork
  <1>4. ASSUME NEW t \in Threads, Exec(t) PROVE DBInv'
    <2>1. PICK q \in Queries : job' = [job EXCEPT ![t] = q]
      BY <1>4 DEF Exec
    <2>2. q \in Jobs /\ q.stage = "executed"
      BY QueriesType
    <2> QED BY <1>0, <1>4, <2>1, <2>2, WorkInv DEF Exec, InStage
  <1>5. ASSUME NEW t \in Threads, ExecThrows(t) PROVE DBInv'
    BY <1>0, <1>2, <1>5 DEF ExecThrows, InStage
  <1>6. ASSUME NEW t \in Threads, Commit(t) \/ CommitThrows(t) PROVE DBInv'
    <2>1. job[t].inserts \in SUBSET Rows
      BY <1>0 DEF Jobs
    <2> QED BY <1>0, <1>2, <1>6, <2>1 DEF Commit, CommitThrows, InStage
  <1>7. ASSUME NEW t \in Threads, DestroyWork(t) PROVE DBInv'
    <2>1. DBTypeOK'
      BY <1>0, <1>7 DEF DBInv, DBTypeOK, PoolInv, DestroyWork
    <2>2. TransactionsOwned' /\ AckedIsCommitted'
      BY <1>7 DEF DBInv, TransactionsOwned, AckedIsCommitted, DestroyWork,
                  vars
    <2> QED BY <1>0, <2>1, <2>2 DEF DBInv
  <1>8. ASSUME NEW t \in Threads, DestroyWrapper(t) PROVE DBInv'
    <2>1. held[t] \notin open /\ UNCHANGED dbvars
      BY <1>8 DEF DestroyWrapper
    <2>2. \A s \in Threads : s # t =>
              pc'[s] = pc[s] /\ held'[s] = held[s]
      BY <1>8 DEF DestroyWrapper, ReleaseConnection, Goto, DBInv, PoolInv,
                  TypeOK
    <2>3. DBTypeOK'
      BY <1>0, <2>1 DEF DBInv, DBTypeOK, PoolInv, dbvars
    <2>4. TransactionsOwned'
      BY <2>1, <2>2 DEF DBInv, TransactionsOwned, dbvars
    <2>5. AckedIsCommitted'
      BY <2>1 DEF DBInv, AckedIsCommitted, dbvars
    <2> QED BY <1>0, <2>3, <2>4, <2>5 DEF DBInv
  <1>9. ASSUME NEW t \in Threads, Answer(t) PROVE DBInv'
    <2>1. /\ pc[t] = "notify"
          /\ job' = [job EXCEPT ![t] = Stage("none")]
          /\ UNCHANGED <<held, rows, broken, open>>
      BY <1>9 DEF Answer, NotifyOne
    <2>2. \A s \in Threads : pc[s] = "using" => pc'[s] = "using"
      BY <1>9 DEF Answer, NotifyOne, At, Goto, DBInv, PoolInv, TypeOK
    <2>3. /\ Stage("none") \in Jobs
          /\ Stage("none").stage = "none"
      BY StageType DEF Stages
    <2>4. DBTypeOK'
      BY <1>0, <2>1, <2>3 DEF DBInv, DBTypeOK, PoolInv, Jobs
    <2>5. TransactionsOwned'
      BY <1>0, <2>1, <2>2 DEF DBInv, TransactionsOwned
    <2>6. AckedIsCommitted'
      BY <1>0, <2>1, <2>3 DEF DBInv, AckedIsCommitted
    <2> QED BY <1>0, <2>4, <2>5, <2>6 DEF DBInv
  <1>10. ASSUME NEW c \in Connections, Break(c) PROVE DBInv'
    <2>1. DBTypeOK'
      BY <1>0, <1>10 DEF DBInv, DBTypeOK, PoolInv, Break
    <2> QED BY <1>0, <1>10, <2>1
            DEF DBInv, TransactionsOwned, AckedIsCommitted, Break, vars
  <1>11. CASE UNCHANGED all
    BY <1>0, <1>11 DEF all, vars, dbvars, DBInv, DBTypeOK, PoolInv,
                       TransactionsOwned, AckedIsCommitted
  <1> QED BY <1>1, <1>3, <1>4, <1>5, <1>6, <1>7, <1>8, <1>9, <1>10, <1>11
          DEF DBNext, Work

(* The invariant holds in every state DBPostgres can be in.                *)
THEOREM DBInvariance == DBSpec => []DBInv
  <1>1. DBInit => DBInv
    <2> SUFFICES ASSUME DBInit PROVE DBInv
      OBVIOUS
    <2>1. PoolInv
      BY PoolAssumption
      DEF DBInit, Init, PoolInv, TypeOK, ConnectionExclusive, Labels
    <2>2. Stage("none") \in Jobs /\ Stage("none").stage = "none"
      BY StageType DEF Stages
    <2>3. DBTypeOK
      BY <2>1, <2>2 DEF DBInit, DBTypeOK, PoolInv, Jobs
    <2>4. TransactionsOwned /\ AckedIsCommitted
      BY <2>2 DEF DBInit, TransactionsOwned, AckedIsCommitted
    <2> QED BY <2>1, <2>3, <2>4 DEF DBInv
  <1>2. DBInv /\ [DBNext]_<<vars, dbvars>> => DBInv'
    BY DBStep DEF all
  <1> QED BY <1>1, <1>2, PTL DEF DBSpec

(* Every variable keeps its type.                                          *)
THEOREM DBTypes == DBSpec => []DBTypeOK
  BY DBInvariance, PTL DEF DBInv

(* Every transaction that was begun belongs to the thread that has its     *)
(* connection, whatever throws: a connection is never put back with one.   *)
THEOREM TransactionsEnded == DBSpec => []TransactionsOwned
  BY DBInvariance, PTL DEF DBInv

(* What an operation reports as done is committed, although commits throw  *)
(* and connections break at any time.                                      *)
THEOREM AnswersCommitted == DBSpec => []AckedIsCommitted
  BY DBInvariance, PTL DEF DBInv

=============================================================================
