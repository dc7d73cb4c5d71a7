------------------------ MODULE ConnectionPoolProofs ------------------------
(***************************************************************************)
(* Proofs about ConnectionPool for any threads and connections.            *)
(***************************************************************************)
EXTENDS ConnectionPool, FiniteSetTheorems, TLAPS

(* The inductive invariant: the types, and who has which connection.       *)
PoolInv == TypeOK /\ ConnectionExclusive

(* Whoever gets a connection is the only one to have it, because it was    *)
(* free and is taken out of the set in the same critical section.          *)
LEMMA GetConnInv ==
  ASSUME PoolInv, NEW t \in Threads, GetConn(t)
  PROVE  PoolInv'
  <1>1. PICK c \in m_free_connections :
          /\ m_free_connections' = m_free_connections \ {c}
          /\ held' = [held EXCEPT ![t] = c]
          /\ pc' = [pc EXCEPT ![t] = "using"]
          /\ UNCHANGED terminated
    BY DEF GetConn, Goto
  <1>2. TypeOK'
    BY <1>1 DEF PoolInv, TypeOK, Labels
  <1>3. ConnectionExclusive'
    BY <1>1, PoolAssumption DEF PoolInv, TypeOK, ConnectionExclusive
  <1> QED BY <1>2, <1>3 DEF PoolInv

(* Steps that only move threads, none of them to "using".                  *)
LEMMA MoveInv ==
  ASSUME PoolInv, UNCHANGED <<m_free_connections, held>>,
         pc' \in [Threads -> Labels], terminated' \in BOOLEAN,
         \A t \in Threads : pc'[t] = "using" => pc[t] = "using"
  PROVE  PoolInv'
  BY DEF PoolInv, TypeOK, ConnectionExclusive

(* Every step of a thread keeps the invariant.                             *)
LEMMA PoolStep == PoolInv /\ [Next]_vars => PoolInv'
  <1> SUFFICES ASSUME PoolInv, [Next]_vars PROVE PoolInv'
    OBVIOUS
  <1>0. pc \in [Threads -> Labels] /\ terminated \in BOOLEAN
    BY DEF PoolInv, TypeOK
  <1>1. ASSUME NEW t \in Threads, GetConn(t) PROVE PoolInv'
    BY <1>1, GetConnInv
  <1>2. ASSUME NEW t \in Threads, NEW l \in Labels, l # "using", Goto(t, l),
               UNCHANGED <<m_free_connections, held, terminated>>
        PROVE  PoolInv'
    BY <1>0, <1>2, MoveInv DEF Goto
  <1>3. ASSUME NEW t \in Threads, ReleaseConnection(t) PROVE PoolInv'
    <2>1. TypeOK'
      BY <1>3 DEF PoolInv, TypeOK, ConnectionExclusive, ReleaseConnection,
                  Goto, Labels
    <2>2. ConnectionExclusive'
      BY <1>3, PoolAssumption
      DEF PoolInv, TypeOK, ConnectionExclusive, ReleaseConnection, Goto
    <2> QED BY <2>1, <2>2 DEF PoolInv
  <1>4. ASSUME NEW t \in Threads, NotifyOne(t) PROVE PoolInv'
    <2>1. UNCHANGED <<m_free_connections, held, terminated>>
      BY <1>4 DEF NotifyOne
    <2>2. pc' \in [Threads -> Labels]
          /\ \A s \in Threads : pc'[s] = "using" => pc[s] = "using"
      BY <1>0, <1>4 DEF NotifyOne, At, Goto, Labels
    <2> QED BY <1>0, <2>1, <2>2, MoveInv
  <1>5. ASSUME NEW t \in Threads, DereferenceEmpty(t) PROVE PoolInv'
    BY <1>0, <1>5, MoveInv DEF DereferenceEmpty
  <1>6. ASSUME NEW t \in Threads,
               AcquireConnection(t) \/ StartWaiting(t) \/ WakeUp(t)
               \/ SpuriousWakeUp(t) \/ Timeout(t)
        PROVE  PoolInv'
    BY <1>1, <1>2, <1>6
    DEF AcquireConnection, StartWaiting, WakeUp, SpuriousWakeUp, Timeout,
        Labels
  <1>7. CASE UNCHANGED vars
    BY <1>0, <1>7, MoveInv DEF vars
  <1> QED BY <1>3, <1>4, <1>5, <1>6, <1>7 DEF Next

(* No two threads ever share a PostgreSQL connection, whatever the sizes   *)
(* of the pool and of the thread set, however waits, time-outs and         *)
(* releases interleave.                                                    *)
THEOREM PoolExclusive == Spec => []ConnectionExclusive
  <1>1. Init => PoolInv
    BY PoolAssumption
    DEF Init, PoolInv, TypeOK, ConnectionExclusive, Labels
  <1> QED BY <1>1, PoolStep, PTL DEF Spec, PoolInv

-----------------------------------------------------------------------------
(* Counting waiters.                                                       *)

(* The sets that NoLostWakeUp counts are finite.                           *)
LEMMA Finite ==
  ASSUME TypeOK
  PROVE  /\ IsFiniteSet(m_free_connections)
         /\ Cardinality(m_free_connections) \in Nat
         /\ IsFiniteSet(At("awake")) /\ Cardinality(At("awake")) \in Nat
         /\ IsFiniteSet(At("notify")) /\ Cardinality(At("notify")) \in Nat
  <1>1. /\ m_free_connections \in SUBSET Connections
        /\ At("awake") \in SUBSET Threads
        /\ At("notify") \in SUBSET Threads
    BY DEF TypeOK, At
  <1>2. /\ IsFiniteSet(m_free_connections)
        /\ IsFiniteSet(At("awake"))
        /\ IsFiniteSet(At("notify"))
    BY <1>1, FS_Subset, PoolAssumption
  <1> QED BY <1>2, FS_CardinalityType

(* A thread that takes a connection leaves one waiter less awake, at most. *)
LEMMA TakenWakeUp ==
  ASSUME TypeOK, NoLostWakeUp, NEW t \in Threads, GetConn(t),
         pc[t] \in {"idle", "asleep", "awake"}
  PROVE  NoLostWakeUp'
  <1>1. PICK c \in m_free_connections :
          /\ m_free_connections' = m_free_connections \ {c}
          /\ pc' = [pc EXCEPT ![t] = "using"]
    BY DEF GetConn, Goto
  <1>2. Cardinality(m_free_connections') = Cardinality(m_free_connections) - 1
    BY <1>1, Finite, FS_RemoveElement
  <1>3. /\ At("awake")' = At("awake") \ {t}
        /\ At("notify")' = At("notify")
        /\ At("asleep")' \subseteq At("asleep")
    BY <1>1 DEF At, TypeOK
  <1>4. /\ IsFiniteSet(At("awake")')
        /\ Cardinality(At("awake")') = IF t \in At("awake")
                                       THEN Cardinality(At("awake")) - 1
                                       ELSE Cardinality(At("awake"))
    BY <1>3, Finite, FS_RemoveElement
  <1>5. Cardinality(At("awake")') >= Cardinality(At("awake")) - 1
    BY <1>4, Finite
  <1> QED BY <1>2, <1>3, <1>4, <1>5, Finite DEF NoLostWakeUp

(* Without a free connection there is nothing to wait for.                 *)
LEMMA NothingFree ==
  ASSUME TypeOK', m_free_connections' = {}
  PROVE  NoLostWakeUp'
  <1>1. /\ Cardinality(At("awake")') \in Nat
        /\ Cardinality(At("notify")') \in Nat
    <2>1. /\ At("awake")' \in SUBSET Threads
          /\ At("notify")' \in SUBSET Threads
      BY DEF At
    <2> QED BY <2>1, FS_Subset, FS_CardinalityType, PoolAssumption
  <1>2. Cardinality(m_free_connections') = 0
    BY FS_EmptySet
  <1> QED BY <1>1, <1>2 DEF NoLostWakeUp

(* Every step of a thread keeps the balance of free connections and        *)
(* waiters that will look for one.                                         *)
LEMMA WakeUpStep ==
  ASSUME PoolInv, NoLostWakeUp, [Next]_vars, PoolInv'
  PROVE  NoLostWakeUp'
  <1>0. TypeOK /\ TypeOK' /\ ConnectionExclusive
    BY DEF PoolInv
  <1>1. ASSUME NEW t \in Threads,
               AcquireConnection(t) \/ StartWaiting(t) \/ WakeUp(t)
               \/ Timeout(t)
        PROVE  NoLostWakeUp'
    <2>1. CASE GetConn(t) /\ pc[t] \in {"idle", "asleep", "awake"}
      BY <1>0, <2>1, TakenWakeUp
    <2>2. CASE m_free_connections = {} /\ UNCHANGED m_free_connections
      BY <1>0, <2>2, NothingFree
    <2> QED BY <1>1, <2>1, <2>2
            DEF AcquireConnection, StartWaiting, WakeUp, Timeout
  <1>2. ASSUME NEW t \in Threads, SpuriousWakeUp(t)
        PROVE  NoLostWakeUp'
    <2>1. /\ pc[t] = "asleep"
          /\ pc' = [pc EXCEPT ![t] = "awake"]
          /\ UNCHANGED m_free_connections
      BY <1>2 DEF SpuriousWakeUp, Goto
    <2>2. /\ At("awake")' = At("awake") \cup {t}
          /\ t \notin At("awake")
          /\ At("notify")' = At("notify")
          /\ At("asleep") # {}
      BY <1>0, <2>1 DEF At, TypeOK
    <2>3. Cardinality(At("awake")') = Cardinality(At("awake")) + 1
      BY <1>0, <2>2, Finite, FS_AddElement
    <2> QED BY <1>0, <2>1, <2>2, <2>3, Finite DEF NoLostWakeUp
  <1>3. ASSUME NEW t \in Threads, ReleaseConnection(t)
        PROVE  NoLostWakeUp'
    <2>1. /\ pc[t] = "using"
          /\ pc' = [pc EXCEPT ![t] = "notify"]
          /\ m_free_connections' = m_free_connections \cup {held[t]}
          /\ held[t] \notin m_free_connections
      BY <1>0, <1>3 DEF ReleaseConnection, Goto, ConnectionExclusive
    <2>2. /\ At("notify")' = At("notify") \cup {t}
          /\ t \notin At("notify")
          /\ At("awake")' = At("awake")
          /\ At("asleep")' = At("asleep")
      BY <1>0, <2>1 DEF At, TypeOK
    <2>3. Cardinality(m_free_connections')
            = Cardinality(m_free_connections) + 1
      BY <1>0, <2>1, Finite, FS_AddElement
    <2>4. Cardinality(At("notify")') = Cardinality(At("notify")) + 1
      BY <1>0, <2>2, Finite, FS_AddElement
    <2> QED BY <1>0, <2>2, <2>3, <2>4, Finite DEF NoLostWakeUp
  <1>4. ASSUME NEW t \in Threads, NotifyOne(t)
        PROVE  NoLostWakeUp'
    <2>1. pc[t] = "notify" /\ UNCHANGED m_free_connections
      BY <1>4 DEF NotifyOne
    <2>2. CASE At("asleep") = {} /\ Goto(t, "idle")
      <3>1. At("asleep")' = {}
        BY <1>0, <2>2 DEF At, Goto, TypeOK
      <3> QED BY <3>1 DEF NoLostWakeUp
    <2>3. ASSUME NEW w \in At("asleep"),
                 pc' = [pc EXCEPT ![t] = "idle", ![w] = "awake"]
          PROVE  NoLostWakeUp'
      <3>1. /\ At("awake")' = At("awake") \cup {w}
            /\ w \notin At("awake")
            /\ At("notify")' = At("notify") \ {t}
            /\ t \in At("notify")
        BY <1>0, <2>1, <2>3 DEF At, TypeOK
      <3>2. Cardinality(At("awake")') = Cardinality(At("awake")) + 1
        BY <1>0, <3>1, Finite, FS_AddElement
      <3>3. Cardinality(At("notify")') = Cardinality(At("notify")) - 1
        BY <1>0, <3>1, Finite, FS_RemoveElement
      <3> QED BY <1>0, <2>1, <2>3, <3>2, <3>3, Finite DEF NoLostWakeUp
    <2> QED BY <1>4, <2>2, <2>3 DEF NotifyOne
  <1>5. CASE UNCHANGED <<m_free_connections, pc>>
    BY <1>5 DEF NoLostWakeUp, At
  <1> QED BY <1>1, <1>2, <1>3, <1>4, <1>5 DEF Next, DereferenceEmpty, vars

(* No waiter sleeps in front of a free connection that nobody will be      *)
(* woken for, although ReleaseConnection notifies after the unlock, waits  *)
(* end spuriously or by time-out and newcomers take what was released.     *)
THEOREM WakeUpsKept == Spec => []NoLostWakeUp
  <1>1. Init => PoolInv /\ NoLostWakeUp
    <2>1. Init => At("asleep") = {}
      BY DEF Init, At
    <2> QED BY <2>1, PoolAssumption
            DEF Init, PoolInv, TypeOK, ConnectionExclusive, Labels,
                NoLostWakeUp
  <1>2. PoolInv /\ NoLostWakeUp /\ [Next]_vars => (PoolInv /\ NoLostWakeUp)'
    BY PoolStep, WakeUpStep
  <1> QED BY <1>1, <1>2, PTL DEF Spec

=============================================================================
