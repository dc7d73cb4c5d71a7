--------------------------- MODULE ConnectionPool ---------------------------
(***************************************************************************)
(* The pool of PostgreSQL connections (database/ConnectionPool.cpp) as     *)
(* the operations of DBPostgres use it.  A thread that finds no            *)
(* free connection waits on m_condition with a timeout; ReleaseConnection  *)
(* notifies one waiter after it has unlocked m_mtx.  Whatever happens      *)
(* under m_mtx is one step.                                                *)
(***************************************************************************)
EXTENDS Naturals, FiniteSets

CONSTANTS
    Threads,      \* threads that use the pool
    Connections,  \* connections the constructor tries to open
    NoConnection  \* an empty ConnectionWrapper

ASSUME PoolAssumption ==
    /\ NoConnection \notin Connections
    /\ IsFiniteSet(Threads)
    /\ IsFiniteSet(Connections)

VARIABLES
    m_free_connections,
    held,        \* the connection in each thread's ConnectionWrapper
    pc,          \* where each thread is
    terminated   \* std::terminate was called

vars == <<m_free_connections, held, pc, terminated>>

At(label) == {t \in Threads : pc[t] = label}

Goto(t, label) == pc' = [pc EXCEPT ![t] = label]

(* The constructor stops at the first connection that cannot be opened.    *)
Init ==
    /\ m_free_connections \in SUBSET Connections
    /\ held = [t \in Threads |-> NoConnection]
    /\ pc = [t \in Threads |-> "idle"]
    /\ terminated = FALSE

(* Mutant: the connection is handed out but stays in the set.              *)
GetConnKeepsIt(t) ==
    \E c \in m_free_connections :
        /\ held' = [held EXCEPT ![t] = c]
        /\ Goto(t, "using")
        /\ UNCHANGED <<m_free_connections, terminated>>

(* get_conn: the first of the set is taken out of it.                      *)
GetConn(t) ==
    \E c \in m_free_connections :
        /\ m_free_connections' = m_free_connections \ {c}
        /\ held' = [held EXCEPT ![t] = c]
        /\ Goto(t, "using")
        /\ UNCHANGED terminated

(* The whole program is gone once terminate has been called.               *)
Running == ~terminated

(* AcquireConnection with a free connection.                               *)
AcquireConnection(t) ==
    /\ Running
    /\ pc[t] = "idle"
    /\ GetConn(t)

(* AcquireConnection without one: wait_for releases m_mtx and sleeps.      *)
StartWaiting(t) ==
    /\ Running
    /\ pc[t] = "idle"
    /\ m_free_connections = {}
    /\ Goto(t, "asleep")
    /\ UNCHANGED <<m_free_connections, held, terminated>>

(* A notified or spuriously woken waiter evaluates the predicate again.    *)
WakeUp(t) ==
    /\ Running
    /\ pc[t] = "awake"
    /\ \/ GetConn(t)
       \/ /\ m_free_connections = {}
          /\ Goto(t, "asleep")
          /\ UNCHANGED <<m_free_connections, held, terminated>>

SpuriousWakeUp(t) ==
    /\ Running
    /\ pc[t] = "asleep"
    /\ Goto(t, "awake")
    /\ UNCHANGED <<m_free_connections, held, terminated>>

(* Mutant: wait instead of wait_for; only a wake-up ends the wait.         *)
NoTimeout(t) ==
    /\ Running
    /\ pc[t] = "awake"
    /\ GetConn(t)

(* wait_for expires, notified or not: it returns the predicate; false      *)
(* gives an empty wrapper.                                                 *)
Timeout(t) ==
    /\ Running
    /\ pc[t] \in {"asleep", "awake"}
    /\ \/ GetConn(t)
       \/ /\ m_free_connections = {}
          /\ Goto(t, "empty")
          /\ UNCHANGED <<m_free_connections, held, terminated>>

(* operator* of an empty wrapper: throw; without an exception in flight    *)
(* calls std::terminate, which no CATCH_ALL of DBPostgres catches.         *)
DereferenceEmpty(t) ==
    /\ Running
    /\ pc[t] = "empty"
    /\ terminated' = TRUE
    /\ UNCHANGED <<m_free_connections, held, pc>>

(* Mutant: the wrapper gives back the connection it has moved from.        *)
ReleaseMovedFrom(t) ==
    /\ Running
    /\ pc[t] = "using"
    /\ held' = [held EXCEPT ![t] = NoConnection]
    /\ m_free_connections' = m_free_connections \cup {held'[t]}
    /\ Goto(t, "notify")
    /\ UNCHANGED terminated

(* ~ConnectionWrapper, also when the query has thrown: ReleaseConnection   *)
(* puts the connection back and unlocks.                                   *)
ReleaseConnection(t) ==
    /\ Running
    /\ pc[t] = "using"
    /\ m_free_connections' = m_free_connections \cup {held[t]}
    /\ held' = [held EXCEPT ![t] = NoConnection]
    /\ Goto(t, "notify")
    /\ UNCHANGED terminated

(* Mutant: ReleaseConnection returns after lock.unlock().                  *)
NotifyNobody(t) ==
    /\ Running
    /\ pc[t] = "notify"
    /\ Goto(t, "idle")
    /\ UNCHANGED <<m_free_connections, held, terminated>>

(* m_condition.notify_one(): wakes some sleeper, if there is one.          *)
NotifyOne(t) ==
    /\ Running
    /\ pc[t] = "notify"
    /\ \/ \E w \in At("asleep") :
             pc' = [pc EXCEPT ![t] = "idle", ![w] = "awake"]
       \/ At("asleep") = {} /\ Goto(t, "idle")
    /\ UNCHANGED <<m_free_connections, held, terminated>>

Next ==
    \E t \in Threads :
        \/ AcquireConnection(t) \/ StartWaiting(t) \/ WakeUp(t)
        \/ SpuriousWakeUp(t) \/ Timeout(t) \/ DereferenceEmpty(t)
        \/ ReleaseConnection(t) \/ NotifyOne(t)

Spec == Init /\ [][Next]_vars

-----------------------------------------------------------------------------
(* Properties.                                                             *)

Labels == {"idle", "asleep", "awake", "empty", "using", "notify"}

(* Every variable stays in its type.                                       *)
TypeOK ==
    /\ m_free_connections \subseteq Connections
    /\ held \in [Threads -> Connections \cup {NoConnection}]
    /\ pc \in [Threads -> Labels]
    /\ terminated \in BOOLEAN

(* A connection is free or in one wrapper, never in two: no two            *)
(* transactions share a connection.                                        *)
ConnectionExclusive ==
    /\ \A t \in Threads : held[t] \notin m_free_connections
    /\ \A s, t \in Threads :
           held[s] = held[t] /\ held[s] # NoConnection => s = t
    /\ \A t \in Threads : pc[t] = "using" => held[t] # NoConnection

(* Nobody sleeps in front of a free connection: as long as one waiter is   *)
(* asleep, each free connection has a waiter that is awake or a release    *)
(* that is about to notify.  The notification comes after the unlock, and  *)
(* a newcomer may take the connection before the woken waiter runs.        *)
NoLostWakeUp ==
    At("asleep") # {} =>
        Cardinality(m_free_connections)
            <= Cardinality(At("awake")) + Cardinality(At("notify"))

=============================================================================
