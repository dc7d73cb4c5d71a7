CONSTANTS
    t1 = t1  t2 = t2 
    c1 = c1  c2 = c2
    n1 = n1
    Threads <- MCThreads
    Connections <- MCConnections
    NoConnection = NoConnection
    Names <- MCNames

SPECIFICATION DBSpec

INVARIANTS
    DBTypeOK
    ConnectionExclusive
    TransactionsOwned
    AckedIsCommitted
    NoLostWakeUp

PROPERTIES
    CallsEnd

\* After std::terminate nothing moves.
CHECK_DEADLOCK FALSE
