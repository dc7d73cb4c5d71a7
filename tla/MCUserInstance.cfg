CONSTANTS
    s1 = s1  s2 = s2
    e1 = e1  e2 = e2  e3 = e3  e4 = e4
    Senders <- MCSenders
    Events <- MCEvents
    CqThread = CqThread
    NoThread = NoThread
    NoEvent = NoEvent

SPECIFICATION Spec

INVARIANTS
    TypeOK
    OneOutstandingWrite
    EachEventOnce
    AtMostOneOvertake

PROPERTIES
    NoWriteAfterFailure
    OlderEventsHanded
    ImplementsChannel

\* A client may stop posting: an idle server is not stuck.
CHECK_DEADLOCK FALSE
