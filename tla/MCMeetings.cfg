CONSTANTS
    h1 = h1  h2 = h2
    u1 = u1  u2 = u2
    m1 = m1  m2 = m2
    t1 = t1  t2 = t2
    Handlers <- MCHandlers
    Users <- MCUsers
    Markers <- MCOneMarker
    Messages <- MCMessages
    NoUser = NoUser
    NoMarker = NoMarker
    NoMessage = NoMessage

SPECIFICATION Spec

SYMMETRY MCSymmetry

INVARIANTS
    TypeOK
    KnownChatJoinable
    NoMessageMissed
    DeliveredIsKept
