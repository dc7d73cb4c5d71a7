CONSTANTS
    h1 = h1  h2 = h2
    u1 = u1  u2 = u2
    m1 = m1  m2 = m2
    t1 = t1  t2 = t2
    Handlers <- MCHandlers
    Users <- MCOneUser
    Markers <- MCMarkers
    Messages <- MCNoMessages
    NoUser = NoUser
    NoMarker = NoMarker
    NoMessage = NoMessage

SPECIFICATION Spec

SYMMETRY MCSymmetry

INVARIANT AnnouncedMarkerListed
