CONSTANTS
    h1 = h1  h2 = h2
    u1 = u1
    a1 = a1  a2 = a2
    d1 = d1  d2 = d2  d3 = d3
    Handlers <- MCHandlers
    Users <- MCOneUser
    Apps <- MCApps
    Docs <- MCDocs
    NoUser = NoUser
    NoApp = NoApp

SPECIFICATION Spec

SYMMETRY MCSymmetry

INVARIANTS
    TypeOK
    DeviceRemembered
    DuplicatesBounded

PROPERTY NoEmptyProfile
