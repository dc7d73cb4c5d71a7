CONSTANTS
    h1 = h1  h2 = h2
    u1 = u1  u2 = u2
    a1 = a1  a2 = a2
    c1 = c1  c2 = c2  c3 = c3
    Handlers <- MCOneHandler
    Users <- MCUsers
    Apps <- MCOneApp
    Calls <- MCTwoCalls
    CqThread = CqThread
    Junk = {NoApp}
    NoThread = NoThread
    NoUser = NoUser
    NoApp = NoApp
    NoCall = NoCall
    MaxLogins = 2
    MaxPosts = 1

SPECIFICATION Spec

PROPERTIES
    OperationsEnd
    SubscriptionAfterLoginServed
    ImplementsLifecycle

\* Clients may stop calling: an idle server is not stuck.
CHECK_DEADLOCK FALSE
