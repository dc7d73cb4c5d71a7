CONSTANTS
    h1 = h1  h2 = h2
    e1 = e1  e2 = e2
    Handlers <- MCHandlers
    Emails <- MCEmails
    Tokens <- MCTokens
    NoEmail = NoEmail
    NoToken = NoToken

SPECIFICATION Spec

SYMMETRY MCSymmetry

INVARIANTS
    TypeOK
    StoredTokenMailed
    SupersededTokenRefused
