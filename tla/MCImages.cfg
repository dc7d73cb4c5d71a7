CONSTANTS
    h1 = h1  h2 = h2  h3 = h3
    f1 = f1  f2 = f2
    Handlers <- MCHandlers
    Files <- MCFiles
    NoFile = NoFile
    MaxCrashes = 1

SPECIFICATION Spec

SYMMETRY MCSymmetry

INVARIANTS
    TypeOK
    RecordedImageExists
    SettledFileComplete

PROPERTIES
    CacheNeverDegrades
    SentImageNotTruncated
