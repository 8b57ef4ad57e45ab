SPECIFICATION FairSpec

CONSTANTS
    Name <- MCName
    Hangs <- MCHangs
    Caller = {g1, g2, g3}
    MaxBuilds = 4

INVARIANTS
    TypeOK
    CallersShareOneInstance

PROPERTIES
    ImplementsNamedFactory
    MakeReturns
