SPECIFICATION FairSpec

CONSTANTS
    web = web
    jobs = jobs
    db = db
    fn = fn
    Module <- MCModule
    BareFunc <- MCBareFunc
    Satisfies <- MCSatisfies
    Hangs = {fn}
    Panics = {db}
    MaxModules = 3
    MaxApplies = 0
    MaxShutdowns = 2

PROPERTIES
    ShutdownReturns
    ClosersRunIndependently
    ImplementsFairBarrier

CHECK_DEADLOCK FALSE
