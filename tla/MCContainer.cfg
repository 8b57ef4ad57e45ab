SPECIFICATION Spec

CONSTANTS
    web = web
    jobs = jobs
    db = db
    fn = fn
    Module <- MCModule
    BareFunc <- MCBareFunc
    Satisfies <- MCSatisfies
    Hangs = {}
    Panics = {db}
    MaxModules = 3
    MaxApplies = 2
    MaxShutdowns = 2

INVARIANTS
    TypeOK
    ScanFindsEveryProvider
    JoinBarrier

PROPERTIES
    DispatchInRegistrationOrder
    ClosersExactlyOnce
    ImplementsBarrier
