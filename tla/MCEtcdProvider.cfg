SPECIFICATION Spec
CONSTANTS
    Name <- MCName
    Address <- MCAddress
    EnvAddr <- MCEnvAddr
    DbConfs <- MCDbConfs
    Intercept <- MCIntercept
    DialOutcome = {TRUE, FALSE}
    MaxClients = 3
INVARIANTS
    TypeOK
    MemoizedAreTheOpenClients
PROPERTIES
    ImplementsNamedFactoryUntilPanic
