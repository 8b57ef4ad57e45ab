SPECIFICATION Spec
CONSTANTS
    Name <- MCName
    Address <- MCAddress
    DbConfs <- MCDbConfs
    Intercept <- MCIntercept
    MaxClients = 4
INVARIANTS
    DefaultClientProvided
