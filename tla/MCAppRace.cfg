SPECIFICATION Spec
CONSTANTS
    Name <- MCName
    Address <- MCAddress
    EnvAddr = {""}
    EtcdConfs <- MCEtcdConfs
    RedisConfs <- MCRedisConfs
    EtcdIntercept <- MCIntercept
    RedisIntercept <- MCIntercept
    DialOutcome = {TRUE, FALSE}
    MaxClients = 3
    MaxShutdowns = 2
PROPERTIES
    ShutdownReleasesEveryClient
