-------------------------------- MODULE App --------------------------------
(***************************************************************************)
(* An application that uses the three packages together: it provides       *)
(* otetcd and otredis, registers the clean-up function of each factory     *)
(* with the Container as a func() closer, makes clients while it runs, and *)
(* calls Shutdown before it exits.  The closer of a factory is its Close:  *)
(* when the goroutine Shutdown started for it comes back from p(), the     *)
(* factory has closed its clients, or has panicked and taken the process   *)
(* with it.  Clients are made by the goroutines that serve requests, which *)
(* run until the process ends and so also while Shutdown runs.             *)
(***************************************************************************)
EXTENDS Integers, Sequences, FiniteSets

CONSTANTS
    Name,                   \* the names clients are made for
    Address,                \* addresses of etcd and redis nodes
    EnvAddr,                \* the values of ETCD_ADDR
    EtcdConfs,              \* the possible "etcd" configurations
    RedisConfs,             \* the possible "redis" configurations
    EtcdIntercept(_, _),    \* the interceptors, unused here
    RedisIntercept(_, _),
    DialOutcome,            \* whether clientv3.New can succeed, fail
    MaxClients,             \* bound on the clients of each factory
    MaxShutdowns            \* bound on the number of Shutdown calls

VARIABLES
    \* the Container
    httpProviders, grpcProviders, closerProviders, runProviders, modules,
    cronProviders, commandProviders, host, pc, closers, idx, wg, gor,
    invoked, registered, applies, shutdowns,
    \* otetcd
    etcdCache, etcdPc, etcdConfs, etcdTracer, etcdInterceptor, etcdAddr,
    etcdClients, etcdMade, injected,
    \* otredis
    redisCache, redisPc, redisConfs, redisTracer, redisInterceptor,
    redisClients, redisMade, client,
    \* history: the number of clients of each factory when Shutdown began
    before

\* The clean-up functions of the two factories, as modules of the Container.
Cleanup == {"etcd", "redis"}

C == INSTANCE Container
        WITH Module <- Cleanup, BareFunc <- Cleanup,
             Satisfies <- [m \in Cleanup |-> {}],
             Hangs <- {}, Panics <- {"etcd"},
             MaxModules <- Cardinality(Cleanup), MaxApplies <- 0

E == INSTANCE EtcdProvider
        WITH DbConfs <- EtcdConfs, Intercept <- EtcdIntercept,
             cache <- etcdCache, pc <- etcdPc, dbConfs <- etcdConfs,
             tracer <- etcdTracer, interceptor <- etcdInterceptor,
             clients <- etcdClients, made <- etcdMade

R == INSTANCE RedisProvider
        WITH DbConfs <- RedisConfs, Intercept <- RedisIntercept,
             cache <- redisCache, pc <- redisPc, dbConfs <- redisConfs,
             tracer <- redisTracer, interceptor <- redisInterceptor,
             clients <- redisClients, made <- redisMade

containerVars ==
    <<httpProviders, grpcProviders, closerProviders, runProviders, modules,
      cronProviders, commandProviders, host, pc, closers, idx, wg, gor,
      invoked, registered, applies, shutdowns>>
etcdVars ==
    <<etcdCache, etcdPc, etcdConfs, etcdTracer, etcdInterceptor, etcdAddr,
      etcdClients, etcdMade, injected>>
redisVars ==
    <<redisCache, redisPc, redisConfs, redisTracer, redisInterceptor,
      redisClients, redisMade, client>>
vars == <<containerVars, etcdVars, redisVars, before>>

-----------------------------------------------------------------------------
(* Start-up *)

\* The application provides otetcd: provideFactory runs and the clean-up
\* function it returns is registered.
ProvideEtcd(confs) ==
    /\ E!ProvideFactory(confs, FALSE, FALSE)
    /\ C!AddModule("etcd")
    /\ UNCHANGED <<redisVars, before>>

\* The application provides otredis: ProvideRedis runs and the clean-up
\* function it returns is registered.
ProvideRedis ==
    /\ R!ProvideRedis
    /\ C!AddModule("redis")
    /\ UNCHANGED <<etcdVars, before>>

\* A consumer of *clientv3.Client is built: provideDefaultClient runs.
ProvideDefaultClient ==
    /\ pc = "idle"
    /\ E!ProvideDefaultClient
    /\ UNCHANGED <<containerVars, redisVars, before>>

-----------------------------------------------------------------------------
(* The running application *)

\* A goroutine of the application asks the etcd factory for a client.
EtcdMake(name) ==
    /\ C!Running
    /\ E!Make(name)
    /\ UNCHANGED <<injected, containerVars, redisVars, before>>

\* A goroutine of the application asks the redis factory for a client.
RedisMake(name) ==
    /\ C!Running
    /\ R!Make(name)
    /\ UNCHANGED <<containerVars, etcdVars, before>>

-----------------------------------------------------------------------------
(* Shutdown *)

\* Shutdown is called.
ShutdownBegin ==
    /\ C!ShutdownBegin
    /\ before' = [etcd |-> Len(etcdClients), redis |-> Len(redisClients)]
    /\ UNCHANGED <<etcdVars, redisVars>>

\* A step of Shutdown or of one of its goroutines outside the closers.
ShutdownStep ==
    /\ \/ C!Spawn
       \/ \E i \in DOMAIN gor : C!CallCloser(i) \/ C!Done(i)
       \/ C!Wait
    /\ UNCHANGED <<etcdVars, redisVars, before>>

\* The closer of goroutine i returns: the factory it belongs to has
\* closed its clients.
CloserReturns(i) ==
    /\ C!CloserReturns(i)
    /\ \/ /\ C!Captured(i) = "etcd"
          /\ E!Close
          /\ etcdPc' = "provided"
          /\ UNCHANGED redisVars
       \/ /\ C!Captured(i) = "redis"
          /\ R!Close
          /\ UNCHANGED etcdVars
    /\ UNCHANGED before

\* The closer of goroutine i panics: the etcd factory has met the closer
\* of a nil client.
CloserPanics(i) ==
    /\ C!CloserPanics(i)
    /\ C!Captured(i) = "etcd"
    /\ E!Close
    /\ etcdPc' = "crashed"
    /\ UNCHANGED <<redisVars, before>>

\* The application leaves main.
Exit ==
    /\ C!Exit
    /\ UNCHANGED <<etcdVars, redisVars, before>>

\* A process that has ended stays ended.
Terminated ==
    /\ C!Terminated
    /\ UNCHANGED <<etcdVars, redisVars, before>>

-----------------------------------------------------------------------------

Init ==
    /\ C!Init
    /\ E!Init
    /\ R!Init
    /\ redisTracer = FALSE
    /\ redisInterceptor = FALSE
    /\ before = [etcd |-> 0, redis |-> 0]

Next ==
    \/ \E confs \in EtcdConfs : ProvideEtcd(confs)
    \/ ProvideRedis
    \/ ProvideDefaultClient
    \/ \E name \in Name : EtcdMake(name)
    \/ \E name \in Name : RedisMake(name)
    \/ ShutdownBegin
    \/ ShutdownStep
    \/ \E i \in DOMAIN gor : CloserReturns(i)
    \/ \E i \in DOMAIN gor : CloserPanics(i)
    \/ Exit
    \/ Terminated

Spec == Init /\ [][Next]_vars

-----------------------------------------------------------------------------
(* Properties *)

\* The type invariant: those of the three components.
TypeOK ==
    /\ C!TypeOK
    /\ E!TypeOK
    /\ R!TypeOK
    /\ before \in [etcd : 0..MaxClients, redis : 0..MaxClients]

\* The clients of a factory that were there when Shutdown began.
Earlier(clients, n) == {clients[c] : c \in 1..n}

\* When Shutdown has returned, every client that either factory had made
\* before Shutdown was called is closed, whatever the order in which the
\* loop of Shutdown, its goroutines and the goroutines that make clients
\* ran: each factory's Close was registered, was called by the goroutine
\* of its own iteration, and had returned when wg.Wait() did.
ShutdownClosesEarlierClients ==
    (pc \in {"idle", "exited"} /\ shutdowns > 0) =>
        \A c \in Earlier(etcdClients, before.etcd)
                   \cup Earlier(redisClients, before.redis) : ~c.open

\* The clients of a factory that are open.
Open(clients) == {c \in DOMAIN clients : clients[c].open}

\* When Shutdown returns, no client of either factory is open.  (The
\* design of the application: at teardown "each Named Resource Factory is
\* itself one such closer, releasing every resource it ever constructed",
\* and Close is to "exclude concurrent Make calls from adding entries that
\* Close will not see".)  The cleanup function of provideFactory and of
\* ProvideRedis is the factory's Close and nothing else, and Shutdown
\* calls it once.
ShutdownReleasesEveryClient ==
    [][(pc = "shutdown" /\ pc' = "idle")
          => Open(etcdClients)' = {} /\ Open(redisClients)' = {}]_vars

=============================================================================
