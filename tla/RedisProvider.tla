---------------------------- MODULE RedisProvider ----------------------------
(***************************************************************************)
(* Package otredis: ProvideRedis, which wraps an async.Factory around a    *)
(* constructor of redis clients and makes the "default" client at once,    *)
(* the typed Factory.Make, and the clean-up function ProvideRedis returns  *)
(* (the factory's Close).                                                  *)
(*                                                                         *)
(* A client is a record of the name it was built for, the options          *)
(* redis.NewUniversalClient was given, the tracing hook added to it, if    *)
(* any, and whether it is open.  The options keep the addresses and the    *)
(* database apart and lump the other fields.  The configuration, the       *)
(* tracer and the interceptor are the RedisIn the provider is called with: *)
(* they are there from the start.                                          *)
(***************************************************************************)
EXTENDS Sequences, ResourceFactory

CONSTANTS
    DbConfs,            \* the possible contents of the "redis" configuration
    Address,            \* the addresses of redis nodes
    Intercept(_, _),    \* what the RedisConfigurationInterceptor makes of options
    MaxClients          \* bound on the number of clients built

ASSUME /\ "default" \in Name
       /\ MaxClients \in Nat \ {0}

VARIABLES
    pc,             \* "start", "provided" once ProvideRedis has returned
    dbConfs,        \* what Unmarshal read: the map the constructor closes over
    tracer,         \* p.Tracer != nil
    interceptor,    \* p.Interceptor != nil
    clients,        \* clients[c]: the c-th client redis.NewUniversalClient made
    made,           \* what the last call of Make returned, and for which name
    client          \* RedisOut.Client

vars == <<cache, pc, dbConfs, tracer, interceptor, clients, made, client>>

\* RedisIn, the parameter of ProvideRedis: the configuration as Unmarshal
\* reads it, and whether an interceptor and a tracer are given.
RedisIn == [Conf : DbConfs, Interceptor : BOOLEAN, Tracer : BOOLEAN]

\* Factory embeds the *async.Factory: its state is the factory's map, and
\* the factory's Close is its own.
Factory == cache

\* RedisOut, the result of ProvideRedis: Maker and Factory are the one
\* Factory, and Client is the default client.
RedisOut == [Maker |-> Factory, Factory |-> Factory, Client |-> client]

\* A redis.UniversalOptions with nothing set.
ZeroOptions == [addrs |-> <<>>, db |-> 0, rest |-> "zero"]

\* ProvideConfig: the configuration the package exports as its default.
ExportedConfig ==
    [name \in {"default"} |-> [ZeroOptions EXCEPT !.addrs = <<"127.0.0.1:6379">>]]

\* A client without a hook.
NoHook == [set |-> FALSE]

-----------------------------------------------------------------------------
(* The constructor *)

\* Faulty variant of Configured: the second result of the lookup is
\* ignored.
ConfiguredAny(name) == TRUE

\* ok of `conf, ok = dbConfs[name]`.
Configured(name) == name \in DOMAIN dbConfs

\* conf of `conf, ok = dbConfs[name]`: the entry, or the zero value.
Lookup(name) == IF name \in DOMAIN dbConfs THEN dbConfs[name] ELSE ZeroOptions

\* `if p.Interceptor != nil`: the interceptor amends the options.
Intercepted(name, conf) ==
    IF interceptor THEN Intercept(name, conf) ELSE conf

\* `if p.Tracer != nil`: the hook reports the addresses and the database
\* of the options in conf.
Hook(conf) ==
    IF tracer THEN [set |-> TRUE, addrs |-> conf.addrs, database |-> conf.db]
              ELSE NoHook

\* The client the constructor makes for name.
NewClient(name) ==
    LET conf == Intercepted(name, Lookup(name))
    IN  [name |-> name, opts |-> conf, hook |-> Hook(conf), open |-> TRUE]

\* Faulty variant of Closer: the closer does nothing.
CloserKeepsOpen(c) == c

\* Closer: `_ = client.Close()`.
Closer(c) == [c EXCEPT !.open = FALSE]

-----------------------------------------------------------------------------
(* Make, ProvideRedis, Close *)

\* What Make(name) returned.
Made(name, result) == [name |-> name, conn |-> result.conn, err |-> result.err]

\* Make(name) for a memoized name.
MakeHit(name) ==
    /\ Found(name)
    /\ made' = Made(name, Hit(name))
    /\ UNCHANGED <<cache, clients>>

\* Make(name) when the configuration has no entry for name: the error is
\* returned and nothing is memoized.
MakeNotValid(name) ==
    /\ ~Found(name)
    /\ ~Configured(name)
    /\ made' = Made(name, Miss([err |-> "not valid"]))
    /\ UNCHANGED <<cache, clients>>

\* Faulty variant of MakeNew: the constructor is called for a name that
\* is memoized already, and its client replaces the memoized one.
MakeNewAgain(name) ==
    /\ Configured(name)
    /\ Len(clients) < MaxClients
    /\ LET c == Len(clients) + 1
           pair == [conn |-> c, closes |-> c]
       IN  /\ clients' = Append(clients, NewClient(name))
           /\ Memoize(name, pair)
           /\ made' = Made(name, Miss([err |-> NoError, pair |-> pair]))

\* Make(name) when the constructor makes a client: it is memoized with
\* its closer and returned.
MakeNew(name) ==
    /\ ~Found(name)
    /\ Configured(name)
    /\ Len(clients) < MaxClients
    /\ LET c == Len(clients) + 1
           pair == [conn |-> c, closes |-> c]
       IN  /\ clients' = Append(clients, NewClient(name))
           /\ Memoize(name, pair)
           /\ made' = Made(name, Miss([err |-> NoError, pair |-> pair]))

\* Factory.Make, as ProvideRedis and the callers of the factory use it.
FactoryMake(name) ==
    \/ MakeHit(name)
    \/ MakeNotValid(name)
    \/ MakeNew(name)

\* Faulty variant of ProvideRedis: the default client is made by the
\* constructor's steps but not through the factory.
ProvideRedisBesideFactory ==
    /\ pc = "start"
    /\ pc' = "provided"
    /\ Configured("default")
    /\ clients' = Append(clients, NewClient("default"))
    /\ client' = Len(clients')
    /\ UNCHANGED <<cache, made, dbConfs, tracer, interceptor>>

\* ProvideRedis: the factory is made and asked for "default"; the error
\* of Make is dropped and its client, nil or not, is RedisOut.Client.
ProvideRedis ==
    /\ pc = "start"
    /\ pc' = "provided"
    /\ FactoryMake("default")
    /\ client' = made'.conn
    /\ UNCHANGED <<dbConfs, tracer, interceptor>>

\* A call of Make on the factory ProvideRedis returned.
Make(name) ==
    /\ pc = "provided"
    /\ FactoryMake(name)
    /\ UNCHANGED <<pc, dbConfs, tracer, interceptor, client>>

\* The clean-up function ProvideRedis returns: every closer runs and the
\* map is emptied.
Close ==
    /\ pc = "provided"
    /\ clients' = [c \in DOMAIN clients |->
                      IF c \in Closing THEN Closer(clients[c]) ELSE clients[c]]
    /\ Forget
    /\ UNCHANGED <<pc, dbConfs, tracer, interceptor, made, client>>

-----------------------------------------------------------------------------

Init ==
    /\ NewFactory
    /\ pc = "start"
    /\ \E p \in RedisIn :
          /\ dbConfs = p.Conf
          /\ tracer = p.Tracer
          /\ interceptor = p.Interceptor
    /\ clients = <<>>
    /\ made = [name |-> "default", conn |-> NilConn, err |-> "none"]
    /\ client = NilConn

Next ==
    \/ ProvideRedis
    \/ \E name \in Name : Make(name)
    \/ Close

Spec == Init /\ [][Next]_vars

-----------------------------------------------------------------------------
(* Properties *)

Options == [addrs : Seq(Address) \ {<<>>}, db : Nat, rest : STRING]

Hooks == {NoHook} \cup [set : {TRUE}, addrs : Seq(Address), database : Nat]

\* The type invariant; a client is made from options that name a node.
TypeOK ==
    /\ pc \in {"start", "provided"}
    /\ DOMAIN cache \subseteq Name
    /\ \A n \in DOMAIN cache :
          cache[n].conn \in 1..Len(clients) /\ cache[n].closes = cache[n].conn
    /\ dbConfs \in DbConfs
    /\ tracer \in BOOLEAN /\ interceptor \in BOOLEAN
    /\ Len(clients) <= MaxClients
    /\ \A c \in DOMAIN clients :
          /\ clients[c].name \in Name
          /\ clients[c].opts \in Options
          /\ clients[c].hook \in Hooks
          /\ clients[c].open \in BOOLEAN
    /\ made.name \in Name
    /\ made.conn \in 0..Len(clients)
    /\ made.err \in {NoError, "not valid", "none"}
    /\ client \in 0..Len(clients)

\* The open clients are exactly the memoized ones: a client is memoized
\* under the name it was built for, none is open that Make would not
\* return (none leaks at Close, none is built twice for a name), and none
\* that Make returns has been closed.
MemoizedAreTheOpenClients ==
    \A c \in DOMAIN clients :
        clients[c].open <=>
            clients[c].name \in DOMAIN cache /\ cache[clients[c].name].conn = c

\* RedisOut.Client is the factory's "default": as long as it is open it
\* is the client Make("default") returns, so that Close closes it and no
\* second connection is made for the name.
ProvidedClientIsTheDefault ==
    (RedisOut.Client # NilConn /\ clients[RedisOut.Client].open) =>
        /\ "default" \in DOMAIN RedisOut.Factory
        /\ RedisOut.Factory["default"].conn = RedisOut.Client

\* ProvideRedis provides a client.  (The builder policy the providers
\* share gives "default" a fallback configuration, so that making it
\* succeeds without an entry; and RedisOut.Client is documented as a
\* valid dependency.)
DefaultClientProvided ==
    pc = "provided" => RedisOut.Client # NilConn

Contract ==
    INSTANCE NamedFactory
        WITH Instance <- 1..MaxClients,
             memo <- [n \in DOMAIN cache |-> cache[n].conn],
             released <- {c \in DOMAIN clients : ~clients[c].open}

\* The provider implements NamedFactory: over every sequence of
\* ProvideRedis, Make and Close, a client is memoized only when the
\* constructor has just made it for a name that had none, and the
\* clean-up function closes exactly the memoized clients, the default
\* client made by ProvideRedis among them, and none of them twice.
ImplementsNamedFactory == Contract!Spec

=============================================================================
