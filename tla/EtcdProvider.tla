---------------------------- MODULE EtcdProvider ----------------------------
(***************************************************************************)
(* Package otetcd: provideFactory, which reads the "etcd" section of the   *)
(* configuration and wraps a di.Factory around a constructor of etcd       *)
(* clients, the typed Factory.Make, provideDefaultClient, and the clean-up *)
(* function provideFactory returns (factory.Close).                        *)
(*                                                                         *)
(* A client is a record of the name it was built for, the clientv3.Config  *)
(* it was dialled with and whether it is open.  A configuration keeps the  *)
(* endpoints and the dial options apart and lumps the fields that are      *)
(* copied unchanged.  clientv3.New is the environment: it returns a client *)
(* or, when the dial fails, nil and an error.                              *)
(***************************************************************************)
EXTENDS Sequences, ResourceFactory

CONSTANTS
    DbConfs,            \* the possible contents of the "etcd" configuration
    Address,            \* the addresses endpoints are made of
    EnvAddr,            \* the values of the environment variable ETCD_ADDR
    Intercept(_, _),    \* what the EtcdConfigInterceptor makes of a Config
    DialOutcome,        \* whether clientv3.New can succeed (TRUE), fail (FALSE)
    MaxClients          \* bound on the number of clients built

ASSUME /\ "default" \in Name
       /\ "" \notin Address
       /\ EnvAddr \subseteq Address \cup {""}
       /\ DialOutcome \subseteq BOOLEAN
       /\ MaxClients \in Nat

VARIABLES
    pc,             \* "start", "provided" once provideFactory has run, "crashed"
    dbConfs,        \* the map the constructor closes over
    tracer,         \* p.Tracer != nil
    interceptor,    \* p.Interceptor != nil
    etcdAddr,       \* os.Getenv("ETCD_ADDR")
    clients,        \* clients[c]: the c-th client clientv3.New returned
    made,           \* what the last call of Make returned, and for which name
    injected        \* what provideDefaultClient returned

vars == <<cache, pc, dbConfs, tracer, interceptor, etcdAddr, clients, made,
          injected>>

\* An Option with the endpoint e and nothing else set.
Option(e) == [endpoints |-> <<e>>, dialOptions |-> <<>>, rest |-> "zero"]

\* provideConfig: the configuration the package exports as its default.
ExportedConfig == [name \in {"default"} |-> Option("127.0.0.1:2379")]

\* The two dial options that trace the calls of a client.
Tracing == <<"otgrpc.Unary", "otgrpc.Stream">>

-----------------------------------------------------------------------------
(* The constructor *)

\* The constructor finds a configuration for name: an entry of the map,
\* or the fallback, which only "default" has.
Resolvable(name) == name \in DOMAIN dbConfs \/ name = "default"

\* Faulty variant of Fallback: the variable is used without the test that
\* it is set.
FallbackUnchecked == Option(etcdAddr)

\* The configuration of "default" when the map has none: the address in
\* ETCD_ADDR if it is set, the local address otherwise.
Fallback ==
    IF etcdAddr # "" THEN Option(etcdAddr) ELSE Option("127.0.0.1:6379")

\* conf after `if conf, ok = dbConfs[name]; !ok { ... }`.
Resolve(name) ==
    IF name \in DOMAIN dbConfs THEN dbConfs[name] ELSE Fallback

\* The clientv3.Config built from the Option, field by field.
Config(conf) ==
    [endpoints |-> conf.endpoints, dialOptions |-> conf.dialOptions,
     rest |-> conf.rest]

\* `if p.Tracer != nil`: the tracing options are appended.
Traced(co) ==
    IF tracer THEN [co EXCEPT !.dialOptions = @ \o Tracing] ELSE co

\* `if p.Interceptor != nil`: the interceptor amends the Config.
Intercepted(name, co) ==
    IF interceptor THEN Intercept(name, co) ELSE co

\* The Config clientv3.New is called with for name: the tracing options
\* are appended before the interceptor is given the Config.
Build(name) == Intercepted(name, Traced(Config(Resolve(name))))

\* Faulty variant of Closer: the closer does nothing.
CloserKeepsOpen(client) == client

\* Closer: `_ = client.Close()` on a client that is not nil.
Closer(client) == [client EXCEPT !.open = FALSE]

-----------------------------------------------------------------------------
(* provideFactory, Make, provideDefaultClient, Close *)

\* provideFactory: Unmarshal fills dbConfs (with nothing, if it fails:
\* the error is logged and the provider goes on), and the factory is made.
ProvideFactory(confs, tr, ic) ==
    /\ pc = "start"
    /\ pc' = "provided"
    /\ dbConfs' = confs
    /\ tracer' = tr
    /\ interceptor' = ic
    /\ UNCHANGED <<cache, etcdAddr, clients, made, injected>>

\* What Make(name) returned.
Made(name, result) == [name |-> name, conn |-> result.conn, err |-> result.err]

\* Make(name) for a memoized name.
MakeHit(name) ==
    /\ Found(name)
    /\ made' = Made(name, Hit(name))
    /\ UNCHANGED <<cache, clients>>

\* Make(name) when the constructor finds no configuration: the error is
\* returned and nothing is memoized.
MakeNotValid(name) ==
    /\ ~Found(name)
    /\ ~Resolvable(name)
    /\ made' = Made(name, Miss([err |-> "not valid"]))
    /\ UNCHANGED <<cache, clients>>

\* Faulty variant of MakeDialled: the constructor is called for a name
\* that is memoized already, and its client replaces the memoized one.
MakeDialledAgain(name) ==
    /\ Resolvable(name)
    /\ TRUE \in DialOutcome
    /\ Len(clients) < MaxClients
    /\ LET c == Len(clients) + 1
           pair == [conn |-> c, closes |-> c]
       IN  /\ clients' = Append(clients, [name |-> name, co |-> Build(name),
                                          open |-> TRUE])
           /\ Memoize(name, pair)
           /\ made' = Made(name, Miss([err |-> NoError, pair |-> pair]))

\* Make(name) when the constructor dials: the client of clientv3.New is
\* memoized with its closer and returned.
MakeDialled(name) ==
    /\ ~Found(name)
    /\ Resolvable(name)
    /\ TRUE \in DialOutcome
    /\ Len(clients) < MaxClients
    /\ LET c == Len(clients) + 1
           pair == [conn |-> c, closes |-> c]
       IN  /\ clients' = Append(clients, [name |-> name, co |-> Build(name),
                                          open |-> TRUE])
           /\ Memoize(name, pair)
           /\ made' = Made(name, Miss([err |-> NoError, pair |-> pair]))

\* Make(name) when clientv3.New fails: `client, _ := clientv3.New(co)`
\* drops the error, and the constructor returns the nil client, a closer
\* of it and no error.
MakeDialFailed(name) ==
    /\ ~Found(name)
    /\ Resolvable(name)
    /\ FALSE \in DialOutcome
    /\ LET pair == [conn |-> NilConn, closes |-> NilConn]
       IN  /\ Memoize(name, pair)
           /\ made' = Made(name, Miss([err |-> NoError, pair |-> pair]))
    /\ UNCHANGED clients

\* Factory.Make: the Make of di.Factory, its connection asserted to be a
\* *clientv3.Client (which a nil client is, too).
Make(name) ==
    /\ pc = "provided"
    /\ \/ MakeHit(name)
       \/ MakeNotValid(name)
       \/ MakeDialled(name)
       \/ MakeDialFailed(name)
    /\ UNCHANGED <<pc, dbConfs, tracer, interceptor, etcdAddr>>

\* provideDefaultClient: Make("default"), result and error passed on.
ProvideDefaultClient ==
    /\ injected.err = "none"
    /\ Make("default")
    /\ injected' = [conn |-> made'.conn, err |-> made'.err]

\* The clients after the closers of the connections in cs have run.
AfterClosers(cs) ==
    [c \in DOMAIN clients |-> IF c \in cs THEN Closer(clients[c]) ELSE clients[c]]

\* factory.Close when every memoized client is a client: every closer
\* runs and the map is emptied.
CloseAll ==
    /\ NilConn \notin Closing
    /\ clients' = AfterClosers(Closing)
    /\ Forget
    /\ UNCHANGED pc

\* factory.Close when a nil client is memoized: its closer calls Close on
\* nil, which panics; the closers Close has called before it have run.
ClosePanics ==
    /\ NilConn \in Closing
    /\ \E before \in SUBSET (Closing \ {NilConn}) :
          clients' = AfterClosers(before)
    /\ pc' = "crashed"
    /\ UNCHANGED cache

\* The clean-up function provideFactory returns.
Close ==
    /\ pc = "provided"
    /\ CloseAll \/ ClosePanics
    /\ UNCHANGED <<dbConfs, tracer, interceptor, etcdAddr, made, injected>>

\* A process that has died of a panic stays dead.
Terminated ==
    /\ pc = "crashed"
    /\ UNCHANGED vars

-----------------------------------------------------------------------------

Init ==
    /\ NewFactory
    /\ pc = "start"
    /\ dbConfs = <<>>
    /\ tracer = FALSE
    /\ interceptor = FALSE
    /\ etcdAddr \in EnvAddr
    /\ clients = <<>>
    /\ made = [name |-> "default", conn |-> NilConn, err |-> "none"]
    /\ injected = [conn |-> NilConn, err |-> "none"]

Next ==
    \/ \E confs \in DbConfs, tr, ic \in BOOLEAN : ProvideFactory(confs, tr, ic)
    \/ \E name \in Name : Make(name) /\ UNCHANGED injected
    \/ ProvideDefaultClient
    \/ Close
    \/ Terminated

Spec == Init /\ [][Next]_vars

-----------------------------------------------------------------------------
(* Properties *)

Configs ==
    [endpoints : Seq(Address) \ {<<>>}, dialOptions : Seq(STRING),
     rest : STRING]

Results == [conn : 0..Len(clients), err : {NoError, "not valid", "none"}]

\* The type invariant; an endpoint is an address, never the empty string.
TypeOK ==
    /\ pc \in {"start", "provided", "crashed"}
    /\ DOMAIN cache \subseteq Name
    /\ \A n \in DOMAIN cache :
          cache[n].conn \in 0..Len(clients) /\ cache[n].closes = cache[n].conn
    /\ dbConfs \in DbConfs \cup {<<>>}
    /\ tracer \in BOOLEAN /\ interceptor \in BOOLEAN
    /\ etcdAddr \in EnvAddr
    /\ Len(clients) <= MaxClients
    /\ \A c \in DOMAIN clients :
          /\ clients[c].name \in Name
          /\ clients[c].co \in Configs
          /\ clients[c].open \in BOOLEAN
    /\ made.name \in Name /\ [conn |-> made.conn, err |-> made.err] \in Results
    /\ injected \in Results

\* While the provider runs, the open clients are exactly the memoized
\* ones: a client is memoized under the name it was built for, no client
\* is open that Make would not return (none leaks, none is built twice for
\* a name), and none that Make returns has been closed.  After Close, Make
\* builds a new client.
MemoizedAreTheOpenClients ==
    pc = "provided" =>
        \A c \in DOMAIN clients :
            clients[c].open <=>
                clients[c].name \in DOMAIN cache /\ cache[clients[c].name].conn = c

\* The clients the factory holds: the memoized connections that are not
\* nil, by name.
Held ==
    [n \in {m \in DOMAIN cache : cache[m].conn # NilConn} |-> cache[n].conn]

\* The clients that have been closed.
Closed == {c \in DOMAIN clients : ~clients[c].open}

Contract ==
    INSTANCE NamedFactory
        WITH Instance <- 1..MaxClients, memo <- Held, released <- Closed

\* Until a closer panics, the provider implements NamedFactory: every step
\* of provideFactory, Make, provideDefaultClient and the clean-up function
\* either leaves the clients held and closed as they are (a Make that
\* finds its name or no configuration, and one whose dial fails and that
\* memoizes nil) or is a step of the abstract factory: a new client for a
\* name that holds none, or the release of exactly the clients held.  The
\* one step that is not is the Close that meets a nil client.
ImplementsNamedFactoryUntilPanic ==
    /\ Contract!Init
    /\ [][pc' # "crashed" => Contract!Next \/ UNCHANGED <<Held, Closed>>]_vars

\* A Make that returns no error returns a client.  (The design of the
\* factory: "always propagate build failure to the Make caller and never
\* memoize on failure".)
SuccessfulMakeGivesClient ==
    made.err = NoError => made.conn # NilConn

=============================================================================
