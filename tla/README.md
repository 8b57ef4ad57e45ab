# TLA+ models of DoNewsCode/std

A verification development for the parts of the repository that hold state or
run concurrently: the module container, the label manager of package `key`,
the named client factories of `otetcd` and `otredis`, and an application that
uses them together.

| Module | What it is |
|--------|------------|
| `Container` | `type Container` and its methods |
| `ShutdownBarrier` | what `Shutdown` promises; `Container` implements it |
| `KeyManager` | package `key` over a model of Go slices |
| `ResourceFactory` | the steps of the memoizing factory on its map |
| `NamedFactory` | what a factory promises; `RedisProvider` and `ConcurrentFactory` implement it, `EtcdProvider` until a closer panics |
| `ConcurrentFactory` | the factory with several goroutines in `Make` and a concurrent `Close` |
| `EtcdProvider`, `RedisProvider` | the providers of `otetcd` and `otredis` |
| `App` | `Container`, `EtcdProvider` and `RedisProvider` composed |
| `MC*` | the instances TLC checks |

Every run is checked with two workers.  TLC evaluates the definition a
configuration file puts in place of a constant (`DbConfs <- MCDbConfs`) once
and shares the value among its workers without normalising what is inside
it: the records of a configuration, or the sets of interfaces of a module,
would be sorted in place by two workers at once, and a run would now and
then end in an exception (`Field name dialOptions occurs multiple times in
record`) or count states wrongly.  Any other constant definition is
evaluated and normalised once for each worker.  The constants whose values
have records or sets inside them are therefore overridden by a definition
that only names another: `MCDbConfs == Configurations` in `MCEtcdProvider`
and `MCRedisProvider`, `MCRedisConfs == RedisConfigurations` in `MCApp`,
`MCSatisfies == InterfacesOf` in `MCContainer`.

## The system

| Part | Source | State | Operations |
|------|--------|-------|------------|
| `container.Container` | `src/unnamed/part_002` 95-249 | six slices of provider callbacks, the collection `modules` | `AddModule`, `Modules`, `ApplyRouter`, `ApplyGRPCServer`, `ApplyRunGroup`, `ApplyCron`, `ApplyRootCommand`, `Shutdown` |
| `key.KeyManager` | `src/unnamed/part_001` | one slice `Prefixes` | `NewManager`, `Key`, `Spread`, `With` (method and function), `SpreadInterface`, `KeepOdd` |
| `otetcd` | `src/unnamed/part_000` 16-207 | a memoizing factory of named etcd clients | the builder closure of `provideFactory`, `Factory.Make`, `provideDefaultClient`, the closer of each client |
| `otredis` | `src/pkg/otredis/provider.go` | a memoizing factory of named redis clients | the builder closure of `ProvideRedis`, the default client, `Factory.Make` |
| `observability.JaegerLogAdapter` | `src/unnamed/part_002` 1-29 | none | `Infof`, `Error` |
| tests of `otkafka`, `clihttp`, `ots3` | `src/unnamed/part_000` 1-15, `part_002` 30-94, `src/ots3` | - | - |

How they interact: an application registers its modules with `AddModule`
during start-up, hands its router, gRPC server, crontab, root command and run
group to the `Apply` methods, and calls `Shutdown` when it exits.  The
clean-up functions of the factories (`factory.Close`) are what such an
application registers as closers.  `KeyManager` values are passed by value
between the packages that label logs, metrics and redis keys.
`App` models that wiring: the two factories, their clean-up functions as the
closers of one Container, and goroutines that make clients while `Shutdown`
runs.

## Container.tla

`Container` models the whole of `type Container` and its methods.

*State.*  The seven fields of the struct are seven variables of the same
names.  A module is a model value; a bound method value (`p.ProvideHttp`) is
represented by its receiver.  What the type assertions of `AddModule` see is
given by the constants `BareFunc` (the modules of dynamic type `func()`) and
`Satisfies` (the interfaces of every other module).  `host[h]` records the
providers each host was handed to, in call order.  `pc` is the calling
goroutine (`idle`, `shutdown`, `exited`, `crashed`); `closers`, `idx`, `wg`
and `gor` are the locals of `Shutdown`: the slice its `range` evaluated, the
loop position, the counter of the `sync.WaitGroup` and the state of the
goroutine of each iteration.  `registered` and `invoked` are history
variables: the arguments of `AddModule` and the closers called by the
current `Shutdown`.

*Actions.*

| Action | Code | What it does |
|--------|------|--------------|
| `AddModule(m)` | 225-249 | the `func()` branch with its early return, or the six type assertions in the order of the code followed by the append to `c.modules` |
| `ApplyRouter` ... `ApplyRootCommand` | 155-223 | the loop over one slice, calling each provider with the host |
| `ShutdownBegin` | 171-173 | the zero `WaitGroup`; `range` evaluates `c.closerProviders` once |
| `Spawn` | 173-180 | one iteration: `wg.Add(1)`, `p := p`, the `go` statement |
| `CallCloser(i)` | 176-177 | the goroutine of iteration `i` is scheduled and calls its closer |
| `CloserReturns(i)` | 177 | the closer returns (never, for a module of `Hangs`) |
| `CloserPanics(i)` | 177 | the closer panics (a module of `Panics` may): nothing recovers, the process ends |
| `Done(i)` | 178 | `wg.Done()` |
| `Wait` | 181-182 | `wg.Wait()` returns once the loop is over and the counter is zero |
| `Exit`, `Terminated` | - | the program ends; an ended process stutters |

Registration and dispatch are atomic steps of the calling goroutine: the
struct has no lock and the package documents them as start-up calls.
`Shutdown` is split at every point where the Go scheduler can switch between
the loop and the goroutines it has started.

### Runs and properties

| Run | Config | Expect | Shows |
|-----|--------|--------|-------|
| `container_safety` | `MCContainer.cfg` | pass | `TypeOK`, `ScanFindsEveryProvider`, `JoinBarrier`, `DispatchInRegistrationOrder`, `ClosersExactlyOnce`, `ImplementsBarrier` over every interleaving |
| `shutdown_liveness` | `MCContainerLive.cfg` | pass | `ShutdownReturns`, `ClosersRunIndependently`, `ImplementsFairBarrier` under fair scheduling, with a closer that hangs (`fn`) and one that may panic (`db`) |

The properties:

* `DispatchInRegistrationOrder` (action property): an `Apply` call hands its
  host to exactly the registered providers of the host's interface, once
  each, in registration order.
* `ScanFindsEveryProvider`: `Modules().Filter` for any interface, one the
  Container dispatches or not (`MigrationProvider` in the model), visits
  every registered implementer in order.
* `JoinBarrier`: when `Shutdown` has returned, every goroutine has come back
  from its closer, although the counter may reach zero while the loop is
  still running.
* `ClosersExactlyOnce` (action property): no closer is called more often
  than it was registered, and at the return of `Shutdown` each has been
  called exactly as often.
* `ShutdownReturns` (liveness): a `Shutdown` none of whose closers hangs
  or panics returns.
* `ClosersRunIndependently` (liveness): once `Shutdown` is called, every
  closer that does not hang is called and returns, or the process has died
  of another closer's panic.  A hanging closer delays no other; a panicking
  one is the only thing that cuts the others off, and the property without
  the last alternative fails on a `Shutdown` of `web`, `web`, `db` in which
  `db` panics before the closer of a `web` is called.
* `ImplementsBarrier`, `ImplementsFairBarrier`: the refinement below.

### ShutdownBarrier and the refinement

`ShutdownBarrier` is `Shutdown` without the loop, the goroutines and the
`WaitGroup`: a registry of closers, a phase (`idle`, `closing`, `dead`), and
for the closers of the shutdown in progress whether each is `waiting`,
`running` or `returned`.  A shutdown takes the closers registered so far
(`Begin`), calls each once in any order (`Call`), lets each return unless it
hangs (`Return`), and ends only when all have returned (`End`).  `Die` is
the end of the process, by exit or panic.

`Container` instantiates it as `Barrier` with this mapping:

| `ShutdownBarrier` | `Container` |
|-------------------|-------------|
| `registry` | `closerProviders` |
| `phase` | `pc` through `Phase`: `shutdown` is `closing`, `exited` and `crashed` are `dead` |
| `run[i].closer` | `closers[i]`, for the iterations the loop has reached |
| `run[i].at` | `gor[i]` through `Progress`: a goroutine not yet scheduled is `waiting`, one inside `p()` is `running`, one past it is `returned` |
| `called` | `invoked` |

`Spawn`, `Done` and the dispatch actions are stuttering steps of the
barrier; `Wait` is `End`.  `ImplementsBarrier` (`Barrier!Spec`, a property
of `container_safety`) says that the counter implements the barrier: `Wait`
never returns while a closer of this shutdown is waiting or running.
Calling `wg.Done()` before the closer breaks it.  `ImplementsFairBarrier`
(`Barrier!FairSpec`, in `shutdown_liveness`) carries the fairness over: what
the barrier must eventually do, the loop, the goroutines and `wg.Wait()` do.

### Bounds

`MCContainer` has four modules: `web` (HTTP, gRPC, closer), `jobs` (HTTP,
cron, run group, command), `db` (closer and the custom `MigrationProvider`) and
`fn` (a bare `func()`).  Between them every branch of `AddModule` is taken
and every interface has a provider; HTTP has two, so that the order of
dispatch can be told.  `MaxModules = 3` registrations allow
the same module twice, three closers in one `Shutdown` (so that the counter
can drop to zero in the middle of the loop and rise again), and every order
of two different modules.  `MaxApplies = 2` lets a host be applied before
and after a registration, or twice.  `MaxShutdowns = 2` lets a second
`Shutdown` start from the state the first left.  The sets of modules are not
declared symmetric: the modules differ in their interfaces.
`MCContainerLive.cfg` keeps the three registrations and the two shutdowns,
leaves out `Apply` (`MaxApplies = 0`, dispatch has no part in the liveness
of `Shutdown`) and takes `Hangs = {fn}` and `Panics = {db}`, so that a
`Shutdown` can have a closer that never returns, one that ends the process
and one that is healthy, in every order (9,178 states).

### Fairness

`FairSpec` assumes weak fairness of `Spawn`, `Wait` and of each step of each
goroutine: `Shutdown` waits for nothing but the counter, and the Go scheduler
runs every runnable goroutine.  A closer outside `Hangs` returns or, if it is
in `Panics`, may panic instead.  Nothing is assumed of the caller: it need
not register, apply, shut down or exit.

## KeyManager.tla

`KeyManager` models package `key` together with the part of the Go runtime
it depends on: slices.

*State.*  `heap[a]` is a backing array, a sequence of `Label`s and `Empty`
slots whose length is the capacity.  `mgr[k]` is a `KeyManager` value: the
slice header `[arr, len]` of its `Prefixes`.  Managers are never dropped, so
`mgr` holds every value still held by some caller.  `born[k]` is a history
variable, the labels of `k` when it was made; `tight` is the set of managers
made by `NewManager` from a list of arguments or by the function `With`.  `pc[t]` and `call[t]` are the program
counter and the locals of the call goroutine `t` is in.

*Actions.*

| Action | Code | What it does |
|--------|------|--------------|
| `NewManager(t, p)` | 53-57 | `NewManager("a", "b")`: the variadic arguments are a new array with no spare capacity |
| `NewManagerSpread(t, k)` | 53-57, 66-68 | `NewManager(k.Spread()...)`: the new manager keeps the slice it is passed |
| `With(t, k, p)`, `WithReturn(t)` | 72-76 | `append(k.Prefixes, parts...)`, then the new manager wraps the result |
| `FuncWith(t, k, p)`, `FuncWithReturn(t)` | 80-84 | `append(k.Spread(), parts...)`, then `km.With` of the empty manager, whose `append(nil, ...)` copies the result into an array of exactly its length |
| `Key(t, k, p, d)`, `KeyJoin(t)`, `KeyReturn(t)` | 60-63 | the append, `strings.Join` of the result, the return |
| `CopyElem(t)` | the append of 61 and 74 | one element is written into the array |
| `KeepOdd(t, k)` | 100-111 | the whole loop: `SpreadInterface`, then the appends of the values at odd indices |

An append starts with `Begin`: if the capacity suffices (`AppendInPlace`)
the elements go into the receiver's array behind its length, otherwise
(`AppendGrow`) a new array of capacity `Grow(cap, needed)` is allocated and
the old elements are copied into it.  `Grow` is the rule of the runtime for
slices of fewer than 256 strings: the needed length if it is more than
twice the old capacity, twice the old capacity otherwise.

*Atomicity.*  The package has no synchronisation and `KeyManager` is
documented as immutable, which invites sharing between goroutines.  The
writes of an append are one step per element; reading a slice (in
`strings.Join`, `SpreadInterface`, the copy of a growing append) is one
step.  That is coarser than the memory model, which gives a racing read no
meaning at all, and enough to show the races the code has.  `KeepOdd` is one
step because it works on a slice of its own.

### Runs and properties

| Run | Config | Expect | Shows |
|-----|--------|--------|-------|
| `key_concurrent` | `MCKeyManager.cfg` | pass | `TypeOK`, `TightManagersImmutable`, `ReceiverUntouched`, `UndisturbedResultIsReceiverPlusParts`, `KeepOddKeepsValues` with two goroutines |
| `key_immutable` | `MCKeyManagerImmutable.cfg` | violation | `Immutable` fails with one goroutine |
| `key_race` | `MCKeyManagerRace.cfg` | violation | `ResultIsReceiverPlusParts` fails with two goroutines |

* `Immutable`: the labels of a manager are for ever those it was made with
  (the comment on the type: "KeyManager is immutable").
* `TightManagersImmutable`: what does hold of it.  A manager made by
  `NewManager` from a list of arguments or by the function `With` has an
  array of exactly its length and is never changed by any call on any
  manager (the function `With` itself does write behind its argument).
* `ReceiverUntouched` (action property): no step of a call changes the
  labels of its receiver, or of any manager that is not longer than the
  receiver.  Appends only write behind the receiver's length.  The steps
  of a call are those that move its `pc` or its index `j`: the receiver is
  not safe from the calls of another goroutine on the manager it was
  derived from.  With `m3 := m2.With(b)` in the spare capacity of `m2`,
  a `Key` on `m2` overwrites the last label of `m3` while a `Key` on `m3`
  is running, and only the history field `raced` of that call changes in
  the step.
* `ResultIsReceiverPlusParts` (action property): a call returns the labels
  the receiver had when the call began followed by the parts; `Key` returns
  them joined.  It fails with two goroutines.
* `UndisturbedResultIsReceiverPlusParts` (action property): the same, of
  the calls into whose slice no other goroutine wrote while they ran
  (`call[t].raced`, a history field set by `CopyElem` of the other
  goroutine).  It covers every call of a single goroutine, whatever it did
  before on the receiver and its siblings, and the calls of two goroutines
  that work on different arrays or different parts of one.
* `KeepOddKeepsValues` (action property): `KeepOdd` returns the elements at
  the odd indices, the values of alternating keys and values, in order.

### Bounds

Two labels tell an overwritten element from the original.  `Parts` are the
argument lists `<<>>`, `<<b>>`, `<<a, b>>` and `<<a, b, a>>`: with them an
append meets an array that is full, one with room for some of the parts and
not for all, and one with room for all, `Grow` takes both of its branches,
`KeepOdd` is given lists of odd and of even length, and the calls without
parts happen: `NewManager()` is the nil slice, `With()` an alias of its
receiver, `Key(d)` the labels of the receiver joined.  Spare capacity first
appears at the second manager: `NewManager(a, b).With(b)` has an array of
capacity 4 holding 3, and `NewManager(a, b, a).With(b)` one of capacity 6
holding 4.  The second leaves room for a third manager that is an append in
place on the second and has spare capacity itself, so with
`MaxManagers = 3` two goroutines reach every relation between the slices of
two calls: the same receiver, siblings, and a receiver that is the child of
the other call's receiver.  The two goroutines run the same code and the
properties of `key_concurrent` are safety properties that name no goroutine,
so the run takes them as a symmetry set (`ThreadSymmetry`); it has 507,187
distinct states.  One delimiter is enough: `Join` is checked against the
sequence it joins.

The three-part list is what makes three managers enough.  With lists of one
and two parts only, an array with room for two more elements first belongs
to the third manager, the parent-and-child case needs a fourth, and the run
with three managers never reaches it: `ReceiverUntouched` stated of every
step that changes `call[t]`, the field `raced` included, held there and
fails in the instance above.  As a cross-check the five properties of
`key_concurrent` were also checked with `MaxManagers = 4`, the lists
`<<a>>`, `<<b>>`, `<<a, b>>`, two goroutines and the two goroutines taken as
symmetric (`Permutations(Thread)`, sound for these safety properties):
14,409,454 distinct states, depth 43, 21 minutes, no violation.  That
instance is too large to be a run of the project.

## ResourceFactory.tla, NamedFactory.tla, ConcurrentFactory.tla

### The factory's contract and its concurrent callers

`NamedFactory` is the contract of a factory, without callers, constructors
and closers: `memo` maps names to instances and `released` is the set of
instances whose closer has been called.  `Construct(name, i)` memoizes an
instance that is neither in use nor released under a name that has none;
`Close` releases what is memoized and empties the map.  Everything else a
factory does leaves both unchanged.

`ConcurrentFactory` is the factory as the goroutines of an application see
it.  The source of the factory is not in the repository; the module follows
the design the specification prescribes.  A call of `Make` is split into
`Call`, the look-up (`MakeHit`, or `Claim` when the name is not memoized and
no one is constructing it), the constructor (`ConstructorReturns`,
`ConstructorFails`, neither for a name in `Hangs`) and `Store`, which
memoizes and returns.  The look-up and the claim are one step: that is what
a lock held over check and insert, or a one-shot cell per name, gives.
Callers wait per name only, and `Close` may run between any two steps, also
between a constructor's return and `Store`.  A factory with a single lock
runs a subset of these behaviours, so the safety properties cover it too.

| Run | Config | Expect | Shows |
|-----|--------|--------|-------|
| `factory_concurrent` | `MCConcurrentFactory.cfg` | pass | `TypeOK`, `CallersShareOneInstance`, `ImplementsNamedFactory`, `MakeReturns` |

* `CallersShareOneInstance`: no two instances of a name are open at a time,
  and an instance `Make` has returned, unless a `Close` has released it
  since, is the one memoized for its name.  Without the guard of `Claim` two
  callers construct side by side and it fails.
* `ImplementsNamedFactory` (`Contract!Spec` with `memo` the connections of
  `cache` and `released` the closed instances): every step memoizes one new
  instance for a name that has none, or releases exactly the memoized
  instances, or changes neither.
* `MakeReturns` (liveness): a `Make` of a name whose constructor returns
  does return, also while the constructor of another name hangs.  It fails
  for a factory that holds one lock while a constructor runs.

*Bounds.*  Three goroutines; the names `"default"` and `"cache"`, whose
constructors return an instance or an error, and `"slow"`, whose constructor
hangs; `MaxBuilds = 4` constructor calls, so that two callers can meet on a
name, a `Close` can fall between a constructor and its `Store`, and the name
can be made again afterwards.  A call is admitted only while a constructor
call is left for it, so that the bound never blocks a caller.

*Fairness.*  `FairSpec` assumes weak fairness, for every caller, of the
look-up, of the constructor's return and of `Store`: goroutines are
scheduled, and a constructor outside `Hangs` terminates.  Nothing is assumed
of `Close` or of new calls.

## EtcdProvider.tla, RedisProvider.tla

`otetcd` and `otredis` each give a constructor to a memoizing factory
(`di.Factory`, `async.Factory`) and return the factory's `Close` as their
clean-up function.  The factory is a library outside the repository.
`ResourceFactory` states what the providers rely on, as steps on the
variable `cache` (name to the pair of connection and closer): `Found`,
`Hit`, `Miss`, `Memoize` (only a pair the constructor returned without
error), `Closing`, `Forget`.  In the provider modules each call of `Make`
and of `Close` is one atomic step; `ConcurrentFactory` above is where the
steps of concurrent callers interleave.  The two
provider modules extend `ResourceFactory` and build their actions from these
steps and from the constructor translated from their source.

A client is a record in the sequence `clients`, and a connection is its
index; 0 is the nil client.  A configuration is a record of what the code
and the properties tell apart: endpoints and dial options (etcd), addresses
and database (redis), and the remaining fields as one.

### EtcdProvider

| Definition | Code (`part_000`) | What it does |
|------------|------|--------------|
| `ProvideFactory(confs, tr, ic)` | 95-161 | `Unmarshal` fills `dbConfs` (with nothing if it fails), the factory is made |
| `Resolvable`, `Resolve`, `Fallback` | 109-119 | the entry of the name; for `"default"` without one, `ETCD_ADDR` if set, else `127.0.0.1:6379` |
| `Config`, `Traced`, `Intercepted`, `Build` | 120-146 | the `clientv3.Config`, the tracing options appended, then the interceptor |
| `MakeHit`, `MakeNotValid`, `MakeDialled`, `MakeDialFailed`, `Make` | 67-73, 104-154 | the four ways through `Factory.Make`; a failed `clientv3.New` has its error dropped and the nil client is memoized |
| `ProvideDefaultClient` | 163-165 | `Make("default")`, result and error passed on; once |
| `CloseAll`, `ClosePanics`, `Close` | 150-152, 160 | every closer runs and the map is emptied; the closer of a nil client panics after any of the others have run |
| `ExportedConfig` | 173-203 | the default configuration the package exports |

`clientv3.New` is the environment: `DialOutcome` says whether it may
succeed and fail.  `Close` on a nil `*clientv3.Client` is taken to panic, as
a method that uses its receiver does.

### RedisProvider

| Definition | Code (`provider.go`) | What it does |
|------------|------|--------------|
| `RedisIn`, `RedisOut` | 22-40 | the parameter (configuration, interceptor, tracer) and the result (the factory as `Maker` and as `Factory`, the default client) |
| `Factory` | 133-137 | the struct that embeds the `*async.Factory`: its state is the factory's map |
| `ProvideRedis` | 82-126 | the factory is made, `Make("default")` is called, its error dropped and its client stored in `RedisOut.Client` |
| `Configured`, `Lookup` | 94-96 | the entry of the name; no fallback |
| `Intercepted`, `Hook`, `NewClient` | 97-109 | the interceptor, `NewUniversalClient`, the hook made from the options after the interceptor |
| `MakeHit`, `MakeNotValid`, `MakeNew`, `FactoryMake` | 140-146, 89-116 | the three ways through `Factory.Make` |
| `Make` | 140-146 | a call of `Factory.Make`, which the `Maker` the provider returned stands for |
| `Close` | 112-114, 125 | every closer runs and the map is emptied |
| `ExportedConfig` | 43-78 | the default configuration the package exports |

The configuration, the tracer and the interceptor are the `RedisIn` the
provider is called with and are chosen in `Init`.

### Runs and properties

| Run | Config | Expect | Shows |
|-----|--------|--------|-------|
| `etcd_factory` | `MCEtcdProvider.cfg` | pass | `TypeOK`, `MemoizedAreTheOpenClients`, `ImplementsNamedFactoryUntilPanic` |
| `etcd_dial_error` | `MCEtcdProviderDial.cfg` | violation | `SuccessfulMakeGivesClient` fails when a dial fails |
| `redis_factory` | `MCRedisProvider.cfg` | pass | `TypeOK`, `MemoizedAreTheOpenClients`, `ProvidedClientIsTheDefault`, `ImplementsNamedFactory` |
| `redis_default` | `MCRedisProviderDefault.cfg` | violation | `DefaultClientProvided` fails without a `"default"` entry |

* `MemoizedAreTheOpenClients`: through any sequence of `Make` and `Close`,
  a client is open if and only if it is the one memoized under its name: no
  client leaks at `Close`, none is built twice for a name, and `Make` never
  returns a closed one.  For etcd it is stated of a running provider; it
  says nothing once `Close` has panicked.
* `ProvidedClientIsTheDefault` (redis): as long as `RedisOut.Client` is
  open it is the client `Make("default")` returns.
* `ImplementsNamedFactory` (redis): the provider, with the default client
  it makes during `ProvideRedis`, implements `NamedFactory`; `memo` is the
  connections of `cache`, `released` the closed clients.
* `ImplementsNamedFactoryUntilPanic` (etcd): the etcd provider memoizes
  the nil client of a failed dial (finding 5), so the mapping takes `memo`
  to be the memoized connections that are not nil (`Held`).  Then every
  step is a step of `NamedFactory` or leaves `Held` and the closed clients
  alone, except the one the property names: the `Close` that meets a nil
  client closes some of the clients and keeps all of them memoized.
  Without the exception TLC gives that step as the counterexample after
  four steps (a dial that succeeds, one that fails, `Close`).
* `TypeOK` of both modules requires the endpoints of a client to be
  addresses: no client is made from an empty environment variable
  (etcd) or from the zero value of a failed map lookup (redis).

### Bounds

Three names: `"default"`, `"cache"` and `"missing"`.  The configuration is
one of four: empty (no section, or `Unmarshal` failed), the exported
default, an entry for `"cache"` only, and both; `"missing"` is never
configured.  That covers a hit and a miss of the lookup for the default and
for another name.  The tracer and the interceptor are each present or not;
`ETCD_ADDR` is unset or an address.  The etcd interceptor turns TLS on; the
redis interceptor redirects the client to another node and database, so
that options before and after it differ.  `MaxClients` (3 for etcd, 4 for
redis) bounds the clients built, enough for both names to be made, closed
and made again.

## App.tla

`App` is an application that uses the three packages together.  It has one
instance each of `Container`, `EtcdProvider` and `RedisProvider`, every
variable of a component being a variable of `App` (those of the providers
renamed, `cache` to `etcdCache` and `redisCache`, and so on), and the history
variable `before`: the number of clients each factory had built when
`Shutdown` was called.  The modules of the Container are the two clean-up
functions, both bare `func()` values.

| Action | Components | What it does |
|--------|------------|--------------|
| `ProvideEtcd(confs)` | `E!ProvideFactory`, `C!AddModule("etcd")` | the provider runs and its clean-up function is registered |
| `ProvideRedis` | `R!ProvideRedis`, `C!AddModule("redis")` | the same for redis, with the default client made at once |
| `ProvideDefaultClient` | `E!ProvideDefaultClient` | a consumer of `*clientv3.Client` is built |
| `EtcdMake(name)`, `RedisMake(name)` | `E!Make`, `R!Make` | a goroutine of the application asks for a client, before or during `Shutdown` |
| `ShutdownBegin`, `ShutdownStep` | `C!ShutdownBegin`, `C!Spawn`, `C!CallCloser`, `C!Done`, `C!Wait` | the steps of `Shutdown` outside the closers |
| `CloserReturns(i)` | `C!CloserReturns(i)` with `E!Close` or `R!Close` | the closer of goroutine `i` is the `Close` of the factory it was registered for |
| `CloserPanics(i)` | `C!CloserPanics(i)` with the panicking `E!Close` | the etcd factory holds a nil client: its closer panics and the process ends |
| `Exit`, `Terminated` | `C!Exit`, `C!Terminated` | the program ends |

The wiring itself is not in the repository; it follows the specification
("each Named Resource Factory is itself one such closer").  A `Make` is one
step here; its steps are those of `ConcurrentFactory`.

| Run | Config | Expect | Shows |
|-----|--------|--------|-------|
| `app_shutdown` | `MCApp.cfg` | pass | `TypeOK`, `ShutdownClosesEarlierClients` |
| `app_close_race` | `MCAppRace.cfg` | violation | `ShutdownReleasesEveryClient` fails when a `Make` follows the factory's `Close` |

* `ShutdownClosesEarlierClients`: when `Shutdown` has returned, every client
  either factory had made before `Shutdown` was called is closed, whatever
  the order of the loop, the closers and the goroutines that make clients.
  It needs the right closer to be called by each goroutine (`p := p`) and
  `wg.Wait()` to wait for all of them.
* `ShutdownReleasesEveryClient` (action property): in the step in which
  `Shutdown` returns no client of either factory is open, which is what a
  factory that releases "every resource it ever constructed" at teardown
  gives.  It fails after eight steps: `ProvideRedis`, `ShutdownBegin`, the
  goroutine of the redis closer is started, calls `Close` and comes back, a
  goroutine of the application calls `Make("default")`, and `wg.Done()` and
  `wg.Wait()` follow.  The client of that `Make` is memoized in a factory
  whose clean-up function has run, and nothing closes it (finding 9).
  `ShutdownClosesEarlierClients` is limited to the earlier clients for
  that reason.

*Bounds.*  The names `"default"` and `"cache"`; redis has both configured,
etcd has no configuration, so that its `"default"` is the fallback and
`"cache"` is refused; `clientv3.New` may fail, which is what makes the etcd
closer panic; no tracer and no interceptor, which play no part in shutdown.
`MaxClients = 3` per factory lets a name be made before `Shutdown`, closed
by it and made again; `MaxShutdowns = 2`.

## Findings

1. `part_002`:228 (no run): `AddModule` returns before the
   append to `c.modules`, so a `func()` module is a registered closer that
   `Modules()` does not return, against the comments "Container holds all
   modules registered" and "Modules returns all modules in the container".
   It is one step from the initial state, and a `func()` has no methods, so
   no scan of `Modules()` misses it (`ScanFindsEveryProvider`).
2. `part_002`:177 (no run): a panic in one closer ends the process and cuts
   the other closers off; `Shutdown` isolates a hanging closer from the
   others, not a panicking one.  The specification names this as a known
   risk.  `App` shows where such a panic comes from: the closer of the nil
   client that a failed etcd dial leaves in the factory (finding 5).
3. `key_immutable` (`part_001`:74): `With` appends to the receiver's slice.
   When its array has spare capacity, a second `With` or `Key` on the same
   receiver overwrites the labels of the manager the first returned.
   Shortest case: `k := NewManager(a, b).With(a)`; `x := k.With(a)`;
   `k.With(b)` turns `x` from `a b a a` into `a b a b`.
4. `key_race` (`part_001`:61): for the same reason two goroutines calling
   `Key` or `With` on one manager with spare capacity write the same
   elements, and `Key` can return a key with the other caller's parts.
5. `etcd_dial_error` (`part_000`:147): the error of `clientv3.New` is
   dropped; the nil client is memoized, returned without error by every
   later `Make`, and its closer panics when the factory is closed.
6. `redis_default` (`provider.go`:94, 123): the redis constructor has no
   fallback for `"default"` and `ProvideRedis` drops the error of
   `Make("default")`, so `RedisOut.Client` is nil without a `"default"`
   entry.
7. `part_000`:116 (no run): the fallback of `"default"` dials
   `127.0.0.1:6379`, the port of redis, while the exported default
   configuration (line 181) is `127.0.0.1:2379`.
8. `provider.go`:145 and `part_000`:72 (no run): the typed `Make` narrows
   the connection with a type assertion that has no second result and
   panics on a mismatch, where the specification asks for an error distinct
   from configuration-not-found.  The constructors of both packages return
   their own client type only, so the assertion cannot fail here.
9. `app_close_race` (`part_000`:160, `provider.go`:125): the clean-up
   function of a provider is the factory's `Close`, and `Shutdown` calls it
   once, while the goroutines that serve requests still run.  A `Make`
   between that `Close` and the return of `wg.Wait()` leaves a client open
   when `Shutdown` has returned.  The specification asks that `Close`
   exclude concurrent `Make` calls or that the leak be documented; the
   providers do neither.

## Not modelled

* `JaegerLogAdapter`: formats and logs, no state.
* The test files: they exercise packages whose implementation is not in the
  repository, against external servers.
* Concurrent misuse of the Container (`AddModule` racing `Shutdown`): the
  struct is unsynchronised by design and the package documents registration
  as a start-up step.
* The mechanism that makes the factory's look-up and claim one step (a
  mutex, a one-shot cell): the factory's source is not in the repository.
* Slices of 256 elements and more, reslicing and `copy`: package `key`
  does not reach them.
* The content of configurations beyond endpoints, dial options, addresses
  and database; the network behind the clients.

## Plan

1. A run that compares the etcd fallback with the exported configuration
   (finding 7), in place of a run whose question another run answers.
2. `RedisOut.Client` and the injected etcd client as values held by
   consumers: a history of what each consumer was given, to state when a
   consumer holds a closed client (after `Close`, before the next start).

`App` keeps each `Make` as one step.  `ConcurrentFactory` is where a `Close`
falls between a constructor's return and the store of its result; in `App`
the race of finding 9 needs no more than a `Make` that begins after `Close`
has returned.
