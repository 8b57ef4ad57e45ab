----------------------------- MODULE Container -----------------------------
(***************************************************************************)
(* The Container of package container: a registry that classifies every   *)
(* module handed to AddModule by the provider interfaces it implements,    *)
(* the five Apply methods that hand a host (router, gRPC server, crontab,  *)
(* root command, run group) to the providers of one interface, and         *)
(* Shutdown, which runs every closer in a goroutine of its own and joins   *)
(* them on a sync.WaitGroup.                                               *)
(*                                                                         *)
(* A module is a model value.  What the type assertions of AddModule see   *)
(* of it is given by two constants: BareFunc, the modules whose dynamic    *)
(* type is func(), and Satisfies, the interfaces of the others.  A bound   *)
(* method value such as p.ProvideHttp is represented by its receiver.      *)
(***************************************************************************)
EXTENDS Integers, Sequences, FiniteSets

CONSTANTS
    Module,         \* the values a caller may hand to AddModule
    BareFunc,       \* the modules of dynamic type func()
    Satisfies,      \* Satisfies[m]: the interfaces module m implements
    Hangs,          \* the modules whose closer never returns
    Panics,         \* the modules whose closer may panic
    MaxModules,     \* bound on the number of AddModule calls
    MaxApplies,     \* bound on the number of Apply calls
    MaxShutdowns    \* bound on the number of Shutdown calls

\* The six provider interfaces the Container dispatches by itself.
Provider ==
    {"HttpProvider", "GrpcProvider", "CronProvider",
     "RunProvider", "CommandProvider", "CloserProvider"}

\* The hosts of the five Apply methods.
Host == {"router", "server", "crontab", "group", "command"}

ASSUME /\ BareFunc \subseteq Module
       /\ Hangs \subseteq Module
       /\ Panics \subseteq Module
       /\ DOMAIN Satisfies = Module
       \* a value of type func() has no methods
       /\ \A m \in BareFunc : Satisfies[m] = {}
       /\ MaxModules \in Nat /\ MaxApplies \in Nat /\ MaxShutdowns \in Nat

VARIABLES
    httpProviders,      \* the fields of struct Container
    grpcProviders,
    closerProviders,
    runProviders,
    modules,
    cronProviders,
    commandProviders,
    host,               \* host[h]: the providers host h was handed to, in order
    pc,                 \* what the calling goroutine is doing
    closers,            \* Shutdown: the slice its range statement iterates
    idx,                \* Shutdown: position of the range loop in closers
    wg,                 \* Shutdown: the counter of its sync.WaitGroup
    gor,                \* Shutdown: gor[i], the goroutine of iteration i
    invoked,            \* history: the closers called by this Shutdown, in call order
    registered,         \* history: every argument of AddModule, in call order
    applies,            \* number of Apply calls made
    shutdowns           \* number of Shutdown calls that have returned

fields    == <<httpProviders, grpcProviders, closerProviders, runProviders,
               modules, cronProviders, commandProviders>>
joinVars  == <<closers, idx, wg, gor, invoked>>
vars      == <<fields, host, pc, joinVars, registered, applies, shutdowns>>

-----------------------------------------------------------------------------
(* Registration *)

\* Faulty variant of Provide: the provider is put in front of the slice.
ProvidePrepended(xs, m, iface) ==
    IF iface \in Satisfies[m] THEN <<m>> \o xs ELSE xs

\* One `if p, ok := module.(I); ok { c.xs = append(c.xs, p.Provide) }`.
Provide(xs, m, iface) ==
    IF iface \in Satisfies[m] THEN Append(xs, m) ELSE xs

\* Faulty variant of AddModule: a CloserProvider is treated like a func(),
\* registered as a closer and as nothing else.
AddModuleCloserOnly(m) ==
    /\ pc = "idle"
    /\ Len(registered) < MaxModules
    /\ registered' = Append(registered, m)
    /\ \/ /\ m \in BareFunc \/ "CloserProvider" \in Satisfies[m]
          /\ closerProviders' = Append(closerProviders, m)
          /\ UNCHANGED <<httpProviders, grpcProviders, cronProviders,
                         runProviders, commandProviders, modules>>
       \/ /\ m \notin BareFunc /\ "CloserProvider" \notin Satisfies[m]
          /\ httpProviders'    = Provide(httpProviders, m, "HttpProvider")
          /\ grpcProviders'    = Provide(grpcProviders, m, "GrpcProvider")
          /\ cronProviders'    = Provide(cronProviders, m, "CronProvider")
          /\ runProviders'     = Provide(runProviders, m, "RunProvider")
          /\ commandProviders' = Provide(commandProviders, m, "CommandProvider")
          /\ UNCHANGED closerProviders
          /\ modules'          = Append(modules, m)
    /\ UNCHANGED <<host, pc, joinVars, applies, shutdowns>>

\* AddModule: a func() is registered as a closer and nothing else; any
\* other value is tested against the six interfaces, in the order of the
\* code, and then kept in c.modules.
AddModule(m) ==
    /\ pc = "idle"
    /\ Len(registered) < MaxModules
    /\ registered' = Append(registered, m)
    /\ \/ /\ m \in BareFunc
          /\ closerProviders' = Append(closerProviders, m)
          /\ UNCHANGED <<httpProviders, grpcProviders, cronProviders,
                         runProviders, commandProviders, modules>>
       \/ /\ m \notin BareFunc
          /\ httpProviders'    = Provide(httpProviders, m, "HttpProvider")
          /\ grpcProviders'    = Provide(grpcProviders, m, "GrpcProvider")
          /\ cronProviders'    = Provide(cronProviders, m, "CronProvider")
          /\ runProviders'     = Provide(runProviders, m, "RunProvider")
          /\ commandProviders' = Provide(commandProviders, m, "CommandProvider")
          /\ closerProviders'  = Provide(closerProviders, m, "CloserProvider")
          /\ modules'          = Append(modules, m)
    /\ UNCHANGED <<host, pc, joinVars, applies, shutdowns>>

\* Modules returns the collection of registered modules.
Modules == modules

\* Collection.Filter calls its argument on every element that implements
\* the interface the argument takes: the elements it visits, in order.
Filter(coll, iface) ==
    SelectSeq(coll, LAMBDA m : iface \in Satisfies[m])

-----------------------------------------------------------------------------
(* Dispatch *)

\* The loop shared by the five Apply methods: every provider of the slice
\* is called with the host, first registered first.
Apply(providers, h) ==
    /\ pc = "idle"
    /\ applies < MaxApplies
    /\ host' = [host EXCEPT ![h] = @ \o providers]
    /\ applies' = applies + 1
    /\ UNCHANGED <<fields, pc, joinVars, registered, shutdowns>>

ApplyRouter      == Apply(httpProviders, "router")
ApplyGRPCServer  == Apply(grpcProviders, "server")
ApplyRunGroup    == Apply(runProviders, "group")
ApplyCron        == Apply(cronProviders, "crontab")
ApplyRootCommand == Apply(commandProviders, "command")

-----------------------------------------------------------------------------
(* Shutdown *)

\* The process runs: it has neither exited nor died of a panic.
Running == pc \in {"idle", "shutdown"}

\* The goroutine of iteration i exists and is in state st.
At(i, st) == i \in DOMAIN gor /\ gor[i] = st

\* Shutdown is called: `var wg sync.WaitGroup` is zero and the range
\* statement evaluates c.closerProviders, once.
ShutdownBegin ==
    /\ pc = "idle"
    /\ shutdowns < MaxShutdowns
    /\ pc' = "shutdown"
    /\ closers' = closerProviders
    /\ idx' = 1
    /\ wg' = 0
    /\ gor' = [i \in DOMAIN closerProviders |-> "unspawned"]
    /\ invoked' = <<>>
    /\ UNCHANGED <<fields, host, registered, applies, shutdowns>>

\* Faulty variant of Spawn: the go statement without wg.Add(1) before it.
SpawnWithoutAdd ==
    /\ pc = "shutdown"
    /\ idx <= Len(closers)
    /\ gor' = [gor EXCEPT ![idx] = "ready"]
    /\ idx' = idx + 1
    /\ UNCHANGED <<fields, host, pc, closers, wg, invoked, registered,
                   applies, shutdowns>>

\* Faulty variant of Spawn: the closers run one after the other, each
\* iteration waiting for the goroutine of the one before.
SpawnInTurn ==
    /\ pc = "shutdown"
    /\ idx <= Len(closers)
    /\ \A i \in 1..(idx - 1) : gor[i] = "finished"
    /\ wg' = wg + 1
    /\ gor' = [gor EXCEPT ![idx] = "ready"]
    /\ idx' = idx + 1
    /\ UNCHANGED <<fields, host, pc, closers, invoked, registered, applies,
                   shutdowns>>

\* Faulty variant of Spawn: the counter is raised by the loop and once
\* more for the goroutine.
SpawnAddsTwice ==
    /\ pc = "shutdown"
    /\ idx <= Len(closers)
    /\ wg' = wg + 2
    /\ gor' = [gor EXCEPT ![idx] = "ready"]
    /\ idx' = idx + 1
    /\ UNCHANGED <<fields, host, pc, closers, invoked, registered, applies,
                   shutdowns>>

\* One iteration of the loop: wg.Add(1), then the go statement.
Spawn ==
    /\ pc = "shutdown"
    /\ idx <= Len(closers)
    /\ wg' = wg + 1
    /\ gor' = [gor EXCEPT ![idx] = "ready"]
    /\ idx' = idx + 1
    /\ UNCHANGED <<fields, host, pc, closers, invoked, registered, applies,
                   shutdowns>>

\* Faulty variant of Captured: without `p := p` the closures share the
\* variable of the loop, which holds the closer of the latest iteration.
LoopVariable(i) == closers[idx - 1]

\* `p := p`: the closure of iteration i owns a copy of that iteration's
\* closer.
Captured(i) == closers[i]

\* The goroutine of iteration i is scheduled and calls p().
CallCloser(i) ==
    /\ Running
    /\ At(i, "ready")
    /\ gor' = [gor EXCEPT ![i] = "closing"]
    /\ invoked' = Append(invoked, Captured(i))
    /\ UNCHANGED <<fields, host, pc, closers, idx, wg, registered, applies,
                   shutdowns>>

\* p() returns.
CloserReturns(i) ==
    /\ Running
    /\ At(i, "closing")
    /\ Captured(i) \notin Hangs
    /\ gor' = [gor EXCEPT ![i] = "closed"]
    /\ UNCHANGED <<fields, host, pc, closers, idx, wg, invoked, registered,
                   applies, shutdowns>>

\* p() panics.  Nothing in the goroutine recovers, so the runtime ends the
\* process, whatever the other goroutines are doing.
CloserPanics(i) ==
    /\ Running
    /\ At(i, "closing")
    /\ Captured(i) \in Panics
    /\ pc' = "crashed"
    /\ UNCHANGED <<fields, host, joinVars, registered, applies, shutdowns>>

\* Faulty variant of Done: wg.Done() is deferred before the closer is
\* called, so that the counter drops while the closer still runs.
DoneBeforeCloser(i) ==
    /\ Running
    /\ At(i, "closing")
    /\ wg > 0
    /\ wg' = wg - 1
    /\ UNCHANGED <<fields, host, pc, closers, idx, gor, invoked, registered,
                   applies, shutdowns>>

\* Faulty variant of Done: the counter is decremented twice.
DoneTwice(i) ==
    /\ Running
    /\ At(i, "closed")
    /\ gor' = [gor EXCEPT ![i] = "finished"]
    /\ wg' = wg - 2
    /\ UNCHANGED <<fields, host, pc, closers, idx, invoked, registered,
                   applies, shutdowns>>

\* Faulty variant of Done: the goroutine ends without wg.Done().
DoneForgotten(i) ==
    /\ Running
    /\ At(i, "closed")
    /\ gor' = [gor EXCEPT ![i] = "finished"]
    /\ UNCHANGED <<fields, host, pc, closers, idx, wg, invoked, registered,
                   applies, shutdowns>>

\* wg.Done(), the last statement of the goroutine.
Done(i) ==
    /\ Running
    /\ At(i, "closed")
    /\ gor' = [gor EXCEPT ![i] = "finished"]
    /\ wg' = wg - 1
    /\ UNCHANGED <<fields, host, pc, closers, idx, invoked, registered,
                   applies, shutdowns>>

\* wg.Wait(), reached when the loop is over, returns when the counter is
\* zero, and Shutdown returns with it.
Wait ==
    /\ pc = "shutdown"
    /\ idx > Len(closers)
    /\ wg = 0
    /\ pc' = "idle"
    /\ shutdowns' = shutdowns + 1
    /\ UNCHANGED <<fields, host, joinVars, registered, applies>>

-----------------------------------------------------------------------------
(* The caller *)

\* The program leaves main: the process ends.
Exit ==
    /\ pc = "idle"
    /\ pc' = "exited"
    /\ UNCHANGED <<fields, host, joinVars, registered, applies, shutdowns>>

\* A process that has ended stays ended.
Terminated ==
    /\ pc \in {"exited", "crashed"}
    /\ UNCHANGED vars

Init ==
    /\ httpProviders = <<>>
    /\ grpcProviders = <<>>
    /\ closerProviders = <<>>
    /\ runProviders = <<>>
    /\ modules = <<>>
    /\ cronProviders = <<>>
    /\ commandProviders = <<>>
    /\ host = [h \in Host |-> <<>>]
    /\ pc = "idle"
    /\ closers = <<>>
    /\ idx = 1
    /\ wg = 0
    /\ gor = <<>>
    /\ invoked = <<>>
    /\ registered = <<>>
    /\ applies = 0
    /\ shutdowns = 0

Next ==
    \/ \E m \in Module : AddModule(m)
    \/ ApplyRouter
    \/ ApplyGRPCServer
    \/ ApplyRunGroup
    \/ ApplyCron
    \/ ApplyRootCommand
    \/ ShutdownBegin
    \/ Spawn
    \/ \E i \in DOMAIN gor : CallCloser(i)
    \/ \E i \in DOMAIN gor : CloserReturns(i)
    \/ \E i \in DOMAIN gor : CloserPanics(i)
    \/ \E i \in DOMAIN gor : Done(i)
    \/ Wait
    \/ Exit
    \/ Terminated

Spec == Init /\ [][Next]_vars

(***************************************************************************)
(* Fairness.  Shutdown runs its loop and its wg.Wait() without waiting for *)
(* anything but the counter, and the Go scheduler runs every runnable      *)
(* goroutine: the steps of Shutdown and of its goroutines are weakly fair. *)
(* A closer that is not in Hangs returns or, if it may, panics.  Nothing   *)
(* obliges the caller to register, apply, shut down or exit.               *)
(***************************************************************************)
Fairness ==
    /\ WF_vars(Spawn)
    /\ WF_vars(Wait)
    /\ \A i \in 1..MaxModules :
          /\ WF_vars(CallCloser(i))
          /\ WF_vars(CloserReturns(i) \/ CloserPanics(i))
          /\ WF_vars(Done(i))

FairSpec == Spec /\ Fairness

-----------------------------------------------------------------------------
(* Properties *)

GorState == {"unspawned", "ready", "closing", "closed", "finished"}

\* The type invariant.
TypeOK ==
    /\ \A xs \in {httpProviders, grpcProviders, closerProviders, runProviders,
                  modules, cronProviders, commandProviders, closers, invoked,
                  registered} :
          xs \in Seq(Module) /\ Len(xs) <= MaxModules
    /\ host \in [Host -> Seq(Module)]
    /\ pc \in {"idle", "shutdown", "exited", "crashed"}
    /\ idx \in 1..(Len(closers) + 1)
    /\ wg \in 0..Len(closers)
    /\ gor \in [DOMAIN closers -> GorState]
    /\ applies \in 0..MaxApplies
    /\ shutdowns \in 0..MaxShutdowns

\* The number of times m occurs in the sequence xs.
Count(xs, m) == Cardinality({i \in DOMAIN xs : xs[i] = m})

\* The registered modules that implement iface, in registration order.
ProvidersOf(iface) ==
    SelectSeq(registered, LAMBDA m : iface \in Satisfies[m])

\* The registered closers: the func() values and the CloserProviders.
RegisteredClosers ==
    SelectSeq(registered,
              LAMBDA m : m \in BareFunc \/ "CloserProvider" \in Satisfies[m])

\* The interface whose providers each host is handed to.
HostOf ==
    [router |-> "HttpProvider", server |-> "GrpcProvider",
     crontab |-> "CronProvider", group |-> "RunProvider",
     command |-> "CommandProvider"]

\* Every call of ApplyRouter, ApplyGRPCServer, ApplyCron, ApplyRunGroup or
\* ApplyRootCommand hands its host to exactly the modules registered so far
\* that implement the host's interface, each once, in the order AddModule
\* was called, whatever other interfaces those modules implement.
DispatchInRegistrationOrder ==
    [][\A h \in Host :
          host'[h] # host[h] => host'[h] = host[h] \o ProvidersOf(HostOf[h])]_vars

\* A scan of Modules() with Collection.Filter for any interface, one the
\* Container knows or not, visits every registered module that implements
\* it, in registration order: AddModule keeps every module that can
\* implement an interface.
ScanFindsEveryProvider ==
    \A iface \in UNION {Satisfies[m] : m \in Module} :
        Filter(Modules, iface) = ProvidersOf(iface)

\* When Shutdown has returned, every goroutine it started has come back
\* from its closer: wg.Wait() never lets Shutdown return while a closer is
\* still to start or still running, whatever the order in which the loop
\* and the goroutines ran.
JoinBarrier ==
    (pc \in {"idle", "exited"} /\ shutdowns > 0)
        => \A i \in DOMAIN gor : gor[i] \in {"closed", "finished"}

\* Shutdown calls every registered closer exactly once: no goroutine ever
\* calls a closer more often than it was registered, and when wg.Wait()
\* lets Shutdown return each closer has been called as often as it was
\* registered (the closure of each iteration calls its own closer).
ClosersExactlyOnce ==
    [][/\ \A m \in Module : Count(invoked', m) <= Count(RegisteredClosers', m)
       /\ (pc = "shutdown" /\ pc' = "idle")
             => \A m \in Module :
                   Count(invoked', m) = Count(RegisteredClosers', m)]_vars

\* The closers run in parallel: once Shutdown is called, every closer that
\* does not hang is called and returns, however long the other closers
\* take; only the death of the process cuts it off, when a closer panics
\* in its goroutine and nothing recovers.  (The comment of Shutdown: it
\* "iterates through every CloserProvider registered in the container, and
\* calls them in parallel".)
ClosersRunIndependently ==
    \A i \in 1..MaxModules :
        (pc = "shutdown" /\ i \in DOMAIN closers /\ closers[i] \notin Hangs)
            ~> At(i, "closed") \/ At(i, "finished") \/ pc = "crashed"

(***************************************************************************)
(* The Container implements ShutdownBarrier.  The abstract registry is the *)
(* slice closerProviders; a shutdown is in progress while Shutdown runs;   *)
(* the i-th closer waits until its goroutine calls it, runs until p()      *)
(* returns, and has returned from then on, wg.Done() or not; the loop and  *)
(* the counter are hidden.                                                 *)
(***************************************************************************)
Phase ==
    [idle |-> "idle", shutdown |-> "closing", exited |-> "dead",
     crashed |-> "dead"]

Progress ==
    [unspawned |-> "waiting", ready |-> "waiting", closing |-> "running",
     closed |-> "returned", finished |-> "returned"]

Barrier ==
    INSTANCE ShutdownBarrier
        WITH Closer <- Module, MaxClosers <- MaxModules,
             registry <- closerProviders,
             phase <- Phase[pc],
             run <- [i \in DOMAIN gor |->
                        [closer |-> closers[i], at |-> Progress[gor[i]]]],
             called <- invoked

\* Shutdown is a barrier: every step of the Container, of the loop of
\* Shutdown and of its goroutines is a step of ShutdownBarrier or changes
\* nothing it can see.  Shutdown begins with the closers registered so
\* far, each goroutine calls the closer of its own iteration and no other,
\* and wg.Wait() lets Shutdown return only when all of them have returned.
ImplementsBarrier == Barrier!Spec

\* Under fair scheduling the Container is also as live as the barrier: a
\* closer that waits is called although the loop has yet to start its
\* goroutine, a closer returns unless it is one that hangs, and Shutdown
\* returns once every closer has, although wg.Done() and wg.Wait() are
\* still to run.
ImplementsFairBarrier == Barrier!FairSpec

\* A Shutdown none of whose closers hangs or panics returns.
ShutdownReturns ==
    (pc = "shutdown" /\ \A i \in DOMAIN closers : closers[i] \notin Hangs \cup Panics)
        ~> (pc = "idle")

=============================================================================
