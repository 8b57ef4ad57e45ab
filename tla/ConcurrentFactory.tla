-------------------------- MODULE ConcurrentFactory --------------------------
(***************************************************************************)
(* The named resource factory under concurrent callers.  The goroutines of *)
(* an application call Make while others do, and the Container calls Close *)
(* from the goroutine of a closer.  The factory is a library of its own;   *)
(* this module follows the design its specification asks for: the look-up  *)
(* of a name and the claim to construct it are one step (a lock held over  *)
(* check and insert, or a one-shot cell per name), so that a second caller *)
(* of a name waits for the first; callers of other names do not wait; a    *)
(* failed construction memoizes nothing.                                   *)
(*                                                                         *)
(* The steps on the map are those of ResourceFactory.  Of the two designs  *)
(* the module takes the one that admits more: callers wait per name, and   *)
(* Close does not wait for a construction in progress.  A factory with one *)
(* lock runs a subset of these behaviours.                                 *)
(***************************************************************************)
EXTENDS Sequences, ResourceFactory

CONSTANTS
    Caller,         \* the goroutines that call Make
    Hangs,          \* the names whose constructor never returns
    MaxBuilds       \* bound on the number of constructor calls

ASSUME /\ "default" \in Name
       /\ Hangs \subseteq Name
       /\ MaxBuilds \in Nat

VARIABLES
    instances,      \* instances[i]: the i-th instance a constructor returned
    pc,             \* pc[c]: where caller c is in Make
    call,           \* call[c]: the name c asked for, and what Make returned
    builds          \* the number of constructor calls so far

vars == <<cache, instances, pc, call, builds>>

\* The callers that have entered Make and not yet looked the name up.
Calling == {c \in Caller : pc[c] = "calling"}

\* A caller is constructing the instance of name.
Building(name) ==
    \E c \in Caller : pc[c] \in {"building", "built"} /\ call[c].name = name

\* A caller constructs some instance.
BuildingAny == \E c \in Caller : pc[c] \in {"building", "built"}

\* Caller c leaves Make with result.
Return(c, result) ==
    /\ call' = [call EXCEPT ![c].conn = result.conn, ![c].err = result.err]
    /\ pc' = [pc EXCEPT ![c] = "idle"]

-----------------------------------------------------------------------------
(* Make *)

\* Caller c calls Make(name).
Call(c, name) ==
    /\ pc[c] = "idle"
    /\ builds + Cardinality(Calling) < MaxBuilds
    /\ pc' = [pc EXCEPT ![c] = "calling"]
    /\ call' = [call EXCEPT ![c] = [name |-> name, conn |-> NilConn, err |-> "none"]]
    /\ UNCHANGED <<cache, instances, builds>>

\* The name is memoized: Make returns its connection.
MakeHit(c) ==
    /\ pc[c] = "calling"
    /\ Found(call[c].name)
    /\ Return(c, Hit(call[c].name))
    /\ UNCHANGED <<cache, instances, builds>>

\* Faulty variant of Claim: the look-up and the claim are not one step, and
\* a caller that found nothing constructs beside one that is constructing.
ClaimUnguarded(c) ==
    /\ pc[c] = "calling"
    /\ ~Found(call[c].name)
    /\ pc' = [pc EXCEPT ![c] = "building"]
    /\ builds' = builds + 1
    /\ UNCHANGED <<cache, instances, call>>

\* Faulty variant of Claim: one lock for the whole factory is held while
\* the constructor runs.
ClaimSerialized(c) ==
    /\ pc[c] = "calling"
    /\ ~Found(call[c].name)
    /\ ~BuildingAny
    /\ pc' = [pc EXCEPT ![c] = "building"]
    /\ builds' = builds + 1
    /\ UNCHANGED <<cache, instances, call>>

\* The name is not memoized and no one constructs it: c calls the
\* constructor.  While it does, other callers of the name wait.
Claim(c) ==
    /\ pc[c] = "calling"
    /\ ~Found(call[c].name)
    /\ ~Building(call[c].name)
    /\ pc' = [pc EXCEPT ![c] = "building"]
    /\ builds' = builds + 1
    /\ UNCHANGED <<cache, instances, call>>

\* Faulty variant of ConstructorFails: the pair of a failed construction,
\* which holds no connection, is memoized.
ConstructorFailsMemoized(c) ==
    /\ pc[c] = "building"
    /\ call[c].name \notin Hangs
    /\ Memoize(call[c].name, [conn |-> NilConn, closes |-> NilConn])
    /\ Return(c, Miss([err |-> "failed"]))
    /\ UNCHANGED <<instances, builds>>

\* The constructor returns an error: Make returns it and memoizes nothing.
ConstructorFails(c) ==
    /\ pc[c] = "building"
    /\ call[c].name \notin Hangs
    /\ Return(c, Miss([err |-> "failed"]))
    /\ UNCHANGED <<cache, instances, builds>>

\* The constructor returns a new instance and its closer.
ConstructorReturns(c) ==
    /\ pc[c] = "building"
    /\ call[c].name \notin Hangs
    /\ instances' = Append(instances, [name |-> call[c].name, open |-> TRUE])
    /\ call' = [call EXCEPT ![c].conn = Len(instances) + 1]
    /\ pc' = [pc EXCEPT ![c] = "built"]
    /\ UNCHANGED <<cache, builds>>

\* Make memoizes the pair and returns the connection.
Store(c) ==
    /\ pc[c] = "built"
    /\ LET pair == [conn |-> call[c].conn, closes |-> call[c].conn]
       IN  /\ Memoize(call[c].name, pair)
           /\ Return(c, Miss([err |-> NoError, pair |-> pair]))
    /\ UNCHANGED <<instances, builds>>

-----------------------------------------------------------------------------
(* Close *)

\* The instances after the closers in cs have been called.
AfterClosers(cs) ==
    [i \in DOMAIN instances |->
        IF i \in cs THEN [instances[i] EXCEPT !.open = FALSE] ELSE instances[i]]

\* Faulty variant of Close: the map is emptied and no closer is called.
CloseForgetsOnly ==
    /\ Forget
    /\ UNCHANGED <<instances, pc, call, builds>>

\* Close calls every memoized closer and leaves the map empty.
Close ==
    /\ instances' = AfterClosers(Closing)
    /\ Forget
    /\ UNCHANGED <<pc, call, builds>>

-----------------------------------------------------------------------------

Init ==
    /\ NewFactory
    /\ instances = <<>>
    /\ pc = [c \in Caller |-> "idle"]
    /\ call = [c \in Caller |-> [name |-> "default", conn |-> NilConn, err |-> "none"]]
    /\ builds = 0

Next ==
    \/ \E c \in Caller, name \in Name : Call(c, name)
    \/ \E c \in Caller :
          \/ MakeHit(c)
          \/ Claim(c)
          \/ ConstructorFails(c)
          \/ ConstructorReturns(c)
          \/ Store(c)
    \/ Close

Spec == Init /\ [][Next]_vars

\* A goroutine that can look its name up does, a constructor of a name
\* that is not in Hangs returns, and what it returned is memoized.
Fairness ==
    \A c \in Caller :
        /\ WF_vars(MakeHit(c) \/ Claim(c))
        /\ WF_vars(ConstructorFails(c) \/ ConstructorReturns(c))
        /\ WF_vars(Store(c))

FairSpec == Spec /\ Fairness

-----------------------------------------------------------------------------
(* Properties *)

\* The type invariant; what is memoized is an instance, never nil.
TypeOK ==
    /\ DOMAIN cache \subseteq Name
    /\ \A n \in DOMAIN cache :
          cache[n].conn \in DOMAIN instances /\ cache[n].closes = cache[n].conn
    /\ \A i \in DOMAIN instances :
          instances[i].name \in Name /\ instances[i].open \in BOOLEAN
    /\ Len(instances) <= builds
    /\ builds \in 0..MaxBuilds
    /\ pc \in [Caller -> {"idle", "calling", "building", "built"}]
    /\ \A c \in Caller :
          /\ call[c].name \in Name
          /\ call[c].conn \in 0..Len(instances)
          /\ call[c].err \in {NoError, "failed", "none"}

\* The instances that are open.
Open == {i \in DOMAIN instances : instances[i].open}

\* Concurrent callers of one name share one instance: no two instances of
\* a name are open at a time, and an instance that Make has returned and
\* that no Close has released since is the one memoized for its name.
\* (Make: "concurrent calls for the same unmemoized name must not
\* construct more than one instance"; "all callers observe the same
\* instance".)
CallersShareOneInstance ==
    /\ \A i, j \in Open : instances[i].name = instances[j].name => i = j
    /\ \A c \in Caller :
          (pc[c] = "idle" /\ call[c].conn \in Open)
             => /\ Found(call[c].name)
                /\ cache[call[c].name].conn = call[c].conn

Contract ==
    INSTANCE NamedFactory
        WITH Instance <- 1..MaxBuilds,
             memo <- [n \in DOMAIN cache |-> cache[n].conn],
             released <- DOMAIN instances \ Open

\* The factory with its callers implements NamedFactory: whatever the
\* order in which callers look names up, construct and memoize and in
\* which Close runs between their steps, an instance is memoized once,
\* for a name that has none, and Close releases exactly what is memoized.
ImplementsNamedFactory == Contract!Spec

\* A Make of a name whose constructor returns does return, whatever other
\* callers do, also when the constructor of another name never returns.
\* (Make: "concurrent calls for different names must not block one
\* another".)
MakeReturns ==
    \A c \in Caller, n \in Name \ Hangs :
        (pc[c] # "idle" /\ call[c].name = n) ~> (pc[c] = "idle")

=============================================================================
