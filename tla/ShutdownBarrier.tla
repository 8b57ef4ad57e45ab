--------------------------- MODULE ShutdownBarrier ---------------------------
(***************************************************************************)
(* What Shutdown promises to the modules that registered a closer, with    *)
(* the loop, the goroutines and the sync.WaitGroup left out: a shutdown    *)
(* takes the closers registered so far, calls each of them once, in any    *)
(* order and side by side, and ends when every one of them has returned.   *)
(* A closer may never return, and the process may end or die at any time;  *)
(* what may not happen is a shutdown that ends early, a closer called that *)
(* was not registered, or one called twice for one registration.           *)
(***************************************************************************)
EXTENDS Integers, Sequences

CONSTANTS
    Closer,         \* the closers a module may register
    Hangs,          \* the closers that never return
    MaxClosers      \* bound on the number of closers registered

VARIABLES
    registry,       \* the registered closers, in registration order
    phase,          \* "idle", "closing" during a shutdown, "dead"
    run,            \* run[i]: where the i-th closer of this shutdown is
    called          \* the closers this shutdown has called, in call order

vars == <<registry, phase, run, called>>

Init ==
    /\ registry = <<>>
    /\ phase = "idle"
    /\ run = <<>>
    /\ called = <<>>

\* A module registers the closer c.
Register(c) ==
    /\ phase = "idle"
    /\ Len(registry) < MaxClosers
    /\ registry' = Append(registry, c)
    /\ UNCHANGED <<phase, run, called>>

\* A shutdown begins, with the closers registered so far.
Begin ==
    /\ phase = "idle"
    /\ phase' = "closing"
    /\ run' = [i \in DOMAIN registry |-> [closer |-> registry[i], at |-> "waiting"]]
    /\ called' = <<>>
    /\ UNCHANGED registry

\* The i-th closer is called.
Call(i) ==
    /\ phase = "closing"
    /\ i \in DOMAIN run
    /\ run[i].at = "waiting"
    /\ run' = [run EXCEPT ![i].at = "running"]
    /\ called' = Append(called, run[i].closer)
    /\ UNCHANGED <<registry, phase>>

\* The i-th closer returns.
Return(i) ==
    /\ phase = "closing"
    /\ i \in DOMAIN run
    /\ run[i].at = "running"
    /\ run[i].closer \notin Hangs
    /\ run' = [run EXCEPT ![i].at = "returned"]
    /\ UNCHANGED <<registry, phase, called>>

\* The shutdown ends: every closer has returned.
End ==
    /\ phase = "closing"
    /\ \A i \in DOMAIN run : run[i].at = "returned"
    /\ phase' = "idle"
    /\ UNCHANGED <<registry, run, called>>

\* The process ends, by leaving main or by a panic.
Die ==
    /\ phase # "dead"
    /\ phase' = "dead"
    /\ UNCHANGED <<registry, run, called>>

Next ==
    \/ \E c \in Closer : Register(c)
    \/ Begin
    \/ \E i \in 1..MaxClosers : Call(i) \/ Return(i)
    \/ End
    \/ Die

Spec == Init /\ [][Next]_vars

\* A shutdown goes on by itself: a closer that waits is called, one that
\* can return does, and the shutdown ends when all have.
Fairness ==
    /\ \A i \in 1..MaxClosers : WF_vars(Call(i)) /\ WF_vars(Return(i))
    /\ WF_vars(End)

FairSpec == Spec /\ Fairness

=============================================================================
