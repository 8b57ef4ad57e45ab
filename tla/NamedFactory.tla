---------------------------- MODULE NamedFactory ----------------------------
(***************************************************************************)
(* What a named resource factory promises to the application, with the     *)
(* callers, the constructor and the closers left out: a name has at most   *)
(* one instance at a time, an instance is memoized under one name, once,   *)
(* while it is in use, and Close releases exactly the instances that are   *)
(* memoized, each of them once, and leaves nothing memoized.  A Make that  *)
(* finds its name, and one whose constructor fails, change nothing.        *)
(***************************************************************************)
EXTENDS TLC

CONSTANTS
    Name,           \* the logical names
    Instance        \* the instances constructors can return

VARIABLES
    memo,           \* memo[name]: the instance memoized for name
    released        \* the instances whose closer has been called

vars == <<memo, released>>

\* The instances in use.
InUse == {memo[n] : n \in DOMAIN memo}

Init ==
    /\ memo = <<>>
    /\ released = {}

\* The first successful Make of name memoizes a new instance.
Construct(name, i) ==
    /\ name \notin DOMAIN memo
    /\ i \notin InUse \cup released
    /\ memo' = memo @@ (name :> i)
    /\ UNCHANGED released

\* Close releases what is memoized.
Close ==
    /\ released' = released \cup InUse
    /\ memo' = <<>>

Next ==
    \/ \E name \in Name, i \in Instance : Construct(name, i)
    \/ Close

Spec == Init /\ [][Next]_vars

=============================================================================
