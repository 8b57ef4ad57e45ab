--------------------------- MODULE ResourceFactory ---------------------------
(***************************************************************************)
(* The named resource factory the providers wrap (di.Factory for otetcd,   *)
(* async.Factory for otredis): a map from logical names to the pair of a   *)
(* connection and its closer, and a constructor called on the first Make   *)
(* of a name.  The factory is a library of its own; this module states its *)
(* contract: Make returns the memoized connection of a name or calls the   *)
(* constructor, memoizes a pair the constructor returned without error and *)
(* nothing else, and is atomic with respect to other calls; Close calls    *)
(* every memoized closer and empties the map.                              *)
(*                                                                         *)
(* The constructor and the closers belong to the provider: this module     *)
(* has the steps of the factory on its map, and the provider modules       *)
(* build their Make and Close actions from them.                           *)
(***************************************************************************)
EXTENDS Integers, FiniteSets

CONSTANT Name           \* the logical names callers ask for

VARIABLE cache          \* cache[name]: the pair memoized for name

\* The nil error.
NoError == "nil"

\* A nil connection: the pair holds no client.
NilConn == 0

\* The factory made by NewFactory: nothing is memoized.
NewFactory == cache = <<>>

\* Make(name) finds a pair for name.
Found(name) == name \in DOMAIN cache

\* What Make returns for a memoized name.
Hit(name) == [conn |-> cache[name].conn, err |-> NoError]

\* What Make returns for a name that is not memoized, given what the
\* constructor returned: its connection, or its error and no connection.
Miss(built) ==
    IF built.err = NoError
    THEN [conn |-> built.pair.conn, err |-> NoError]
    ELSE [conn |-> NilConn, err |-> built.err]

\* Make keeps the pair the constructor returned without error.
Memoize(name, pair) ==
    cache' = [n \in DOMAIN cache \cup {name} |->
                 IF n = name THEN pair ELSE cache[n]]

\* The connections whose closers Close calls.
Closing == {cache[n].closes : n \in DOMAIN cache}

\* Close leaves the map empty.
Forget == cache' = <<>>

=============================================================================
