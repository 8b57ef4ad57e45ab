--------------------------- MODULE MCRedisProvider ---------------------------
(***************************************************************************)
(* RedisProvider for TLC: three names, of which the configuration may have *)
(* "default" (as exported by the package), "cache", both or neither, and   *)
(* never "missing"; an interceptor that sends the client to the node that  *)
(* service discovery found and selects database 1.                         *)
(***************************************************************************)
EXTENDS RedisProvider, TLC

MCName == {"default", "cache", "missing"}

MCAddress == {"127.0.0.1:6379", "redis-1:6379", "discovered:6379"}

At(addr) == [addrs |-> <<addr>>, db |-> 0, rest |-> "configured"]

\* The contents the configuration may have.
Configurations ==
    {<<>>,
     ExportedConfig,
     "cache" :> At("redis-1:6379"),
     ExportedConfig @@ ("cache" :> At("redis-1:6379"))}

\* TLC evaluates the definition that overrides a constant once, shares
\* the value among its workers, and leaves the values inside it (a record
\* in a function, a set in a function) to be put in normal form, in place,
\* by whichever worker first compares them; any other constant definition
\* it evaluates and normalises once for each worker.  DbConfs is therefore
\* overridden by a definition that only names the set.
MCDbConfs == Configurations

MCIntercept(name, conf) ==
    [conf EXCEPT !.addrs = <<"discovered:6379">>, !.db = 1]

=============================================================================
