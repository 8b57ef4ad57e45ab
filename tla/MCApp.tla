-------------------------------- MODULE MCApp --------------------------------
(***************************************************************************)
(* App for TLC: clients of the name "default" and of "cache", which only   *)
(* redis has configured; etcd without a configuration, so that its default *)
(* is the fallback; no tracer, no interceptor.                             *)
(***************************************************************************)
EXTENDS App, TLC

MCName == {"default", "cache"}

MCAddress == {"127.0.0.1:6379", "redis-1:6379"}

MCEtcdConfs == {<<>>}

\* One configuration of redis: "default" as the package exports it, and
\* "cache" on a node of its own.
RedisAt(addr) == [addrs |-> <<addr>>, db |-> 0, rest |-> "zero"]

RedisConfigurations ==
    {[name \in MCName |->
        RedisAt(IF name = "default" THEN "127.0.0.1:6379" ELSE "redis-1:6379")]}

\* TLC evaluates the definition that overrides a constant once, shares
\* the value among its workers, and leaves the values inside it (a record
\* in a function, a set in a function) to be put in normal form, in place,
\* by whichever worker first compares them; any other constant definition
\* it evaluates and normalises once for each worker.  RedisConfs is
\* therefore overridden by a definition that only names the set.
MCRedisConfs == RedisConfigurations

MCIntercept(name, conf) == conf

=============================================================================
