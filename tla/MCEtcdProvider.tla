--------------------------- MODULE MCEtcdProvider ---------------------------
(***************************************************************************)
(* EtcdProvider for TLC: three names, of which the configuration may have  *)
(* "default" (as exported by the package), "cache", both or neither (as    *)
(* when Unmarshal fails), and never "missing"; ETCD_ADDR set or not; an    *)
(* interceptor that turns TLS on.                                          *)
(***************************************************************************)
EXTENDS EtcdProvider, TLC

MCName == {"default", "cache", "missing"}

MCAddress ==
    {"127.0.0.1:2379", "127.0.0.1:6379", "etcd-1:2379", "etcd-env:2379"}

MCEnvAddr == {"", "etcd-env:2379"}

\* The contents the configuration may have.
Configurations ==
    {<<>>,
     ExportedConfig,
     "cache" :> Option("etcd-1:2379"),
     ExportedConfig @@ ("cache" :> Option("etcd-1:2379"))}

\* TLC evaluates the definition that overrides a constant once, shares
\* the value among its workers, and leaves the values inside it (a record
\* in a function, a set in a function) to be put in normal form, in place,
\* by whichever worker first compares them; any other constant definition
\* it evaluates and normalises once for each worker.  DbConfs is therefore
\* overridden by a definition that only names the set.
MCDbConfs == Configurations

MCIntercept(name, co) == [co EXCEPT !.rest = "tls"]

=============================================================================
