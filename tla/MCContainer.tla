---------------------------- MODULE MCContainer ----------------------------
(***************************************************************************)
(* Container for TLC: four modules that between them meet every branch of  *)
(* AddModule.                                                              *)
(*   web   serves HTTP and gRPC and has a closer,                          *)
(*   jobs  provides cron jobs, a run group entry, a command and an HTTP    *)
(*         route of its own, so that the router has two providers whose    *)
(*         order can be told apart,                                        *)
(*   db    has a closer and provides migrations, an interface only a scan  *)
(*         of Modules() finds,                                             *)
(*   fn    is a bare func() registered as a closer.                        *)
(***************************************************************************)
EXTENDS Container, TLC

CONSTANTS web, jobs, db, fn

MCModule == {web, jobs, db, fn}

MCBareFunc == {fn}

\* The interfaces each module implements.
InterfacesOf ==
    (web  :> {"HttpProvider", "GrpcProvider", "CloserProvider"}) @@
    (jobs :> {"HttpProvider", "CronProvider", "RunProvider",
              "CommandProvider"}) @@
    (db   :> {"CloserProvider", "MigrationProvider"}) @@
    (fn   :> {})

\* TLC evaluates the definition that overrides a constant once, shares
\* the value among its workers, and leaves the values inside it (a record
\* in a function, a set in a function) to be put in normal form, in place,
\* by whichever worker first compares them; any other constant definition
\* it evaluates and normalises once for each worker.  Satisfies is
\* therefore overridden by a definition that only names the function.
MCSatisfies == InterfacesOf

=============================================================================
