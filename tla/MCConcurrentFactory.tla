------------------------- MODULE MCConcurrentFactory -------------------------
(***************************************************************************)
(* ConcurrentFactory for TLC: three goroutines, two names whose            *)
(* constructor returns (with an instance or an error) and one whose        *)
(* constructor hangs, and four constructor calls, enough for two callers   *)
(* to meet on a name before and after a Close.                             *)
(***************************************************************************)
EXTENDS ConcurrentFactory

MCName == {"default", "cache", "slow"}

MCHangs == {"slow"}

=============================================================================
