---------------------------- MODULE MCKeyManager ----------------------------
(***************************************************************************)
(* KeyManager for TLC: two labels, and callers that pass no part, one, two *)
(* or three.  With these, append meets an array that is full, one with     *)
(* room for some of the parts but not for all, and one with room for all;  *)
(* NewManager() and an append of nothing give the nil slice and an alias   *)
(* of the receiver; and NewManager(a, b, a).With(b) has an array of six    *)
(* elements for four labels, so that the third manager can be an append in *)
(* place on the second and a call on it can run while another call writes  *)
(* into it.  The goroutines are interchangeable.                           *)
(***************************************************************************)
EXTENDS KeyManager, TLC

CONSTANTS a, b

MCLabel == {a, b}

MCParts == {<<>>, <<b>>, <<a, b>>, <<a, b, a>>}

ThreadSymmetry == Permutations(Thread)

=============================================================================
