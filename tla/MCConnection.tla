---------------------------- MODULE MCConnection ----------------------------
(***************************************************************************)
(* Small instances of Connection.  Two connection objects, so that a       *)
(* session can coexist with the pong timer of the session before it; the   *)
(* callers and the connection objects are interchangeable.                 *)
(***************************************************************************)
EXTENDS Connection, TLC

Symmetry == Permutations(Callers) \cup Permutations(Sessions)
=============================================================================
