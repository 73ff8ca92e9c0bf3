--------------------------- MODULE MCAssociation ---------------------------
(***************************************************************************)
(* Association with two message ids: a request never has the id of the one *)
(* before it, and at most one request is sent over a session.              *)
(***************************************************************************)
EXTENDS Association
=============================================================================
