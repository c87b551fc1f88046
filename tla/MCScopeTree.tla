----------------------------- MODULE MCScopeTree -----------------------------
(***************************************************************************)
(* A bounded instance of ScopeTree: a snapshot of a root and a child that  *)
(* calls it by its key, and a string that may be an id and a key.          *)
(***************************************************************************)
EXTENDS ScopeTree

CONSTANTS a, b, c, ka, kb

MCSnapshot == {[id |-> a, key |-> ka, parent |-> None],
               [id |-> b, key |-> kb, parent |-> ka]}
=============================================================================
