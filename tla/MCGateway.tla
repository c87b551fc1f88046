------------------------------ MODULE MCGateway ------------------------------
(***************************************************************************)
(* A bounded instance of Gateway.                                          *)
(***************************************************************************)
EXTENDS Gateway

CONSTANTS a, b, c

Alike == Permutations(Items)
=============================================================================
