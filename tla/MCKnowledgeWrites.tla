-------------------------- MODULE MCKnowledgeWrites --------------------------
(***************************************************************************)
(* Bounded instances of KnowledgeWrites.  Each call may be served by any   *)
(* number of slots: a call served twice is a client's retry.               *)
(***************************************************************************)
EXTENDS KnowledgeWrites, TLC

CONSTANTS m1, m2, a1, k1, k2, k3, plain, revised

MCObjects == {m1, m2, a1}
MCKindOf == [o \in MCObjects |-> IF o = a1 THEN "artifact" ELSE "memory"]
MCGenerated == {m2}

ACall(op, key, obj, kind, kept, state) ==
  [op |-> op, key |-> key, kind |-> kind, obj |-> obj,
   patch |-> [kept |-> kept, given |-> plain, state |-> state]]

(* A memory named by its client, created under two keys and versioned, once *)
(* under the key of a create; a memory the server names, created by two     *)
(* keys, one of them also used for an artifact.                             *)
MixedCalls ==
  {ACall("create", k1, m1, "memory", plain, Unset),
   ACall("create", k2, m1, "memory", plain, Unset),
   ACall("version", k2, m1, "memory", revised, Unset),
   ACall("version", k3, m1, "memory", Unset, "archived"),
   ACall("create", k1, NewId, "memory", plain, Unset),
   ACall("create", k3, NewId, "memory", Unset, Unset),
   ACall("setState", k3, m2, "memory", Unset, "archived"),
   ACall("create", k1, a1, "artifact", plain, "archived"),
   ACall("version", k2, a1, "artifact", Unset, Unset),
   ACall("setState", k2, a1, "artifact", Unset, "active")}

(* An artifact that one caller versions while another changes its status.  *)
StatusCalls ==
  {ACall("create", k1, a1, "artifact", plain, Unset),
   ACall("version", k2, a1, "artifact", revised, Unset),
   ACall("setState", k3, a1, "artifact", Unset, "archived")}

RequestSymmetry == Permutations(Requests)
=============================================================================
