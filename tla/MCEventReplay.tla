---------------------------- MODULE MCEventReplay ----------------------------
(***************************************************************************)
(* A bounded instance of EventReplay and WorkflowIngest: two deliveries of *)
(* one event.                                                              *)
(***************************************************************************)
EXTENDS EventReplay

CONSTANTS d1, d2, w

MCEventOf == [d \in {d1, d2} |-> w]
MCReferences == [e \in {w} |-> 2]
=============================================================================
