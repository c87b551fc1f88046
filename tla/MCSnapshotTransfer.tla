------------------------- MODULE MCSnapshotTransfer -------------------------
(***************************************************************************)
(* Bounded instances of SnapshotTransfer: a memory and an artifact.        *)
(***************************************************************************)
EXTENDS SnapshotTransfer, TLC

CONSTANTS m1, a1

MCTableOf == [o \in Objects |-> IF o = a1 THEN "artifacts" ELSE "memories"]

ImporterSymmetry == Permutations(Importers)
=============================================================================
