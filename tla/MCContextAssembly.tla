------------------------- MODULE MCContextAssembly -------------------------
(***************************************************************************)
(* Bounded instances of ContextAssembly.                                   *)
(***************************************************************************)
EXTENDS ContextAssembly

CONSTANTS k1

Artifact(e, l, c) == [explicit |-> e, lexical |-> l, cost |-> c]
Memory(t, k, l, c) == [type |-> t, key |-> k, level |-> l, cost |-> c]

MCArtifacts ==
  {Artifact(TRUE, FALSE, 1), Artifact(TRUE, FALSE, 3),
   Artifact(FALSE, TRUE, 1), Artifact(FALSE, FALSE, 2)}

MCMemories ==
  {Memory("instruction", k1, 1, 1), Memory("instruction", k1, 2, 4),
   Memory("instruction", NoKey, 1, 1), Memory("decision", NoKey, 1, 2),
   Memory("episode", NoKey, 1, 1), Memory("episode", NoKey, 1, 2),
   Memory("note", NoKey, 1, 2)}
=============================================================================
