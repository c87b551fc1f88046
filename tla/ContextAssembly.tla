-------------------------- MODULE ContextAssembly --------------------------
(***************************************************************************)
(* Service.Context: how the artifacts and memories a request has found are *)
(* packed into its token budget, in four passes over two lists.            *)
(*                                                                         *)
(* Data.  ListArtifacts and RetrieveMemories are inputs: two lists in any  *)
(* order, of which only what the passes look at is kept.  A cost is what   *)
(* tokens() gives, at least 1.  Whether an artifact is related to an       *)
(* entity is read from the store when its turn comes; the store may have   *)
(* changed since the lists were read, and a failed read counts as no.      *)
(***************************************************************************)
EXTENDS Naturals, FiniteSetsExt, Sequences

CONSTANTS
  ArtifactShapes, \* [explicit, lexical : BOOLEAN, cost : Nat \ {0}]
  MemoryShapes,   \* [type, key, level, cost]; level: how specific its scope is
  NoKey,          \* an instruction without a semantic_key
  Requested,      \* the values of token_budget in requests
  DefaultBudget,
  MaxArtifacts, MaxMemories  \* bounds: lengths of the lists

Returned == {"instruction", "decision", "fact"}
Types == Returned \cup {"episode"}

ASSUME ShapesAssumption ==
  /\ \A a \in ArtifactShapes :
       a.explicit \in BOOLEAN /\ a.lexical \in BOOLEAN /\ a.cost \in Nat \ {0}
  /\ \A m \in MemoryShapes : m.cost \in Nat \ {0}
ASSUME BudgetsAssumption ==
  /\ Requested \subseteq Nat /\ DefaultBudget \in Nat \ {0}
  /\ MaxArtifacts \in Nat /\ MaxMemories \in Nat

VARIABLES
  budget, arts, results, \* the request and what was found for it
  pass, pos,             \* where the passes are
  taken,                 \* the items of the response: <<list, position>>
  omissions,             \* [item, reason]
  used, artifactUsed, episodeUsed,
  instructionKeys

input == <<budget, arts, results>>
counters == <<used, artifactUsed, episodeUsed>>
vars == <<input, pass, pos, taken, omissions, counters, instructionKeys>>

Lists(shapes, max) == UNION {[1 .. n -> shapes] : n \in 0 .. max}

Init ==
  /\ \E r \in Requested : budget = IF r = 0 THEN DefaultBudget ELSE r
  /\ arts \in Lists(ArtifactShapes, MaxArtifacts)
  /\ results \in Lists(MemoryShapes, MaxMemories)
  /\ pass = 1 /\ pos = 1
  /\ taken = {} /\ omissions = {}
  /\ used = 0 /\ artifactUsed = 0 /\ episodeUsed = 0
  /\ instructionKeys = {}

-----------------------------------------------------------------------------
(* The passes                                                              *)

(* The artifacts in one go.                                                *)
ArtifactsFirst == <<"explicit", "ordinary", "durable", "episodes">>
(* The four loops.                                                         *)
Passes == <<"explicit", "durable", "ordinary", "episodes">>
Done == pass > Len(Passes)
OverArtifacts == Passes[pass] \in {"explicit", "ordinary"}
List == IF OverArtifacts THEN arts ELSE results
Item == List[pos]
Name == <<IF OverArtifacts THEN "artifact" ELSE "memory", pos>>

Turn(p) == ~Done /\ Passes[pass] = p /\ pos <= Len(List)
Advance == pos' = pos + 1 /\ UNCHANGED <<input, pass>>

Fits == used + Item.cost <= budget

Omit(reason) ==
  /\ omissions' = omissions \cup {[item |-> Name, reason |-> reason]}
  /\ UNCHANGED <<taken, counters, instructionKeys>>
LeaveAlone == UNCHANGED <<taken, omissions, counters, instructionKeys>>

Take ==
  /\ taken' = taken \cup {Name}
  /\ used' = used + Item.cost
  /\ UNCHANGED omissions

(* Explicit artifacts within the half that unselected ones have.           *)
ExplicitWithinHalf == artifactUsed + Item.cost <= budget \div 2 /\ Fits
(* explicitArtifact items compete for the whole budget.                    *)
ExplicitFits == Fits

ExplicitArtifact ==
  /\ Turn("explicit")
  /\ \/ ~Item.explicit /\ LeaveAlone
     \/ Item.explicit /\ ~ExplicitFits /\ Omit("token_budget")
     \/ /\ Item.explicit /\ ExplicitFits /\ Take
        /\ artifactUsed' = artifactUsed + Item.cost
        /\ UNCHANGED <<episodeUsed, instructionKeys>>
  /\ Advance

Overridden == Item.type = "instruction" /\ Item.key \in instructionKeys

(* Instructions without a key suppress each other.                         *)
AnyKey == IF Item.type = "instruction" THEN {Item.key} ELSE {}
(* if key, _ := ... ; key != "" { ... instructionKeys[key] = true }        *)
NewKey == IF Item.type = "instruction" THEN {Item.key} \ {NoKey} ELSE {}

(* Every memory but an episode.  A type other than the four, which         *)
(* VersionMemory lets through, is counted and goes nowhere.                *)
DurableMemory ==
  /\ Turn("durable")
  /\ \/ Item.type = "episode" /\ LeaveAlone
     \/ Item.type # "episode" /\ ~Fits /\ Omit("token_budget")
     \/ Item.type # "episode" /\ Fits /\ Overridden /\ Omit("instruction_override")
     \/ /\ Item.type \in Returned /\ Fits /\ ~Overridden /\ Take
        /\ instructionKeys' = instructionKeys \cup NewKey
        /\ UNCHANGED <<artifactUsed, episodeUsed>>
     \/ /\ Item.type \notin Types /\ Fits
        /\ used' = used + Item.cost
        /\ UNCHANGED <<taken, omissions, artifactUsed, episodeUsed, instructionKeys>>
  /\ Advance

(* Explicit artifacts come again.                                          *)
EveryArtifact == TRUE
(* The loop skips what the first one has dealt with.                       *)
Ordinary == ~Item.explicit

(* Explicit artifacts count against the half, though it does not bind them. *)
ArtifactFits == artifactUsed + Item.cost <= budget \div 2

OrdinaryArtifact ==
  /\ Turn("ordinary")
  /\ \/ ~Ordinary /\ LeaveAlone
     \/ /\ Ordinary
        /\ \E related \in BOOLEAN :
             LET relevant == related \/ Item.lexical IN
             \/ ~relevant /\ Omit("irrelevant")
             \/ relevant /\ ~ArtifactFits /\ Omit("type_budget")
             \/ relevant /\ ArtifactFits /\ ~Fits /\ Omit("token_budget")
             \/ /\ relevant /\ ArtifactFits /\ Fits /\ Take
                /\ artifactUsed' = artifactUsed + Item.cost
                /\ UNCHANGED <<episodeUsed, instructionKeys>>
  /\ Advance

EpisodeFits == episodeUsed + Item.cost <= budget \div 5

(* The episode is counted against its own limit only.                      *)
TakeApart == taken' = taken \cup {Name} /\ UNCHANGED <<used, omissions>>
TakeEpisode == Take

Episode ==
  /\ Turn("episodes")
  /\ \/ Item.type # "episode" /\ LeaveAlone
     \/ Item.type = "episode" /\ ~EpisodeFits /\ Omit("type_budget")
     \/ Item.type = "episode" /\ EpisodeFits /\ ~Fits /\ Omit("token_budget")
     \/ /\ Item.type = "episode" /\ EpisodeFits /\ Fits /\ TakeEpisode
        /\ episodeUsed' = episodeUsed + Item.cost
        /\ UNCHANGED <<artifactUsed, instructionKeys>>
  /\ Advance

NextPass ==
  /\ ~Done /\ pos > Len(List)
  /\ pass' = pass + 1 /\ pos' = 1
  /\ UNCHANGED <<input, taken, omissions, counters, instructionKeys>>

Next == ExplicitArtifact \/ DurableMemory \/ OrdinaryArtifact \/ Episode \/ NextPass

Spec == Init /\ [][Next]_vars

-----------------------------------------------------------------------------
(* Properties                                                              *)

Names == {"artifact", "memory"} \X (1 .. MaxArtifacts + MaxMemories)
Reasons == {"token_budget", "type_budget", "irrelevant", "instruction_override"}

TypeOK ==
  /\ budget \in Requested \cup {DefaultBudget} /\ budget > 0
  /\ arts \in Lists(ArtifactShapes, MaxArtifacts)
  /\ results \in Lists(MemoryShapes, MaxMemories)
  /\ pass \in 1 .. Len(Passes) + 1
  /\ pos \in 1 .. MaxArtifacts + MaxMemories + 1
  /\ taken \subseteq Names
  /\ omissions \subseteq [item : Names, reason : Reasons]
  /\ \A n \in {used, artifactUsed, episodeUsed} : n \in 0 .. budget
  /\ instructionKeys \subseteq {m.key : m \in MemoryShapes}

ShapeOf(x) == IF x[1] = "artifact" THEN arts[x[2]] ELSE results[x[2]]
Spent(S) == MapThenSumSet(LAMBDA x : ShapeOf(x).cost, S)

TakenArtifacts == {x \in taken : x[1] = "artifact"}
TakenMemories == taken \ TakenArtifacts
Explicit == {x \in TakenArtifacts : ShapeOf(x).explicit}
Durable == {x \in TakenMemories : ShapeOf(x).type \in Returned}

(* token_estimate is the cost of what is returned, and within the budget;  *)
(* artifacts nobody selected find room only while all artifacts stay       *)
(* within half of it, and episodes within a fifth.                         *)
BudgetKept ==
  /\ Spent(taken) <= used /\ used <= budget
  /\ (\A n \in DOMAIN results : results[n].type \in Types) => used = Spent(taken)
  /\ TakenArtifacts = Explicit \/ Spent(TakenArtifacts) <= budget \div 2
  /\ Spent(TakenMemories \ Durable) <= budget \div 5

(* "Explicit artifact IDs and versions are authoritative": one is left out *)
(* only when it does not fit beside the explicit ones before it.           *)
ExplicitAuthoritative ==
  \A o \in omissions : o.item[1] = "artifact" /\ ShapeOf(o.item).explicit =>
    /\ o.reason = "token_budget"
    /\ Spent({x \in Explicit : x[2] < o.item[2]}) + ShapeOf(o.item).cost > budget

(* "Durable memory retains context capacity": an instruction, decision or  *)
(* fact is never left out for an artifact nobody selected or an episode.   *)
DurableFirst ==
  LET crowd(o) == Explicit \cup {x \in Durable : x[2] < o.item[2]} IN
  (\A n \in DOMAIN results : results[n].type \in Types) =>
  \A o \in omissions :
    /\ o.item[1] = "memory" /\ ShapeOf(o.item).type \in Returned
    /\ o.reason = "token_budget"
    => Spent(crowd(o)) + ShapeOf(o.item).cost > budget

(* An instruction is dropped for another only if that one is returned and  *)
(* declares the same key, and a more specific and a broader one with the   *)
(* same key are never both returned, whichever of them does not fit        *)
(* (service.go:669: the one replaces the other only when both declare the  *)
(* same key).  Which of the two is returned is not claimed: the passes go  *)
(* by rank and never look at the level.                                    *)
Instruction(x) == x[1] = "memory" /\ ShapeOf(x).type = "instruction"
SameKey(x, y) == ShapeOf(x).key = ShapeOf(y).key /\ ShapeOf(x).key # NoKey
OverrideHasWinner ==
  /\ \A o \in omissions : o.reason = "instruction_override" =>
       \E x \in taken : Instruction(x) /\ SameKey(x, o.item)
  /\ \A x, y \in taken :
       Instruction(x) /\ Instruction(y) /\ SameKey(x, y)
         => ShapeOf(x).level = ShapeOf(y).level

(* The four loops together deal with every item, and each item is either   *)
(* returned or omitted for one reason; only memories of a type other than  *)
(* the four (VersionMemory accepts any) are counted and mentioned nowhere. *)
Items == {<<"artifact", n>> : n \in DOMAIN arts} \cup {<<"memory", n>> : n \in DOMAIN results}
Answered(x) == (x \in taken) # (\E o \in omissions : o.item = x)
AnsweredOnce ==
  /\ Done => \A x \in Items :
       x[1] = "artifact" \/ ShapeOf(x).type \in Types => Answered(x)
  /\ \A o, p \in omissions : o.item = p.item => o = p
=============================================================================
