----------------------- MODULE ContextAssemblyProofs -----------------------
(***************************************************************************)
(* TLAPS proofs about ContextAssembly, for every two lists, every cost and *)
(* every budget.                                                           *)
(***************************************************************************)
EXTENDS ContextAssembly, FiniteSetTheorems, SequenceTheorems, WellFoundedInduction, TLAPS

-----------------------------------------------------------------------------
(* Least elements                                                          *)

(* Every set of numbers has a least one.                                   *)
LEMMA LeastNatural ==
  ASSUME NEW T \in SUBSET Nat, T # {}
  PROVE  \E x \in T : \A y \in T : x <= y
<1> DEFINE R == {p \in Nat \X Nat : p[1] < p[2]}
<1>1. IsWellFoundedOn(R, Nat)
  BY NatLessThanWellFounded DEF OpToRel
<1>2. PICK x \in T : \A y \in T : <<y, x>> \notin R
  BY <1>1, WFMin, T \subseteq Nat
<1>3. ASSUME NEW y \in T
      PROVE  x <= y
  <2>1. y < x => <<y, x>> \in R
    OBVIOUS
  <2>2. QED
    BY <1>2, <2>1
<1>4. QED
  BY <1>3

(* Among the subsets of a finite set that are bad, one has no bad subset.  *)
LEMMA LeastBad ==
  ASSUME NEW S, IsFiniteSet(S), NEW Bad \in SUBSET (SUBSET S), Bad # {}
  PROVE  \E s \in Bad : \A t \in Bad : t \subseteq s => t = s
<1> DEFINE Sizes == {Cardinality(s) : s \in Bad}
<1>1. \A s \in Bad : IsFiniteSet(s) /\ Cardinality(s) \in Nat
  BY FS_Subset, FS_CardinalityType
<1>2. Sizes \in SUBSET Nat /\ Sizes # {}
  BY <1>1
<1>3. PICK n \in Sizes : \A m \in Sizes : n <= m
  BY <1>2, LeastNatural
<1>4. PICK s \in Bad : n = Cardinality(s)
  BY <1>3
<1>5. ASSUME NEW t \in Bad, t \subseteq s
      PROVE  t = s
  <2>1. Cardinality(t) <= Cardinality(s) /\ (Cardinality(s) = Cardinality(t) => s = t)
    BY <1>1, <1>5, FS_Subset
  <2>2. Cardinality(s) <= Cardinality(t)
    BY <1>3, <1>4
  <2>3. QED
    BY <1>1, <2>1, <2>2
<1>6. QED
  BY <1>5

-----------------------------------------------------------------------------
(* Sums: that of a function over a finite set (MapThenSumSet) does not     *)
(* depend on the order in which its elements are taken                     *)

Total(c, S) == MapThenSumSet(LAMBDA x : c[x], S)

Chosen(s) == CHOOSE x \in s : TRUE

(* g gives every part of S its sum.                                        *)
IsSum(g, c, S) ==
  g = [s \in SUBSET S |-> IF s = {} THEN 0 ELSE c[Chosen(s)] + g[s \ {Chosen(s)}]]

(* The element taken next is one of the set.                               *)
LEMMA ChosenIsIn == ASSUME NEW s, s # {} PROVE Chosen(s) \in s
BY DEF Chosen

(* Two such functions agree wherever both are defined.                     *)
LEMMA SumsAgree ==
  ASSUME NEW c, NEW S, NEW T, IsFiniteSet(S), NEW g, NEW h, IsSum(g, c, S), IsSum(h, c, T),
         NEW s \in SUBSET S, s \in SUBSET T
  PROVE  g[s] = h[s]
<1>0. PICK Bad : Bad = {t \in SUBSET S : t \in SUBSET T /\ g[t] # h[t]}
  OBVIOUS
<1>1. /\ Bad \in SUBSET (SUBSET S)
      /\ \A t : t \in Bad <=> t \in SUBSET S /\ t \in SUBSET T /\ g[t] # h[t]
  BY <1>0
<1>2. SUFFICES ASSUME Bad # {}
               PROVE  FALSE
  BY <1>1
<1>3. PICK t \in Bad : \A u \in Bad : u \subseteq t => u = t
  BY <1>1, <1>2, LeastBad
<1>4. t # {}
  BY <1>1, <1>3 DEF IsSum
<1>5. PICK u : u = t \ {Chosen(t)}
  OBVIOUS
<1>6. u \in SUBSET S /\ u \in SUBSET T /\ u \subseteq t /\ u # t
  BY <1>1, <1>3, <1>4, <1>5, ChosenIsIn
<1>7. g[u] = h[u]
  BY <1>1, <1>3, <1>6
<1>8. g[t] = c[Chosen(t)] + g[u] /\ h[t] = c[Chosen(t)] + h[u]
  BY <1>1, <1>3, <1>4, <1>5 DEF IsSum
<1>9. QED
  BY <1>1, <1>3, <1>7, <1>8

(* There is such a function for every finite set.                          *)
LEMMA SumExists ==
  ASSUME NEW c, NEW S, IsFiniteSet(S)
  PROVE  \E g : IsSum(g, c, S)
<1>0. PICK Bad : Bad = {s \in SUBSET S : ~\E g : IsSum(g, c, s)}
  OBVIOUS
<1>1. /\ Bad \in SUBSET (SUBSET S)
      /\ \A s : s \in Bad <=> s \in SUBSET S /\ ~\E g : IsSum(g, c, s)
  BY <1>0
<1>2. SUFFICES ASSUME Bad # {}
               PROVE  FALSE
  BY <1>1
<1>3. PICK s \in Bad : \A t \in Bad : t \subseteq s => t = s
  BY <1>1, <1>2, LeastBad
<1> DEFINE G(t) == CHOOSE g : IsSum(g, c, t)
           Value(t) == G(t)[t]
           After(t) == t \ {Chosen(t)}
           h == [t \in SUBSET s |-> IF t = {} THEN 0 ELSE c[Chosen(t)] + Value(After(t))]
<1>4. \A t \in SUBSET s : t # s => IsSum(G(t), c, t)
  <2>1. \A t \in SUBSET s : t # s => \E g : IsSum(g, c, t)
    BY <1>1, <1>3
  <2>2. QED
    BY <2>1
<1>5. ASSUME NEW t \in SUBSET s, t # s
      PROVE  Value(t) = IF t = {} THEN 0 ELSE c[Chosen(t)] + Value(After(t))
  <2>1. IsSum(G(t), c, t)
    BY <1>4, <1>5
  <2>2. Value(t) = IF t = {} THEN 0 ELSE c[Chosen(t)] + G(t)[After(t)]
    BY <2>1 DEF IsSum
  <2>3. CASE t # {}
    <3>1. After(t) \in SUBSET t /\ After(t) \in SUBSET s /\ After(t) # s
      BY <1>5
    <3>2. PICK u : u = After(t)
      OBVIOUS
    <3>3. IsSum(G(u), c, u)
      BY <1>4, <3>1, <3>2
    <3>7. t \in SUBSET S
      BY <1>1, <1>3
    <3>8. IsFiniteSet(t)
      BY <3>7, FS_Subset
    <3>4. PICK g1, g2 : g1 = G(t) /\ g2 = G(u)
      OBVIOUS
    <3>9. IsSum(g1, c, t) /\ IsSum(g2, c, u)
      BY <2>1, <3>3, <3>4
    <3>10. u \in SUBSET t /\ u \in SUBSET u
      BY <3>1, <3>2
    <3>5. g1[u] = g2[u]
      BY <3>8, <3>9, <3>10, SumsAgree
    <3>6. QED
      BY <2>2, <2>3, <3>2, <3>4, <3>5
  <2>4. QED
    BY <2>2, <2>3
<1>6. \A t \in SUBSET s : t # {} => h[After(t)] = Value(After(t))
  <2> SUFFICES ASSUME NEW t \in SUBSET s, t # {}
               PROVE  h[After(t)] = Value(After(t))
    OBVIOUS
  <2>1. PICK u : u = After(t)
    OBVIOUS
  <2>2. u \in SUBSET s /\ u # s
    BY <2>1, ChosenIsIn
  <2>3. QED
    BY <1>5, <2>1, <2>2
<1>7. IsSum(h, c, s)
  <2>1. PICK f : f = h
    OBVIOUS
  <2>2. f = [t \in SUBSET s |-> IF t = {} THEN 0 ELSE c[Chosen(t)] + Value(After(t))]
    BY <2>1
  <2> HIDE DEF Value, G, h
  <2>3. \A t \in SUBSET s : t # {} => f[t \ {Chosen(t)}] = Value(After(t))
    BY <1>6, <2>1
  <2>4. f = [t \in SUBSET s |-> IF t = {} THEN 0 ELSE c[Chosen(t)] + f[t \ {Chosen(t)}]]
    BY <2>2, <2>3
  <2>5. QED
    BY <2>1, <2>4 DEF IsSum
<1>8. QED
  BY <1>1, <1>3, <1>7

(* The sum of a set in terms of any such function.                         *)
LEMMA TotalIs ==
  ASSUME NEW c, NEW S, IsFiniteSet(S), NEW g, IsSum(g, c, S)
  PROVE  Total(c, S) = g[S]
<1>1. Total(c, S) = (CHOOSE h : IsSum(h, c, S))[S]
  BY DEF Total, MapThenSumSet, MapThenFoldSet, IsSum, Chosen
<1>2. PICK h : h = CHOOSE f : IsSum(f, c, S)
  OBVIOUS
<1>3. IsSum(h, c, S)
  BY <1>2
<1>4. QED
  BY <1>1, <1>2, <1>3, SumsAgree

-----------------------------------------------------------------------------
(* Sums                                                                    *)

Counts(c, S) == \A x \in S : c[x] \in Nat

(* The recursion, for the sum itself.                                      *)
LEMMA TotalByChoice ==
  ASSUME NEW c, NEW S, IsFiniteSet(S), S # {}
  PROVE  Total(c, S) = c[Chosen(S)] + Total(c, S \ {Chosen(S)})
<1>1. PICK g : IsSum(g, c, S)
  BY SumExists
<1>2. PICK T : T = S \ {Chosen(S)}
  OBVIOUS
<1>3. T \in SUBSET S /\ T \in SUBSET T /\ IsFiniteSet(T)
  BY <1>2, FS_Subset
<1>4. PICK h : IsSum(h, c, T)
  BY <1>3, SumExists
<1>5. g[T] = h[T]
  <2>1. T \in SUBSET S /\ T \in SUBSET T
    BY <1>3
  <2>2. QED
    BY <1>1, <1>4, <2>1, SumsAgree
<1>6. Total(c, S) = g[S] /\ Total(c, T) = h[T]
  BY <1>1, <1>3, <1>4, TotalIs
<1>7. g[S] = c[Chosen(S)] + g[T]
  BY <1>1, <1>2 DEF IsSum
<1>8. QED
  BY <1>2, <1>5, <1>6, <1>7

(* Nothing sums up to nothing.                                             *)
LEMMA TotalOfNone == ASSUME NEW c PROVE Total(c, {}) = 0
<1>1. IsFiniteSet({})
  BY FS_EmptySet
<1>2. PICK g : IsSum(g, c, {})
  BY <1>1, SumExists
<1>3. Total(c, {}) = g[{}]
  BY <1>1, <1>2, TotalIs
<1>4. QED
  BY <1>2, <1>3 DEF IsSum

(* Counts sum up to a count.                                               *)
LEMMA TotalType ==
  ASSUME NEW c, NEW S, IsFiniteSet(S), Counts(c, S)
  PROVE  Total(c, S) \in Nat
<1>0. PICK Bad : Bad = {s \in SUBSET S : Total(c, s) \notin Nat}
  OBVIOUS
<1>1. /\ Bad \in SUBSET (SUBSET S)
      /\ \A s : s \in Bad <=> s \in SUBSET S /\ Total(c, s) \notin Nat
  BY <1>0
<1>2. SUFFICES ASSUME Bad # {}
               PROVE  FALSE
  BY <1>1
<1>3. PICK s \in Bad : \A t \in Bad : t \subseteq s => t = s
  BY <1>1, <1>2, LeastBad
<1>4. s # {} /\ s \in SUBSET S /\ IsFiniteSet(s)
  <2>1. s \in SUBSET S /\ Total(c, s) \notin Nat
    BY <1>1, <1>3
  <2>2. Total(c, {}) \in Nat
    BY TotalOfNone
  <2>3. QED
    BY <2>1, <2>2, FS_Subset
<1>5. PICK t, y : y = Chosen(s) /\ t = s \ {y}
  OBVIOUS
<1>6. y \in s /\ t \subseteq s /\ t # s
  BY <1>4, <1>5, ChosenIsIn
<1>7. Total(c, t) \in Nat
  BY <1>1, <1>3, <1>4, <1>6
<1>8. Total(c, s) = c[y] + Total(c, t)
  BY <1>4, <1>5, TotalByChoice
<1>9. c[y] \in Nat
  BY <1>4, <1>6 DEF Counts
<1>10. Total(c, s) \in Nat
  BY <1>7, <1>8, <1>9
<1>11. QED
  BY <1>1, <1>3, <1>10

(* Any element can be taken first.                                         *)
LEMMA TotalWithout ==
  ASSUME NEW c, NEW S, IsFiniteSet(S), Counts(c, S), NEW x \in S
  PROVE  Total(c, S) = c[x] + Total(c, S \ {x})
<1>0. PICK Bad : Bad = {s \in SUBSET S : \E y \in s : Total(c, s) # c[y] + Total(c, s \ {y})}
  OBVIOUS
<1>1. /\ Bad \in SUBSET (SUBSET S)
      /\ \A s : s \in Bad <=> s \in SUBSET S /\ \E y \in s : Total(c, s) # c[y] + Total(c, s \ {y})
  BY <1>0
<1>2. SUFFICES ASSUME Bad # {}
               PROVE  FALSE
  BY <1>1
<1>3. PICK s \in Bad : \A t \in Bad : t \subseteq s => t = s
  BY <1>1, <1>2, LeastBad
<1>4. PICK y \in s : Total(c, s) # c[y] + Total(c, s \ {y})
  BY <1>1, <1>3
<1>5. PICK z, t, u, v : z = Chosen(s) /\ t = s \ {z} /\ u = s \ {y} /\ v = t \ {y}
  OBVIOUS
<1>6. z \in s /\ z # y
  <2>1. s \in SUBSET S /\ s # {}
    BY <1>1, <1>3, <1>4
  <2>2. IsFiniteSet(s)
    BY <2>1, FS_Subset
  <2>3. Total(c, s) = c[z] + Total(c, s \ {z})
    BY <1>5, <2>1, <2>2, TotalByChoice
  <2>4. QED
    BY <1>4, <1>5, <2>1, <2>3, ChosenIsIn
<1>7. /\ s \in SUBSET S /\ s # {} /\ t \in SUBSET S /\ u \in SUBSET S /\ v \in SUBSET S
      /\ y \in t /\ z \in u /\ v = u \ {z} /\ t \subseteq s /\ u \subseteq s /\ t # s /\ u # s
  BY <1>1, <1>3, <1>4, <1>5, <1>6
<1>8. IsFiniteSet(s) /\ IsFiniteSet(v)
  BY <1>7, FS_Subset
<1>9. Total(c, s) = c[z] + Total(c, t)
  BY <1>5, <1>7, <1>8, TotalByChoice
<1>10. Total(c, t) = c[y] + Total(c, v)
  <2>1. t \notin Bad /\ y \in t
    BY <1>3, <1>7
  <2>2. Total(c, t) = c[y] + Total(c, t \ {y})
    BY <1>1, <1>7, <2>1
  <2>3. QED
    BY <1>5, <2>2
<1>11. Total(c, u) = c[z] + Total(c, v)
  BY <1>1, <1>3, <1>7
<1>12. c[y] \in Nat /\ c[z] \in Nat /\ Total(c, v) \in Nat
  BY <1>4, <1>6, <1>7, <1>8, TotalType DEF Counts
<1>13. QED
  BY <1>4, <1>5, <1>9, <1>10, <1>11, <1>12

(* An element that is new adds its own value.                              *)
LEMMA TotalAdd ==
  ASSUME NEW c, NEW S, IsFiniteSet(S), NEW x, x \notin S, Counts(c, S \cup {x})
  PROVE  /\ Total(c, S \cup {x}) = Total(c, S) + c[x]
         /\ Total(c, S) \in Nat /\ c[x] \in Nat /\ IsFiniteSet(S \cup {x})
<1>1. PICK T : T = S \cup {x}
  OBVIOUS
<1>2. IsFiniteSet(T)
  BY <1>1, FS_AddElement
<1>3. T \ {x} = S /\ x \in T /\ Counts(c, T) /\ Counts(c, S)
  BY <1>1 DEF Counts
<1>4. Total(c, T) = c[x] + Total(c, T \ {x})
  BY <1>2, <1>3, TotalWithout
<1>5. Total(c, S) \in Nat /\ c[x] \in Nat
  BY <1>3, TotalType DEF Counts
<1>6. Total(c, T) = Total(c, S) + c[x]
  BY <1>3, <1>4, <1>5
<1>7. QED
  BY <1>1, <1>2, <1>5, <1>6

-----------------------------------------------------------------------------
(* Lemmas about the lists                                                  *)

(* A list is a sequence of its shapes.                                     *)
LEMMA ListType ==
  ASSUME NEW S, NEW max \in Nat, NEW l \in Lists(S, max)
  PROVE  Len(l) \in 0 .. max /\ \A n \in 1 .. Len(l) : l[n] \in S
<1>1. PICK n \in 0 .. max : l \in [1 .. n -> S]
  BY DEF Lists
<1>2. l \in Seq(S)
  BY <1>1
<1>3. Len(l) = n
  BY <1>1
<1>4. QED
  BY <1>1, <1>3

(* The item whose turn it is has a cost and a name that names it.          *)
LEMMA ItemType ==
  ASSUME TypeOK, ~Done, pos <= Len(List)
  PROVE  /\ Item.cost \in Nat \ {0}
         /\ Name \in Names /\ ShapeOf(Name) = Item
         /\ pos < MaxArtifacts + MaxMemories + 1
         /\ OverArtifacts => Name[1] = "artifact"
         /\ ~OverArtifacts => Name[1] = "memory" /\ Item \in MemoryShapes
         /\ Name[2] = pos
<1>1. /\ Len(arts) \in 0 .. MaxArtifacts
      /\ \A n \in 1 .. Len(arts) : arts[n] \in ArtifactShapes
  BY ListType, BudgetsAssumption DEF TypeOK
<1>2. /\ Len(results) \in 0 .. MaxMemories
      /\ \A n \in 1 .. Len(results) : results[n] \in MemoryShapes
  BY ListType, BudgetsAssumption DEF TypeOK
<1>3. pos \in 1 .. MaxArtifacts + MaxMemories + 1
  BY DEF TypeOK
<1>4. CASE OverArtifacts
  BY <1>1, <1>3, <1>4, ShapesAssumption, BudgetsAssumption
     DEF List, Item, Name, Names, ShapeOf
<1>5. CASE ~OverArtifacts
  BY <1>2, <1>3, <1>5, ShapesAssumption, BudgetsAssumption
     DEF List, Item, Name, Names, ShapeOf
<1>6. QED
  BY <1>4, <1>5

-----------------------------------------------------------------------------
(* Type correctness                                                        *)

(* Artifacts are a part of what is spent: without it the explicit ones     *)
(* could take artifactUsed beyond the budget.                              *)
SpendInv == TypeOK /\ artifactUsed <= used

LEMMA SpendInit == Init => SpendInv
BY BudgetsAssumption DEF Init, SpendInv, TypeOK, Passes

LEMMA SpendStep == SpendInv /\ [Next]_vars => SpendInv'
<1> SUFFICES ASSUME SpendInv, [Next]_vars
             PROVE  SpendInv'
  OBVIOUS
<1>b. /\ TypeOK /\ budget \in Nat /\ used \in 0 .. budget
      /\ artifactUsed \in 0 .. used /\ episodeUsed \in 0 .. budget
  BY BudgetsAssumption DEF SpendInv, TypeOK
<1>t. ASSUME NEW p \in {"explicit", "durable", "ordinary", "episodes"}, Turn(p), Advance
      PROVE  /\ input' = input /\ pass' = pass
             /\ pos' \in 1 .. MaxArtifacts + MaxMemories + 1
             /\ Name \in Names /\ Item.cost \in Nat \ {0}
             /\ p \in {"durable", "episodes"} => Item \in MemoryShapes
  <2>1. ~Done /\ pos <= Len(List) /\ Passes[pass] = p
    BY <1>t DEF Turn
  <2>2. QED
    BY <1>b, <1>t, <2>1, ItemType, BudgetsAssumption DEF Advance, TypeOK, OverArtifacts
<1>o. ASSUME NEW reason \in Reasons, Name \in Names, Omit(reason),
             input' = input, pass' = pass,
             pos' \in 1 .. MaxArtifacts + MaxMemories + 1
      PROVE  SpendInv'
  BY <1>o DEF Omit, SpendInv, TypeOK, input, counters
<1>l. ASSUME LeaveAlone, input' = input, pass' = pass,
             pos' \in 1 .. MaxArtifacts + MaxMemories + 1
      PROVE  SpendInv'
  BY <1>l DEF LeaveAlone, SpendInv, TypeOK, input, counters
<1>k. ASSUME Take, Fits, Name \in Names, Item.cost \in Nat \ {0},
             input' = input, pass' = pass,
             pos' \in 1 .. MaxArtifacts + MaxMemories + 1,
             artifactUsed' \in {artifactUsed, artifactUsed + Item.cost},
             episodeUsed' \in 0 .. budget,
             instructionKeys' \subseteq {m.key : m \in MemoryShapes}
      PROVE  SpendInv'
  <2>1. used' \in 0 .. budget /\ artifactUsed' \in 0 .. used'
    BY <1>b, <1>k DEF Take, Fits
  <2>2. /\ budget' = budget /\ arts' = arts /\ results' = results
        /\ taken' \subseteq Names /\ omissions' = omissions
    BY <1>b, <1>k DEF Take, input, TypeOK
  <2>3. artifactUsed' \in 0 .. budget
    BY <1>b, <2>1
  <2>4. QED
    BY <1>b, <1>k, <2>1, <2>2, <2>3 DEF SpendInv, TypeOK
<1>1. CASE ExplicitArtifact
  <2>1. Turn("explicit") /\ Advance
    BY <1>1 DEF ExplicitArtifact
  <2>2. CASE /\ ExplicitFits /\ Take /\ artifactUsed' = artifactUsed + Item.cost
             /\ UNCHANGED <<episodeUsed, instructionKeys>>
    BY <1>b, <1>t, <1>k, <2>1, <2>2 DEF ExplicitFits, TypeOK
  <2>3. QED
    BY <1>1, <1>t, <1>o, <1>l, <2>1, <2>2 DEF ExplicitArtifact, Reasons
<1>2. CASE DurableMemory
  <2>1. Turn("durable") /\ Advance
    BY <1>2 DEF DurableMemory
  <2>2. CASE /\ Fits /\ Take /\ instructionKeys' = instructionKeys \cup NewKey
             /\ UNCHANGED <<artifactUsed, episodeUsed>>
    <3>1. NewKey \subseteq {m.key : m \in MemoryShapes}
      BY <1>t, <2>1 DEF NewKey
    <3>2. QED
      BY <1>b, <1>t, <1>k, <2>1, <2>2, <3>1 DEF TypeOK
  <2>3. CASE /\ Fits /\ used' = used + Item.cost
             /\ UNCHANGED <<taken, omissions, artifactUsed, episodeUsed, instructionKeys>>
    BY <1>b, <1>t, <2>1, <2>3 DEF Fits, SpendInv, TypeOK, input
  <2>4. QED
    BY <1>2, <1>t, <1>o, <1>l, <2>1, <2>2, <2>3 DEF DurableMemory, Reasons
<1>3. CASE OrdinaryArtifact
  <2>1. Turn("ordinary") /\ Advance
    BY <1>3 DEF OrdinaryArtifact
  <2>2. CASE /\ Fits /\ Take /\ artifactUsed' = artifactUsed + Item.cost
             /\ UNCHANGED <<episodeUsed, instructionKeys>>
    BY <1>b, <1>t, <1>k, <2>1, <2>2 DEF TypeOK
  <2>3. QED
    BY <1>3, <1>t, <1>o, <1>l, <2>1, <2>2 DEF OrdinaryArtifact, Reasons
<1>4. CASE Episode
  <2>1. Turn("episodes") /\ Advance
    BY <1>4 DEF Episode
  <2>2. CASE /\ EpisodeFits /\ Fits /\ TakeEpisode
             /\ episodeUsed' = episodeUsed + Item.cost
             /\ UNCHANGED <<artifactUsed, instructionKeys>>
    <3>1. episodeUsed' \in 0 .. budget
      BY <1>b, <1>t, <2>1, <2>2 DEF EpisodeFits
    <3>2. QED
      BY <1>b, <1>t, <1>k, <2>1, <2>2, <3>1 DEF TakeEpisode, TypeOK
  <2>3. QED
    BY <1>4, <1>t, <1>o, <1>l, <2>1, <2>2 DEF Episode, Reasons
<1>5. CASE NextPass
  BY <1>b, <1>5, BudgetsAssumption
     DEF NextPass, Done, Passes, SpendInv, TypeOK, input, counters
<1>6. CASE UNCHANGED vars
  BY <1>6 DEF vars, input, counters, SpendInv, TypeOK
<1>7. QED
  BY <1>1, <1>2, <1>3, <1>4, <1>5, <1>6 DEF Next

(* Whatever the lists, costs and budget, the passes keep their variables   *)
(* in type: nothing is spent beyond the budget, in any of the three counts.*)
THEOREM ContextTypeCorrect == Spec => []TypeOK
<1>1. SpendInv => TypeOK
  BY DEF SpendInv
<1>2. QED
  BY SpendInit, SpendStep, <1>1, PTL DEF Spec

-----------------------------------------------------------------------------
(* Instruction overrides                                                   *)

(* What the code does with a repeated key: the first in the ranking is     *)
(* returned, alone.                                                        *)
FirstIsReturned ==
  /\ \A o \in omissions : o.reason = "instruction_override" =>
       \E x \in taken : Instruction(x) /\ x[2] < o.item[2] /\ SameKey(x, o.item)
  /\ \A x, y \in taken :
       Instruction(x) /\ Instruction(y) /\ SameKey(x, y) => x = y

(* The keys noted are those of the instructions returned, which the second *)
(* loop has passed.                                                        *)
KeyInv ==
  /\ \A x \in taken : Instruction(x) => pass > 2 \/ (pass = 2 /\ x[2] < pos)
  /\ \A k \in instructionKeys :
       k # NoKey /\ \E x \in taken : Instruction(x) /\ ShapeOf(x).key = k
  /\ \A x \in taken :
       Instruction(x) /\ ShapeOf(x).key # NoKey => ShapeOf(x).key \in instructionKeys
  /\ FirstIsReturned

LEMMA KeyInit == Init => KeyInv
BY DEF Init, KeyInv, FirstIsReturned

LEMMA KeyStep == TypeOK /\ KeyInv /\ [Next]_vars => KeyInv'
<1> SUFFICES ASSUME TypeOK, KeyInv, [Next]_vars
             PROVE  KeyInv'
  OBVIOUS
<1>b. pass \in Nat /\ pos \in Nat /\ \A x \in taken : x[2] \in Nat
  BY BudgetsAssumption DEF TypeOK, Names
<1>s. ASSUME input' = input
      PROVE  /\ \A x : ShapeOf(x)' = ShapeOf(x)
             /\ \A x : Instruction(x)' = Instruction(x)
             /\ \A x, y : SameKey(x, y)' = SameKey(x, y)
  BY <1>s DEF ShapeOf, Instruction, SameKey, input
<1>t. ASSUME NEW p \in {"explicit", "durable", "ordinary", "episodes"}, Turn(p), Advance
      PROVE  /\ input' = input /\ pass' = pass /\ pos' = pos + 1
             /\ Passes[pass] = p
             /\ ShapeOf(Name) = Item /\ Name[2] = pos
             /\ p \in {"explicit", "ordinary"} => Name[1] = "artifact"
             /\ p \in {"durable", "episodes"} => Name[1] = "memory"
  <2>1. ~Done /\ pos <= Len(List) /\ Passes[pass] = p
    BY <1>t DEF Turn
  <2>2. QED
    BY <1>t, <2>1, ItemType DEF Advance, OverArtifacts
(* A step that notes no key, returns no instruction and overrides none.    *)
<1>q. ASSUME input' = input,
             (pass' = pass /\ pos' = pos + 1) \/ pass' = pass + 1,
             instructionKeys' = instructionKeys,
             taken \subseteq taken', \A x \in taken' \ taken : ~Instruction(x),
             \A o \in omissions' \ omissions : o.reason # "instruction_override"
      PROVE  KeyInv'
  <2>1. \A x \in taken' : Instruction(x) => x \in taken
    BY <1>q
  <2>2. \A x \in taken' : Instruction(x) => pass' > 2 \/ (pass' = 2 /\ x[2] < pos')
    <3>1. \A x \in taken : Instruction(x) => pass > 2 \/ (pass = 2 /\ x[2] < pos)
      BY DEF KeyInv
    <3>2. CASE pass' = pass /\ pos' = pos + 1
      BY <1>b, <2>1, <3>1, <3>2
    <3>3. CASE pass' = pass + 1
      BY <1>b, <2>1, <3>1, <3>3
    <3>4. QED
      BY <1>q, <3>2, <3>3
  <2>3. FirstIsReturned'
    BY <1>s, <1>q, <2>1 DEF KeyInv, FirstIsReturned
  <2>4. QED
    BY <1>s, <1>q, <2>1, <2>2, <2>3 DEF KeyInv
<1>o. ASSUME NEW reason, reason # "instruction_override", Omit(reason),
             input' = input, pass' = pass, pos' = pos + 1
      PROVE  KeyInv'
  BY <1>q, <1>o DEF Omit
<1>l. ASSUME UNCHANGED <<taken, omissions, instructionKeys>>,
             input' = input, pass' = pass, pos' = pos + 1
      PROVE  KeyInv'
  BY <1>q, <1>l
<1>k. ASSUME Take, ~Instruction(Name), instructionKeys' = instructionKeys,
             input' = input, pass' = pass, pos' = pos + 1
      PROVE  KeyInv'
  BY <1>q, <1>k DEF Take
<1>1. CASE ExplicitArtifact
  <2>1. Turn("explicit") /\ Advance
    BY <1>1 DEF ExplicitArtifact
  <2>2. ~Instruction(Name)
    BY <1>t, <2>1 DEF Instruction
  <2>3. QED
    BY <1>1, <1>t, <1>o, <1>l, <1>k, <2>1, <2>2 DEF ExplicitArtifact, LeaveAlone
<1>2. CASE DurableMemory
  <2>1. Turn("durable") /\ Advance
    BY <1>2 DEF DurableMemory
  <2>2. pass = 2 /\ Name[1] = "memory" /\ Name[2] = pos /\ ShapeOf(Name) = Item
    BY <1>t, <2>1 DEF Passes, Turn, Done, TypeOK
  <2>3. CASE Overridden /\ Omit("instruction_override")
    <3>1. /\ Instruction(Name) /\ Item.key # NoKey
          /\ \E x \in taken : Instruction(x) /\ ShapeOf(x).key = Item.key
      BY <2>2, <2>3 DEF Overridden, KeyInv, Instruction
    <3>2. PICK x \in taken : Instruction(x) /\ x[2] < pos /\ SameKey(x, Name)
      BY <2>2, <3>1 DEF KeyInv, SameKey
    <3>3. QED
      BY <1>b, <1>s, <1>t, <2>1, <2>2, <2>3, <3>2 DEF Omit, KeyInv, FirstIsReturned
  <2>4. CASE /\ Item.type \in Returned /\ ~Overridden /\ Take
             /\ instructionKeys' = instructionKeys \cup NewKey
    <3>1. CASE ~Instruction(Name)
      <4>1. NewKey = {}
        BY <2>2, <3>1 DEF NewKey, Instruction
      <4>2. QED
        BY <1>k, <1>t, <2>1, <2>4, <3>1, <4>1
    <3>2. CASE Instruction(Name)
      <4>1. NewKey = {ShapeOf(Name).key} \ {NoKey} /\ ShapeOf(Name).key \notin instructionKeys
        BY <2>2, <2>4, <3>2 DEF NewKey, Overridden, Instruction
      <4>2. taken' = taken \cup {Name} /\ omissions' = omissions
        BY <2>4 DEF Take
      <4>3. input' = input /\ pass' = 2 /\ pos' = pos + 1
        BY <1>t, <2>1, <2>2
      <4>4. \A x \in taken' : Instruction(x) => pass' > 2 \/ (pass' = 2 /\ x[2] < pos')
        BY <1>b, <2>2, <4>2, <4>3 DEF KeyInv
      <4>5. \A k \in instructionKeys' :
              k # NoKey /\ \E x \in taken' : Instruction(x) /\ ShapeOf(x).key = k
        BY <2>4, <3>2, <4>1, <4>2 DEF KeyInv
      <4>6. \A x \in taken' :
              Instruction(x) /\ ShapeOf(x).key # NoKey => ShapeOf(x).key \in instructionKeys'
        BY <2>4, <4>1, <4>2 DEF KeyInv
      <4>7. \A x \in taken : Instruction(x) => ~SameKey(x, Name) /\ ~SameKey(Name, x)
        BY <4>1 DEF KeyInv, SameKey
      <4>8. FirstIsReturned'
        BY <1>s, <4>2, <4>3, <4>7 DEF KeyInv, FirstIsReturned
      <4>9. QED
        BY <1>s, <4>3, <4>4, <4>5, <4>6, <4>8 DEF KeyInv
    <3>3. QED
      BY <3>1, <3>2
  <2>5. CASE UNCHANGED <<taken, omissions, instructionKeys>>
    BY <1>l, <1>t, <2>1, <2>5
  <2>6. QED
    BY <1>2, <1>t, <1>o, <1>l, <2>1, <2>3, <2>4, <2>5 DEF DurableMemory, LeaveAlone
<1>3. CASE OrdinaryArtifact
  <2>1. Turn("ordinary") /\ Advance
    BY <1>3 DEF OrdinaryArtifact
  <2>2. ~Instruction(Name)
    BY <1>t, <2>1 DEF Instruction
  <2>3. QED
    BY <1>3, <1>t, <1>o, <1>l, <1>k, <2>1, <2>2 DEF OrdinaryArtifact, LeaveAlone
<1>4. CASE Episode
  <2>1. Turn("episodes") /\ Advance
    BY <1>4 DEF Episode
  <2>2. CASE Item.type = "episode"
    <3>1. ~Instruction(Name)
      BY <1>t, <2>1, <2>2 DEF Instruction
    <3>2. QED
      BY <1>4, <1>t, <1>o, <1>l, <1>k, <2>1, <3>1 DEF Episode, TakeEpisode, LeaveAlone
  <2>3. CASE Item.type # "episode"
    BY <1>4, <1>t, <1>l, <2>1, <2>3 DEF Episode, LeaveAlone
  <2>4. QED
    BY <2>2, <2>3
<1>5. CASE NextPass
  BY <1>q, <1>5 DEF NextPass
<1>6. CASE UNCHANGED vars
  BY <1>s, <1>6 DEF vars, KeyInv, FirstIsReturned
<1>7. QED
  BY <1>1, <1>2, <1>3, <1>4, <1>5, <1>6 DEF Next

(* However the memories are ranked and whatever fits, an instruction is    *)
(* dropped only for a returned one with the same key, and of two with the  *)
(* same key and scopes of different levels one at most is returned.        *)
THEOREM OverridesHaveWinners == Spec => []OverrideHasWinner
<1>1. KeyInv => OverrideHasWinner
  BY DEF KeyInv, FirstIsReturned, OverrideHasWinner
<1>2. QED
  BY ContextTypeCorrect, KeyInit, KeyStep, <1>1, PTL DEF Spec

-----------------------------------------------------------------------------
(* The turn of an item                                                     *)

(* The pass that deals with an item.                                       *)
Home(x) ==
  IF x[1] = "artifact" THEN IF ShapeOf(x).explicit THEN 1 ELSE 3
  ELSE IF ShapeOf(x).type = "episode" THEN 4 ELSE 2
Behind(x) == Home(x) < pass \/ (Home(x) = pass /\ x[2] < pos)

(* What becomes of the item whose turn it is.                              *)
LeftAlone(x) == Home(x) # pass /\ UNCHANGED <<taken, omissions, counters>>
Counted(x) ==
  /\ Home(x) = pass /\ x[1] = "memory" /\ ShapeOf(x).type \notin Types
  /\ used' = used + ShapeOf(x).cost
  /\ UNCHANGED <<taken, omissions, artifactUsed, episodeUsed>>
Omitted(x) ==
  /\ Home(x) = pass
  /\ \E reason \in Reasons :
       /\ omissions' = omissions \cup {[item |-> x, reason |-> reason]}
       /\ pass = 1 => reason = "token_budget"
       /\ pass \in {1, 2} /\ reason = "token_budget" => used + ShapeOf(x).cost > budget
  /\ UNCHANGED <<taken, counters>>
Returns(x) ==
  /\ Home(x) = pass
  /\ taken' = taken \cup {x} /\ used' = used + ShapeOf(x).cost
  /\ \/ /\ x[1] = "artifact"
        /\ artifactUsed' = artifactUsed + ShapeOf(x).cost /\ episodeUsed' = episodeUsed
        /\ pass = 3 => artifactUsed' <= budget \div 2
     \/ /\ x[1] = "memory" /\ ShapeOf(x).type \in Returned
        /\ UNCHANGED <<artifactUsed, episodeUsed>>
     \/ /\ x[1] = "memory" /\ ShapeOf(x).type = "episode"
        /\ episodeUsed' = episodeUsed + ShapeOf(x).cost /\ artifactUsed' = artifactUsed
        /\ episodeUsed' <= budget \div 5
  /\ UNCHANGED omissions

(* A turn of any of the four loops deals with the item at its position.    *)
LEMMA Turns ==
  ASSUME TypeOK, ExplicitArtifact \/ DurableMemory \/ OrdinaryArtifact \/ Episode
  PROVE  \E x \in Items :
           /\ input' = input /\ pass' = pass /\ pos' = pos + 1 /\ x[2] = pos
           /\ x[1] = "artifact" <=> pass \in {1, 3}
           /\ LeftAlone(x) \/ Counted(x) \/ Omitted(x) \/ Returns(x)
<1>t. ASSUME NEW p \in {"explicit", "durable", "ordinary", "episodes"}, Turn(p), Advance
      PROVE  \E x \in Items :
               /\ x = Name /\ x[2] = pos /\ ShapeOf(x) = Item
               /\ ~Fits => used + Item.cost > budget
               /\ input' = input /\ pass' = pass /\ pos' = pos + 1
               /\ p = "explicit" => pass = 1 /\ x[1] = "artifact"
               /\ p = "durable" => pass = 2 /\ x[1] = "memory"
               /\ p = "ordinary" => pass = 3 /\ x[1] = "artifact"
               /\ p = "episodes" => pass = 4 /\ x[1] = "memory"
  <2>1. ~Done /\ pos <= Len(List) /\ Passes[pass] = p
    BY <1>t DEF Turn
  <2>2. /\ Name[2] = pos /\ ShapeOf(Name) = Item
        /\ p \in {"explicit", "ordinary"} => Name[1] = "artifact"
        /\ p \in {"durable", "episodes"} => Name[1] = "memory"
    BY <2>1, ItemType DEF OverArtifacts
  <2>3. pass \in 1 .. 4
    BY <2>1 DEF TypeOK, Done, Passes
  <2>4. /\ p = "explicit" => pass = 1
        /\ p = "durable" => pass = 2
        /\ p = "ordinary" => pass = 3
        /\ p = "episodes" => pass = 4
    BY <2>1, <2>3 DEF Passes
  <2>5. Name \in Items
    <3>1. \E n \in 0 .. MaxArtifacts : arts \in [1 .. n -> ArtifactShapes]
      BY DEF TypeOK, Lists
    <3>2. \E n \in 0 .. MaxMemories : results \in [1 .. n -> MemoryShapes]
      BY DEF TypeOK, Lists
    <3>3. DOMAIN arts = 1 .. Len(arts) /\ DOMAIN results = 1 .. Len(results)
          /\ Len(arts) \in Nat /\ Len(results) \in Nat
      BY <3>1, <3>2
    <3>4. pos \in Nat /\ pos >= 1
      BY BudgetsAssumption DEF TypeOK
    <3>5. QED
      BY <2>1, <3>3, <3>4 DEF Name, Items, List
  <2>6. ~Fits => used + Item.cost > budget
    <3>1. Item.cost \in Nat /\ budget \in Nat /\ used \in Nat
      BY <2>1, ItemType, BudgetsAssumption DEF TypeOK
    <3>2. QED
      BY <3>1 DEF Fits
  <2>7. PICK x \in Items : x = Name
    BY <2>5
  <2>8. QED
    BY <1>t, <2>2, <2>4, <2>6, <2>7 DEF Advance
<1>1. CASE ExplicitArtifact
  <2>1. PICK x \in Items :
               /\ x = Name /\ x[2] = pos /\ ShapeOf(x) = Item
               /\ ~Fits => used + Item.cost > budget
               /\ input' = input /\ pass' = pass /\ pos' = pos + 1
               /\ pass = 1 /\ x[1] = "artifact"
    BY <1>1, <1>t DEF ExplicitArtifact
  <2>2. CASE ~Item.explicit /\ LeaveAlone
    <3>1. LeftAlone(x)
      BY <2>1, <2>2 DEF LeftAlone, LeaveAlone, Home, counters
    <3>2. QED
      BY <2>1, <3>1
  <2>3. CASE Item.explicit /\ ~ExplicitFits /\ Omit("token_budget")
    <3>1. Omitted(x)
      BY <2>1, <2>3 DEF Omitted, Omit, ExplicitFits, Home, counters, Reasons
    <3>2. QED
      BY <2>1, <3>1
  <2>4. CASE /\ Item.explicit /\ Take /\ artifactUsed' = artifactUsed + Item.cost
             /\ UNCHANGED episodeUsed
    <3>1. Returns(x)
      BY <2>1, <2>4 DEF Returns, Take, Home
    <3>2. QED
      BY <2>1, <3>1
  <2>5. QED
    BY <1>1, <2>2, <2>3, <2>4 DEF ExplicitArtifact
<1>2. CASE DurableMemory
  <2>1. PICK x \in Items :
               /\ x = Name /\ x[2] = pos /\ ShapeOf(x) = Item
               /\ ~Fits => used + Item.cost > budget
               /\ input' = input /\ pass' = pass /\ pos' = pos + 1
               /\ pass = 2 /\ x[1] = "memory"
    BY <1>2, <1>t DEF DurableMemory
  <2>2. CASE Item.type = "episode" /\ LeaveAlone
    <3>1. LeftAlone(x)
      BY <2>1, <2>2 DEF LeftAlone, LeaveAlone, Home, counters
    <3>2. QED
      BY <2>1, <3>1
  <2>3. CASE Item.type # "episode" /\ ~Fits /\ Omit("token_budget")
    <3>1. Omitted(x)
      BY <2>1, <2>3 DEF Omitted, Omit, Home, counters, Reasons
    <3>2. QED
      BY <2>1, <3>1
  <2>4. CASE Item.type # "episode" /\ Omit("instruction_override")
    <3>1. Omitted(x)
      BY <2>1, <2>4 DEF Omitted, Omit, Home, counters, Reasons
    <3>2. QED
      BY <2>1, <3>1
  <2>5. CASE Item.type \in Returned /\ Take /\ UNCHANGED <<artifactUsed, episodeUsed>>
    <3>1. Returns(x)
      BY <2>1, <2>5 DEF Returns, Take, Home, Returned
    <3>2. QED
      BY <2>1, <3>1
  <2>6. CASE /\ Item.type \notin Types /\ used' = used + Item.cost
             /\ UNCHANGED <<taken, omissions, artifactUsed, episodeUsed>>
    <3>1. Counted(x)
      BY <2>1, <2>6 DEF Counted, Home, Types
    <3>2. QED
      BY <2>1, <3>1
  <2>7. QED
    BY <1>2, <2>2, <2>3, <2>4, <2>5, <2>6 DEF DurableMemory
<1>3. CASE OrdinaryArtifact
  <2>1. PICK x \in Items :
               /\ x = Name /\ x[2] = pos /\ ShapeOf(x) = Item
               /\ ~Fits => used + Item.cost > budget
               /\ input' = input /\ pass' = pass /\ pos' = pos + 1
               /\ pass = 3 /\ x[1] = "artifact"
    BY <1>3, <1>t DEF OrdinaryArtifact
  <2>2. CASE ~Ordinary /\ LeaveAlone
    <3>1. LeftAlone(x)
      BY <2>1, <2>2 DEF LeftAlone, LeaveAlone, Home, Ordinary, counters
    <3>2. QED
      BY <2>1, <3>1
  <2>3. ASSUME NEW reason \in Reasons, Ordinary, Omit(reason)
        PROVE  Omitted(x)
    BY <2>1, <2>3 DEF Omitted, Omit, Home, Ordinary, counters
  <2>4. CASE /\ Ordinary /\ ArtifactFits /\ Take
             /\ artifactUsed' = artifactUsed + Item.cost /\ UNCHANGED episodeUsed
    <3>1. Returns(x)
      BY <2>1, <2>4 DEF Returns, Take, Home, Ordinary, ArtifactFits
    <3>2. QED
      BY <2>1, <3>1
  <2>5. CASE Ordinary /\ \E reason \in Reasons : Omit(reason)
    BY <2>1, <2>3, <2>5
  <2>6. {"irrelevant", "type_budget", "token_budget"} \subseteq Reasons
    BY DEF Reasons
  <2>7. QED
    BY <1>3, <2>2, <2>4, <2>5, <2>6 DEF OrdinaryArtifact
<1>4. CASE Episode
  <2>1. PICK x \in Items :
               /\ x = Name /\ x[2] = pos /\ ShapeOf(x) = Item
               /\ ~Fits => used + Item.cost > budget
               /\ input' = input /\ pass' = pass /\ pos' = pos + 1
               /\ pass = 4 /\ x[1] = "memory"
    BY <1>4, <1>t DEF Episode
  <2>2. CASE Item.type # "episode" /\ LeaveAlone
    <3>1. LeftAlone(x)
      BY <2>1, <2>2 DEF LeftAlone, LeaveAlone, Home, counters
    <3>2. QED
      BY <2>1, <3>1
  <2>3. ASSUME NEW reason \in Reasons, Item.type = "episode", Omit(reason)
        PROVE  Omitted(x)
    BY <2>1, <2>3 DEF Omitted, Omit, Home, counters
  <2>4. CASE /\ Item.type = "episode" /\ EpisodeFits /\ TakeEpisode
             /\ episodeUsed' = episodeUsed + Item.cost /\ UNCHANGED artifactUsed
    <3>1. Returns(x)
      BY <2>1, <2>4 DEF Returns, TakeEpisode, Take, Home, EpisodeFits
    <3>2. QED
      BY <2>1, <3>1
  <2>5. CASE Item.type = "episode" /\ \E reason \in Reasons : Omit(reason)
    BY <2>1, <2>3, <2>5
  <2>6. {"type_budget", "token_budget"} \subseteq Reasons
    BY DEF Reasons
  <2>7. QED
    BY <1>4, <2>2, <2>4, <2>5, <2>6 DEF Episode
<1>5. QED
  BY <1>1, <1>2, <1>3, <1>4

(* A step of the passes is the turn of an item or goes to the next pass.   *)
LEMMA StepKeepsInput ==
  ASSUME [Next]_vars
  PROVE  /\ input' = input /\ Items' = Items
         /\ \A x : ShapeOf(x)' = ShapeOf(x)
         /\ \A x : Home(x)' = Home(x)
<1>1. input' = input
  BY DEF Next, vars, ExplicitArtifact, DurableMemory, OrdinaryArtifact, Episode, NextPass,
     Advance
<1>2. \A x : ShapeOf(x)' = ShapeOf(x)
  BY <1>1 DEF input, ShapeOf
<1>3. QED
  BY <1>1, <1>2 DEF Home, Items, input

(* Every item is an artifact or a memory of one of the two lists.          *)
LEMMA ItemsAre ==
  ASSUME TypeOK
  PROVE  /\ DOMAIN arts = 1 .. Len(arts) /\ Len(arts) \in Nat
         /\ DOMAIN results = 1 .. Len(results) /\ Len(results) \in Nat
         /\ \A x \in Items : /\ x = <<x[1], x[2]>> /\ x[2] \in Nat /\ x[2] >= 1
                             /\ x[1] \in {"artifact", "memory"}
                             /\ x[1] = "artifact" <=> Home(x) \in {1, 3}
                             /\ x[1] = "memory" <=> Home(x) \in {2, 4}
                             /\ x[1] = "artifact" => x[2] \in DOMAIN arts
                             /\ x[1] = "memory" => x[2] \in DOMAIN results
                             /\ ShapeOf(x).cost \in Nat
         /\ pass \in 1 .. 5 /\ pos \in Nat /\ pos >= 1
         /\ ~Done => pass \in 1 .. 4
<1>1. PICK a \in 0 .. MaxArtifacts : arts \in [1 .. a -> ArtifactShapes]
  BY DEF TypeOK, Lists
<1>2. PICK m \in 0 .. MaxMemories : results \in [1 .. m -> MemoryShapes]
  BY DEF TypeOK, Lists
<1>3. /\ DOMAIN arts = 1 .. Len(arts) /\ Len(arts) \in Nat
      /\ DOMAIN results = 1 .. Len(results) /\ Len(results) \in Nat
      /\ \A i \in DOMAIN arts : arts[i].cost \in Nat
      /\ \A i \in DOMAIN results : results[i].cost \in Nat
  BY <1>1, <1>2, ShapesAssumption
<1>4. ASSUME NEW x \in Items
      PROVE  /\ x = <<x[1], x[2]>> /\ x[2] \in Nat /\ x[2] >= 1
             /\ x[1] \in {"artifact", "memory"}
             /\ x[1] = "artifact" <=> Home(x) \in {1, 3}
             /\ x[1] = "memory" <=> Home(x) \in {2, 4}
             /\ x[1] = "artifact" => x[2] \in DOMAIN arts
             /\ x[1] = "memory" => x[2] \in DOMAIN results
             /\ ShapeOf(x).cost \in Nat
  <2>1. CASE \E n \in DOMAIN arts : x = <<"artifact", n>>
    BY <1>3, <2>1 DEF Home, ShapeOf
  <2>2. CASE \E n \in DOMAIN results : x = <<"memory", n>>
    BY <1>3, <2>2 DEF Home, ShapeOf
  <2>3. QED
    BY <2>1, <2>2 DEF Items
<1>5. pass \in 1 .. 5 /\ pos \in Nat /\ pos >= 1 /\ (~Done => pass \in 1 .. 4)
  BY BudgetsAssumption DEF TypeOK, Done, Passes
<1>6. QED
  BY <1>3, <1>4, <1>5

(* The lists are finite, so sums over items mean what they should.         *)
LEMMA ItemsAreFinite == TypeOK => IsFiniteSet(Items)
<1> SUFFICES ASSUME TypeOK
             PROVE  IsFiniteSet(Items)
  OBVIOUS
<1>1. IsFiniteSet({"artifact", "memory"})
  <2>1. IsFiniteSet({"artifact"})
    BY FS_Singleton
  <2>2. IsFiniteSet({"artifact"} \cup {"memory"})
    BY <2>1, FS_AddElement
  <2>3. QED
    BY <2>2
<1>2. IsFiniteSet(DOMAIN arts \cup DOMAIN results)
  <2>1. IsFiniteSet(DOMAIN arts) /\ IsFiniteSet(DOMAIN results)
    BY ItemsAre, FS_Interval
  <2>2. QED
    BY <2>1, FS_Union
<1>3. IsFiniteSet({"artifact", "memory"} \X (DOMAIN arts \cup DOMAIN results))
  BY <1>1, <1>2, FS_Product
<1>4. Items \in SUBSET ({"artifact", "memory"} \X (DOMAIN arts \cup DOMAIN results))
  BY DEF Items
<1>5. QED
  BY <1>3, <1>4, FS_Subset

(* A turn puts its item behind when this is the item's pass, and nothing   *)
(* else; the next pass begins when all of this one are behind.             *)
LEMMA TurnMoves ==
  ASSUME TypeOK, [Next]_vars, NEW n \in Items, n[2] = pos,
         n[1] = "artifact" <=> pass \in {1, 3}, pass' = pass, pos' = pos + 1,
         NEW x \in Items
  PROVE  /\ Home(n) = pass => ~Behind(n)
         /\ Behind(x)' <=> Behind(x) \/ (x = n /\ Home(n) = pass)
<1>1. /\ x[2] \in Nat /\ n[2] \in Nat /\ pos \in Nat /\ Home(x) \in 1 .. 4 /\ Home(n) \in 1 .. 4
      /\ pass \in Nat
  BY ItemsAre DEF Home
<1>2. Home(x)' = Home(x)
  BY StepKeepsInput
<1>3. ASSUME Home(x) = pass, x[2] = pos
      PROVE  x = n
  <2>1. x[1] = n[1]
    BY <1>3, ItemsAre
  <2>2. x = <<x[1], x[2]>> /\ n = <<n[1], n[2]>>
    BY ItemsAre
  <2>3. QED
    BY <1>3, <2>1, <2>2
<1>4. Home(n) = pass => ~Behind(n)
  BY <1>1 DEF Behind
<1>5. Behind(x)' <=> Home(x) < pass \/ (Home(x) = pass /\ x[2] < pos + 1)
  BY <1>2 DEF Behind
<1>6. Behind(x)' <=> Behind(x) \/ (Home(x) = pass /\ x[2] = pos)
  BY <1>1, <1>5 DEF Behind
<1>7. Home(x) = pass /\ x[2] = pos <=> x = n /\ Home(n) = pass
  BY <1>3
<1>8. QED
  BY <1>4, <1>6, <1>7

(* The end of a loop puts no item behind that was not.                     *)
LEMMA PassMoves ==
  ASSUME TypeOK, NextPass, NEW x \in Items
  PROVE  Behind(x)' <=> Behind(x)
<1>1. /\ x[2] \in Nat /\ x[2] >= 1 /\ pos \in Nat /\ Home(x) \in 1 .. 4 /\ pass \in 1 .. 4
      /\ pass' = pass + 1 /\ pos' = 1 /\ pos > Len(List)
  BY ItemsAre DEF Home, NextPass
<1>2. Home(x)' = Home(x)
  BY StepKeepsInput DEF Next
<1>3. Home(x) = pass => x[2] < pos
  <2>1. ASSUME Home(x) = pass
        PROVE  x[2] <= Len(List)
    <3>1. CASE pass \in {1, 3}
      <4>1. List = arts /\ x[1] = "artifact"
        BY <2>1, <3>1, ItemsAre DEF List, OverArtifacts, Passes
      <4>2. QED
        BY <4>1, ItemsAre
    <3>2. CASE pass \in {2, 4}
      <4>1. List = results /\ x[1] = "memory"
        BY <2>1, <3>2, ItemsAre DEF List, OverArtifacts, Passes
      <4>2. QED
        BY <4>1, ItemsAre
    <3>3. QED
      BY <1>1, <3>1, <3>2
  <2>2. Len(List) \in Nat
    BY ItemsAre DEF List
  <2>3. QED
    BY <1>1, <2>1, <2>2
<1>4. Behind(x)' <=> Home(x) < pass + 1 \/ (Home(x) = pass + 1 /\ x[2] < 1)
  BY <1>1, <1>2 DEF Behind
<1>5. QED
  BY <1>1, <1>3, <1>4 DEF Behind

-----------------------------------------------------------------------------
(* Every item is answered once                                             *)

Mentioned(x) == \E o \in omissions : o.item = x
Proper(x) == x[1] = "artifact" \/ ShapeOf(x).type \in Types

(* What is returned or omitted is behind, and what is behind is one of the *)
(* two.                                                                    *)
AnswerInv ==
  /\ \A x \in taken : x \in Items /\ Behind(x) /\ Proper(x)
  /\ \A o \in omissions : o.item \in Items /\ Behind(o.item) /\ o.item \notin taken
  /\ \A o, p \in omissions : o.item = p.item => o = p
  /\ \A x \in Items : Behind(x) /\ Proper(x) => x \in taken \/ Mentioned(x)

LEMMA AnswerInit == Init => AnswerInv
<1> SUFFICES ASSUME Init
             PROVE  AnswerInv
  OBVIOUS
<1>1. taken = {} /\ omissions = {} /\ pass = 1 /\ pos = 1
  BY DEF Init
<1>2. ASSUME NEW x \in Items
      PROVE  ~Behind(x)
  <2>1. Home(x) \in 1 .. 4
    BY DEF Home
  <2>2. x[2] \in Nat /\ x[2] >= 1
    <3>1. PICK a \in 0 .. MaxArtifacts : arts \in [1 .. a -> ArtifactShapes]
      BY DEF Init, Lists
    <3>2. PICK m \in 0 .. MaxMemories : results \in [1 .. m -> MemoryShapes]
      BY DEF Init, Lists
    <3>3. QED
      BY <3>1, <3>2 DEF Items
  <2>3. QED
    BY <1>1, <2>1, <2>2 DEF Behind
<1>3. QED
  BY <1>1, <1>2 DEF AnswerInv

LEMMA AnswerStep == TypeOK /\ AnswerInv /\ [Next]_vars => AnswerInv'
<1> SUFFICES ASSUME TypeOK, AnswerInv, [Next]_vars
             PROVE  AnswerInv'
  OBVIOUS
<1>s. Items' = Items /\ \A x : Proper(x)' = Proper(x)
  BY StepKeepsInput DEF Proper
<1>1. CASE ExplicitArtifact \/ DurableMemory \/ OrdinaryArtifact \/ Episode
  <2>1. PICK n \in Items :
           /\ input' = input /\ pass' = pass /\ pos' = pos + 1 /\ n[2] = pos
           /\ n[1] = "artifact" <=> pass \in {1, 3}
           /\ LeftAlone(n) \/ Counted(n) \/ Omitted(n) \/ Returns(n)
    BY <1>1, Turns
  <2>2. /\ Home(n) = pass => ~Behind(n)
        /\ \A x \in Items : Behind(x)' <=> Behind(x) \/ (x = n /\ Home(n) = pass)
    BY <2>1, TurnMoves
  <2>3. CASE LeftAlone(n)
    BY <1>s, <2>2, <2>3 DEF LeftAlone, AnswerInv, Mentioned
  <2>4. CASE Counted(n)
    <3>1. ~Proper(n)
      BY <2>4 DEF Counted, Proper
    <3>2. QED
      BY <1>s, <2>2, <2>4, <3>1 DEF Counted, AnswerInv, Mentioned
  <2>5. CASE Omitted(n)
    <3>1. PICK reason \in Reasons :
            omissions' = omissions \cup {[item |-> n, reason |-> reason]}
      BY <2>5 DEF Omitted
    <3>2. PICK o : o = [item |-> n, reason |-> reason]
      OBVIOUS
    <3>3. o.item = n /\ omissions' = omissions \cup {o} /\ taken' = taken /\ ~Behind(n)
          /\ Home(n) = pass
      BY <2>2, <2>5, <3>1, <3>2 DEF Omitted
    <3>4. n \notin taken /\ \A p \in omissions : p.item # n
      BY <3>3 DEF AnswerInv
    <3>5. \A x \in taken' : x \in Items' /\ Behind(x)' /\ Proper(x)'
      BY <1>s, <2>2, <3>3 DEF AnswerInv
    <3>6. \A p \in omissions' : p.item \in Items' /\ Behind(p.item)' /\ p.item \notin taken'
      BY <1>s, <2>2, <3>3, <3>4 DEF AnswerInv
    <3>7. \A p, q \in omissions' : p.item = q.item => p = q
      BY <3>3, <3>4 DEF AnswerInv
    <3>8. \A x \in Items' : Behind(x)' /\ Proper(x)' => x \in taken' \/ Mentioned(x)'
      BY <1>s, <2>2, <3>3 DEF AnswerInv, Mentioned
    <3>9. QED
      BY <3>5, <3>6, <3>7, <3>8 DEF AnswerInv
  <2>6. CASE Returns(n)
    <3>1. /\ taken' = taken \cup {n} /\ omissions' = omissions /\ Home(n) = pass /\ Proper(n)
      BY <2>6 DEF Returns, Proper, Types
    <3>2. \A p \in omissions : p.item # n
      BY <2>2, <3>1 DEF AnswerInv
    <3>3. QED
      BY <1>s, <2>2, <3>1, <3>2 DEF AnswerInv, Mentioned
  <2>7. QED
    BY <2>1, <2>3, <2>4, <2>5, <2>6
<1>2. CASE NextPass
  <2>1. \A x \in Items : Behind(x)' <=> Behind(x)
    BY <1>2, PassMoves
  <2>2. QED
    BY <1>s, <1>2, <2>1 DEF NextPass, AnswerInv, Mentioned
<1>3. CASE UNCHANGED vars
  <2>1. \A x : Behind(x)' <=> Behind(x)
    BY <1>3, StepKeepsInput DEF vars, Behind
  <2>2. QED
    BY <1>s, <1>3, <2>1 DEF vars, AnswerInv, Mentioned
<1>4. QED
  BY <1>1, <1>2, <1>3 DEF Next

LEMMA AnswerAlways == Spec => [](TypeOK /\ AnswerInv)
BY ContextTypeCorrect, AnswerInit, AnswerStep, PTL DEF Spec

(* However the lists are ordered and the budget falls: the four passes     *)
(* together answer every item once, returned or omitted for one reason.    *)
THEOREM EveryItemIsAnswered == Spec => []AnsweredOnce
<1>1. TypeOK /\ AnswerInv => AnsweredOnce
  <2> SUFFICES ASSUME TypeOK, AnswerInv
               PROVE  AnsweredOnce
    OBVIOUS
  <2>1. ASSUME Done, NEW x \in Items, Proper(x)
        PROVE  Answered(x)
    <3>1. pass > 4 /\ pass \in Nat
      BY <2>1, ItemsAre DEF Done, Passes
    <3>2. Home(x) \in 1 .. 4
      BY DEF Home
    <3>3. Behind(x)
      BY <3>1, <3>2 DEF Behind
    <3>4. x \in taken \/ Mentioned(x)
      BY <2>1, <3>3 DEF AnswerInv
    <3>5. x \in taken => ~Mentioned(x)
      BY DEF AnswerInv, Mentioned
    <3>6. QED
      BY <3>4, <3>5 DEF Answered, Mentioned
  <2>2. QED
    BY <2>1 DEF AnsweredOnce, AnswerInv, Proper
<1>2. QED
  BY AnswerAlways, <1>1, PTL

-----------------------------------------------------------------------------
(* What the items cost                                                     *)

CostOf == [x \in Items |-> ShapeOf(x).cost]

(* The sums of the properties are sums of the items' costs.                *)
LEMMA SpentIsTotal ==
  ASSUME TypeOK, NEW S \in SUBSET Items
  PROVE  Spent(S) = Total(CostOf, S)
<1> DEFINE P(h) == h = [s \in SUBSET S |-> IF s = {} THEN 0
                          ELSE ShapeOf(CHOOSE x \in s : TRUE).cost
                                 + h[s \ {CHOOSE x \in s : TRUE}]]
<1>1. Spent(S) = (CHOOSE h : P(h))[S]
  BY DEF Spent, MapThenSumSet, MapThenFoldSet
<1>2. IsFiniteSet(S)
  BY ItemsAreFinite, FS_Subset
<1>3. PICK c : c = CostOf
  OBVIOUS
<1>4. \A h : P(h) <=> IsSum(h, c, S)
  <2>1. \A s \in SUBSET S : s # {} =>
          c[CHOOSE x \in s : TRUE] = ShapeOf(CHOOSE x \in s : TRUE).cost
    BY <1>3 DEF CostOf
  <2>2. ASSUME NEW h
        PROVE  [s \in SUBSET S |-> IF s = {} THEN 0
                          ELSE ShapeOf(CHOOSE x \in s : TRUE).cost
                                 + h[s \ {CHOOSE x \in s : TRUE}]]
               = [s \in SUBSET S |-> IF s = {} THEN 0
                          ELSE c[CHOOSE x \in s : TRUE] + h[s \ {CHOOSE x \in s : TRUE}]]
    BY <2>1
  <2>3. QED
    BY <2>2 DEF IsSum, Chosen
<1>5. PICK g : IsSum(g, c, S)
  BY <1>2, SumExists
<1>6. PICK h : h = CHOOSE f : P(f)
  OBVIOUS
<1>7. P(h)
  <2>1. P(g)
    BY <1>4, <1>5
  <2> HIDE DEF P
  <2>2. QED
    BY <1>6, <2>1
<1>8. Total(c, S) = h[S]
  BY <1>2, <1>4, <1>7, TotalIs
<1>9. QED
  BY <1>1, <1>3, <1>6, <1>8

(* The sets the budget is about, and how a returned item joins them.       *)
LEMMA TakenSets ==
  ASSUME TypeOK, AnswerInv
  PROVE  /\ IsFiniteSet(Items) /\ Counts(CostOf, Items)
         /\ taken \in SUBSET Items
         /\ TakenArtifacts \in SUBSET taken /\ TakenMemories \in SUBSET taken
         /\ Explicit \in SUBSET taken /\ Durable \in SUBSET taken
         /\ \A x \in Items : CostOf[x] = ShapeOf(x).cost
<1>1. Counts(CostOf, Items)
  BY ItemsAre DEF Counts, CostOf
<1>2. QED
  BY <1>1, ItemsAreFinite
     DEF AnswerInv, TakenArtifacts, TakenMemories, Explicit, Durable, CostOf

(* What holds of a set of costs holds of its parts.                        *)
LEMMA PartsCount ==
  ASSUME NEW c, NEW I, IsFiniteSet(I), Counts(c, I), NEW S \in SUBSET I
  PROVE  IsFiniteSet(S) /\ Counts(c, S) /\ Total(c, S) \in Nat
<1>1. IsFiniteSet(S) /\ Counts(c, S)
  BY FS_Subset DEF Counts
<1>2. QED
  BY <1>1, TotalType

(* An item returned adds its cost to the sum it belongs to.                *)
LEMMA PartGrows ==
  ASSUME NEW c, NEW I, IsFiniteSet(I), Counts(c, I), NEW S \in SUBSET I,
         NEW x \in I, x \notin S
  PROVE  Total(c, S \cup {x}) = Total(c, S) + c[x] /\ c[x] \in Nat
<1>1. S \cup {x} \in SUBSET I
  OBVIOUS
<1>2. IsFiniteSet(S) /\ Counts(c, S \cup {x})
  <2>1. IsFiniteSet(S)
    BY FS_Subset
  <2>2. QED
    BY <1>1, <2>1 DEF Counts
<1>3. QED
  BY <1>2, TotalAdd

-----------------------------------------------------------------------------
(* The budget                                                              *)

AllProper == \A n \in DOMAIN results : results[n].type \in Types
Episodes == TakenMemories \ Durable

(* The counters are sums of what is taken.  Before the second pass nothing *)
(* has been counted and dropped; later that depends on the types.          *)
SumInv ==
  /\ artifactUsed = Total(CostOf, TakenArtifacts)
  /\ episodeUsed = Total(CostOf, Episodes)
  /\ Total(CostOf, taken) <= used
  /\ AllProper \/ pass = 1 => used = Total(CostOf, taken)
  /\ TakenArtifacts = Explicit \/ artifactUsed <= budget \div 2
  /\ episodeUsed <= budget \div 5

(* What stood in the way of an item that did not fit.                      *)
ExplicitBefore(x) == {y \in Explicit : y[2] < x[2]}
Crowd(x) == Explicit \cup {y \in Durable : y[2] < x[2]}
CrowdInv ==
  /\ \A o \in omissions : Home(o.item) = 1 =>
       /\ o.reason = "token_budget"
       /\ Total(CostOf, ExplicitBefore(o.item)) + CostOf[o.item] > budget
  /\ AllProper => \A o \in omissions : Home(o.item) = 2 /\ o.reason = "token_budget" =>
       Total(CostOf, Crowd(o.item)) + CostOf[o.item] > budget

LEMMA SumInit == Init => SumInv /\ CrowdInv
<1> SUFFICES ASSUME Init
             PROVE  SumInv /\ CrowdInv
  OBVIOUS
<1>1. /\ taken = {} /\ omissions = {} /\ pass = 1 /\ used = 0 /\ artifactUsed = 0
      /\ episodeUsed = 0 /\ budget \in Nat
  BY BudgetsAssumption DEF Init
<1>2. TakenArtifacts = {} /\ Explicit = {} /\ Episodes = {}
  BY <1>1 DEF TakenArtifacts, TakenMemories, Explicit, Episodes
<1>3. Total(CostOf, {}) = 0
  <2>1. PICK c : c = CostOf
    OBVIOUS
  <2>2. QED
    BY <2>1, TotalOfNone
<1>4. 0 <= budget \div 5
  BY <1>1
<1>5. SumInv
  BY <1>1, <1>2, <1>3, <1>4 DEF SumInv
<1>6. CrowdInv
  BY <1>1 DEF CrowdInv
<1>7. QED
  BY <1>5, <1>6

(* How a turn changes the sets: the item it returns joins those of its     *)
(* kind.                                                                   *)
LEMMA SetsStay ==
  ASSUME [Next]_vars, taken' = taken
  PROVE  /\ CostOf' = CostOf /\ AllProper' = AllProper
         /\ TakenArtifacts' = TakenArtifacts /\ Explicit' = Explicit
         /\ Durable' = Durable /\ Episodes' = Episodes
<1>1. input' = input /\ Items' = Items /\ \A x : ShapeOf(x)' = ShapeOf(x)
  BY StepKeepsInput
<1>2. CostOf' = CostOf /\ AllProper' = AllProper
  BY <1>1 DEF CostOf, AllProper, input
<1>3. TakenArtifacts' = TakenArtifacts /\ TakenMemories' = TakenMemories
  BY DEF TakenArtifacts, TakenMemories
<1>4. Explicit' = Explicit /\ Durable' = Durable
  BY <1>1, <1>3 DEF Explicit, Durable
<1>5. QED
  BY <1>2, <1>3, <1>4 DEF Episodes

(* Which of the sets in SumInv an item that is returned belongs to.        *)
LEMMA SetsGrow ==
  ASSUME TypeOK, AnswerInv, [Next]_vars, NEW n \in Items, Returns(n), ~Behind(n)
  PROVE  /\ CostOf' = CostOf /\ AllProper' = AllProper
         /\ n \notin taken /\ taken' = taken \cup {n}
         /\ n[1] = "artifact" =>
              /\ TakenArtifacts' = TakenArtifacts \cup {n} /\ Durable' = Durable
              /\ Episodes' = Episodes
              /\ Explicit' = IF pass = 1 THEN Explicit \cup {n} ELSE Explicit
         /\ n[1] = "memory" =>
              /\ TakenArtifacts' = TakenArtifacts /\ Explicit' = Explicit
              /\ pass = 2 => Durable' = Durable \cup {n} /\ Episodes' = Episodes
              /\ pass = 4 => Durable' = Durable /\ Episodes' = Episodes \cup {n}
<1>1. input' = input /\ Items' = Items /\ \A x : ShapeOf(x)' = ShapeOf(x)
  BY StepKeepsInput
<1>2. CostOf' = CostOf /\ AllProper' = AllProper
  BY <1>1 DEF CostOf, AllProper, input
<1>3. n \notin taken /\ taken' = taken \cup {n} /\ Home(n) = pass /\ Proper(n)
  BY DEF AnswerInv, Returns, Proper, Types
<1>4. CASE n[1] = "artifact"
  <2>1. TakenArtifacts' = TakenArtifacts \cup {n}
    BY <1>3, <1>4 DEF TakenArtifacts
  <2>2. TakenMemories' = TakenMemories
    BY <1>3, <1>4 DEF TakenArtifacts, TakenMemories
  <2>3. Durable' = Durable /\ Episodes' = Episodes
    BY <1>1, <2>2 DEF Durable, Episodes
  <2>4. pass = 1 <=> ShapeOf(n).explicit
    BY <1>3, <1>4 DEF Home
  <2>5. Explicit' = IF pass = 1 THEN Explicit \cup {n} ELSE Explicit
    <3>1. Explicit' = {x \in TakenArtifacts \cup {n} : ShapeOf(x).explicit}
      BY <1>1, <2>1 DEF Explicit
    <3>2. QED
      BY <2>4, <3>1 DEF Explicit
  <2>6. QED
    BY <1>2, <1>3, <1>4, <2>1, <2>3, <2>5
<1>5. CASE n[1] = "memory"
  <2>1. TakenArtifacts' = TakenArtifacts
    BY <1>3, <1>5 DEF TakenArtifacts
  <2>2. TakenMemories' = TakenMemories \cup {n} /\ n \notin TakenMemories
    BY <1>3, <1>5 DEF TakenArtifacts, TakenMemories
  <2>3. Explicit' = Explicit
    BY <1>1, <2>1 DEF Explicit
  <2>4. Durable' = {x \in TakenMemories \cup {n} : ShapeOf(x).type \in Returned}
    BY <1>1, <2>2 DEF Durable
  <2>5. pass = 2 => Durable' = Durable \cup {n} /\ Episodes' = Episodes
    <3>1. pass = 2 => ShapeOf(n).type \in Returned
      BY <1>3, <1>5 DEF Home, Proper, Types
    <3>2. pass = 2 => Durable' = Durable \cup {n}
      BY <2>4, <3>1 DEF Durable
    <3>3. QED
      BY <2>2, <3>2 DEF Episodes, Durable
  <2>6. pass = 4 => Durable' = Durable /\ Episodes' = Episodes \cup {n}
    <3>1. pass = 4 => ShapeOf(n).type \notin Returned
      BY <1>3, <1>5 DEF Home, Returned
    <3>2. pass = 4 => Durable' = Durable
      BY <2>4, <3>1 DEF Durable
    <3>3. QED
      BY <2>2, <3>2 DEF Episodes, Durable
  <2>7. QED
    BY <1>2, <1>3, <1>5, <2>1, <2>3, <2>5, <2>6
<1>6. QED
  BY <1>4, <1>5 DEF Returns

LEMMA SumStep == TypeOK /\ AnswerInv /\ SumInv /\ [Next]_vars => SumInv'
<1> SUFFICES ASSUME TypeOK, AnswerInv, SumInv, [Next]_vars
             PROVE  SumInv'
  OBVIOUS
<1>a. /\ IsFiniteSet(Items) /\ Counts(CostOf, Items) /\ taken \in SUBSET Items
      /\ TakenArtifacts \in SUBSET taken /\ Episodes \in SUBSET taken
      /\ \A x \in Items : CostOf[x] = ShapeOf(x).cost
  BY TakenSets DEF Episodes
<1>d. PICK c : c = CostOf
  OBVIOUS
<1>e. PICK I : I = Items
  OBVIOUS
<1>f. PICK A : A = TakenArtifacts
  OBVIOUS
<1>g. PICK E : E = Episodes
  OBVIOUS
<1>h. PICK T : T = taken
  OBVIOUS
<1>c. /\ c = CostOf /\ I = Items /\ A = TakenArtifacts /\ E = Episodes /\ T = taken
      /\ IsFiniteSet(I) /\ Counts(c, I)
      /\ A \in SUBSET I /\ E \in SUBSET I /\ T \in SUBSET I
      /\ A \in SUBSET T /\ E \in SUBSET T
      /\ \A x \in I : c[x] = ShapeOf(x).cost
  BY <1>a, <1>d, <1>e, <1>f, <1>g, <1>h
<1>n. /\ Total(c, A) \in Nat /\ Total(c, E) \in Nat /\ Total(c, T) \in Nat
      /\ used \in Nat /\ artifactUsed \in Nat /\ episodeUsed \in Nat /\ budget \in Nat
  BY <1>c, PartsCount, BudgetsAssumption DEF TypeOK
<1>v. /\ artifactUsed = Total(c, A) /\ episodeUsed = Total(c, E) /\ Total(c, T) <= used
      /\ AllProper \/ pass = 1 => used = Total(c, T)
      /\ A = Explicit \/ artifactUsed <= budget \div 2
      /\ episodeUsed <= budget \div 5
  BY <1>c DEF SumInv
<1>i. budget' = budget
  BY StepKeepsInput DEF input
(* Nothing is returned, and the counters stay.                             *)
<1>q. ASSUME taken' = taken, counters' = counters, pass' = 1 => pass = 1
      PROVE  SumInv'
  <2>1. /\ CostOf' = c /\ AllProper' = AllProper /\ TakenArtifacts' = A /\ Explicit' = Explicit
        /\ Episodes' = E /\ taken' = T
    BY <1>c, <1>q, SetsStay
  <2>2. QED
    BY <1>i, <1>q, <1>v, <2>1 DEF SumInv, counters
<1>1. CASE ExplicitArtifact \/ DurableMemory \/ OrdinaryArtifact \/ Episode
  <2>1. PICK n \in Items :
           /\ input' = input /\ pass' = pass /\ pos' = pos + 1 /\ n[2] = pos
           /\ n[1] = "artifact" <=> pass \in {1, 3}
           /\ LeftAlone(n) \/ Counted(n) \/ Omitted(n) \/ Returns(n)
    BY <1>1, Turns
  <2>2. Home(n) = pass => ~Behind(n)
    BY <2>1, TurnMoves
  <2>3. CASE LeftAlone(n) \/ Omitted(n)
    BY <1>q, <2>1, <2>3 DEF LeftAlone, Omitted, counters
  <2>4. CASE Counted(n)
    <3>1. /\ CostOf' = c /\ AllProper' = AllProper /\ TakenArtifacts' = A
          /\ Explicit' = Explicit /\ Episodes' = E /\ taken' = T
      BY <1>c, <2>4, SetsStay DEF Counted
    <3>2. n \in Items /\ n[1] = "memory" => n[2] \in DOMAIN results
      BY ItemsAre
    <3>3. ~AllProper /\ pass # 1
      BY <2>1, <2>4, <3>2 DEF Counted, AllProper, ShapeOf
    <3>4. used' = used + c[n] /\ c[n] \in Nat
      BY <1>c, <2>4 DEF Counted, Counts
    <3>5. Total(c, T) <= used'
      BY <1>n, <1>v, <3>4
    <3>6. QED
      BY <1>i, <1>v, <2>1, <2>4, <3>1, <3>3, <3>5 DEF SumInv, Counted
  <2>5. CASE Returns(n)
    <3>1. /\ CostOf' = c /\ AllProper' = AllProper
          /\ n \notin T /\ taken' = T \cup {n}
          /\ used' = used + c[n] /\ c[n] \in Nat /\ Home(n) = pass
          /\ n[1] = "artifact" <=> pass \in {1, 3}
          /\ n[1] = "memory" <=> pass \in {2, 4}
      <4>1. Home(n) = pass
        BY <2>5 DEF Returns
      <4>2. used' = used + c[n] /\ c[n] \in Nat
        BY <1>c, <2>5 DEF Returns, Counts
      <4>3. n[1] = "artifact" <=> pass \in {1, 3}
        BY <2>1
      <4>4. n[1] = "memory" <=> pass \in {2, 4}
        BY <4>1, ItemsAre
      <4>5. QED
        BY <1>c, <2>2, <2>5, <4>1, <4>2, <4>3, <4>4, SetsGrow
    <3>2. Total(c, T \cup {n}) = Total(c, T) + c[n]
      BY <1>c, <3>1, PartGrows
    <3>3. /\ Total(CostOf', taken') <= used'
          /\ AllProper' \/ pass' = 1 => used' = Total(CostOf', taken')
      BY <1>n, <1>v, <2>1, <3>1, <3>2
    <3>4. CASE n[1] = "artifact"
      <4>1. /\ TakenArtifacts' = A \cup {n} /\ Episodes' = E
            /\ Explicit' = IF pass = 1 THEN Explicit \cup {n} ELSE Explicit
        BY <1>c, <2>2, <2>5, <3>1, <3>4, SetsGrow
      <4>2. n \notin A
        BY <1>c, <3>1
      <4>3. Total(c, A \cup {n}) = Total(c, A) + c[n]
        BY <1>c, <4>2, PartGrows
      <4>4. /\ artifactUsed' = artifactUsed + c[n] /\ episodeUsed' = episodeUsed
            /\ pass = 3 => artifactUsed' <= budget \div 2
        BY <1>c, <2>5, <3>4 DEF Returns
      <4>5. artifactUsed' = Total(CostOf', TakenArtifacts')
        BY <1>v, <3>1, <4>1, <4>3, <4>4
      <4>6. TakenArtifacts' = Explicit' \/ artifactUsed' <= budget \div 2
        <5>1. pass = 1 => A = Explicit
          <6>1. ASSUME pass = 1, NEW x \in taken, x[1] = "artifact"
                PROVE  ShapeOf(x).explicit
            BY <6>1 DEF AnswerInv, Behind, Home
          <6>2. QED
            BY <1>c, <6>1 DEF TakenArtifacts, Explicit
        <5>2. QED
          BY <3>1, <3>4, <4>1, <4>4, <5>1
      <4>7. QED
        BY <1>i, <1>v, <3>1, <3>3, <4>1, <4>4, <4>5, <4>6 DEF SumInv
    <3>5. CASE n[1] = "memory" /\ pass = 2
      <4>1. TakenArtifacts' = A /\ Episodes' = E /\ Explicit' = Explicit
        BY <1>c, <2>2, <2>5, <3>1, <3>5, SetsGrow
      <4>2. UNCHANGED <<artifactUsed, episodeUsed>>
        BY <2>5, <3>5, <3>1 DEF Returns, Home, Returned
      <4>3. QED
        BY <1>i, <1>v, <3>1, <3>3, <4>1, <4>2 DEF SumInv
    <3>6. CASE n[1] = "memory" /\ pass = 4
      <4>1. TakenArtifacts' = A /\ Episodes' = E \cup {n} /\ Explicit' = Explicit
        BY <1>c, <2>2, <2>5, <3>1, <3>6, SetsGrow
      <4>2. n \notin E
        BY <1>c, <3>1
      <4>3. Total(c, E \cup {n}) = Total(c, E) + c[n]
        BY <1>c, <4>2, PartGrows
      <4>4. /\ artifactUsed' = artifactUsed /\ episodeUsed' = episodeUsed + c[n]
            /\ episodeUsed' <= budget \div 5
        BY <1>c, <2>5, <3>1, <3>6 DEF Returns, Home, Returned
      <4>5. episodeUsed' = Total(CostOf', Episodes')
        BY <1>v, <3>1, <4>1, <4>3, <4>4
      <4>6. QED
        BY <1>i, <1>v, <3>1, <3>3, <4>1, <4>4, <4>5 DEF SumInv
    <3>7. QED
      BY <2>5, <3>1, <3>4, <3>5, <3>6 DEF Returns
  <2>6. QED
    BY <2>1, <2>3, <2>4, <2>5
<1>2. CASE NextPass
  <2>1. taken' = taken /\ counters' = counters /\ pass' = pass + 1 /\ pass \in 1 .. 5
    BY <1>2, ItemsAre DEF NextPass, counters
  <2>2. QED
    BY <1>q, <2>1
<1>3. CASE UNCHANGED vars
  BY <1>q, <1>3 DEF vars, counters
<1>4. QED
  BY <1>1, <1>2, <1>3 DEF Next

(* What stood in the way of an omitted item is not added to afterwards.    *)
LEMMA CrowdStays ==
  ASSUME TypeOK, AnswerInv, [Next]_vars, NEW x \in Items, Behind(x)
  PROVE  /\ Home(x) = 1 => ExplicitBefore(x)' = ExplicitBefore(x)
         /\ Home(x) = 2 => Crowd(x)' = Crowd(x)
<1>1. CASE taken' = taken
  BY <1>1, SetsStay DEF ExplicitBefore, Crowd
<1>2. CASE taken' # taken
  <2>1. ExplicitArtifact \/ DurableMemory \/ OrdinaryArtifact \/ Episode
    BY <1>2 DEF Next, vars, NextPass
  <2>2. PICK n \in Items :
           /\ input' = input /\ pass' = pass /\ pos' = pos + 1 /\ n[2] = pos
           /\ n[1] = "artifact" <=> pass \in {1, 3}
           /\ LeftAlone(n) \/ Counted(n) \/ Omitted(n) \/ Returns(n)
    BY <2>1, Turns
  <2>3. Returns(n) /\ Home(n) = pass
    BY <1>2, <2>2 DEF LeftAlone, Counted, Omitted, Returns
  <2>4. ~Behind(n)
    BY <2>2, <2>3, TurnMoves
  <2>5. /\ n[1] = "artifact" =>
             /\ Durable' = Durable
             /\ Explicit' = IF pass = 1 THEN Explicit \cup {n} ELSE Explicit
        /\ n[1] = "memory" =>
             /\ Explicit' = Explicit
             /\ pass = 2 => Durable' = Durable \cup {n}
             /\ pass = 4 => Durable' = Durable
    BY <2>3, <2>4, SetsGrow
  <2>6. /\ n[1] = "artifact" <=> pass \in {1, 3}
        /\ n[1] = "memory" <=> pass \in {2, 4}
        /\ pass \in {1, 2, 3, 4}
    <3>1. n[1] \in {"artifact", "memory"}
      BY ItemsAre
    <3>2. n[1] = "memory" <=> Home(n) \in {2, 4}
      BY ItemsAre
    <3>3. QED
      BY <2>2, <2>3, <3>1, <3>2
  <2>7. n[2] \in Nat /\ x[2] \in Nat /\ pos \in Nat
    BY ItemsAre
  <2>8. Home(x) = 1 => ExplicitBefore(x)' = ExplicitBefore(x)
    <3>1. Home(x) = 1 /\ pass = 1 => ~(n[2] < x[2])
      BY <2>2, <2>7 DEF Behind
    <3>2. Home(x) = 1 => \A y \in Explicit' : y[2] < x[2] => y \in Explicit
      BY <2>5, <2>6, <3>1
    <3>3. Explicit \in SUBSET (Explicit')
      BY <2>5, <2>6
    <3>4. QED
      BY <3>2, <3>3 DEF ExplicitBefore
  <2>9. Home(x) = 2 => Crowd(x)' = Crowd(x)
    <3>1. ASSUME Home(x) = 2
          PROVE  pass # 1 /\ (pass = 2 => ~(n[2] < x[2]))
      BY <2>2, <2>7, <3>1 DEF Behind
    <3>2. Home(x) = 2 => Explicit' = Explicit
      BY <2>5, <2>6, <3>1
    <3>3. Home(x) = 2 => \A y \in Durable' : y[2] < x[2] => y \in Durable
      BY <2>5, <2>6, <3>1
    <3>4. Durable \in SUBSET (Durable')
      BY <2>5, <2>6
    <3>5. QED
      BY <3>2, <3>3, <3>4 DEF Crowd
  <2>10. QED
    BY <2>8, <2>9
<1>3. QED
  BY <1>1, <1>2

(* When an item does not fit, all that has been taken stands in its way.   *)
LEMMA CrowdIsTaken ==
  ASSUME TypeOK, AnswerInv, NEW n \in Items, n[2] = pos, Home(n) = pass
  PROVE  /\ pass = 1 => ExplicitBefore(n) = taken
         /\ pass = 2 => Crowd(n) = taken
<1>1. ASSUME NEW x \in taken
      PROVE  /\ pass = 1 => x \in ExplicitBefore(n)
             /\ pass = 2 => x \in Crowd(n)
  <2>1. /\ x \in Items /\ Behind(x) /\ Proper(x) /\ Home(x) \in 1 .. 4
        /\ x[1] = "artifact" <=> Home(x) \in {1, 3}
        /\ x[1] = "memory" <=> Home(x) \in {2, 4}
    BY ItemsAre DEF AnswerInv, Home
  <2>2. ASSUME Home(x) = 1
        PROVE  x \in Explicit
    BY <2>1, <2>2 DEF Home, TakenArtifacts, Explicit
  <2>3. ASSUME Home(x) = 2
        PROVE  x \in Durable
    <3>1. x[1] = "memory" /\ x \in TakenMemories
      BY <2>1, <2>3 DEF TakenMemories, TakenArtifacts
    <3>2. ShapeOf(x).type \in Returned
      BY <2>1, <2>3, <3>1 DEF Home, Proper, Types
    <3>3. QED
      BY <3>1, <3>2 DEF Durable
  <2>4. ASSUME pass = 1
        PROVE  x \in ExplicitBefore(n)
    BY <2>1, <2>2, <2>4 DEF Behind, ExplicitBefore
  <2>5. ASSUME pass = 2
        PROVE  x \in Crowd(n)
    <3>1. Home(x) = 1 \/ (Home(x) = 2 /\ x[2] < n[2])
      BY <2>1, <2>5 DEF Behind
    <3>2. QED
      BY <2>2, <2>3, <3>1 DEF Crowd
  <2>6. QED
    BY <2>4, <2>5
<1>2. ExplicitBefore(n) \in SUBSET taken /\ Crowd(n) \in SUBSET taken
  BY DEF ExplicitBefore, Crowd, Explicit, Durable, TakenArtifacts, TakenMemories
<1>3. QED
  BY <1>1, <1>2

LEMMA CrowdStep == TypeOK /\ AnswerInv /\ SumInv /\ CrowdInv /\ [Next]_vars => CrowdInv'
<1> SUFFICES ASSUME TypeOK, AnswerInv, SumInv, CrowdInv, [Next]_vars
             PROVE  CrowdInv'
  OBVIOUS
<1>1. PICK c : c = CostOf
  OBVIOUS
<1>2. /\ budget' = budget /\ CostOf' = c /\ AllProper' = AllProper
      /\ \A x : Home(x)' = Home(x)
  BY <1>1, StepKeepsInput DEF input, CostOf, AllProper
<1>3. \A o \in omissions : o.item \in Items /\ Behind(o.item)
  BY DEF AnswerInv
<1>4. \A x \in Items : Behind(x) =>
        /\ Home(x) = 1 => ExplicitBefore(x)' = ExplicitBefore(x)
        /\ Home(x) = 2 => Crowd(x)' = Crowd(x)
  BY CrowdStays
<1>5. /\ \A o \in omissions : Home(o.item) = 1 =>
           /\ o.reason = "token_budget"
           /\ Total(c, ExplicitBefore(o.item)') + c[o.item] > budget
      /\ AllProper => \A o \in omissions : Home(o.item) = 2 /\ o.reason = "token_budget" =>
           Total(c, Crowd(o.item)') + c[o.item] > budget
  BY <1>1, <1>3, <1>4 DEF CrowdInv
(* The old omissions are as they were.                                     *)
<1>6. /\ \A o \in omissions : Home(o.item)' = 1 =>
           /\ o.reason = "token_budget"
           /\ Total(CostOf', ExplicitBefore(o.item)') + CostOf'[o.item] > budget'
      /\ AllProper' => \A o \in omissions : Home(o.item)' = 2 /\ o.reason = "token_budget" =>
           Total(CostOf', Crowd(o.item)') + CostOf'[o.item] > budget'
  BY <1>2, <1>5
<1>7. CASE omissions' = omissions
  BY <1>6, <1>7 DEF CrowdInv
<1>8. CASE omissions' # omissions
  <2>1. ExplicitArtifact \/ DurableMemory \/ OrdinaryArtifact \/ Episode
    BY <1>8 DEF Next, vars, NextPass
  <2>2. PICK n \in Items :
           /\ input' = input /\ pass' = pass /\ pos' = pos + 1 /\ n[2] = pos
           /\ n[1] = "artifact" <=> pass \in {1, 3}
           /\ LeftAlone(n) \/ Counted(n) \/ Omitted(n) \/ Returns(n)
    BY <2>1, Turns
  <2>3. Omitted(n)
    BY <1>8, <2>2 DEF LeftAlone, Counted, Omitted, Returns
  <2>4. PICK reason \in Reasons :
          /\ omissions' = omissions \cup {[item |-> n, reason |-> reason]}
          /\ pass = 1 => reason = "token_budget"
          /\ pass \in {1, 2} /\ reason = "token_budget" => used + ShapeOf(n).cost > budget
    BY <2>3 DEF Omitted
  <2>5. PICK w : w = [item |-> n, reason |-> reason]
    OBVIOUS
  <2>6. w.item = n /\ w.reason = reason /\ omissions' = omissions \cup {w}
    BY <2>4, <2>5
  <2>7. Home(n) = pass /\ taken' = taken
    BY <2>3 DEF Omitted
  <2>8. /\ pass = 1 => ExplicitBefore(n)' = taken
        /\ pass = 2 => Crowd(n)' = taken
    <3>1. TakenArtifacts' = TakenArtifacts /\ Explicit' = Explicit /\ Durable' = Durable
      BY <2>7, SetsStay
    <3>2. ExplicitBefore(n)' = ExplicitBefore(n) /\ Crowd(n)' = Crowd(n)
      BY <3>1 DEF ExplicitBefore, Crowd
    <3>3. QED
      BY <2>2, <2>7, <3>2, CrowdIsTaken
  <2>9. c[n] = ShapeOf(n).cost
    BY <1>1, TakenSets
  <2>10. AllProper \/ pass = 1 => used = Total(c, taken)
    BY <1>1 DEF SumInv
  <2>11. Home(n)' = 1 =>
           /\ w.reason = "token_budget"
           /\ Total(CostOf', ExplicitBefore(n)') + CostOf'[n] > budget'
    BY <1>2, <2>4, <2>6, <2>7, <2>8, <2>9, <2>10
  <2>12. AllProper' /\ Home(n)' = 2 /\ w.reason = "token_budget" =>
           Total(CostOf', Crowd(n)') + CostOf'[n] > budget'
    BY <1>2, <2>4, <2>6, <2>7, <2>8, <2>9, <2>10
  <2>13. QED
    BY <1>6, <2>6, <2>11, <2>12 DEF CrowdInv
<1>9. QED
  BY <1>7, <1>8

LEMMA PackingAlways == Spec => [](TypeOK /\ AnswerInv /\ SumInv /\ CrowdInv)
BY AnswerAlways, SumInit, SumStep, CrowdStep, PTL DEF Spec

(* Whatever the lists hold: what the request is told it spends covers what *)
(* it gets, and artifacts nobody selected and episodes stay within their   *)
(* shares.                                                                 *)
THEOREM BudgetIsKept == Spec => []BudgetKept
<1>1. TypeOK /\ AnswerInv /\ SumInv => BudgetKept
  <2> SUFFICES ASSUME TypeOK, AnswerInv, SumInv
               PROVE  BudgetKept
    OBVIOUS
  <2>1. /\ Spent(taken) = Total(CostOf, taken)
        /\ Spent(TakenArtifacts) = Total(CostOf, TakenArtifacts)
        /\ Spent(TakenMemories \ Durable) = Total(CostOf, Episodes)
    BY TakenSets, SpentIsTotal DEF Episodes
  <2>2. used <= budget
    BY BudgetsAssumption DEF TypeOK
  <2>3. QED
    BY <2>1, <2>2 DEF SumInv, BudgetKept, AllProper
<1>2. QED
  BY PackingAlways, <1>1, PTL

(* Explicit artifacts are authoritative, in any order and at any cost: one *)
(* is left out only beside explicit ones that leave it no room.            *)
THEOREM ExplicitIsAuthoritative == Spec => []ExplicitAuthoritative
<1>1. TypeOK /\ AnswerInv /\ CrowdInv => ExplicitAuthoritative
  <2> SUFFICES ASSUME TypeOK, AnswerInv, CrowdInv,
                      NEW o \in omissions, o.item[1] = "artifact", ShapeOf(o.item).explicit
               PROVE  /\ o.reason = "token_budget"
                      /\ Spent({x \in Explicit : x[2] < o.item[2]}) + ShapeOf(o.item).cost
                           > budget
    BY DEF ExplicitAuthoritative
  <2>1. Home(o.item) = 1 /\ o.item \in Items
    BY DEF Home, AnswerInv
  <2>2. ExplicitBefore(o.item) \in SUBSET Items
    BY TakenSets DEF ExplicitBefore
  <2>3. Spent(ExplicitBefore(o.item)) = Total(CostOf, ExplicitBefore(o.item))
    BY <2>2, SpentIsTotal
  <2>4. CostOf[o.item] = ShapeOf(o.item).cost
    BY <2>1, TakenSets
  <2>5. QED
    BY <2>1, <2>3, <2>4 DEF CrowdInv, ExplicitBefore
<1>2. QED
  BY PackingAlways, <1>1, PTL

(* Durable memory retains its capacity, whatever else was found: it is     *)
(* left out only beside explicit artifacts and durable memories ranked     *)
(* before it.                                                              *)
THEOREM DurableComesFirst == Spec => []DurableFirst
<1>1. TypeOK /\ AnswerInv /\ CrowdInv => DurableFirst
  <2> SUFFICES ASSUME TypeOK, AnswerInv, CrowdInv, AllProper,
                      NEW o \in omissions, o.item[1] = "memory",
                      ShapeOf(o.item).type \in Returned, o.reason = "token_budget"
               PROVE  Spent(Explicit \cup {x \in Durable : x[2] < o.item[2]})
                        + ShapeOf(o.item).cost > budget
    BY DEF DurableFirst, AllProper
  <2>1. Home(o.item) = 2 /\ o.item \in Items
    BY DEF Home, AnswerInv, Returned
  <2>2. Crowd(o.item) \in SUBSET Items
    BY TakenSets DEF Crowd
  <2>3. Spent(Crowd(o.item)) = Total(CostOf, Crowd(o.item))
    BY <2>2, SpentIsTotal
  <2>4. CostOf[o.item] = ShapeOf(o.item).cost
    BY <2>1, TakenSets
  <2>5. QED
    BY <2>1, <2>3, <2>4 DEF CrowdInv, Crowd
<1>2. QED
  BY PackingAlways, <1>1, PTL
=============================================================================
