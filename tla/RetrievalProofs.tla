--------------------------- MODULE RetrievalProofs ---------------------------
(***************************************************************************)
(* TLAPS proofs about Retrieval, for every workspace, every shape of its   *)
(* versions, all limits and whatever the text engine, the vectors and the  *)
(* reranker answer.                                                        *)
(***************************************************************************)
EXTENDS Retrieval, FiniteSetTheorems, SequenceTheorems, WellFoundedInduction, TLAPS

-----------------------------------------------------------------------------
(* Lemmas about lists                                                      *)

(* Every set of numbers has a least one.                                   *)
LEMMA LeastNatural ==
  ASSUME NEW T \in SUBSET Nat, T # {}
  PROVE  \E x \in T : \A y \in T : x <= y
<1> DEFINE R == {p \in Nat \X Nat : p[1] < p[2]}
<1>1. IsWellFoundedOn(R, Nat)
  BY NatLessThanWellFounded DEF OpToRel
<1>2. PICK x \in T : \A y \in T : <<y, x>> \notin R
  BY <1>1, WFMin, T \subseteq Nat
<1>3. ASSUME NEW y \in T
      PROVE  x <= y
  <2>1. y < x => <<y, x>> \in R
    OBVIOUS
  <2>2. QED
    BY <1>2, <2>1
<1>4. QED
  BY <1>3

(* The assumptions in the form the steps below use.                        *)
LEMMA Parameters ==
  /\ Ids \in SUBSET Nat /\ IsFiniteSet(Ids) /\ Invented \notin Ids
  /\ Related \in SUBSET Ids /\ Limits \in SUBSET Nat
  /\ LexicalLimit \in Nat \ {0} /\ RerankLimit \in Nat \ {0} /\ RerankLeast \in Nat
  /\ MaxAnswer \in Nat /\ MaxChanges \in Nat
  /\ \A s \in Shapes : s.live \in BOOLEAN /\ s.matches \in BOOLEAN /\ s.mentions \in BOOLEAN
BY LimitsAssumption, ShapesAssumption

(* A list is what its places hold.                                         *)
LEMMA ListIs ==
  ASSUME NEW S, NEW list \in Seq(S)
  PROVE  /\ DOMAIN list = 1 .. Len(list) /\ Len(list) \in Nat
         /\ \A k \in 1 .. Len(list) : list[k] \in S /\ list[k] \in Range(list)
         /\ \A i : i \in Range(list) => i \in S /\ \E k \in 1 .. Len(list) : list[k] = i
BY DEF Range

(* An order of a finite set lists each of its elements once.               *)
LEMMA OrderIs ==
  ASSUME NEW S, IsFiniteSet(S), NEW order \in Orders(S)
  PROVE  /\ order \in Seq(S) /\ Len(order) = Cardinality(S) /\ Len(order) \in Nat
         /\ Range(order) = S /\ IsInjective(order)
<1>1. PICK n \in Nat : n = Cardinality(S)
  BY FS_CardinalityType
<1>2. order \in [1 .. n -> S] /\ \A i, j \in 1 .. n : i # j => order[i] # order[j]
  BY <1>1 DEF Orders, SetToSeqs
<1>3. order \in Seq(S) /\ Len(order) = n /\ DOMAIN order = 1 .. n
  BY <1>2
<1>4. IsInjective(order)
  BY <1>2, <1>3 DEF IsInjective
<1>5. order \in Injection(1 .. n, S)
  BY <1>2, <1>4 DEF Injection
<1>6. Cardinality(1 .. n) = n
  BY <1>1, FS_Interval
<1>7. order \in Surjection(1 .. n, S)
  BY <1>1, <1>5, <1>6, FS_Injection
<1>8. Range(order) = S
  BY <1>2, <1>7 DEF Surjection, Range
<1>9. QED
  BY <1>1, <1>3, <1>4, <1>8

(* The beginning of a list.                                                *)
LEMMA CutIs ==
  ASSUME NEW S, NEW list \in Seq(S), NEW n \in Nat
  PROVE  /\ Cut(list, n) \in Seq(S)
         /\ Len(Cut(list, n)) = IF n < Len(list) THEN n ELSE Len(list)
         /\ \A k \in 1 .. Len(Cut(list, n)) : k \in 1 .. Len(list) /\ Cut(list, n)[k] = list[k]
         /\ Range(Cut(list, n)) \in SUBSET Range(list)
         /\ Len(list) <= n => Cut(list, n) = list
         /\ IsInjective(list) => IsInjective(Cut(list, n))
<1>1. PICK m : m = IF n < Len(list) THEN n ELSE Len(list)
  OBVIOUS
<1>2. m \in Nat /\ m <= Len(list) /\ Len(list) \in Nat
  BY <1>1
<1>3. PICK cut : cut = SubSeq(list, 1, m)
  OBVIOUS
<1>4. cut = Cut(list, n)
  BY <1>1, <1>3 DEF Cut
<1>5. /\ cut \in Seq(S) /\ Len(cut) = m
      /\ \A k \in 1 .. m : k \in 1 .. Len(list) /\ cut[k] = list[k]
  <2>1. \A k \in 1 .. m : k \in 1 .. Len(list) /\ list[k] \in S
    BY <1>2
  <2>2. 1 \in Int /\ m \in Int
    BY <1>2
  <2>3. /\ cut \in Seq(S)
        /\ Len(cut) = (IF 1 <= m THEN m - 1 + 1 ELSE 0)
        /\ \A k \in 1 .. m - 1 + 1 : cut[k] = list[1 + k - 1]
    BY <1>3, <2>1, <2>2, SubSeqProperties
  <2>4. QED
    BY <1>2, <2>1, <2>3
<1>6. Range(cut) \in SUBSET Range(list)
  BY <1>2, <1>5, ListIs
<1>7. Len(list) <= n => cut = list
  BY <1>1, <1>2, <1>3, SubSeqFull
<1>8. IsInjective(list) => IsInjective(cut)
  <2>1. DOMAIN cut = 1 .. m /\ DOMAIN list = 1 .. Len(list)
    BY <1>5, ListIs
  <2>2. QED
    BY <1>2, <1>5, <2>1 DEF IsInjective
<1>9. QED
  BY <1>1, <1>4, <1>5, <1>6, <1>7, <1>8

(* In a list without repetitions an element has one place.                 *)
LEMMA PlaceIs ==
  ASSUME NEW S, NEW list \in Seq(S), IsInjective(list), NEW k \in 1 .. Len(list)
  PROVE  Place(list[k], list) = k
<1>1. PICK I : I = {j \in 1 .. Len(list) : list[j] = list[k]}
  OBVIOUS
<1>2. I = {k}
  BY <1>1, ListIs DEF IsInjective
<1>3. Place(list[k], list) = Min(I)
  BY <1>1, <1>2 DEF Place, SelectInSeq
<1>4. Min({k}) = k
  BY k \in Nat DEF Min
<1>5. QED
  BY <1>2, <1>3, <1>4

(* A rearrangement of 1 .. n that puts m of the first R in front and       *)
(* leaves the others in their order.                                       *)
Rearranges(p, n, m, R) ==
  /\ p \in [1 .. n -> 1 .. n]
  /\ \A k, l \in 1 .. n : p[k] = p[l] => k = l
  /\ \A k \in 1 .. m : p[k] <= R
  /\ \A k, l \in m + 1 .. n : k < l => p[k] < p[l]

(* It moves nothing behind R.                                              *)
LEMMA OnlyTheFirstMove ==
  ASSUME NEW n \in Nat, NEW R \in Nat, R <= n, NEW m \in Nat, m <= n,
         NEW p, Rearranges(p, n, m, R)
  PROVE  \A k \in 1 .. n : IF k <= R THEN p[k] <= R ELSE p[k] = k
<1>0. /\ p \in [1 .. n -> 1 .. n]
      /\ \A k, l \in 1 .. n : p[k] = p[l] => k = l
      /\ \A k \in 1 .. m : p[k] <= R
      /\ \A k, l \in m + 1 .. n : k < l => p[k] < p[l]
  BY DEF Rearranges
<1>1. m <= R
  <2>1. PICK f : f = [k \in 1 .. m |-> p[k]]
    OBVIOUS
  <2>2. f \in Injection(1 .. m, 1 .. R)
    <3>1. \A k \in 1 .. m : k \in 1 .. n /\ p[k] \in 1 .. R
      BY <1>0
    <3>2. f \in [1 .. m -> 1 .. R] /\ DOMAIN f = 1 .. m
      BY <2>1, <3>1
    <3>3. \A k \in 1 .. m : k \in 1 .. n /\ f[k] = p[k]
      BY <2>1, <3>1
    <3>4. QED
      BY <1>0, <3>2, <3>3 DEF Injection, IsInjective
  <2>3. IsFiniteSet(1 .. R) /\ Cardinality(1 .. R) = R /\ Cardinality(1 .. m) = m
    <3>1. 1 \in Int /\ R \in Int /\ m \in Int /\ (1 > R <=> R = 0) /\ (1 > m <=> m = 0)
      OBVIOUS
    <3>2. IsFiniteSet(1 .. R) /\ Cardinality(1 .. R) = IF 1 > R THEN 0 ELSE R - 1 + 1
      BY <3>1, FS_Interval
    <3>3. Cardinality(1 .. m) = IF 1 > m THEN 0 ELSE m - 1 + 1
      BY <3>1, FS_Interval
    <3>4. QED
      BY <3>1, <3>2, <3>3
  <2>4. Cardinality(1 .. m) <= Cardinality(1 .. R)
    BY <2>2, <2>3, FS_Injection
  <2>5. QED
    BY <2>3, <2>4
<1>2. \A k \in m + 1 .. n : p[k] <= k
  <2>1. SUFFICES ASSUME NEW b \in m + 1 .. n, ~(p[b] <= b)
                 PROVE  FALSE
    OBVIOUS
  <2>2. PICK T : T = {j \in Nat : n - j \in m + 1 .. n /\ ~(p[n - j] <= n - j)}
    OBVIOUS
  <2>3. n - b \in T
    <3>1. n - b \in Nat /\ n - (n - b) = b
      BY <2>1
    <3>2. QED
      BY <2>1, <2>2, <3>1
  <2>4. PICK j \in T : \A i \in T : j <= i
    BY <2>2, <2>3, LeastNatural
  <2>5. PICK k \in m + 1 .. n : k = n - j
    BY <2>2
  <2>6. p[k] > k /\ p[k] \in 1 .. n /\ k \in Nat /\ j \in Nat
    BY <1>0, <2>2, <2>5
  <2>7. k + 1 \in m + 1 .. n /\ n - (j - 1) = k + 1 /\ j - 1 \in Nat
    BY <1>0, <2>5, <2>6
  <2>8. p[k] < p[k + 1] /\ p[k + 1] \in 1 .. n
    <3>1. k + 1 \in 1 .. n /\ k < k + 1
      BY <2>6, <2>7
    <3>2. p[k + 1] \in 1 .. n
      BY <1>0, <3>1
    <3>3. p[k] < p[k + 1]
      BY <1>0, <2>7, <3>1
    <3>4. QED
      BY <3>2, <3>3
  <2>9. ~(p[k + 1] <= k + 1)
    BY <2>6, <2>8
  <2>10. j - 1 \in T
    BY <2>2, <2>7, <2>9
  <2>11. QED
    BY <2>4, <2>6, <2>10
<1>3. \A k \in 1 .. R : p[k] \in 1 .. R
  BY <1>0, <1>1, <1>2
<1>4. \A k \in R + 1 .. n : p[k] > R
  <2>1. PICK f : f = [k \in 1 .. R |-> p[k]]
    OBVIOUS
  <2>2. f \in Injection(1 .. R, 1 .. R)
    <3>1. f \in [1 .. R -> 1 .. R] /\ DOMAIN f = 1 .. R
      BY <1>3, <2>1
    <3>2. \A k \in 1 .. R : k \in 1 .. n /\ f[k] = p[k]
      BY <2>1
    <3>3. QED
      BY <1>0, <3>1, <3>2 DEF Injection, IsInjective
  <2>3. IsFiniteSet(1 .. R)
    BY FS_Interval
  <2>4. f \in Surjection(1 .. R, 1 .. R)
    BY <2>2, <2>3, FS_Injection
  <2>5. ASSUME NEW k \in R + 1 .. n, ~(p[k] > R)
        PROVE  FALSE
    <3>1. p[k] \in 1 .. R
      BY <1>0, <2>5
    <3>2. PICK l \in 1 .. R : f[l] = p[k]
      BY <2>4, <3>1 DEF Surjection
    <3>3. QED
      BY <1>0, <2>1, <2>5, <3>2
  <2>6. QED
    BY <2>5
<1>5. \A k \in R + 1 .. n : k <= p[k]
  <2>1. SUFFICES ASSUME NEW b \in R + 1 .. n, ~(b <= p[b])
                 PROVE  FALSE
    OBVIOUS
  <2>2. PICK T : T = {j \in R + 1 .. n : ~(j <= p[j])}
    OBVIOUS
  <2>3. PICK k \in T : \A i \in T : k <= i
    <3>1. T \in SUBSET Nat /\ b \in T
      BY <2>1, <2>2
    <3>2. QED
      BY <3>1, LeastNatural
  <2>4. k \in R + 1 .. n /\ ~(k <= p[k]) /\ p[k] > R /\ p[k] \in Nat
    BY <1>0, <1>4, <2>2
  <2>5. k - 1 \in R + 1 .. n
    BY <2>4
  <2>6. k - 1 \notin T
    BY <2>3, <2>4
  <2>7. k - 1 <= p[k - 1] /\ p[k - 1] < p[k] /\ p[k - 1] \in Nat
    <3>1. k - 1 <= p[k - 1]
      BY <2>2, <2>5, <2>6
    <3>2. k - 1 \in m + 1 .. n /\ k \in m + 1 .. n /\ k - 1 < k
      BY <1>1, <2>4, <2>5
    <3>3. p[k - 1] < p[k] /\ p[k - 1] \in 1 .. n
      BY <1>0, <3>2
    <3>4. QED
      BY <3>1, <3>3
  <2>8. QED
    BY <2>4, <2>7
<1>6. QED
  BY <1>0, <1>1, <1>2, <1>3, <1>5

-----------------------------------------------------------------------------
(* The inductive invariant                                                 *)

(* What is eligible now and what was when it was read has been eligible.   *)
EligibleInv ==
  /\ \A i \in Live : Current(i) \in was
  /\ \A i \in DOMAIN candidates : <<i, candidates[i].version>> \in was

(* What each list is made of, and which are still empty.                   *)
ListedInv ==
  /\ Range(lexical) \subseteq DOMAIN candidates
  /\ pc \notin {"rerank", "done"} => ranked = <<>>
  /\ pc \in {"rerank", "done"} => ranked \in Orders(Kept)
  /\ pc # "done" => results = <<>> /\ ~applied
  /\ Range(results) \subseteq Range(ranked)

(* A memory nobody touches is in the index with its text, is a candidate   *)
(* as it is, and is found by its words unless the limit cuts it off.       *)
SteadyInv ==
  /\ steady \subseteq indexed
  /\ \A i \in steady \cap DOMAIN candidates : candidates[i] = memory[i]
  /\ pc # "lexical" => \A i \in steady :
       memory[i].shape.live /\ memory[i].shape.matches
         => i \in Range(lexical) \/ Len(lexical) = LexicalLimit

(* What the code does with an answer: it appends what the answer leaves    *)
(* out, so that no result is lost either and none moves behind what was    *)
(* sent.                                                                   *)
OnlyReorders ==
  pc = "done" =>
    /\ IsInjective(results)
    /\ \E limit \in Limits : Len(results) = Len(Cut(ranked, limit))
    /\ \A k \in DOMAIN results :
         IF applied /\ k <= RerankLimit
         THEN results[k] \in Range(First(ranked))
         ELSE results[k] = ranked[k]

RetrievalInv == TypeOK /\ EligibleInv /\ ListedInv /\ SteadyInv /\ OnlyReorders

LEMMA EmptyLists == <<>> \in Seq(Ids) /\ Range(<<>>) = {} /\ Len(<<>>) = 0
BY DEF Range

LEMMA RetrievalInit == Init => RetrievalInv
<1> SUFFICES ASSUME Init
             PROVE  RetrievalInv
  OBVIOUS
<1>1. TypeOK
  <2>1. memory \in [Ids -> Version]
    <3>1. \A i \in Ids : memory[i] \in [version : {1}, shape : Shapes]
      BY DEF Init
    <3>2. \A v \in [version : {1}, shape : Shapes] : v \in Version
      BY DEF Version
    <3>3. memory \in [Ids -> [version : {1}, shape : Shapes]]
      BY DEF Init
    <3>4. QED
      BY <3>2, <3>3
  <2>2. was \subseteq Ids \X Nat
    BY <2>1 DEF Init, Live, Current, Version
  <2>3. \E found \in SUBSET Ids : candidates \in [found -> Version]
    <3>1. candidates \in [{} -> Version]
      BY DEF Init
    <3>2. QED
      BY <3>1
  <2>4. {lexical, semantic, ranked, results} \subseteq Seq(Ids)
    BY EmptyLists DEF Init
  <2>5. changes \in 0 .. MaxChanges /\ indexed \subseteq Ids /\ steady \subseteq Ids
    BY Parameters DEF Init
  <2>6. focus \in Focuses /\ mode \in Modes /\ related \subseteq Ids /\ applied \in BOOLEAN
    BY DEF Init, Focuses, Modes
  <2>7. pc = "lexical"
    BY DEF Init
  <2>8. QED
    BY <2>1, <2>2, <2>3, <2>4, <2>5, <2>6, <2>7 DEF TypeOK
<1>2. EligibleInv
  BY DEF Init, EligibleInv
<1>3. ListedInv
  BY EmptyLists DEF Init, ListedInv
<1>4. SteadyInv
  BY DEF Init, SteadyInv
<1>5. OnlyReorders
  BY DEF Init, OnlyReorders
<1>6. QED
  BY <1>1, <1>2, <1>3, <1>4, <1>5 DEF RetrievalInv

(* The type of the candidates, without its witness.                        *)
LEMMA CandidatesAre ==
  ASSUME TypeOK
  PROVE  /\ DOMAIN candidates \in SUBSET Ids
         /\ candidates \in [DOMAIN candidates -> Version]
BY DEF TypeOK

LEMMA ChangeStep ==
  ASSUME NEW i \in Ids, NEW s \in Shapes, pc \in {"lexical", "semantic", "reread"}
  PROVE  RetrievalInv /\ Change(i, s) => RetrievalInv'
<1> SUFFICES ASSUME RetrievalInv, Change(i, s)
             PROVE  RetrievalInv'
  OBVIOUS
<1>1. /\ memory \in [Ids -> Version] /\ changes' = changes + 1 /\ changes < MaxChanges
      /\ memory' = [memory EXCEPT ![i] = [version |-> memory[i].version + 1, shape |-> s]]
      /\ indexed' = indexed \ {i} /\ steady' = steady \ {i}
      /\ was' = was \cup (IF s.live THEN {<<i, memory[i].version + 1>>} ELSE {})
      /\ UNCHANGED <<pc, reads, ranked, results, applied>>
  BY DEF RetrievalInv, TypeOK, Change
<1>2. /\ memory[i].version + 1 \in Nat \ {0}
      /\ [version |-> memory[i].version + 1, shape |-> s] \in Version
  BY <1>1 DEF Version
<1>3. /\ memory' \in [Ids -> Version]
      /\ memory'[i].version = memory[i].version + 1 /\ memory'[i].shape = s
      /\ \A j \in Ids : j # i => memory'[j] = memory[j]
  BY <1>1, <1>2
<1>4. TypeOK'
  <2>1. was' \subseteq Ids \X Nat
    BY <1>1, <1>2 DEF RetrievalInv, TypeOK
  <2>2. changes' \in 0 .. MaxChanges
    BY <1>1, Parameters DEF RetrievalInv, TypeOK
  <2>3. QED
    BY <1>1, <1>3, <2>1, <2>2 DEF RetrievalInv, TypeOK, reads
<1>5. EligibleInv'
  <2>1. ASSUME NEW j \in Live'
        PROVE  Current(j)' \in was'
    <3>1. CASE j = i
      BY <1>1, <1>3, <2>1, <3>1 DEF Live, Current
    <3>2. CASE j # i
      BY <1>1, <1>3, <2>1, <3>2 DEF Live, Current, RetrievalInv, EligibleInv
    <3>3. QED
      BY <3>1, <3>2
  <2>2. QED
    BY <1>1, <2>1 DEF RetrievalInv, EligibleInv, reads
<1>6. ListedInv'
  BY <1>1 DEF RetrievalInv, ListedInv, reads
<1>7. SteadyInv'
  <2>1. steady \subseteq Ids
    BY DEF RetrievalInv, TypeOK
  <2>2. QED
    BY <1>1, <1>3, <2>1 DEF RetrievalInv, SteadyInv, reads
<1>8. OnlyReorders'
  BY <1>1 DEF OnlyReorders
<1>9. QED
  BY <1>4, <1>5, <1>6, <1>7, <1>8 DEF RetrievalInv

LEMMA IndexStep ==
  ASSUME NEW i \in Ids, pc \in {"lexical", "semantic", "reread"}
  PROVE  RetrievalInv /\ Index(i) => RetrievalInv'
<1> SUFFICES ASSUME RetrievalInv, Index(i)
             PROVE  RetrievalInv'
  OBVIOUS
<1>1. /\ indexed' = indexed \cup {i}
      /\ UNCHANGED <<memory, changes, was, steady, pc, reads, ranked, results, applied>>
  BY DEF Index
<1>2. TypeOK'
  BY <1>1 DEF RetrievalInv, TypeOK, reads
<1>3. EligibleInv' /\ ListedInv' /\ SteadyInv'
  BY <1>1 DEF RetrievalInv, EligibleInv, ListedInv, SteadyInv, reads, Live, Current
<1>4. OnlyReorders'
  BY <1>1 DEF OnlyReorders
<1>5. QED
  BY <1>2, <1>3, <1>4 DEF RetrievalInv

(* What the text engine finds is live; what has the words, is in the index *)
(* and is not found, the limit cut off.                                    *)
LEMMA SearchLexicalStep == RetrievalInv /\ SearchLexical => RetrievalInv'
<1> SUFFICES ASSUME RetrievalInv, SearchLexical
             PROVE  RetrievalInv'
  OBVIOUS
<1>1. PICK hits \in SUBSET {i \in Live : MayMatch(i)} :
        /\ {i \in Live : MustMatch(i)} \subseteq hits
        /\ \E order \in Orders(hits) : lexical' = Cut(order, LexicalLimit)
  BY DEF SearchLexical
<1>2. PICK order \in Orders(hits) : lexical' = Cut(order, LexicalLimit)
  BY <1>1
<1>3. /\ pc = "lexical" /\ pc' = "semantic"
      /\ candidates' = [i \in Range(lexical') |-> memory[i]]
      /\ UNCHANGED <<table, focus, semantic, mode, related, ranked, results, applied>>
  BY DEF SearchLexical
<1>4. hits \in SUBSET Ids /\ hits \in SUBSET Live /\ IsFiniteSet(hits)
  BY Parameters, FS_Subset DEF Live
<1>5. order \in Seq(hits) /\ Range(order) = hits
  BY <1>4, OrderIs
<1>6. /\ lexical' \in Seq(hits) /\ Range(lexical') \in SUBSET hits
      /\ Len(order) <= LexicalLimit => lexical' = order
      /\ Len(lexical') = IF LexicalLimit < Len(order) THEN LexicalLimit ELSE Len(order)
  BY <1>2, <1>5, Parameters, CutIs
<1>7. /\ DOMAIN candidates' = Range(lexical') /\ candidates' \in [Range(lexical') -> Version]
      /\ \A i \in Range(lexical') : candidates'[i] = memory[i]
      /\ Range(lexical') \in SUBSET Ids
  BY <1>3, <1>4, <1>6 DEF RetrievalInv, TypeOK
<1>8. TypeOK'
  <2>1. lexical' \in Seq(Ids)
    BY <1>4, <1>6
  <2>2. \E found \in SUBSET Ids : candidates' \in [found -> Version]
    BY <1>7
  <2>3. QED
    BY <1>3, <2>1, <2>2 DEF RetrievalInv, TypeOK, table
<1>9. EligibleInv'
  <2>1. \A i \in Range(lexical') : <<i, candidates'[i].version>> \in was
    BY <1>4, <1>6, <1>7 DEF RetrievalInv, EligibleInv, Current
  <2>2. QED
    BY <1>3, <1>7, <2>1 DEF RetrievalInv, EligibleInv, table, Live, Current
<1>10. ListedInv'
  <2>1. ranked = <<>> /\ results = <<>> /\ ~applied
    BY <1>3 DEF RetrievalInv, ListedInv
  <2>2. QED
    BY <1>3, <1>7, <2>1, EmptyLists DEF ListedInv
<1>11. SteadyInv'
  <2>1. ASSUME NEW i \in steady, memory[i].shape.live, memory[i].shape.matches
        PROVE  i \in Range(lexical') \/ Len(lexical') = LexicalLimit
    <3>1. i \in hits
      BY <1>1, <2>1 DEF Live, MustMatch, RetrievalInv, TypeOK, SteadyInv
    <3>2. Len(order) \in Nat
      BY <1>5
    <3>3. QED
      BY <1>5, <1>6, <3>1, <3>2, Parameters
  <2>2. QED
    BY <1>3, <1>7, <2>1 DEF RetrievalInv, SteadyInv, table
<1>12. OnlyReorders'
  BY <1>3 DEF OnlyReorders
<1>13. QED
  BY <1>8, <1>9, <1>10, <1>11, <1>12 DEF RetrievalInv

LEMMA EmbeddingStep ==
  RetrievalInv /\ (WithoutEmbedding \/ SearchEmbeddings) => RetrievalInv'
<1> SUFFICES ASSUME RetrievalInv, WithoutEmbedding \/ SearchEmbeddings
             PROVE  RetrievalInv'
  OBVIOUS
<1>1. /\ pc = "semantic" /\ pc' \in {"rank", "reread"}
      /\ UNCHANGED <<table, lexical, focus, candidates, related, ranked, results, applied>>
  BY DEF WithoutEmbedding, SearchEmbeddings, reads
<1>2. semantic' \in Seq(Ids) /\ mode' \in Modes
  <2>1. CASE WithoutEmbedding
    BY <2>1 DEF WithoutEmbedding, reads, RetrievalInv, TypeOK
  <2>2. CASE SearchEmbeddings
    <3>1. PICK ready \in SUBSET Live : semantic' \in Orders(ready)
      BY <2>2 DEF SearchEmbeddings
    <3>2. ready \in SUBSET Ids /\ IsFiniteSet(ready)
      BY Parameters, FS_Subset DEF Live
    <3>3. semantic' \in Seq(ready)
      BY <3>1, <3>2, OrderIs
    <3>4. QED
      BY <2>2, <3>2, <3>3 DEF SearchEmbeddings, Modes
  <2>3. QED
    BY <2>1, <2>2
<1>3. TypeOK'
  BY <1>1, <1>2 DEF RetrievalInv, TypeOK, table
<1>4. EligibleInv' /\ ListedInv' /\ SteadyInv'
  BY <1>1 DEF RetrievalInv, EligibleInv, ListedInv, SteadyInv, table, Live, Current
<1>5. OnlyReorders'
  BY <1>1 DEF OnlyReorders
<1>6. QED
  BY <1>3, <1>4, <1>5 DEF RetrievalInv

(* What is fetched by its id is a candidate only if it is eligible now.    *)
LEMMA RereadStep == RetrievalInv /\ Reread => RetrievalInv'
<1> SUFFICES ASSUME RetrievalInv, Reread
             PROVE  RetrievalInv'
  OBVIOUS
<1>1. PICK found \in {Missing, {}} :
        candidates' = [i \in DOMAIN candidates \cup {j \in found : Eligible(j)} |->
                         IF i \in DOMAIN candidates THEN candidates[i] ELSE memory[i]]
  BY DEF Reread
<1>2. /\ pc = "reread" /\ pc' = "rank"
      /\ UNCHANGED <<table, lexical, focus, semantic, mode, related, ranked, results, applied>>
  BY DEF Reread
<1>3. PICK new : new = {j \in found : Eligible(j)}
  OBVIOUS
<1>4. new \in SUBSET Live
  <2>1. Range(semantic) \in SUBSET Ids
    BY ListIs DEF RetrievalInv, TypeOK
  <2>2. QED
    BY <1>3, <2>1 DEF Missing, Eligible, Live
<1>5. /\ DOMAIN candidates \in SUBSET Ids /\ candidates \in [DOMAIN candidates -> Version]
      /\ memory \in [Ids -> Version] /\ Live \in SUBSET Ids
  BY CandidatesAre DEF RetrievalInv, TypeOK, Live
<1>6. /\ DOMAIN candidates' = DOMAIN candidates \cup new
      /\ \A i \in DOMAIN candidates : candidates'[i] = candidates[i]
      /\ \A i \in DOMAIN candidates' : i \notin DOMAIN candidates =>
           i \in new /\ candidates'[i] = memory[i]
  BY <1>1, <1>3
<1>7. TypeOK'
  <2>1. candidates' \in [DOMAIN candidates \cup new -> Version]
    BY <1>1, <1>3, <1>4, <1>5
  <2>2. \E set \in SUBSET Ids : candidates' \in [set -> Version]
    BY <1>4, <1>5, <2>1
  <2>3. QED
    BY <1>2, <2>2 DEF RetrievalInv, TypeOK, table
<1>8. EligibleInv'
  <2>1. ASSUME NEW i \in DOMAIN candidates'
        PROVE  <<i, candidates'[i].version>> \in was
    BY <1>4, <1>6 DEF RetrievalInv, EligibleInv, Current
  <2>2. QED
    BY <1>2, <2>1 DEF RetrievalInv, EligibleInv, table, Live, Current
<1>9. ListedInv'
  BY <1>2, <1>6 DEF RetrievalInv, ListedInv
<1>10. SteadyInv'
  BY <1>2, <1>6 DEF RetrievalInv, SteadyInv, table
<1>11. OnlyReorders'
  BY <1>2 DEF OnlyReorders
<1>12. QED
  BY <1>7, <1>8, <1>9, <1>10, <1>11 DEF RetrievalInv

LEMMA ReadEntitiesStep == RetrievalInv /\ ReadEntities => RetrievalInv'
<1> SUFFICES ASSUME RetrievalInv, ReadEntities
             PROVE  RetrievalInv'
  OBVIOUS
<1>1. /\ pc = "rank" /\ pc' = "sort" /\ focus' \in Focuses /\ related' \in RelatedTo(focus')
      /\ UNCHANGED <<table, lexical, semantic, mode, candidates, ranked, results, applied>>
  BY DEF ReadEntities
<1>2. related' \subseteq Ids
  BY <1>1, Parameters DEF RelatedTo
<1>3. TypeOK'
  BY <1>1, <1>2 DEF RetrievalInv, TypeOK, table
<1>4. EligibleInv' /\ ListedInv' /\ SteadyInv'
  BY <1>1 DEF RetrievalInv, EligibleInv, ListedInv, SteadyInv, table, Live, Current
<1>5. OnlyReorders'
  BY <1>1 DEF OnlyReorders
<1>6. QED
  BY <1>3, <1>4, <1>5 DEF RetrievalInv

LEMMA SortStep == RetrievalInv /\ Sort => RetrievalInv'
<1> SUFFICES ASSUME RetrievalInv, Sort
             PROVE  RetrievalInv'
  OBVIOUS
<1>1. /\ pc = "sort" /\ pc' = "rerank" /\ ranked' \in Orders(Kept)
      /\ UNCHANGED <<table, reads, results, applied>>
  BY DEF Sort
<1>2. Kept \in SUBSET Ids /\ IsFiniteSet(Kept)
  BY CandidatesAre, Parameters, FS_Subset DEF RetrievalInv, Kept
<1>3. ranked' \in Seq(Ids)
  BY <1>1, <1>2, OrderIs
<1>4. TypeOK'
  BY <1>1, <1>3 DEF RetrievalInv, TypeOK, table, reads
<1>5. EligibleInv' /\ SteadyInv'
  BY <1>1 DEF RetrievalInv, EligibleInv, SteadyInv, table, reads, Live, Current
<1>6. Kept' = Kept
  BY <1>1 DEF reads, Kept, OfTheSubject, Subjects, Shape, Wanted, EntityMatch, Mentions
<1>7. ListedInv'
  BY <1>1, <1>6, EmptyLists DEF RetrievalInv, ListedInv, reads
<1>8. OnlyReorders'
  BY <1>1 DEF OnlyReorders
<1>9. QED
  BY <1>4, <1>5, <1>7, <1>8 DEF RetrievalInv

(* The answer to the request, from a list that keeps to the ranking.       *)
LEMMA FinishStep ==
  ASSUME RetrievalInv, UNCHANGED <<table, reads, ranked>>, pc = "rerank",
         applied' \in BOOLEAN, NEW list, Finish(list), list \in Seq(Ids), IsInjective(list),
         Len(list) = Len(ranked), Range(list) \subseteq Range(ranked),
         \A k \in 1 .. Len(list) :
           IF applied' /\ k <= RerankLimit
           THEN list[k] \in Range(First(ranked)) ELSE list[k] = ranked[k]
  PROVE  RetrievalInv'
<1>1. PICK limit \in Limits : results' = Cut(list, limit)
  BY DEF Finish
<1>2. pc' = "done" /\ limit \in Nat
  BY Parameters DEF Finish
<1>3. /\ results' \in Seq(Ids) /\ Range(results') \in SUBSET Range(list)
      /\ Len(results') = IF limit < Len(list) THEN limit ELSE Len(list)
      /\ \A k \in 1 .. Len(results') : k \in 1 .. Len(list) /\ results'[k] = list[k]
      /\ IsInjective(results')
  BY <1>1, <1>2, CutIs
<1>4. TypeOK'
  BY <1>2, <1>3 DEF RetrievalInv, TypeOK, table, reads
<1>5. EligibleInv' /\ SteadyInv'
  BY <1>2 DEF RetrievalInv, EligibleInv, SteadyInv, table, reads, Live, Current
<1>6. Kept' = Kept
  BY DEF reads, Kept, OfTheSubject, Subjects, Shape, Wanted, EntityMatch, Mentions
<1>7. ListedInv'
  BY <1>2, <1>3, <1>6 DEF RetrievalInv, ListedInv, reads
<1>8. OnlyReorders'
  <2>1. ranked \in Seq(Ids) /\ ranked' = ranked
    BY DEF RetrievalInv, TypeOK
  <2>2. Len(results') = Len(Cut(ranked, limit))
    BY <1>2, <1>3, <2>1, CutIs
  <2>3. DOMAIN results' = 1 .. Len(results')
    BY <1>3
  <2>4. \A k \in 1 .. Len(results') :
          IF applied' /\ k <= RerankLimit
          THEN results'[k] \in Range(First(ranked)) ELSE results'[k] = ranked[k]
    BY <1>3
  <2>5. First(ranked') = First(ranked) /\ Cut(ranked', limit) = Cut(ranked, limit)
    BY <2>1
  <2>6. QED
    BY <1>3, <2>1, <2>2, <2>3, <2>4, <2>5 DEF OnlyReorders
<1>9. QED
  BY <1>4, <1>5, <1>7, <1>8 DEF RetrievalInv

(* The ranking is an order of the candidates that are kept.                *)
LEMMA RankedIs ==
  ASSUME RetrievalInv, pc = "rerank"
  PROVE  /\ ranked \in Seq(Ids) /\ IsInjective(ranked) /\ Len(ranked) \in Nat
         /\ Range(ranked) = Kept /\ IsFiniteSet(Range(ranked)) /\ Range(ranked) \in SUBSET Ids
         /\ Len(ranked) = Cardinality(Range(ranked))
<1>1. Kept \in SUBSET Ids /\ IsFiniteSet(Kept)
  BY CandidatesAre, Parameters, FS_Subset DEF RetrievalInv, Kept
<1>2. ranked \in Orders(Kept)
  BY DEF RetrievalInv, ListedInv
<1>3. QED
  BY <1>1, <1>2, OrderIs DEF RetrievalInv, TypeOK

LEMMA FallbackStep == RetrievalInv /\ Fallback => RetrievalInv'
<1> SUFFICES ASSUME RetrievalInv, Fallback
             PROVE  RetrievalInv'
  OBVIOUS
<1>1. /\ pc = "rerank" /\ UNCHANGED <<table, reads, ranked>>
      /\ Finish(ranked) /\ applied' = applied
  BY DEF Fallback, Answer
<1>2. ~applied /\ applied' = FALSE
  BY <1>1 DEF RetrievalInv, ListedInv, TypeOK
<1>3. ranked \in Seq(Ids) /\ IsInjective(ranked)
  BY <1>1, RankedIs
<1>4. QED
  BY <1>1, <1>2, <1>3, FinishStep

(* What a valid answer names are candidates that were sent, each once.     *)
LEMMA AnswerIs ==
  ASSUME ranked \in Seq(Ids), NEW ids \in Answers, ValidAnswer(ids)
  PROVE  /\ ids \in Seq(Ids) /\ IsInjective(ids) /\ Range(ids) \subseteq Range(ranked)
         /\ \A k \in 1 .. Len(ids) :
              \E l \in 1 .. Len(ranked) : l <= RerankLimit /\ ids[k] = ranked[l]
<1>1. PICK m \in 0 .. MaxAnswer : ids \in [1 .. m -> Ids \cup {Invented}]
  BY DEF Answers, SeqOf
<1>2. ids \in Seq(Ids \cup {Invented}) /\ Len(ids) = m /\ m \in Nat
  BY <1>1, Parameters
<1>3. Range(ids) \subseteq Range(First(ranked)) /\ IsInjective(ids)
  BY DEF ValidAnswer, AnyKnown
<1>4. /\ First(ranked) \in Seq(Ids) /\ Range(First(ranked)) \in SUBSET Range(ranked)
      /\ Len(First(ranked)) = IF RerankLimit < Len(ranked) THEN RerankLimit ELSE Len(ranked)
      /\ \A k \in 1 .. Len(First(ranked)) : k \in 1 .. Len(ranked) /\ First(ranked)[k] = ranked[k]
  BY Parameters, CutIs DEF First
<1>5. ASSUME NEW k \in 1 .. m
      PROVE  \E l \in 1 .. Len(ranked) : l <= RerankLimit /\ ids[k] = ranked[l]
  <2>1. ids[k] \in Range(First(ranked))
    BY <1>2, <1>3, ListIs
  <2>2. PICK l \in 1 .. Len(First(ranked)) : First(ranked)[l] = ids[k]
    BY <1>4, <2>1, ListIs
  <2>3. l <= RerankLimit
    BY <1>4, <2>2, Parameters, ListIs
  <2>4. QED
    BY <1>4, <2>2, <2>3
<1>6. ids \in Seq(Ids)
  <2>1. \A k \in 1 .. m : ids[k] \in Ids
    BY <1>5, ListIs
  <2>2. ids \in [1 .. m -> Ids]
    BY <1>1, <2>1
  <2>3. QED
    BY <1>2, <2>2
<1>7. QED
  BY <1>2, <1>3, <1>4, <1>5, <1>6

(* First what the reranker names, then the rest as it was: a rearrangement *)
(* of the ranking that moves nothing behind what was sent.                 *)
LEMMA RerankedIs ==
  ASSUME RetrievalInv, pc = "rerank", NEW ids \in Answers, ValidAnswer(ids),
         NEW rest \in Unseen(ids)
  PROVE  /\ ids \o rest \in Seq(Ids) /\ IsInjective(ids \o rest)
         /\ Len(ids \o rest) = Len(ranked) /\ Range(ids \o rest) = Range(ranked)
         /\ \A k \in 1 .. Len(ids \o rest) :
              IF k <= RerankLimit
              THEN (ids \o rest)[k] \in Range(First(ranked)) ELSE (ids \o rest)[k] = ranked[k]
<1>1. /\ ranked \in Seq(Ids) /\ IsInjective(ranked) /\ Len(ranked) \in Nat
      /\ IsFiniteSet(Range(ranked)) /\ Range(ranked) \in SUBSET Ids
      /\ Len(ranked) = Cardinality(Range(ranked))
  BY RankedIs
<1>2. /\ ids \in Seq(Ids) /\ IsInjective(ids) /\ Range(ids) \subseteq Range(ranked)
      /\ \A k \in 1 .. Len(ids) :
           \E l \in 1 .. Len(ranked) : l <= RerankLimit /\ ids[k] = ranked[l]
      /\ Len(ids) \in Nat /\ DOMAIN ids = 1 .. Len(ids)
  BY <1>1, AnswerIs
<1>3. PICK others : others = Range(ranked) \ Range(ids)
  OBVIOUS
<1>4. others \in SUBSET Range(ranked) /\ IsFiniteSet(others) /\ others \in SUBSET Ids
  BY <1>1, <1>3, FS_Subset
<1>5. /\ rest \in Orders(others)
      /\ \A k, l \in DOMAIN rest : k < l => Place(rest[k], ranked) < Place(rest[l], ranked)
  BY <1>3 DEF Unseen
<1>6. /\ rest \in Seq(others) /\ Range(rest) = others /\ IsInjective(rest) /\ Len(rest) \in Nat
      /\ DOMAIN rest = 1 .. Len(rest)
  BY <1>4, <1>5, OrderIs
<1>7. rest \in Seq(Ids)
  BY <1>4, <1>6
<1>8. PICK list : list = ids \o rest
  OBVIOUS
<1>9. PICK m : m = Len(ids)
  OBVIOUS
<1>10. PICK n : n = Len(ids) + Len(rest)
  OBVIOUS
<1>11. /\ m \in Nat /\ n \in Nat /\ m <= n /\ list \in Seq(Ids) /\ Len(list) = n
       /\ DOMAIN list = 1 .. n
       /\ \A k \in 1 .. n : list[k] = IF k <= m THEN ids[k] ELSE rest[k - m]
  <2>1. /\ ids \o rest \in Seq(Ids) /\ Len(ids \o rest) = Len(ids) + Len(rest)
        /\ \A i \in 1 .. Len(ids) + Len(rest) :
             (ids \o rest)[i] = IF i <= Len(ids) THEN ids[i] ELSE rest[i - Len(ids)]
    BY <1>2, <1>7, ConcatProperties
  <2>2. QED
    BY <1>2, <1>6, <1>8, <1>9, <1>10, <2>1
<1>12. /\ \A k \in 1 .. n : k <= m => k \in 1 .. m /\ list[k] = ids[k]
       /\ \A k \in 1 .. n : ~(k <= m) => k - m \in 1 .. Len(rest) /\ list[k] = rest[k - m]
  BY <1>2, <1>6, <1>9, <1>10, <1>11
<1>a. /\ \A k \in 1 .. n : k <= m => list[k] \in Range(ids)
      /\ \A k \in 1 .. n : ~(k <= m) => list[k] \in others
  <2>1. \A k \in 1 .. Len(ids) : ids[k] \in Range(ids)
    BY <1>2, ListIs
  <2>2. \A k \in 1 .. Len(rest) : rest[k] \in others
    BY <1>6, ListIs
  <2>3. QED
    BY <1>9, <1>12, <2>1, <2>2
<1>13. IsInjective(list)
  <2>1. ASSUME NEW k \in 1 .. n, NEW l \in 1 .. n, list[k] = list[l]
        PROVE  k = l
    <3>1. CASE k <= m /\ l <= m
      BY <1>2, <1>9, <1>12, <2>1, <3>1 DEF IsInjective
    <3>2. CASE ~(k <= m) /\ ~(l <= m)
      <4>1. k - m = l - m
        BY <1>6, <1>12, <2>1, <3>2 DEF IsInjective
      <4>2. QED
        BY <1>11, <4>1
    <3>3. CASE k <= m /\ ~(l <= m)
      <4>1. list[k] \in Range(ids) /\ list[l] \in others
        BY <1>a, <3>3
      <4>2. QED
        BY <1>3, <2>1, <4>1
    <3>4. CASE ~(k <= m) /\ l <= m
      <4>1. list[l] \in Range(ids) /\ list[k] \in others
        BY <1>a, <3>4
      <4>2. QED
        BY <1>3, <2>1, <4>1
    <3>5. QED
      BY <3>1, <3>2, <3>3, <3>4
  <2>2. QED
    BY <1>11, <2>1 DEF IsInjective
<1>14. Range(list) = Range(ranked)
  <2>1. Range(ids \o rest) = Range(ids) \cup Range(rest)
    BY <1>2, <1>7, RangeConcatenation
  <2>2. QED
    BY <1>2, <1>3, <1>6, <1>8, <2>1
<1>15. n = Len(ranked)
  <2>1. list \in Injection(1 .. n, Range(list)) /\ list \in Surjection(1 .. n, Range(list))
    BY <1>11, <1>13 DEF Injection, Surjection, Range
  <2>2. Cardinality(Range(list)) = Cardinality(1 .. n)
    BY <1>1, <1>14, <2>1, FS_Injection
  <2>3. Cardinality(1 .. n) = n
    BY <1>11, FS_Interval
  <2>4. QED
    BY <1>1, <1>14, <2>2, <2>3
(* Where each of the new list stood in the ranking.                        *)
<1>16. PICK p : p = [k \in 1 .. n |-> Place(list[k], ranked)]
  OBVIOUS
<1>17. ASSUME NEW k \in 1 .. n
       PROVE  p[k] \in 1 .. n /\ ranked[p[k]] = list[k]
  <2>1. list[k] \in Range(ranked)
    BY <1>11, <1>14, ListIs
  <2>2. PICK l \in 1 .. n : ranked[l] = list[k]
    BY <1>1, <1>15, <2>1, ListIs
  <2>3. Place(ranked[l], ranked) = l
    BY <1>1, <1>15, <2>2, PlaceIs
  <2>4. QED
    BY <1>16, <2>2, <2>3
<1>18. p \in [1 .. n -> 1 .. n]
  BY <1>16, <1>17
<1>19. \A k, l \in 1 .. n : p[k] = p[l] => k = l
  BY <1>11, <1>13, <1>17 DEF IsInjective
<1>20. PICK R : R = IF RerankLimit < n THEN RerankLimit ELSE n
  OBVIOUS
<1>21. R \in Nat /\ R <= n
  BY <1>11, <1>20, Parameters
<1>22. ASSUME NEW k \in 1 .. m
       PROVE  p[k] <= R
  <2>1. k \in 1 .. n /\ list[k] = ids[k]
    BY <1>11, <1>12
  <2>2. PICK l \in 1 .. n : l <= RerankLimit /\ ids[k] = ranked[l]
    BY <1>2, <1>9, <1>15
  <2>3. Place(ranked[l], ranked) = l
    BY <1>1, <1>15, <2>2, PlaceIs
  <2>4. p[k] = l
    BY <1>16, <2>1, <2>2, <2>3
  <2>5. QED
    BY <1>20, <2>2, <2>4
<1>23. ASSUME NEW k \in m + 1 .. n, NEW l \in m + 1 .. n, k < l
       PROVE  p[k] < p[l]
  <2>1. k \in 1 .. n /\ l \in 1 .. n /\ ~(k <= m) /\ ~(l <= m) /\ k - m < l - m
    BY <1>11, <1>23
  <2>2. /\ k - m \in DOMAIN rest /\ l - m \in DOMAIN rest
        /\ list[k] = rest[k - m] /\ list[l] = rest[l - m]
    BY <1>6, <1>12, <2>1
  <2>3. Place(rest[k - m], ranked) < Place(rest[l - m], ranked)
    BY <1>5, <2>1, <2>2
  <2>4. QED
    BY <1>16, <2>1, <2>2, <2>3
<1>24. \A k \in 1 .. n : IF k <= R THEN p[k] <= R ELSE p[k] = k
  <2>1. \A k \in 1 .. m : p[k] <= R
    BY <1>22
  <2>2. \A k, l \in m + 1 .. n : k < l => p[k] < p[l]
    BY <1>23
  <2>3. m \in Nat /\ n \in Nat /\ m <= n
    BY <1>11
  <2>4. Rearranges(p, n, m, R)
    BY <1>18, <1>19, <2>1, <2>2 DEF Rearranges
  <2>5. QED
    BY <1>21, <2>3, <2>4, OnlyTheFirstMove
<1>25. ASSUME NEW k \in 1 .. n
       PROVE  IF k <= RerankLimit THEN list[k] \in Range(First(ranked)) ELSE list[k] = ranked[k]
  <2>1. CASE k <= RerankLimit
    <3>1. p[k] \in 1 .. R /\ ranked[p[k]] = list[k]
      BY <1>17, <1>20, <1>21, <1>24, <2>1
    <3>2. /\ First(ranked) \in Seq(Ids) /\ Len(First(ranked)) = R
          /\ \A j \in 1 .. Len(First(ranked)) : First(ranked)[j] = ranked[j]
      BY <1>1, <1>15, <1>20, Parameters, CutIs DEF First
    <3>3. First(ranked)[p[k]] \in Range(First(ranked))
      BY <3>1, <3>2, ListIs
    <3>4. QED
      BY <2>1, <3>1, <3>2, <3>3
  <2>2. CASE ~(k <= RerankLimit)
    <3>1. ~(k <= R)
      BY <1>11, <1>20, <2>2, Parameters
    <3>2. QED
      BY <1>17, <1>24, <2>2, <3>1
  <2>3. QED
    BY <2>1, <2>2
<1>26. QED
  BY <1>8, <1>11, <1>13, <1>14, <1>15, <1>25

LEMMA RerankStep == RetrievalInv /\ Rerank => RetrievalInv'
<1> SUFFICES ASSUME RetrievalInv, Rerank
             PROVE  RetrievalInv'
  OBVIOUS
<1>1. pc = "rerank" /\ UNCHANGED <<table, reads, ranked>>
  BY DEF Rerank, Answer
<1>2. PICK ids \in Answers :
        ValidAnswer(ids) /\ applied' = TRUE /\ \E rest \in Unseen(ids) : Finish(ids \o rest)
  BY DEF Rerank
<1>3. PICK rest \in Unseen(ids) : Finish(ids \o rest)
  BY <1>2
<1>4. PICK list : list = ids \o rest
  OBVIOUS
<1>5. /\ list \in Seq(Ids) /\ IsInjective(list)
      /\ Len(list) = Len(ranked) /\ Range(list) = Range(ranked)
      /\ \A k \in 1 .. Len(list) :
           IF k <= RerankLimit THEN list[k] \in Range(First(ranked)) ELSE list[k] = ranked[k]
  BY <1>1, <1>2, <1>3, <1>4, RerankedIs
<1>6. Finish(list)
  BY <1>3, <1>4
<1>7. QED
  BY <1>1, <1>2, <1>5, <1>6, FinishStep

LEMMA RetrievalStep == RetrievalInv /\ [Next]_vars => RetrievalInv'
<1>1. ASSUME UNCHANGED vars
      PROVE  RetrievalInv => RetrievalInv'
  <2>1. UNCHANGED <<table, pc, reads, ranked, results, applied>>
    BY <1>1 DEF vars
  <2>2. TypeOK => TypeOK'
    BY <2>1 DEF TypeOK, table, reads
  <2>3. EligibleInv /\ SteadyInv => EligibleInv' /\ SteadyInv'
    BY <2>1 DEF EligibleInv, SteadyInv, table, reads, Live, Current
  <2>4. Kept' = Kept
    BY <2>1 DEF reads, Kept, OfTheSubject, Subjects, Shape, Wanted, EntityMatch, Mentions
  <2>5. ListedInv => ListedInv'
    BY <2>1, <2>4 DEF ListedInv, reads
  <2>6. OnlyReorders => OnlyReorders'
    BY <2>1 DEF OnlyReorders, First, Cut
  <2>7. QED
    BY <2>2, <2>3, <2>5, <2>6 DEF RetrievalInv
<1>2. Next => \/ SearchLexical \/ WithoutEmbedding \/ SearchEmbeddings \/ Reread
              \/ ReadEntities \/ Sort \/ Fallback \/ Rerank
              \/ /\ pc \in {"lexical", "semantic", "reread"}
                 /\ \E i \in Ids : Index(i) \/ \E s \in Shapes : Change(i, s)
  BY DEF Next, Collect, Order, Write
<1>3. QED
  BY <1>1, <1>2, SearchLexicalStep, EmbeddingStep, RereadStep, ReadEntitiesStep, SortStep,
     FallbackStep, RerankStep, ChangeStep, IndexStep

LEMMA RetrievalAlways == Spec => []RetrievalInv
BY RetrievalInit, RetrievalStep, PTL DEF Spec

-----------------------------------------------------------------------------
(* The theorems                                                            *)

(* What is ranked and answered are memories of the workspace, and every    *)
(* candidate is one of their versions.                                     *)
THEOREM RetrievalTypeCorrect == Spec => []TypeOK
BY RetrievalAlways, PTL DEF RetrievalInv

(* Whatever is archived or versioned between the reads: what a request     *)
(* returns was current and active in its scopes at some moment of it.      *)
THEOREM ResultsWereEligible == Spec => []WasEligible
<1>1. RetrievalInv => WasEligible
  <2> SUFFICES ASSUME RetrievalInv, NEW i \in Range(results)
               PROVE  <<i, candidates[i].version>> \in was
    BY DEF WasEligible
  <2>1. pc \in {"rerank", "done"}
    BY EmptyLists DEF RetrievalInv, ListedInv, TypeOK
  <2>2. Range(ranked) = Kept
    <3>1. Kept \in SUBSET Ids /\ IsFiniteSet(Kept)
      BY CandidatesAre, Parameters, FS_Subset DEF RetrievalInv, Kept
    <3>2. QED
      BY <2>1, <3>1, OrderIs DEF RetrievalInv, ListedInv
  <2>3. i \in DOMAIN candidates
    BY <2>2 DEF RetrievalInv, ListedInv, Kept
  <2>4. QED
    BY <2>3 DEF RetrievalInv, EligibleInv
<1>2. QED
  BY RetrievalAlways, <1>1, PTL

(* A memory that has the words and that nobody touches is ranked, whatever *)
(* happens to the others and whatever the other searches find.             *)
THEOREM MatchesAreRanked == Spec => []MatchedIsRanked
<1>1. RetrievalInv => MatchedIsRanked
  <2> SUFFICES ASSUME RetrievalInv, pc \in {"rerank", "done"}, NEW i \in steady,
                      memory[i].shape.live, memory[i].shape.matches
               PROVE  \/ i \in Range(ranked)
                      \/ Len(lexical) = LexicalLimit /\ i \notin Range(lexical)
                      \/ Subjects # {} /\ memory[i].shape.subject \notin Subjects
                      \/ focus \in {"single", "named"} /\ ~memory[i].shape.mentions
    BY DEF MatchedIsRanked
  <2>1. Range(ranked) = Kept
    <3>1. Kept \in SUBSET Ids /\ IsFiniteSet(Kept)
      BY CandidatesAre, Parameters, FS_Subset DEF RetrievalInv, Kept
    <3>2. QED
      BY <3>1, OrderIs DEF RetrievalInv, ListedInv
  <2>2. CASE i \notin Range(lexical)
    BY <2>2 DEF RetrievalInv, SteadyInv
  <2>3. CASE i \in Range(lexical)
    <3>1. i \in DOMAIN candidates /\ Shape(i) = memory[i].shape
      BY <2>3 DEF RetrievalInv, SteadyInv, ListedInv, Shape
    <3>2. CASE OfTheSubject(i) /\ Wanted(i)
      BY <2>1, <3>1, <3>2 DEF Kept
    <3>3. CASE ~OfTheSubject(i)
      <4>1. Subjects # {}
        BY <3>3, FS_EmptySet DEF OfTheSubject
      <4>2. QED
        BY <3>1, <3>3, <4>1 DEF OfTheSubject
    <3>4. CASE ~Wanted(i)
      BY <3>1, <3>4 DEF Wanted, EntityMatch, Mentions
    <3>5. QED
      BY <3>2, <3>3, <3>4
  <2>4. QED
    BY <2>2, <2>3
<1>2. QED
  BY RetrievalAlways, <1>1, PTL

(* Whatever list of identifiers a reranker answers, of whatever length: it *)
(* adds and repeats no result, what it was not sent follows in its order   *)
(* and leaves only to the limit, and without a valid answer the ranking    *)
(* stands.                                                                 *)
THEOREM RerankersReorderOrReject == Spec => []RerankReordersOrRejects
<1>1. ASSUME RetrievalInv, pc = "done"
      PROVE  RerankReordersOrRejects
  <2>1. /\ ranked \in Seq(Ids) /\ IsInjective(ranked) /\ results \in Seq(Ids)
        /\ RerankLimit \in Nat /\ Limits \in SUBSET Nat
    <3>1. Kept \in SUBSET Ids /\ IsFiniteSet(Kept)
      BY <1>1, CandidatesAre, Parameters, FS_Subset DEF RetrievalInv, Kept
    <3>2. ranked \in Orders(Kept)
      BY <1>1 DEF RetrievalInv, ListedInv
    <3>3. QED
      BY <1>1, <3>1, <3>2, OrderIs, Parameters DEF RetrievalInv, TypeOK
  <2>2. /\ DOMAIN ranked = 1 .. Len(ranked) /\ Len(ranked) \in Nat
        /\ DOMAIN results = 1 .. Len(results) /\ Len(results) \in Nat
    BY <2>1, ListIs
  <2>3. PICK limit \in Limits : Len(results) = Len(Cut(ranked, limit))
    BY <1>1 DEF RetrievalInv, OnlyReorders
  <2>4. /\ Len(results) = IF limit < Len(ranked) THEN limit ELSE Len(ranked)
        /\ \A k \in 1 .. Len(results) : Cut(ranked, limit)[k] = ranked[k]
        /\ limit \in Nat /\ Cut(ranked, limit) \in Seq(Ids)
    BY <2>1, <2>3, CutIs
  <2>5. /\ IsInjective(results) /\ Range(results) \subseteq Range(ranked)
        /\ \A k \in DOMAIN results :
             IF applied /\ k <= RerankLimit
             THEN results[k] \in Range(First(ranked)) ELSE results[k] = ranked[k]
    BY <1>1 DEF RetrievalInv, OnlyReorders, ListedInv
  <2>6. ASSUME ~applied
        PROVE  results = Cut(ranked, limit)
    <3>1. \A k \in 1 .. Len(results) : results[k] = Cut(ranked, limit)[k]
      BY <2>2, <2>4, <2>5, <2>6
    <3>2. QED
      BY <2>1, <2>3, <2>4, <3>1, SeqEqual
  <2>7. \A k \in DOMAIN results : k > RerankLimit => results[k] = ranked[k] /\ k \in DOMAIN ranked
    BY <2>1, <2>2, <2>4, <2>5
  <2>8. ASSUME NEW k \in DOMAIN results, results[k] \in Unsent
        PROVE  k > RerankLimit
    <3>1. PICK j \in DOMAIN ranked : j > RerankLimit /\ ranked[j] = results[k]
      BY <2>8 DEF Unsent
    <3>2. results[k] \notin Range(First(ranked))
      <4>1. /\ \A i \in 1 .. Len(First(ranked)) : i \in 1 .. Len(ranked) /\ First(ranked)[i] = ranked[i]
            /\ Len(First(ranked)) <= RerankLimit /\ First(ranked) \in Seq(Ids)
        BY <2>1, <2>2, CutIs DEF First
      <4>2. ASSUME results[k] \in Range(First(ranked))
            PROVE  FALSE
        <5>1. PICK i \in 1 .. Len(First(ranked)) : First(ranked)[i] = results[k]
          BY <4>1, <4>2, ListIs
        <5>2. ranked[i] = ranked[j] /\ i \in DOMAIN ranked
          BY <2>2, <3>1, <4>1, <5>1
        <5>3. i = j
          BY <2>1, <5>2 DEF IsInjective
        <5>4. QED
          BY <2>1, <2>2, <3>1, <4>1, <5>1, <5>3, ListIs
      <4>3. QED
        BY <4>2
    <3>3. CASE k <= RerankLimit
      <4>1. results[k] = ranked[k] /\ k \in DOMAIN ranked
        BY <2>2, <2>4, <2>5, <2>8, <3>2, <3>3
      <4>2. k = j
        BY <2>1, <3>1, <4>1 DEF IsInjective
      <4>3. QED
        BY <3>1, <4>2
    <3>4. QED
      BY <2>1, <2>2, <3>3
  <2>9. Unsent \subseteq Range(results) \/ Len(results) = limit
    <3>1. ASSUME Len(results) # limit, NEW j \in DOMAIN ranked, j > RerankLimit
          PROVE  ranked[j] \in Range(results)
      <4>1. j \in DOMAIN results
        BY <2>2, <2>4, <3>1
      <4>2. results[j] = ranked[j]
        BY <2>7, <3>1, <4>1
      <4>3. QED
        BY <4>1, <4>2 DEF Range
    <3>2. QED
      BY <3>1 DEF Unsent
  <2>10. ASSUME NEW k \in DOMAIN results, NEW l \in DOMAIN results, k < l, results[k] \in Unsent
         PROVE  results[l] \in Unsent /\ Place(results[k], ranked) < Place(results[l], ranked)
    <3>1. k > RerankLimit /\ l > RerankLimit
      BY <2>1, <2>2, <2>8, <2>10
    <3>2. /\ results[k] = ranked[k] /\ k \in 1 .. Len(ranked)
          /\ results[l] = ranked[l] /\ l \in 1 .. Len(ranked)
      BY <2>2, <2>7, <3>1
    <3>3. Place(results[k], ranked) = k /\ Place(results[l], ranked) = l
      BY <2>1, <3>2, PlaceIs
    <3>4. QED
      BY <2>2, <2>10, <3>1, <3>2, <3>3 DEF Unsent
  <2>11. QED
    BY <2>3, <2>4, <2>5, <2>6, <2>9, <2>10 DEF RerankReordersOrRejects
<1>2. RetrievalInv => RerankReordersOrRejects
  BY <1>1 DEF RerankReordersOrRejects
<1>3. QED
  BY RetrievalAlways, <1>2, PTL
=============================================================================
