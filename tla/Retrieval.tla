------------------------------ MODULE Retrieval ------------------------------
(***************************************************************************)
(* Service.RetrieveMemories: one request collects candidates with several  *)
(* reads of the store, ranks them and may ask a reranker, while clients    *)
(* version and archive the memories it is looking at.                      *)
(*                                                                         *)
(* Data.  Of a version only what the ranking looks at is kept: a shape.    *)
(* Scores are whole numbers, the weights in hundredths times components in *)
(* thousandths.  The text engine, the embedder with the vectors that are   *)
(* ready (EmbeddingJobs), the relationships and the reranker are inputs:   *)
(* any answer they can give.  Scopes have been expanded (ScopeTree).       *)
(* index_fresh and the explanations are left out.                          *)
(***************************************************************************)
EXTENDS Integers, Sequences, SequencesExt, FiniteSetsExt, Functions

CONSTANTS
  Ids,          \* the memories of the workspace: numbers, for their order
  Shapes,       \* see ShapesAssumption
  NoSubject,
  InQuery,      \* the subjects that the query contains
  LexicalLimit, \* retrievalCandidateLimit
  RerankLeast,  \* the fewest candidates worth reranking
  RerankLimit,  \* rerankCandidateLimit
  Margin,       \* the lead that makes a match confident, a score
  Limits,       \* the values of limit in requests
  Related,      \* the memories with a relationship to one of the entities
  Invented,     \* an identifier that no memory has
  MaxAnswer,    \* bound: identifiers in the reranker's answer
  MaxChanges    \* bound: versions written during the request

(* live: active, in scope and valid today; matches: its text has a term of *)
(* the query; mentions: it names an entity; exact: the query contains its  *)
(* subject or title; base: what scope, importance, confidence and recency  *)
(* add to the score; at: updated_at.                                       *)
ASSUME ShapesAssumption ==
  \A s \in Shapes :
    /\ s.live \in BOOLEAN /\ s.matches \in BOOLEAN /\ s.mentions \in BOOLEAN
    /\ s.exact \in BOOLEAN /\ s.episode \in BOOLEAN
    /\ s.base \in Nat /\ s.at \in Nat
ASSUME LimitsAssumption ==
  /\ Ids \subseteq Nat /\ IsFiniteSet(Ids) /\ Invented \notin Ids /\ NoSubject \notin InQuery
  /\ Related \subseteq Ids /\ Limits \subseteq Nat \ {0}
  /\ {LexicalLimit, RerankLeast, RerankLimit} \subseteq Nat \ {0}
  /\ {Margin, MaxAnswer, MaxChanges} \subseteq Nat
  /\ RerankLeast >= 2

(* How many entities the query resolves to, or the request names some.     *)
Focuses == {"open", "single", "several", "named"}
Modes == {"lexical", "semantic_hybrid"}

VARIABLES
  memory,    \* the current versions: [version, shape]
  indexed,   \* those whose text is in the index as it is in the table
  changes,   \* versions written so far
  was,       \* history: the versions that were eligible during the request
  steady,    \* history: the memories nobody has touched
  pc,
  lexical, focus, semantic, \* what the reads have returned
  mode,
  candidates, \* id -> version and shape, as it was read
  related,    \* RelatedObjectIDs
  ranked,     \* the order of the hybrid ranking: ids
  results, applied

table == <<memory, indexed, changes, was, steady>>
reads == <<lexical, focus, semantic, mode, candidates, related>>
vars == <<table, pc, reads, ranked, results, applied>>

-----------------------------------------------------------------------------
(* The store                                                               *)

Current(i) == <<i, memory[i].version>>
Live == {i \in Ids : memory[i].shape.live}

(* The text of the former version stays in the index until PutMemory       *)
(* writes the new one.  The query joins it with the current version.       *)
MayMatch(i) == i \notin indexed \/ memory[i].shape.matches
MustMatch(i) == i \in indexed /\ memory[i].shape.matches

Orders(set) == SetToSeqs(set)
Cut(list, n) == SubSeq(list, 1, IF n < Len(list) THEN n ELSE Len(list))

(* VersionMemory, SetMemoryState or CreateMemory commits.                  *)
Change(i, s) ==
  /\ changes < MaxChanges /\ changes' = changes + 1
  /\ memory' = [memory EXCEPT ![i] = [version |-> @.version + 1, shape |-> s]]
  /\ indexed' = indexed \ {i}
  /\ steady' = steady \ {i}
  /\ was' = was \cup IF s.live THEN {<<i, memory[i].version + 1>>} ELSE {}
  /\ UNCHANGED <<pc, reads, ranked, results, applied>>

Index(i) ==
  /\ i \notin indexed /\ indexed' = indexed \cup {i}
  /\ UNCHANGED <<memory, changes, was, steady, pc, reads, ranked, results, applied>>

-----------------------------------------------------------------------------
(* The reads                                                               *)

(* SearchMemoryCandidates, ordered by the text engine.                     *)
SearchLexical ==
  /\ pc = "lexical" /\ pc' = "semantic"
  /\ \E hits \in SUBSET {i \in Live : MayMatch(i)} :
       /\ {i \in Live : MustMatch(i)} \subseteq hits
       /\ \E order \in Orders(hits) : lexical' = Cut(order, LexicalLimit)
  /\ candidates' = [i \in Range(lexical') |-> memory[i]]
  /\ UNCHANGED <<table, focus, semantic, mode, related, ranked, results, applied>>

(* The embedder is missing, fails or is late, or SearchEmbeddings fails.   *)
WithoutEmbedding ==
  /\ pc = "semantic" /\ pc' = "rank"
  /\ UNCHANGED <<table, reads, ranked, results, applied>>

SearchEmbeddings ==
  /\ pc = "semantic" /\ pc' = "reread"
  /\ mode' = "semantic_hybrid"
  /\ \E ready \in SUBSET Live : semantic' \in Orders(ready)
  /\ UNCHANGED <<table, lexical, focus, candidates, related, ranked, results, applied>>

Missing == Range(semantic) \ DOMAIN candidates

(* The join with memory_current is trusted.                                *)
AsFound(i) == TRUE
(* if retrievalEligible(memory, ...)                                       *)
Eligible(i) == memory[i].shape.live

(* GetCurrentMemories, or its error, which leaves the candidates as they   *)
(* are.                                                                    *)
Reread ==
  /\ pc = "reread" /\ pc' = "rank"
  /\ \E found \in {Missing, {}} :
       candidates' = [i \in DOMAIN candidates \cup {j \in found : Eligible(j)} |->
                        IF i \in DOMAIN candidates THEN candidates[i] ELSE memory[i]]
  /\ UNCHANGED <<table, lexical, focus, semantic, mode, related, ranked, results, applied>>

-----------------------------------------------------------------------------
(* The ranking                                                             *)

Shape(i) == candidates[i].shape

Place(i, list) == SelectInSeq(list, LAMBDA j : j = i)
(* 61 / (60 + rank), nothing for what is not in the list.                  *)
ReciprocalRank(i, list) ==
  IF i \in Range(list) THEN 61000 \div (60 + Place(i, list)) ELSE 0

(* memoryMentionsEntity                                                    *)
Mentions(i) == focus # "open" /\ Shape(i).mentions
EntityMatch(i) == i \in related \/ Mentions(i)

Score(i) ==
  (IF mode = "semantic_hybrid"
   THEN 36 * ReciprocalRank(i, lexical) + 29 * ReciprocalRank(i, semantic)
   ELSE 65 * ReciprocalRank(i, lexical))
  + (IF EntityMatch(i) THEN 15000 ELSE 0) + Shape(i).base

(* canonicalCandidateSubject: the one subject the query contains.          *)
Subjects == {Shape(i).subject : i \in DOMAIN candidates} \cap InQuery
OfTheSubject(i) == Cardinality(Subjects) = 1 => Shape(i).subject \in Subjects

(* As soon as an entity is found.                                          *)
AlwaysWanted(i) == focus # "open" => EntityMatch(i)
(* if enforceEntity && !entityMatch { continue }                           *)
Wanted(i) == focus \in {"single", "named"} => EntityMatch(i)

Kept == {i \in DOMAIN candidates : OfTheSubject(i) /\ Wanted(i)}

(* Equal scores: the newer version, then the later update.                 *)
NewerOrBetter(i, j) ==
  \/ Score(i) > Score(j)
  \/ /\ Score(i) = Score(j)
     /\ \/ candidates[i].version > candidates[j].version
        \/ /\ candidates[i].version = candidates[j].version
           /\ Shape(i).at > Shape(j).at
Before(i, j) ==
  \/ NewerOrBetter(i, j)
  \/ ~NewerOrBetter(j, i) /\ i < j

(* RelatedObjectIDs, whose error counts as nothing found.                  *)
RelatedTo(entities) == IF entities = "open" THEN {{}} ELSE {Related, {}}

(* ResolveEntities and GetEntity, then RelatedObjectIDs.  The first two    *)
(* are called earlier; nothing looks at their answers before the ranking.  *)
ReadEntities ==
  /\ pc = "rank" /\ pc' = "sort"
  /\ focus' \in Focuses
  /\ related' \in RelatedTo(focus')
  /\ UNCHANGED <<table, lexical, semantic, mode, candidates, ranked, results, applied>>

(* The candidates come out of a map, in any order, and are sorted.         *)
Sort ==
  /\ pc = "sort" /\ pc' = "rerank"
  /\ \E order \in Orders(Kept) :
       /\ \A k, l \in DOMAIN order : k < l => ~Before(order[l], order[k])
       /\ ranked' = order
  /\ UNCHANGED <<table, reads, results, applied>>

-----------------------------------------------------------------------------
(* The reranker                                                            *)

(* ambiguousCandidateSubjects over the ranked memories.                    *)
NamedSubjects == {Shape(i).subject : i \in {j \in Range(ranked) : ~Shape(j).episode}} \ {NoSubject}
Ambiguous ==
  focus # "named" /\ \/ focus = "several"
                     \/ NamedSubjects \cap InQuery = {} /\ Cardinality(NamedSubjects) > 1

Confident ==
  /\ Score(ranked[1]) - Score(ranked[2]) >= Margin
  /\ Shape(ranked[1]).exact

First(list) == Cut(list, RerankLimit)
RerankCalled(when) ==
  /\ ~Ambiguous
  /\ Len(First(ranked)) >= RerankLeast
  /\ when = "always" \/ (when = "auto" /\ ~Confident)

(* Only what was not sent is refused.                                      *)
AnyKnown(ids) == ids # <<>> /\ Range(ids) \subseteq Range(First(ranked))
(* Unknown, repeated or no ids: invalid_provider_result.                   *)
ValidAnswer(ids) == AnyKnown(ids) /\ IsInjective(ids)

(* if !seen[item.Memory.ID] { ordered = append(ordered, item) }: the rest, *)
(* as it was.                                                              *)
Unseen(ids) ==
  {rest \in Orders(Range(ranked) \ Range(ids)) :
     \A k, l \in DOMAIN rest : k < l => Place(rest[k], ranked) < Place(rest[l], ranked)}

(* What a provider may send: any list of identifiers.                      *)
Answers == SeqOf(Ids \cup {Invented}, MaxAnswer)

Finish(list) ==
  /\ pc' = "done"
  /\ \E limit \in Limits : results' = Cut(list, limit)
Answer == pc = "rerank" /\ UNCHANGED <<table, reads, ranked>>

(* Not called (rerank is "never", or see RerankCalled), no provider, or    *)
(* its answer is late, refused or invalid.                                 *)
Fallback == Answer /\ Finish(ranked) /\ UNCHANGED applied

Rerank ==
  /\ Answer /\ \E when \in {"auto", "always"} : RerankCalled(when)
  /\ \E ids \in Answers :
       /\ ValidAnswer(ids)
       /\ \E rest \in Unseen(ids) : Finish(ids \o rest)
       /\ applied' = TRUE

-----------------------------------------------------------------------------
Init ==
  /\ memory \in [Ids -> [version : {1}, shape : Shapes]]
  /\ indexed = Ids /\ changes = 0
  /\ was = {Current(i) : i \in Live} /\ steady = Ids
  /\ pc = "lexical"
  /\ lexical = <<>> /\ focus = "open" /\ semantic = <<>> /\ mode = "lexical"
  /\ candidates = <<>> /\ related = {} /\ ranked = <<>>
  /\ results = <<>> /\ applied = FALSE

Collect == SearchLexical \/ WithoutEmbedding \/ SearchEmbeddings \/ Reread
Order == ReadEntities \/ Sort \/ Fallback \/ Rerank
(* What is written after the last read of memories, the request does not   *)
(* see.                                                                    *)
Write ==
  /\ pc \in {"lexical", "semantic", "reread"}
  /\ \E i \in Ids : Index(i) \/ \E s \in Shapes : Change(i, s)
Next == Collect \/ Order \/ Write

Spec == Init /\ [][Next]_vars

-----------------------------------------------------------------------------
(* Properties                                                              *)

Version == [version : Nat \ {0}, shape : Shapes]

TypeOK ==
  /\ memory \in [Ids -> Version] /\ changes \in 0 .. MaxChanges
  /\ indexed \subseteq Ids /\ steady \subseteq Ids /\ was \subseteq Ids \X Nat
  /\ pc \in {"lexical", "semantic", "reread", "rank", "sort", "rerank", "done"}
  /\ {lexical, semantic, ranked, results} \subseteq Seq(Ids)
  /\ focus \in Focuses /\ mode \in Modes /\ related \subseteq Ids
  /\ \E found \in SUBSET Ids : candidates \in [found -> Version]
  /\ applied \in BOOLEAN

(* What a request returns was the current, active version of a memory in   *)
(* its scopes at some moment of the request, although it is found by one   *)
(* read, fetched by another and answered after a third: a memory archived  *)
(* or versioned before is not there as it was (the current-version joins,  *)
(* retrievalEligible).                                                     *)
WasEligible == \A i \in Range(results) : <<i, candidates[i].version>> \in was

(* A memory that matches the words of the query is ranked, whatever the    *)
(* embedder, the vectors and the other memories do, when nobody touches it *)
(* during the request: only the limit of the text search, the one subject  *)
(* the query names and the entity it is about leave it out                 *)
(* (RetrieveMemories: lexical candidates come first and stay).             *)
MatchedIsRanked ==
  pc \in {"rerank", "done"} =>
    \A i \in steady :
      (memory[i].shape.live /\ memory[i].shape.matches) =>
        \/ i \in Range(ranked)
        \/ Len(lexical) = LexicalLimit /\ i \notin Range(lexical)
        \/ Subjects # {} /\ memory[i].shape.subject \notin Subjects
        \/ focus \in {"single", "named"} /\ ~memory[i].shape.mentions

(* The ranked memories the reranker is not sent.                           *)
Unsent == {ranked[k] : k \in {j \in DOMAIN ranked : j > RerankLimit}}

(* A reranker reorders or rejects the candidates it was sent and no more:  *)
(* it adds and repeats none, the memories it was not sent follow all the   *)
(* others in their order and leave only to the limit, and without a valid  *)
(* answer the hybrid order stands.  Whether what a valid answer leaves out *)
(* is kept is left open here: docs/OPERATIONS.md has it rejected, and      *)
(* maybeRerank appends it.                                                 *)
RerankReordersOrRejects ==
  pc = "done" =>
    /\ IsInjective(results) /\ Range(results) \subseteq Range(ranked)
    /\ \E limit \in Limits :
         /\ Len(results) <= limit
         /\ ~applied => results = Cut(ranked, limit)
         /\ Unsent \subseteq Range(results) \/ Len(results) = limit
    /\ \A k, l \in DOMAIN results :
         k < l /\ results[k] \in Unsent =>
           results[l] \in Unsent /\ Place(results[k], ranked) < Place(results[l], ranked)
=============================================================================
