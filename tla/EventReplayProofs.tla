------------------------- MODULE EventReplayProofs -------------------------
(***************************************************************************)
(* TLAPS proofs about WorkflowIngest and EventReplay, for every set of     *)
(* deliveries and events, any number of references and any bounds.         *)
(***************************************************************************)
EXTENDS EventReplay, FiniteSetTheorems, TLAPS

-----------------------------------------------------------------------------
(* The inductive invariant of WorkflowIngest                               *)

Ids == Deliveries \X Nat
Versions == Nat \ {0}
MemoryRows == [id : Ids, version : Versions, event : Events]
RelRows == [id : Ids \X Nat, version : {1}, from : Ids, event : Events, ref : Nat]
AllKeys ==
  {MemoryKey(w) : w \in Events} \cup {ReferenceKey(w, i) : w \in Events, i \in Nat}
    \cup {ClientKey(i, v) : i \in Ids, v \in Versions}
Entries ==
  [key : AllKeys, kind : {"memory"}, row : MemoryRows]
    \cup [key : AllKeys, kind : {"relationship"}, row : RelRows]

IdsOf(rows) == {m.id : m \in rows}
Labels == {"lookup", "create", "reference", "link", "failed", "answered"}

StoreOK ==
  /\ log \in Seq(Entries)
  /\ memories \subseteq MemoryRows /\ rels \subseteq RelRows
  /\ current \in [IdsOf(memories) -> Versions]
HandlingOK ==
  /\ pc \in [Deliveries -> Labels] /\ try \in [Deliveries -> Nat]
  /\ got \in [Deliveries -> Ids \cup {<<>>}] /\ ref \in [Deliveries -> Nat]
  /\ broken \in [Deliveries -> BOOLEAN]
IngestTypeInv == StoreOK /\ HandlingOK

(* Every episode and every relationship has taken the key of its event,    *)
(* and a key leads to the episode, or the relationship, it was taken for.  *)
EpisodesKeyed == \A m \in memories : Known(MemoryKey(m.event))
LinksKeyed == \A r \in rels : Known(ReferenceKey(r.event, r.ref))
KeysOfEpisodes ==
  \A n \in DOMAIN log, w \in Events :
    log[n].key = MemoryKey(w) => log[n].row.id \in EpisodesOf(w)
KeysOfLinks ==
  \A n \in DOMAIN log, w \in Events, i \in Nat :
    log[n].key = ReferenceKey(w, i) => LinksOf(w, i) # {}
KeyInv == EpisodesKeyed /\ LinksKeyed /\ KeysOfEpisodes /\ KeysOfLinks

OneIdPerEvent == \A m, n \in memories : m.event = n.event => m.id = n.id
OneLinkPerReference ==
  \A r, q \in rels : r.event = q.event /\ r.ref = q.ref => r = q
LinksLeaveEpisodes == \A r \in rels : r.from \in EpisodesOf(r.event)
UniqueInv == OneIdPerEvent /\ OneLinkPerReference /\ LinksLeaveEpisodes

(* What a handling knows of the store at each of its statements.           *)
EpisodeHeld ==
  \A d \in Deliveries :
    At(d, "reference") \/ At(d, "link") => got[d] \in EpisodesOf(Event(d))
Past(d) ==
  (pc[d] \in {"reference", "link", "answered"} /\ ~broken[d]) =>
    \A i \in 1 .. References[Event(d)] : i < ref[d] => LinksOf(Event(d), i) # {}
ProgressInv ==
  \A d \in Deliveries :
    /\ Past(d)
    /\ pc[d] \in {"lookup", "create"} => ref[d] = 1
    /\ At(d, "link") => More(d)
    /\ At(d, "answered") => ~More(d)

(* A handling makes one object, under an id no other has: a pointer never  *)
(* goes back.                                                              *)
IdsFresh ==
  \A m \in memories, d \in Deliveries :
    m.id[1] = d =>
      /\ m.id[2] <= try[d]
      /\ m.id[2] = try[d] => pc[d] \notin {"lookup", "create"}
PointersNewest ==
  /\ \A m \in memories : m.version <= current[m.id]
  /\ \A i \in DOMAIN current : \E m \in memories : m.id = i /\ m.version = current[i]
RowsIn(entries, kind) == {e.row : e \in {x \in entries : x.kind = kind}}
RowsLogged ==
  /\ memories = RowsIn(Range(log), "memory")
  /\ rels = RowsIn(Range(log), "relationship")

StoreInv == IdsFresh /\ PointersNewest /\ RowsLogged

-----------------------------------------------------------------------------
(* Lemmas about keys, sequences and one write of the store                 *)

(* What a delivery brings is an event with its references.                 *)
LEMMA EventsOfDeliveries ==
  /\ \A d \in Deliveries : Event(d) \in Events
  /\ References \in [Events -> Nat]
BY EventsAssumption DEF Event, Events, Range

(* The three sorts of keys are told apart by their lengths.                *)
LEMMA KeysApart ==
  /\ \A w, x : MemoryKey(w) = MemoryKey(x) => w = x
  /\ \A w, i, x, j : ReferenceKey(w, i) = ReferenceKey(x, j) => w = x /\ i = j
  /\ \A w, x, j : MemoryKey(w) # ReferenceKey(x, j)
  /\ \A w, i, v : MemoryKey(w) # ClientKey(i, v)
  /\ \A w, j, i, v : ReferenceKey(w, j) # ClientKey(i, v)
<1>1. /\ \A w : Len(MemoryKey(w)) = 1
      /\ \A w, i : Len(ReferenceKey(w, i)) = 2
      /\ \A i, v : Len(ClientKey(i, v)) = 3
  BY DEF MemoryKey, ReferenceKey, ClientKey
<1>2. /\ \A w, x : MemoryKey(w) = MemoryKey(x) => w = x
      /\ \A w, i, x, j : ReferenceKey(w, i) = ReferenceKey(x, j) => w = x /\ i = j
  BY DEF MemoryKey, ReferenceKey
<1>3. QED
  BY <1>1, <1>2

(* What Append does to a sequence and its range.                           *)
LEMMA Appended ==
  ASSUME NEW S, NEW s \in Seq(S), NEW e \in S
  PROVE  /\ Append(s, e) \in Seq(S)
         /\ DOMAIN Append(s, e) = DOMAIN s \cup {Len(s) + 1}
         /\ \A n \in DOMAIN s : Append(s, e)[n] = s[n]
         /\ Append(s, e)[Len(s) + 1] = e
         /\ Range(Append(s, e)) = Range(s) \cup {e}
<1>1. /\ Append(s, e) \in Seq(S) /\ Len(Append(s, e)) = Len(s) + 1
      /\ \A n \in 1 .. Len(s) : Append(s, e)[n] = s[n]
      /\ Append(s, e)[Len(s) + 1] = e
  OBVIOUS
<1>2. DOMAIN Append(s, e) = DOMAIN s \cup {Len(s) + 1} /\ DOMAIN s = 1 .. Len(s)
  BY <1>1
<1>3. Range(Append(s, e)) = Range(s) \cup {e}
  BY <1>1, <1>2, Zenon DEF Range
<1>4. QED
  BY <1>1, <1>2, <1>3

(* A set with no two elements has one at most.                             *)
LEMMA AtMostOne ==
  ASSUME NEW S, \A x, y \in S : x = y
  PROVE  Cardinality(S) <= 1
<1>1. CASE S = {}
  BY <1>1, FS_EmptySet
<1>2. CASE S # {}
  <2>1. PICK x \in S : S = {x}
    BY <1>2
  <2>2. QED
    BY <2>1, FS_Singleton
<1>3. QED
  BY <1>1, <1>2

-----------------------------------------------------------------------------
(* The handlings keep the types of the variables                           *)

LEMMA IngestTypeInit == Init => IngestTypeInv
BY DEF Init, IngestTypeInv, StoreOK, HandlingOK, IdsOf, Labels

(* The store keeps its type when a memory is written.                      *)
LEMMA PutMemoryType ==
  ASSUME StoreOK, NEW key \in AllKeys, NEW row \in MemoryRows, PutMemory(key, row)
  PROVE  StoreOK'
<1>1. MemoryEvent(key, row) \in Entries
  BY DEF MemoryEvent, Entries
<1>2. log' \in Seq(Entries)
  BY <1>1, Appended DEF StoreOK, PutMemory
<1>3. IdsOf(memories)' = DOMAIN current \cup {row.id}
  BY DEF StoreOK, PutMemory, IdsOf
<1>4. current' \in [IdsOf(memories)' -> Versions]
  BY <1>3 DEF StoreOK, PutMemory, MemoryRows
<1>5. QED
  BY <1>2, <1>4 DEF StoreOK, PutMemory

(* The store keeps its type when a relationship is written.                *)
LEMMA PutRelationshipType ==
  ASSUME StoreOK, NEW key \in AllKeys, NEW row \in RelRows, PutRelationship(key, row)
  PROVE  StoreOK'
<1>1. RelEvent(key, row) \in Entries
  BY DEF RelEvent, Entries
<1>2. log' \in Seq(Entries)
  BY <1>1, Appended DEF StoreOK, PutRelationship
<1>3. QED
  BY <1>2 DEF StoreOK, PutRelationship, IdsOf

(* The rows a handling and a client write.                                 *)
LEMMA RowTypes ==
  ASSUME IngestTypeInv, NEW d \in Deliveries
  PROVE  /\ [id |-> NewId(d), version |-> 1, event |-> Event(d)] \in MemoryRows
         /\ got[d] \in EpisodesOf(Event(d)) =>
              [id |-> <<NewId(d), ref[d]>>, version |-> 1, from |-> got[d],
               event |-> Event(d), ref |-> ref[d]] \in RelRows
         /\ MemoryKey(Event(d)) \in AllKeys /\ Key(d) \in AllKeys
         /\ NewId(d) \in Ids
<1>1. /\ NewId(d) \in Ids /\ Event(d) \in Events /\ ref[d] \in Nat
      /\ got[d] \in EpisodesOf(Event(d)) => got[d] \in Ids
  BY EventsOfDeliveries
  DEF IngestTypeInv, HandlingOK, StoreOK, NewId, Ids, EpisodesOf, MemoryRows
<1>2. MemoryKey(Event(d)) \in AllKeys /\ Key(d) \in AllKeys
  BY <1>1 DEF AllKeys, Key
<1>3. QED
  BY <1>1, <1>2 DEF MemoryRows, RelRows, Versions

(* The next version of a memory is one, under a key of its own.            *)
LEMMA RevisionTypes ==
  ASSUME IngestTypeInv, NEW m \in memories
  PROVE  /\ [m EXCEPT !.version = @ + 1] \in MemoryRows
         /\ ClientKey(m.id, m.version) \in AllKeys
<1>1. m \in MemoryRows
  BY DEF IngestTypeInv, StoreOK
<1>2. m.id \in Ids /\ m.version \in Versions
  BY <1>1 DEF MemoryRows
<1>3. ClientKey(m.id, m.version) \in AllKeys
  BY <1>2 DEF AllKeys
<1>4. QED
  BY <1>1, <1>3 DEF MemoryRows, Versions

(* The four things a step may do to the store.                             *)
NewEpisode(d) == [id |-> NewId(d), version |-> 1, event |-> Event(d)]
NewLink(d) ==
  [id |-> <<NewId(d), ref[d]>>, version |-> 1, from |-> got[d],
   event |-> Event(d), ref |-> ref[d]]
NewVersion(m) == [m EXCEPT !.version = @ + 1]

Makes(d) == Create(d) /\ PutMemory(MemoryKey(Event(d)), NewEpisode(d))
Links(d) == Link(d) /\ PutRelationship(Key(d), NewLink(d))
Revises(m) ==
  /\ m.version = current[m.id]
  /\ PutMemory(ClientKey(m.id, m.version), NewVersion(m)) /\ UNCHANGED handling

(* A step writes an episode, a link or a revision, or leaves the store     *)
(* alone.                                                                  *)
LEMMA StoreSteps ==
  ASSUME [Next]_vars
  PROVE  \/ UNCHANGED store
         \/ \E d \in Deliveries : Makes(d)
         \/ \E d \in Deliveries : Links(d)
         \/ \E m \in memories : Revises(m)
<1>1. ASSUME NEW d \in Deliveries, Handle(d)
      PROVE  UNCHANGED store \/ Makes(d) \/ Links(d)
  <2>1. CASE LookUp(d) \/ Fail(d) \/ Reference(d) \/ Lose(d) \/ Answer(d) \/ Redeliver(d)
    BY <2>1 DEF LookUp, Fail, Reference, Lose, Answer, Redeliver
  <2>2. CASE Create(d)
    BY <2>2 DEF Create, Makes, NewEpisode
  <2>3. CASE Link(d)
    BY <2>3 DEF Link, Links, NewLink
  <2>4. QED
    BY <1>1, <2>1, <2>2, <2>3 DEF Handle
<1>2. ASSUME NEW id \in DOMAIN current, Revise(id)
      PROVE  \E m \in memories : Revises(m)
  BY <1>2 DEF Revise, Revises, NewVersion
<1>3. CASE UNCHANGED vars
  BY <1>3 DEF vars
<1>4. QED
  BY <1>1, <1>2, <1>3 DEF Next

LEMMA StoreTypeStep ==
  ASSUME IngestTypeInv, EpisodeHeld, [Next]_vars
  PROVE  StoreOK'
<1>1. CASE UNCHANGED store
  BY <1>1 DEF IngestTypeInv, StoreOK, store, IdsOf
<1>2. ASSUME NEW d \in Deliveries, Makes(d)
      PROVE  StoreOK'
  <2>1. NewEpisode(d) \in MemoryRows /\ MemoryKey(Event(d)) \in AllKeys
    BY RowTypes DEF NewEpisode
  <2>2. QED
    BY <1>2, <2>1, PutMemoryType DEF Makes, IngestTypeInv
<1>3. ASSUME NEW d \in Deliveries, Links(d)
      PROVE  StoreOK'
  <2>1. NewLink(d) \in RelRows /\ Key(d) \in AllKeys
    BY <1>3, RowTypes DEF NewLink, Links, Link, EpisodeHeld
  <2>2. QED
    BY <1>3, <2>1, PutRelationshipType DEF Links, IngestTypeInv
<1>4. ASSUME NEW m \in memories, Revises(m)
      PROVE  StoreOK'
  <2>1. NewVersion(m) \in MemoryRows /\ ClientKey(m.id, m.version) \in AllKeys
    BY RevisionTypes DEF NewVersion
  <2>2. QED
    BY <1>4, <2>1, PutMemoryType DEF Revises, IngestTypeInv
<1>5. QED
  BY <1>1, <1>2, <1>3, <1>4, StoreSteps

(* A key of an event leads to its episode, whose id the handling takes.    *)
LEMMA EpisodeFound ==
  ASSUME KeyInv, NEW w \in Events, Known(MemoryKey(w))
  PROVE  ObjectOf(MemoryKey(w)) \in EpisodesOf(w)
<1> DEFINE n == CHOOSE k \in DOMAIN log : log[k].key = MemoryKey(w)
<1>1. n \in DOMAIN log /\ log[n].key = MemoryKey(w)
  BY DEF Known, Keys
<1>2. ObjectOf(MemoryKey(w)) = log[n].row.id
  BY DEF ObjectOf
<1>3. QED
  BY <1>1, <1>2 DEF KeyInv, KeysOfEpisodes

(* An episode is found by the id of its memory.                            *)
LEMMA EpisodeIds ==
  ASSUME StoreOK, NEW w
  PROVE  EpisodesOf(w) \subseteq Ids
BY DEF StoreOK, EpisodesOf, MemoryRows

LEMMA HandlingTypeStep ==
  ASSUME IngestTypeInv, KeyInv, [Next]_vars
  PROVE  HandlingOK'
<1> USE DEF IngestTypeInv, HandlingOK
<1>1. ASSUME NEW d \in Deliveries, LookUp(d)
      PROVE  HandlingOK'
  <2>1. Known(MemoryKey(Event(d))) => ObjectOf(MemoryKey(Event(d))) \in Ids
    BY EpisodeFound, EpisodeIds, EventsOfDeliveries
  <2>2. QED
    BY <1>1, <2>1 DEF LookUp, Goto, Labels
<1>2. ASSUME NEW d \in Deliveries, Create(d)
      PROVE  HandlingOK'
  BY <1>2, RowTypes DEF Create, Goto, Labels
<1>3. ASSUME NEW d \in Deliveries, Fail(d) \/ Reference(d) \/ Link(d)
      PROVE  HandlingOK'
  <2>1. CASE Fail(d)
    BY <2>1 DEF Fail, Goto, Labels
  <2>2. CASE Reference(d)
    <3>1. /\ UNCHANGED <<try, got, broken>> /\ (NextRef(d) \/ UNCHANGED ref)
          /\ Goto(d, "reference") \/ Goto(d, "link")
      BY <2>2 DEF Reference, GoOn, NextRef
    <3>2. ref' \in [Deliveries -> Nat]
      <4>1. CASE NextRef(d)
        BY <4>1 DEF NextRef
      <4>2. CASE UNCHANGED ref
        BY <4>2
      <4>3. QED
        BY <3>1, <4>1, <4>2
    <3>3. pc' \in [Deliveries -> Labels]
      BY <3>1 DEF Goto, Labels
    <3>4. QED
      BY <3>1, <3>2, <3>3
  <2>3. CASE Link(d)
    BY <2>3 DEF Link, NextRef, Goto, Labels
  <2>4. QED
    BY <1>3, <2>1, <2>2, <2>3
<1>4. ASSUME NEW d \in Deliveries, Lose(d) \/ Answer(d) \/ Redeliver(d)
      PROVE  HandlingOK'
  <2>1. CASE Lose(d)
    BY <2>1 DEF Lose, NextRef, Goto, Labels
  <2>2. CASE Answer(d)
    BY <2>2 DEF Answer, Goto, Labels
  <2>3. CASE Redeliver(d)
    BY <2>3 DEF Redeliver, Goto, Labels
  <2>4. QED
    BY <1>4, <2>1, <2>2, <2>3
<1>5. ASSUME NEW id \in DOMAIN current, Revise(id)
      PROVE  HandlingOK'
  BY <1>5 DEF Revise, handling
<1>6. CASE UNCHANGED vars
  BY <1>6 DEF vars, handling
<1>7. QED
  BY <1>1, <1>2, <1>3, <1>4, <1>5, <1>6 DEF Next, Handle

-----------------------------------------------------------------------------
(* Keys, episodes and relationships                                        *)

(* An entry makes its own key known and no other.                          *)
LEMMA KnownAfter ==
  ASSUME StoreOK, NEW e \in Entries, log' = Append(log, e)
  PROVE  /\ \A key : Known(key)' <=> Known(key) \/ key = e.key
         /\ DOMAIN log' = DOMAIN log \cup {Len(log) + 1}
         /\ \A n \in DOMAIN log : log'[n] = log[n]
         /\ log'[Len(log) + 1] = e
         /\ Range(log)' = Range(log) \cup {e}
<1>1. /\ DOMAIN log' = DOMAIN log \cup {Len(log) + 1}
      /\ \A n \in DOMAIN log : log'[n] = log[n]
      /\ log'[Len(log) + 1] = e
      /\ Range(log)' = Range(log) \cup {e}
  BY Appended DEF StoreOK
<1>2. \A key : Known(key)' <=> Known(key) \/ key = e.key
  BY <1>1 DEF Known, Keys
<1>3. QED
  BY <1>1, <1>2

(* What the two writes add to the tables.                                  *)
LEMMA AfterMemory ==
  ASSUME StoreOK, NEW key \in AllKeys, NEW row \in MemoryRows, PutMemory(key, row)
  PROVE  /\ ~Known(key)
         /\ \A k : Known(k)' <=> Known(k) \/ k = key
         /\ DOMAIN log' = DOMAIN log \cup {Len(log) + 1}
         /\ \A n \in DOMAIN log : log'[n] = log[n]
         /\ log'[Len(log) + 1].key = key /\ log'[Len(log) + 1].row = row
         /\ Range(log)' = Range(log) \cup {MemoryEvent(key, row)}
         /\ memories' = memories \cup {row} /\ rels' = rels
         /\ \A w : EpisodesOf(w) \subseteq EpisodesOf(w)'
         /\ row.id \in EpisodesOf(row.event)'
         /\ \A w, i : LinksOf(w, i)' = LinksOf(w, i)
<1>1. MemoryEvent(key, row) \in Entries /\ MemoryEvent(key, row).key = key
  BY DEF MemoryEvent, Entries
<1>5. MemoryEvent(key, row).row = row
  BY DEF MemoryEvent
<1>2. /\ log' = Append(log, MemoryEvent(key, row)) /\ ~Known(key)
      /\ memories' = memories \cup {row} /\ rels' = rels
  BY DEF PutMemory, KeyFree
<1>3. /\ \A w : EpisodesOf(w) \subseteq EpisodesOf(w)'
      /\ row.id \in EpisodesOf(row.event)'
      /\ \A w, i : LinksOf(w, i)' = LinksOf(w, i)
  BY <1>2 DEF EpisodesOf, LinksOf
<1>4. QED
  BY <1>1, <1>2, <1>3, <1>5, KnownAfter

(* What the store is once a relationship is written.                       *)
LEMMA AfterRelationship ==
  ASSUME StoreOK, NEW key \in AllKeys, NEW row \in RelRows, PutRelationship(key, row)
  PROVE  /\ ~Known(key)
         /\ \A k : Known(k)' <=> Known(k) \/ k = key
         /\ DOMAIN log' = DOMAIN log \cup {Len(log) + 1}
         /\ \A n \in DOMAIN log : log'[n] = log[n]
         /\ log'[Len(log) + 1].key = key /\ log'[Len(log) + 1].row = row
         /\ Range(log)' = Range(log) \cup {RelEvent(key, row)}
         /\ memories' = memories /\ current' = current /\ rels' = rels \cup {row}
         /\ \A w : EpisodesOf(w)' = EpisodesOf(w)
         /\ \A w, i : LinksOf(w, i) \subseteq LinksOf(w, i)'
         /\ row \in LinksOf(row.event, row.ref)'
<1>1. RelEvent(key, row) \in Entries /\ RelEvent(key, row).key = key
  BY DEF RelEvent, Entries
<1>5. RelEvent(key, row).row = row
  BY DEF RelEvent
<1>2. /\ log' = Append(log, RelEvent(key, row)) /\ ~Known(key)
      /\ memories' = memories /\ current' = current /\ rels' = rels \cup {row}
  BY DEF PutRelationship, KeyFree
<1>3. /\ \A w : EpisodesOf(w)' = EpisodesOf(w)
      /\ \A w, i : LinksOf(w, i) \subseteq LinksOf(w, i)'
      /\ row \in LinksOf(row.event, row.ref)'
  BY <1>2 DEF EpisodesOf, LinksOf
<1>4. QED
  BY <1>1, <1>2, <1>3, <1>5, KnownAfter

(* The three writes with the types of what they write.                     *)
LEMMA MakesRow ==
  ASSUME IngestTypeInv, NEW d \in Deliveries, Makes(d)
  PROVE  /\ NewEpisode(d) \in MemoryRows /\ MemoryKey(Event(d)) \in AllKeys
         /\ NewEpisode(d).event = Event(d) /\ NewEpisode(d).version = 1
         /\ NewEpisode(d).id = NewId(d)
         /\ PutMemory(MemoryKey(Event(d)), NewEpisode(d)) /\ StoreOK
BY RowTypes DEF NewEpisode, Makes, IngestTypeInv

(* A link leaves from the episode of its event and takes its own key.      *)
LEMMA LinksRow ==
  ASSUME IngestTypeInv, EpisodeHeld, NEW d \in Deliveries, Links(d)
  PROVE  /\ NewLink(d) \in RelRows /\ Key(d) \in AllKeys
         /\ NewLink(d).event = Event(d) /\ NewLink(d).ref = ref[d]
         /\ NewLink(d).from \in EpisodesOf(Event(d))
         /\ Key(d) = ReferenceKey(Event(d), ref[d])
         /\ PutRelationship(Key(d), NewLink(d)) /\ StoreOK
<1>1. got[d] \in EpisodesOf(Event(d))
  BY DEF Links, Link, EpisodeHeld
<1>2. QED
  BY <1>1, RowTypes DEF NewLink, Links, Key, IngestTypeInv

(* A revision is the next version of a memory under the key of a client.   *)
LEMMA RevisesRow ==
  ASSUME IngestTypeInv, NEW m \in memories, Revises(m)
  PROVE  /\ NewVersion(m) \in MemoryRows /\ ClientKey(m.id, m.version) \in AllKeys
         /\ NewVersion(m).event = m.event /\ NewVersion(m).id = m.id
         /\ NewVersion(m).version = m.version + 1 /\ m \in MemoryRows
         /\ PutMemory(ClientKey(m.id, m.version), NewVersion(m)) /\ StoreOK
<1>1. m \in MemoryRows /\ StoreOK
  BY DEF IngestTypeInv, StoreOK
<1>2. QED
  BY <1>1, RevisionTypes DEF NewVersion, Revises, MemoryRows

LEMMA KeyInit == Init => KeyInv /\ UniqueInv
BY DEF Init, KeyInv, EpisodesKeyed, LinksKeyed, KeysOfEpisodes, KeysOfLinks,
       UniqueInv, OneIdPerEvent, OneLinkPerReference, LinksLeaveEpisodes

(* A memory that takes the key of its event, or comes after one that has,  *)
(* keeps the keys as they should be.                                       *)
LEMMA KeyAfterMemory ==
  ASSUME KeyInv, StoreOK, NEW key \in AllKeys, NEW row \in MemoryRows,
         PutMemory(key, row),
         key = MemoryKey(row.event) \/ Known(MemoryKey(row.event)),
         \A w : key = MemoryKey(w) => w = row.event,
         \A w, i : key # ReferenceKey(w, i)
  PROVE  KeyInv'
<1> USE DEF KeyInv, EpisodesKeyed, LinksKeyed, KeysOfEpisodes, KeysOfLinks
<1>1. EpisodesKeyed' /\ LinksKeyed'
  BY AfterMemory
<1>2. ASSUME NEW n \in DOMAIN log', NEW w \in Events, log'[n].key = MemoryKey(w)
      PROVE  log'[n].row.id \in EpisodesOf(w)'
  <2>1. CASE n \in DOMAIN log
    <3>1. log'[n] = log[n] /\ EpisodesOf(w) \subseteq EpisodesOf(w)'
      BY <2>1, AfterMemory
    <3>2. QED
      BY <1>2, <2>1, <3>1
  <2>2. CASE n = Len(log) + 1
    <3>1. log'[n].key = key /\ log'[n].row = row
      BY <2>2, AfterMemory
    <3>2. row.event = w
      BY <1>2, <3>1
    <3>3. QED
      BY <3>1, <3>2, AfterMemory
  <2>3. QED
    BY <2>1, <2>2, AfterMemory
<1>3. ASSUME NEW n \in DOMAIN log', NEW w \in Events, NEW i \in Nat,
             log'[n].key = ReferenceKey(w, i)
      PROVE  LinksOf(w, i)' # {}
  <2>1. LinksOf(w, i)' = LinksOf(w, i)
    BY AfterMemory
  <2>2. CASE n \in DOMAIN log
    <3>1. log'[n] = log[n]
      BY <2>2, AfterMemory
    <3>2. QED
      BY <1>3, <2>1, <2>2, <3>1
  <2>3. CASE n = Len(log) + 1
    <3>1. log'[n].key = key
      BY <2>3, AfterMemory
    <3>2. QED
      BY <1>3, <3>1
  <2>4. QED
    BY <2>2, <2>3, AfterMemory
<1>4. QED
  BY <1>1, <1>2, <1>3

LEMMA KeyStep ==
  ASSUME IngestTypeInv, EpisodeHeld, KeyInv, [Next]_vars
  PROVE  KeyInv'
<1>1. CASE UNCHANGED store
  BY <1>1 DEF store, Known, Keys, EpisodesOf, LinksOf, KeyInv, EpisodesKeyed, LinksKeyed,
              KeysOfEpisodes, KeysOfLinks
<1>3. ASSUME NEW d \in Deliveries, Makes(d)
      PROVE  KeyInv'
  <2>1. PICK row : row = NewEpisode(d)
    OBVIOUS
  <2>2. PICK key : key = MemoryKey(row.event)
    OBVIOUS
  <2>3. /\ key \in AllKeys /\ row \in MemoryRows /\ StoreOK
        /\ PutMemory(key, row) /\ key = MemoryKey(row.event)
    BY <1>3, <2>1, <2>2, MakesRow
  <2>4. /\ \A w : key = MemoryKey(w) => w = row.event
        /\ \A w, i : key # ReferenceKey(w, i)
    BY <2>2, KeysApart
  <2>5. QED
    BY <2>3, <2>4, KeyAfterMemory, Zenon
<1>4. ASSUME NEW m \in memories, Revises(m)
      PROVE  KeyInv'
  <2>1. PICK row : row = NewVersion(m)
    OBVIOUS
  <2>2. PICK key : key = ClientKey(m.id, m.version)
    OBVIOUS
  <2>3. /\ key \in AllKeys /\ row \in MemoryRows /\ StoreOK
        /\ PutMemory(key, row)
    BY <1>4, <2>1, <2>2, RevisesRow
  <2>4. Known(MemoryKey(row.event))
    BY <1>4, <2>1, RevisesRow DEF KeyInv, EpisodesKeyed
  <2>5. /\ \A w : key = MemoryKey(w) => w = row.event
        /\ \A w, i : key # ReferenceKey(w, i)
    BY <2>2, KeysApart
  <2>6. QED
    BY <2>3, <2>4, <2>5, KeyAfterMemory, Zenon
<1>5. ASSUME NEW d \in Deliveries, Links(d)
      PROVE  KeyInv'
  <2> USE DEF KeyInv, EpisodesKeyed, LinksKeyed, KeysOfEpisodes, KeysOfLinks
  <2>1. EpisodesKeyed' /\ LinksKeyed'
    BY <1>5, LinksRow, AfterRelationship
  <2>2. ASSUME NEW n \in DOMAIN log', NEW w \in Events, log'[n].key = MemoryKey(w)
        PROVE  log'[n].row.id \in EpisodesOf(w)'
    <3>1. EpisodesOf(w)' = EpisodesOf(w)
      BY <1>5, LinksRow, AfterRelationship
    <3>2. CASE n \in DOMAIN log
      <4>1. log'[n] = log[n]
        BY <1>5, <3>2, LinksRow, AfterRelationship
      <4>2. QED
        BY <2>2, <3>1, <3>2, <4>1
    <3>3. CASE n = Len(log) + 1
      <4>1. log'[n].key = ReferenceKey(Event(d), ref[d])
        BY <1>5, <3>3, LinksRow, AfterRelationship
      <4>2. QED
        BY <2>2, <4>1, KeysApart
    <3>4. QED
      BY <1>5, <3>2, <3>3, LinksRow, AfterRelationship
  <2>3. ASSUME NEW n \in DOMAIN log', NEW w \in Events, NEW i \in Nat,
               log'[n].key = ReferenceKey(w, i)
        PROVE  LinksOf(w, i)' # {}
    <3>1. CASE n \in DOMAIN log
      <4>1. log'[n] = log[n] /\ LinksOf(w, i) \subseteq LinksOf(w, i)'
        BY <1>5, <3>1, LinksRow, AfterRelationship
      <4>2. QED
        BY <2>3, <3>1, <4>1
    <3>2. CASE n = Len(log) + 1
      <4>1. log'[n].key = ReferenceKey(Event(d), ref[d])
        BY <1>5, <3>2, LinksRow, AfterRelationship
      <4>2. Event(d) = w /\ ref[d] = i
        BY <2>3, <4>1 DEF ReferenceKey
      <4>3. NewLink(d) \in LinksOf(w, i)'
        BY <1>5, <4>2, LinksRow, AfterRelationship
      <4>4. QED
        BY <4>3
    <3>3. QED
      BY <1>5, <3>1, <3>2, LinksRow, AfterRelationship
  <2>4. QED
    BY <2>1, <2>2, <2>3
<1>6. QED
  BY <1>1, <1>3, <1>4, <1>5, StoreSteps

LEMMA UniqueStep ==
  ASSUME IngestTypeInv, EpisodeHeld, KeyInv, UniqueInv, [Next]_vars
  PROVE  UniqueInv'
<1> USE DEF UniqueInv, OneIdPerEvent, OneLinkPerReference, LinksLeaveEpisodes
<1>1. CASE UNCHANGED store
  BY <1>1 DEF store, EpisodesOf
<1>2. ASSUME NEW d \in Deliveries, Makes(d)
      PROVE  UniqueInv'
  BY <1>2, MakesRow, AfterMemory DEF KeyInv, EpisodesKeyed
<1>3. ASSUME NEW m \in memories, Revises(m)
      PROVE  UniqueInv'
  BY <1>3, RevisesRow, AfterMemory
<1>4. ASSUME NEW d \in Deliveries, Links(d)
      PROVE  UniqueInv'
  BY <1>4, LinksRow, AfterRelationship DEF KeyInv, LinksKeyed
<1>5. QED
  BY <1>1, <1>2, <1>3, <1>4, StoreSteps

(* Nothing is ever removed.                                                *)
LEMMA StoreGrows ==
  ASSUME IngestTypeInv, EpisodeHeld, [Next]_vars
  PROVE  /\ \A w : EpisodesOf(w) \subseteq EpisodesOf(w)'
         /\ \A w, i : LinksOf(w, i) \subseteq LinksOf(w, i)'
<1>1. CASE UNCHANGED store
  BY <1>1 DEF store, EpisodesOf, LinksOf
<1>2. ASSUME NEW d \in Deliveries, Makes(d)
      PROVE  memories \subseteq memories' /\ rels \subseteq rels'
  BY <1>2 DEF Makes, PutMemory
<1>3. ASSUME NEW m \in memories, Revises(m)
      PROVE  memories \subseteq memories' /\ rels \subseteq rels'
  BY <1>3 DEF Revises, PutMemory
<1>4. ASSUME NEW d \in Deliveries, Links(d)
      PROVE  memories \subseteq memories' /\ rels \subseteq rels'
  BY <1>4 DEF Links, PutRelationship
<1>5. CASE memories \subseteq memories' /\ rels \subseteq rels'
  BY <1>5 DEF EpisodesOf, LinksOf
<1>6. QED
  BY <1>1, <1>2, <1>3, <1>4, <1>5, StoreSteps

-----------------------------------------------------------------------------
(* What a handling knows                                                   *)

LEMMA HeldInit == Init => EpisodeHeld /\ ProgressInv
BY DEF Init, EpisodeHeld, ProgressInv, Past, At

LEMMA HeldStep ==
  ASSUME IngestTypeInv, EpisodeHeld, KeyInv, [Next]_vars
  PROVE  EpisodeHeld'
<1> SUFFICES ASSUME NEW d \in Deliveries, At(d, "reference")' \/ At(d, "link")'
             PROVE  got'[d] \in EpisodesOf(Event(d))'
  BY DEF EpisodeHeld, Event
<1> USE DEF IngestTypeInv, HandlingOK
<1>1. EpisodesOf(Event(d)) \subseteq EpisodesOf(Event(d))'
  BY StoreGrows DEF Event
<1>2. CASE got'[d] = got[d] /\ pc[d] \in {"reference", "link"}
  BY <1>1, <1>2 DEF EpisodeHeld, At
<1>3. CASE LookUp(d)
  <2>1. CASE Known(MemoryKey(Event(d)))
    <3>1. got'[d] = ObjectOf(MemoryKey(Event(d)))
      BY <1>3, <2>1 DEF LookUp
    <3>2. QED
      BY <1>1, <2>1, <3>1, EpisodeFound, EventsOfDeliveries
  <2>2. CASE ~Known(MemoryKey(Event(d)))
    BY <1>3, <2>2 DEF LookUp, Goto, At
  <2>3. QED
    BY <2>1, <2>2
<1>4. CASE Create(d)
  <2>1. got'[d] = NewId(d)
    BY <1>4 DEF Create
  <2>2. Makes(d)
    BY <1>4 DEF Create, Makes, NewEpisode
  <2>3. PICK row : row = NewEpisode(d)
    OBVIOUS
  <2>4. row.id = NewId(d) /\ row.event = Event(d) /\ row \in memories'
    BY <2>2, <2>3, MakesRow DEF PutMemory
  <2>5. QED
    BY <2>1, <2>4 DEF EpisodesOf, Event
<1>5. CASE Fail(d) \/ Answer(d)
  BY <1>5 DEF Fail, Answer, Goto, At
<1>6. CASE Redeliver(d)
  BY <1>6 DEF Redeliver, Goto, At
<1>7. CASE Reference(d) \/ Link(d)
  BY <1>2, <1>7 DEF Reference, Link, GoOn, NextRef, Goto, At
<1>8. CASE Lose(d)
  BY <1>2, <1>8 DEF Lose, NextRef, Goto, At
<1>9. ASSUME NEW e \in Deliveries, e # d, Handle(e)
      PROVE  got'[d] = got[d] /\ pc'[d] = pc[d]
  <2>1. CASE LookUp(e) \/ Create(e)
    BY <1>9, <2>1 DEF LookUp, Create, Goto
  <2>2. CASE Fail(e) \/ Answer(e) \/ Redeliver(e)
    BY <1>9, <2>2 DEF Fail, Answer, Redeliver, Goto
  <2>3. CASE Reference(e)
    BY <1>9, <2>3 DEF Reference, GoOn, NextRef, Goto
  <2>4. CASE Link(e) \/ Lose(e)
    BY <1>9, <2>4 DEF Link, Lose, NextRef, Goto
  <2>5. QED
    BY <1>9, <2>1, <2>2, <2>3, <2>4 DEF Handle
<1>10. CASE UNCHANGED handling
  BY <1>2, <1>10 DEF handling, At
<1>11. CASE Handle(d)
  BY <1>3, <1>4, <1>5, <1>6, <1>7, <1>8, <1>11 DEF Handle
<1>12. ASSUME NEW e \in Deliveries, e # d, Handle(e)
       PROVE  got'[d] \in EpisodesOf(Event(d))'
  BY <1>2, <1>9, <1>12 DEF At
<1>13. CASE \E e \in Deliveries : Handle(e)
  BY <1>11, <1>12, <1>13
<1>14. QED
  BY <1>10, <1>13 DEF Next, Revise, vars

(* A handling that has passed a reference without losing a statement has   *)
(* found its relationship or made it.                                      *)
LEMMA ProgressStep ==
  ASSUME IngestTypeInv, EpisodeHeld, KeyInv, ProgressInv, [Next]_vars
  PROVE  ProgressInv'
<1> USE DEF IngestTypeInv, HandlingOK
<1> DEFINE Good(d) ==
      /\ Past(d)
      /\ pc[d] \in {"lookup", "create"} => ref[d] = 1
      /\ At(d, "link") => More(d)
      /\ At(d, "answered") => ~More(d)
<1>1. \A w, i : LinksOf(w, i) # {} => LinksOf(w, i)' # {}
  BY StoreGrows
<1>2. ASSUME NEW d \in Deliveries, pc'[d] = pc[d], ref'[d] = ref[d], broken'[d] = broken[d]
      PROVE  Good(d)'
  BY <1>1, <1>2 DEF ProgressInv, Past, At, More, Event
<1>3. ASSUME NEW d \in Deliveries, Handle(d)
      PROVE  Good(d)'
  <2>1. CASE LookUp(d) \/ Create(d)
    <3>1. /\ ref' = ref /\ broken' = broken /\ pc'[d] \in {"create", "reference"}
      BY <2>1 DEF LookUp, Create, Goto
    <3>2. ref[d] = 1
      BY <2>1 DEF LookUp, Create, At, ProgressInv
    <3>3. QED
      BY <3>1, <3>2 DEF Past, At, More
  <2>2. CASE Fail(d) \/ Redeliver(d)
    BY <2>2 DEF Fail, Redeliver, Goto, Past, At
  <2>3. CASE Answer(d)
    BY <1>1, <2>3 DEF Answer, Goto, Past, At, More, Event, ProgressInv
  <2>4. CASE Lose(d)
    <3>1. broken'[d] /\ pc'[d] = "reference"
      BY <2>4 DEF Lose, NextRef, Goto
    <3>2. QED
      BY <3>1 DEF Past, At
  <2>5. ASSUME NextRef(d), broken' = broken, pc[d] \in {"reference", "link"},
               \A i : i = ref[d] => LinksOf(Event(d), i)' # {}
        PROVE  Good(d)'
    <3>1. pc'[d] = "reference" /\ ref'[d] = ref[d] + 1 /\ ref[d] \in Nat
      BY <2>5 DEF NextRef, Goto
    <3>2. ASSUME ~broken[d], NEW i \in 1 .. References[Event(d)], i < ref'[d]
          PROVE  LinksOf(Event(d), i)' # {}
      <4>1. CASE i < ref[d]
        <5>1. LinksOf(Event(d), i) # {}
          BY <2>5, <3>2, <4>1 DEF ProgressInv, Past
        <5>2. QED
          BY <1>1, <5>1
      <4>2. CASE i = ref[d]
        BY <2>5, <4>2, Zenon
      <4>3. QED
        BY <3>1, <3>2, <4>1, <4>2, EventsOfDeliveries
    <3>3. QED
      BY <2>5, <3>1, <3>2 DEF Past, At, Event
  <2>6. CASE Reference(d)
    <3>1. CASE Known(Key(d))
      <4>1. LinksOf(Event(d), ref[d]) # {}
        BY <3>1, EventsOfDeliveries DEF KeyInv, KeysOfLinks, Known, Keys, Key
      <4>2. NextRef(d) /\ broken' = broken /\ pc[d] = "reference"
        BY <2>6, <3>1 DEF Reference, GoOn, At
      <4>3. ASSUME NEW i, i = ref[d]
            PROVE  LinksOf(Event(d), i)' # {}
        BY <1>1, <4>1, <4>3 DEF Event
      <4>4. QED
        BY <2>5, <4>2, <4>3
    <3>2. CASE ~Known(Key(d))
      BY <1>1, <2>6, <3>2 DEF Reference, Goto, Past, At, More, Event, ProgressInv
    <3>3. QED
      BY <3>1, <3>2
  <2>7. CASE Link(d)
    <3>1. NextRef(d) /\ broken' = broken /\ pc[d] = "link"
      BY <2>7 DEF Link, At
    <3>2. ASSUME NEW i, i = ref[d]
          PROVE  LinksOf(Event(d), i)' # {}
      <4>1. CASE ~KeyFree(Key(d))
        <5>1. LinksOf(Event(d), i) # {}
          BY <3>2, <4>1, EventsOfDeliveries
          DEF KeyInv, KeysOfLinks, Known, Keys, Key, KeyFree
        <5>2. QED
          BY <1>1, <5>1 DEF Event
      <4>2. CASE KeyFree(Key(d))
        <5>1. Links(d)
          BY <2>7, <4>2 DEF Link, Links, NewLink
        <5>2. PICK row : row = NewLink(d)
          OBVIOUS
        <5>3. row.event = Event(d) /\ row.ref = i /\ row \in rels'
          BY <3>2, <5>1, <5>2, LinksRow DEF PutRelationship
        <5>4. QED
          BY <5>3 DEF LinksOf, Event
      <4>3. QED
        BY <4>1, <4>2
    <3>3. QED
      BY <2>5, <3>1, <3>2
  <2>8. QED
    BY <1>3, <2>1, <2>2, <2>3, <2>4, <2>6, <2>7 DEF Handle
<1>4. ASSUME NEW d \in Deliveries, NEW e \in Deliveries, e # d, Handle(e)
      PROVE  Good(d)'
  <2>1. pc'[d] = pc[d] /\ ref'[d] = ref[d] /\ broken'[d] = broken[d]
    <3>1. CASE LookUp(e) \/ Create(e)
      BY <1>4, <3>1 DEF LookUp, Create, Goto
    <3>2. CASE Fail(e) \/ Answer(e) \/ Redeliver(e)
      BY <1>4, <3>2 DEF Fail, Answer, Redeliver, Goto
    <3>3. CASE Reference(e)
      BY <1>4, <3>3 DEF Reference, GoOn, NextRef, Goto
    <3>4. CASE Link(e) \/ Lose(e)
      BY <1>4, <3>4 DEF Link, Lose, NextRef, Goto
    <3>5. QED
      BY <1>4, <3>1, <3>2, <3>3, <3>4 DEF Handle
  <2>2. QED
    BY <1>2, <2>1
<1>5. CASE UNCHANGED handling
  BY <1>2, <1>5 DEF handling, ProgressInv
<1>6. CASE \E e \in Deliveries : Handle(e)
  BY <1>3, <1>4, <1>6 DEF ProgressInv
<1>7. QED
  BY <1>5, <1>6 DEF Next, Revise, vars

-----------------------------------------------------------------------------
(* The tables, the pointers and the log                                    *)

LEMMA StoreInit == Init => StoreInv
BY DEF Init, StoreInv, IdsFresh, PointersNewest, RowsLogged, RowsIn, Range

LEMMA FreshStep ==
  ASSUME IngestTypeInv, EpisodeHeld, IdsFresh, [Next]_vars
  PROVE  IdsFresh'
<1> USE DEF IngestTypeInv, HandlingOK
<1> DEFINE Behind(m, d) ==
      m.id[1] = d =>
        m.id[2] <= try[d] /\ (m.id[2] = try[d] => pc[d] \notin {"lookup", "create"})
<1>1. \A m \in memories : m \in MemoryRows /\ m.id[2] \in Nat /\ m.id[1] \in Deliveries
  BY DEF StoreOK, MemoryRows, Ids
<1>2. ASSUME NEW d \in Deliveries, Handle(d)
      PROVE  /\ \A e \in Deliveries : e # d => try'[e] = try[e] /\ pc'[e] = pc[e]
             /\ \/ try'[d] = try[d] /\ (pc'[d] \in {"lookup", "create"} => pc[d] = "lookup")
                \/ try'[d] = try[d] + 1
  <2>1. CASE LookUp(d) \/ Create(d)
    BY <2>1 DEF LookUp, Create, Goto, At
  <2>2. CASE Fail(d) \/ Answer(d)
    BY <2>2 DEF Fail, Answer, Goto
  <2>3. CASE Redeliver(d)
    BY <2>3 DEF Redeliver, Goto
  <2>4. CASE Reference(d)
    BY <2>4 DEF Reference, GoOn, NextRef, Goto
  <2>5. CASE Link(d) \/ Lose(d)
    BY <2>5 DEF Link, Lose, NextRef, Goto
  <2>6. QED
    BY <1>2, <2>1, <2>2, <2>3, <2>4, <2>5 DEF Handle
<1>3. ASSUME NEW d \in Deliveries, Handle(d), NEW m \in memories, NEW e \in Deliveries
      PROVE  Behind(m, e)'
  <2>1. Behind(m, e) /\ m.id[2] \in Nat /\ try[e] \in Nat
    BY <1>1 DEF IdsFresh
  <2>2. CASE e # d
    BY <1>2, <1>3, <2>1, <2>2
  <2>3. CASE e = d /\ try'[d] = try[d]
    <3>1. pc'[d] \in {"lookup", "create"} => pc[d] = "lookup"
      BY <1>2, <1>3, <2>1, <2>3
    <3>2. QED
      BY <2>1, <2>3, <3>1
  <2>4. CASE e = d /\ try'[d] = try[d] + 1
    BY <2>1, <2>4
  <2>5. QED
    BY <1>2, <1>3, <2>2, <2>3, <2>4
<1>4. ASSUME UNCHANGED handling, NEW m \in memories, NEW e \in Deliveries
      PROVE  Behind(m, e)'
  BY <1>4 DEF handling, IdsFresh
<1>5. ASSUME NEW m \in memories, NEW e \in Deliveries
      PROVE  Behind(m, e)'
  BY <1>3, <1>4, <1>5 DEF Next, Revise, vars
<1>6. CASE UNCHANGED store
  BY <1>5, <1>6 DEF store, IdsFresh
<1>7. ASSUME NEW d \in Deliveries, Makes(d)
      PROVE  IdsFresh'
  <2>1. PICK row : row = NewEpisode(d)
    OBVIOUS
  <2>2. /\ row.id[1] = d /\ row.id[2] = try[d]
        /\ memories' = memories \cup {row}
    <3>1. row.id = NewId(d) /\ memories' = memories \cup {row}
      BY <1>7, <2>1, MakesRow DEF PutMemory
    <3>2. QED
      BY <3>1 DEF NewId
  <2>3. try' = try /\ pc'[d] = "reference"
    BY <1>7 DEF Makes, Create, Goto
  <2>4. \A e \in Deliveries : Behind(row, e)'
    BY <2>2, <2>3
  <2>5. QED
    BY <1>5, <2>2, <2>4 DEF IdsFresh
<1>8. ASSUME NEW m \in memories, Revises(m)
      PROVE  IdsFresh'
  <2>1. PICK row : row = NewVersion(m)
    OBVIOUS
  <2>2. row.id = m.id /\ memories' = memories \cup {row}
    BY <1>8, <2>1, RevisesRow DEF PutMemory
  <2>3. \A e \in Deliveries : Behind(row, e)'
    BY <1>5, <2>2
  <2>4. QED
    BY <1>5, <2>2, <2>3 DEF IdsFresh
<1>9. ASSUME NEW d \in Deliveries, Links(d)
      PROVE  IdsFresh'
  BY <1>5, <1>9 DEF Links, PutRelationship, IdsFresh
<1>10. QED
  BY <1>6, <1>7, <1>8, <1>9, StoreSteps

(* A pointer moves to a version of its object that is above all others.    *)
LEMMA PointerMoves ==
  ASSUME StoreOK, PointersNewest, NEW key, NEW row \in MemoryRows, PutMemory(key, row),
         row.id \in DOMAIN current => current[row.id] <= row.version
  PROVE  PointersNewest'
<1>1. /\ memories' = memories \cup {row} /\ DOMAIN current' = DOMAIN current \cup {row.id}
      /\ current'[row.id] = row.version
      /\ \A i \in DOMAIN current : i # row.id => current'[i] = current[i]
  BY DEF PutMemory
<1>2. \A m \in memories : m.id \in DOMAIN current /\ m \in MemoryRows
  BY DEF StoreOK, IdsOf
<1>3. ASSUME NEW m \in memories'
      PROVE  m.version <= current'[m.id]
  <2>1. CASE m.id = row.id /\ m \in memories
    <3>1. /\ m.version \in Nat /\ row.version \in Nat /\ m.version <= current[m.id]
          /\ current[m.id] \in Nat /\ current[m.id] <= row.version
      BY <1>2, <2>1 DEF PointersNewest, MemoryRows, Versions, StoreOK
    <3>2. QED
      BY <1>1, <2>1, <3>1
  <2>2. CASE m.id # row.id
    BY <1>1, <1>2, <2>2 DEF PointersNewest
  <2>3. CASE m = row
    BY <1>1, <2>3 DEF MemoryRows, Versions
  <2>4. QED
    BY <1>1, <2>1, <2>2, <2>3
<1>4. ASSUME NEW i \in DOMAIN current'
      PROVE  \E m \in memories' : m.id = i /\ m.version = current'[i]
  <2>1. CASE i = row.id
    BY <1>1, <2>1
  <2>2. CASE i # row.id
    BY <1>1, <2>2 DEF PointersNewest
  <2>3. QED
    BY <2>1, <2>2
<1>5. QED
  BY <1>3, <1>4 DEF PointersNewest

LEMMA PointersStep ==
  ASSUME IngestTypeInv, EpisodeHeld, IdsFresh, PointersNewest, [Next]_vars
  PROVE  PointersNewest'
<1>1. CASE UNCHANGED store
  BY <1>1 DEF store, PointersNewest
<1>2. ASSUME NEW d \in Deliveries, Makes(d)
      PROVE  PointersNewest'
  <2>1. PICK row : row = NewEpisode(d)
    OBVIOUS
  <2>2. PICK key : key = MemoryKey(Event(d))
    OBVIOUS
  <2>3. row \in MemoryRows /\ StoreOK /\ PutMemory(key, row) /\ row.id = NewId(d)
    BY <1>2, <2>1, <2>2, MakesRow
  <2>4. row.id \notin DOMAIN current
    <3>1. pc[d] = "create"
      BY <1>2 DEF Makes, Create, At
    <3>2. row.id[1] = d /\ row.id[2] = try[d]
      BY <2>3 DEF NewId
    <3>3. \A m \in memories : m.id # row.id
      BY <3>1, <3>2 DEF IdsFresh
    <3>4. QED
      BY <2>3, <3>3 DEF StoreOK, IdsOf
  <2>5. QED
    BY <2>3, <2>4, PointerMoves
<1>3. ASSUME NEW m \in memories, Revises(m)
      PROVE  PointersNewest'
  <2>1. PICK row : row = NewVersion(m)
    OBVIOUS
  <2>2. PICK key : key = ClientKey(m.id, m.version)
    OBVIOUS
  <2>3. /\ row \in MemoryRows /\ StoreOK /\ PutMemory(key, row)
        /\ row.id = m.id /\ row.version = m.version + 1 /\ m \in MemoryRows
    BY <1>3, <2>1, <2>2, RevisesRow
  <2>4. current[row.id] <= row.version
    BY <1>3, <2>3 DEF Revises, MemoryRows, Versions
  <2>5. QED
    BY <2>3, <2>4, PointerMoves
<1>4. ASSUME NEW d \in Deliveries, Links(d)
      PROVE  PointersNewest'
  BY <1>4 DEF Links, PutRelationship, PointersNewest
<1>5. QED
  BY <1>1, <1>2, <1>3, <1>4, StoreSteps

LEMMA LoggedStep ==
  ASSUME IngestTypeInv, EpisodeHeld, RowsLogged, [Next]_vars
  PROVE  RowsLogged'
<1>1. CASE UNCHANGED store
  BY <1>1 DEF store, RowsLogged, RowsIn, Range
<1>2. ASSUME NEW key \in AllKeys, NEW row \in MemoryRows, PutMemory(key, row)
      PROVE  RowsLogged'
  <2>1. /\ Range(log)' = Range(log) \cup {MemoryEvent(key, row)}
        /\ memories' = memories \cup {row} /\ rels' = rels
    BY <1>2, AfterMemory DEF IngestTypeInv
  <2>2. MemoryEvent(key, row).kind = "memory" /\ MemoryEvent(key, row).row = row
    BY DEF MemoryEvent
  <2>3. QED
    BY <2>1, <2>2 DEF RowsLogged, RowsIn
<1>3. ASSUME NEW key \in AllKeys, NEW row \in RelRows, PutRelationship(key, row)
      PROVE  RowsLogged'
  <2>1. /\ Range(log)' = Range(log) \cup {RelEvent(key, row)}
        /\ memories' = memories /\ rels' = rels \cup {row}
    BY <1>3, AfterRelationship DEF IngestTypeInv
  <2>2. RelEvent(key, row).kind = "relationship" /\ RelEvent(key, row).row = row
    BY DEF RelEvent
  <2>3. QED
    BY <2>1, <2>2 DEF RowsLogged, RowsIn
<1>4. ASSUME NEW d \in Deliveries, Makes(d)
      PROVE  RowsLogged'
  <2>1. PICK row, key : row = NewEpisode(d) /\ key = MemoryKey(Event(d))
    OBVIOUS
  <2>2. key \in AllKeys /\ row \in MemoryRows /\ PutMemory(key, row)
    BY <1>4, <2>1, MakesRow
  <2>3. QED
    BY <1>2, <2>2
<1>5. ASSUME NEW m \in memories, Revises(m)
      PROVE  RowsLogged'
  <2>1. PICK row, key : row = NewVersion(m) /\ key = ClientKey(m.id, m.version)
    OBVIOUS
  <2>2. key \in AllKeys /\ row \in MemoryRows /\ PutMemory(key, row)
    BY <1>5, <2>1, RevisesRow
  <2>3. QED
    BY <1>2, <2>2
<1>6. ASSUME NEW d \in Deliveries, Links(d)
      PROVE  RowsLogged'
  <2>1. PICK row, key : row = NewLink(d) /\ key = Key(d)
    OBVIOUS
  <2>2. key \in AllKeys /\ row \in RelRows /\ PutRelationship(key, row)
    BY <1>6, <2>1, LinksRow
  <2>3. QED
    BY <1>3, <2>2
<1>7. QED
  BY <1>1, <1>4, <1>5, <1>6, StoreSteps

-----------------------------------------------------------------------------
(* Theorems about the workflow's events                                    *)

IngestInv ==
  IngestTypeInv /\ EpisodeHeld /\ KeyInv /\ UniqueInv /\ ProgressInv /\ StoreInv

LEMMA IngestInitially == Init => IngestInv
BY IngestTypeInit, KeyInit, HeldInit, StoreInit DEF IngestInv

LEMMA IngestStep == IngestInv /\ [Next]_vars => IngestInv'
<1> SUFFICES ASSUME IngestInv, [Next]_vars
             PROVE  IngestInv'
  OBVIOUS
<1> USE DEF IngestInv
<1>1. IngestTypeInv'
  BY StoreTypeStep, HandlingTypeStep DEF IngestTypeInv
<1>2. EpisodeHeld' /\ KeyInv' /\ UniqueInv' /\ ProgressInv'
  BY HeldStep, KeyStep, UniqueStep, ProgressStep
<1>3. StoreInv'
  BY FreshStep, PointersStep, LoggedStep DEF StoreInv
<1>4. QED
  BY <1>1, <1>2, <1>3

LEMMA IngestCorrect == Spec => []IngestInv
BY IngestInitially, IngestStep, PTL DEF Spec

(* However often and however concurrently an event is delivered, and       *)
(* wherever its handlings fail, it has one episode and each reference of   *)
(* it one relationship, from that episode: the constraint on the keys of   *)
(* knowledge_events is enough for it.                                      *)
THEOREM EventsHaveOneEpisode == Spec => []OneEpisode
<1>1. ASSUME IngestInv, NEW w \in Events
      PROVE  /\ Cardinality(EpisodesOf(w)) <= 1
             /\ \A i \in 1 .. References[w] :
                  /\ Cardinality(LinksOf(w, i)) <= 1
                  /\ \A r \in LinksOf(w, i) : r.from \in EpisodesOf(w)
  <2>1. \A x, y \in EpisodesOf(w) : x = y
    BY <1>1 DEF IngestInv, UniqueInv, OneIdPerEvent, EpisodesOf
  <2>2. \A i : \A r, q \in LinksOf(w, i) : r = q
    BY <1>1 DEF IngestInv, UniqueInv, OneLinkPerReference, LinksOf
  <2>3. \A i : \A r \in LinksOf(w, i) : r.from \in EpisodesOf(w)
    BY <1>1 DEF IngestInv, UniqueInv, LinksLeaveEpisodes, LinksOf
  <2>4. Cardinality(EpisodesOf(w)) <= 1 /\ \A i : Cardinality(LinksOf(w, i)) <= 1
    BY <2>1, <2>2, AtMostOne
  <2>5. QED
    BY <2>3, <2>4
<1>2. IngestInv => OneEpisode
  BY <1>1 DEF OneEpisode
<1>3. QED
  BY <1>2, IngestCorrect, PTL

(* An answered handling none of whose own statements has failed leaves all *)
(* the relationships of its event in place, whatever the handlings before  *)
(* it have lost and the others make at the same time.                      *)
THEOREM AnsweredMeansComplete == Spec => []RetryCompletesReferences
<1>1. ASSUME IngestInv, NEW d \in Deliveries, pc[d] = "answered", ~broken[d],
             NEW i \in 1 .. References[Event(d)]
      PROVE  LinksOf(Event(d), i) # {}
  <2>1. ~(ref[d] <= References[Event(d)])
    BY <1>1 DEF IngestInv, ProgressInv, More, At
  <2>2. ref[d] \in Nat /\ References[Event(d)] \in Nat
    BY <1>1, EventsOfDeliveries DEF IngestInv, IngestTypeInv, HandlingOK
  <2>3. i < ref[d]
    BY <2>1, <2>2
  <2>4. QED
    BY <1>1, <2>3 DEF IngestInv, ProgressInv, Past
<1>2. IngestInv => RetryCompletesReferences
  BY <1>1 DEF RetryCompletesReferences
<1>3. QED
  BY <1>2, IngestCorrect, PTL

-----------------------------------------------------------------------------
(* The inductive invariant of EventReplay                                  *)

CopyOK ==
  /\ copy = [memories |-> copy.memories, current |-> copy.current, rels |-> copy.rels]
  /\ copy.memories \subseteq MemoryRows
  /\ copy.current \in [IdsOf(copy.memories) -> Versions]
ReplayTypeInv ==
  /\ stream \in Seq(Range(log)) /\ copied \subseteq Range(log)
  /\ CopyOK /\ lost \in Nat

(* Before the first replay the destination is empty.                       *)
Idle ==
  replay = "idle" =>
    stream = <<>> /\ copied = {} /\ copy = Empty /\ rebuilt = "no"
SourceRests == replay # "idle" => source = Tables
CopyLogged ==
  /\ copy.memories = RowsIn(copied, "memory")
  /\ copy.rels = RowsIn(copied, "relationship")

(* A replay under way has an event of the source before it or behind it.   *)
Distinct(s) == \A m, n \in DOMAIN s : s[m] = s[n] => m = n
Pending ==
  replay = "running" =>
    Range(log) \subseteq copied \cup Range(stream) /\ Distinct(stream)

(* One that will not meet an event twice was started on an empty store: if *)
(* it runs in order, the pointers are at the newest version so far and the *)
(* older ones are behind.                                                  *)
Fresh == Range(stream) \cap copied = {}
Later(e, f) == e.row.id = f.row.id => ~(e.row.version < f.row.version)
CopyNewest ==
  /\ \A m \in copy.memories : m.version <= copy.current[m.id]
  /\ \A i \in DOMAIN copy.current :
       \E m \in copy.memories : m.id = i /\ m.version = copy.current[i]
InOrder ==
  replay = "running" /\ ordered /\ Fresh =>
    /\ InStreamOrder(stream)
    /\ \A n \in DOMAIN stream, e \in copied : Later(stream[n], e)
    /\ CopyNewest
Finished ==
  replay = "finished" => copied = Range(log) /\ (ordered => copy = Tables)
Rebuilt ==
  rebuilt # "no" =>
    /\ replay # "idle" /\ copied = Range(log) /\ copy = Tables
    /\ rebuilt = "all" => text = Pointed(Tables)
ReplayInv ==
  /\ Idle /\ SourceRests /\ CopyLogged /\ Pending /\ InOrder /\ Finished /\ Rebuilt

-----------------------------------------------------------------------------
(* Lemmas about the stream and the copy                                    *)

(* A stream holds every event of the log once.                             *)
LEMMA StreamIsComplete ==
  ASSUME StoreOK, NEW s \in Streams
  PROVE  s \in Seq(Range(log)) /\ Range(s) = Range(log) /\ Distinct(s)
<1> DEFINE S == Range(log)
<1>1. IsFiniteSet(S) /\ Cardinality(S) \in Nat
  <2>1. IsFiniteSet(1 .. Len(log)) /\ DOMAIN log = 1 .. Len(log)
    BY FS_Interval DEF StoreOK
  <2>2. log \in Surjection(1 .. Len(log), S)
    BY <2>1 DEF Surjection, Range, StoreOK
  <2>3. QED
    BY <2>1, <2>2, FS_Surjection, FS_CardinalityType
<1>2. /\ s \in [1 .. Cardinality(S) -> S]
      /\ \A i, j \in 1 .. Cardinality(S) : i # j => s[i] # s[j]
  BY DEF Streams, SetToSeqs
<1>3. s \in Injection(1 .. Cardinality(S), S)
  BY <1>2 DEF Injection, IsInjective
<1>4. Cardinality(1 .. Cardinality(S)) = Cardinality(S)
  BY <1>1, FS_Interval
<1>5. s \in Surjection(1 .. Cardinality(S), S)
  BY <1>1, <1>3, <1>4, FS_Injection
<1>6. s \in Seq(S)
  BY <1>1, <1>2
<1>7. Range(s) = S
  <2>1. DOMAIN s = 1 .. Cardinality(S) /\ \A i \in DOMAIN s : s[i] \in S
    BY <1>2
  <2>2. \A x \in S : \E i \in 1 .. Cardinality(S) : s[i] = x
    BY <1>5 DEF Surjection
  <2> HIDE DEF S
  <2>3. QED
    BY <2>1, <2>2 DEF Range
<1>8. Distinct(s)
  <2>1. DOMAIN s = 1 .. Cardinality(S)
    BY <1>2
  <2>2. QED
    BY <1>2, <2>1 DEF Distinct
<1>9. QED
  BY <1>6, <1>7, <1>8

(* What Head and Tail do to a sequence and its range.                      *)
LEMMA Taken ==
  ASSUME NEW S, NEW s \in Seq(S), s # <<>>
  PROVE  /\ Head(s) \in S /\ Tail(s) \in Seq(S) /\ 1 \in DOMAIN s /\ Head(s) = s[1]
         /\ \A n \in DOMAIN Tail(s) : n \in Nat /\ n + 1 \in DOMAIN s /\ Tail(s)[n] = s[n + 1]
         /\ Range(s) = {Head(s)} \cup Range(Tail(s))
<1>1. /\ Head(s) \in S /\ Tail(s) \in Seq(S) /\ 1 \in DOMAIN s /\ Head(s) = s[1]
      /\ Len(Tail(s)) = Len(s) - 1 /\ Len(s) \in Nat
      /\ \A n \in 1 .. Len(Tail(s)) : Tail(s)[n] = s[n + 1]
  OBVIOUS
<1>2. DOMAIN s = 1 .. Len(s) /\ DOMAIN Tail(s) = 1 .. Len(Tail(s))
  BY <1>1
<1>3. \A n \in DOMAIN Tail(s) : n \in Nat /\ n + 1 \in DOMAIN s /\ Tail(s)[n] = s[n + 1]
  BY <1>1, <1>2
<1>4. ASSUME NEW n \in DOMAIN s, n # 1
      PROVE  s[n] \in Range(Tail(s))
  <2>1. n - 1 \in DOMAIN Tail(s) /\ Tail(s)[n - 1] = s[n]
    BY <1>1, <1>2, <1>4
  <2>2. QED
    BY <2>1 DEF Range
<1>5. Range(s) \subseteq {Head(s)} \cup Range(Tail(s))
  BY <1>1, <1>4 DEF Range
<1>6. {Head(s)} \cup Range(Tail(s)) \subseteq Range(s)
  BY <1>1, <1>3 DEF Range
<1>7. QED
  BY <1>1, <1>3, <1>5, <1>6

(* An entry of the log has a row of its kind.                              *)
LEMMA LoggedRows ==
  ASSUME StoreOK, NEW e \in Range(log)
  PROVE  /\ e.kind \in {"memory", "relationship"}
         /\ e.kind = "memory" => e.row \in MemoryRows
  BY DEF StoreOK, Range, Entries

(* What the Put of a store adds, by kind.                                  *)
LEMMA PutRow ==
  ASSUME CopyOK, NEW e, e.kind \in {"memory", "relationship"},
         e.kind = "memory" => e.row \in MemoryRows,
         copy' = Put(copy, e)
  PROVE  /\ CopyOK'
         /\ copy'.memories = copy.memories \cup (IF e.kind = "memory" THEN {e.row} ELSE {})
         /\ copy'.rels = copy.rels \cup (IF e.kind = "relationship" THEN {e.row} ELSE {})
         /\ e.kind = "relationship" => copy'.current = copy.current
         /\ e.kind = "memory" =>
              /\ DOMAIN copy'.current = DOMAIN copy.current \cup {e.row.id}
              /\ \A i \in DOMAIN copy.current :
                   i # e.row.id => copy'.current[i] = copy.current[i]
              /\ copy'.current[e.row.id] = e.row.version
<1>1. CASE e.kind = "relationship"
  <2>1. copy' = [memories |-> copy.memories, current |-> copy.current,
                 rels |-> copy.rels \cup {e.row}]
    BY <1>1 DEF Put, CopyOK
  <2>2. QED
    BY <1>1, <2>1 DEF CopyOK, IdsOf
<1>2. CASE e.kind = "memory"
  <2> DEFINE pointers == [i \in DOMAIN copy.current \cup {e.row.id} |->
                            IF i # e.row.id THEN copy.current[i] ELSE e.row.version]
  <2>1. copy' = [memories |-> copy.memories \cup {e.row}, current |-> pointers,
                 rels |-> copy.rels]
    BY <1>2 DEF Put, CopyOK, SetVersion
  <2>3. DOMAIN pointers = IdsOf(copy.memories \cup {e.row})
    BY DEF CopyOK, IdsOf
  <2>4. pointers \in [IdsOf(copy.memories \cup {e.row}) -> Versions]
    BY <1>2, <2>3 DEF CopyOK, MemoryRows
  <2>5. DOMAIN pointers = DOMAIN copy.current \cup {e.row.id}
    OBVIOUS
  <2>6. /\ \A i \in DOMAIN copy.current : i # e.row.id => pointers[i] = copy.current[i]
        /\ pointers[e.row.id] = e.row.version
    OBVIOUS
  <2> HIDE DEF pointers
  <2>7. /\ copy'.memories = copy.memories \cup {e.row} /\ copy'.current = pointers
        /\ copy'.rels = copy.rels
    BY <2>1
  <2>8. CopyOK'
    BY <1>2, <2>1, <2>4, <2>7 DEF CopyOK
  <2>9. QED
    BY <1>2, <2>5, <2>6, <2>7, <2>8
<1>3. QED
  BY <1>1, <1>2

(* A copy of all events has all rows.                                      *)
LEMMA SameRows ==
  ASSUME StoreInv, CopyLogged, copied = Range(log)
  PROVE  copy.memories = memories /\ copy.rels = rels
BY DEF StoreInv, RowsLogged, CopyLogged

(* The newest version an object has is the one its pointer names.          *)
LEMMA PointerUnique ==
  ASSUME StoreOK, PointersNewest, NEW i \in DOMAIN current, NEW v \in Nat,
         \A m \in memories : m.id = i => m.version <= v,
         \E m \in memories : m.id = i /\ m.version = v
  PROVE  current[i] = v
<1>1. PICK m \in memories : m.id = i /\ m.version = current[i]
  BY DEF PointersNewest
<1>2. PICK n \in memories : n.id = i /\ n.version = v
  OBVIOUS
<1>3. current[i] \in Nat /\ current[i] <= v /\ v <= current[i]
  BY <1>1, <1>2 DEF PointersNewest, StoreOK, Versions
<1>4. QED
  BY <1>3

(* A copy of all events whose pointers are the newest is the source.       *)
LEMMA CopyMatches ==
  ASSUME StoreOK, StoreInv, CopyOK, CopyLogged, copied = Range(log), CopyNewest
  PROVE  copy = Tables
<1>1. copy.memories = memories /\ copy.rels = rels
  BY SameRows
<1>2. DOMAIN copy.current = DOMAIN current
  BY <1>1 DEF CopyOK, StoreOK
<1>3. ASSUME NEW i \in DOMAIN current
      PROVE  current[i] = copy.current[i]
  <2>1. copy.current[i] \in Nat
    BY <1>2, <1>3 DEF CopyOK, Versions
  <2>2. /\ \A m \in memories : m.id = i => m.version <= copy.current[i]
        /\ \E m \in memories : m.id = i /\ m.version = copy.current[i]
    BY <1>1, <1>2, <1>3 DEF CopyNewest
  <2>3. QED
    BY <2>1, <2>2, PointerUnique DEF StoreInv
<1>4. copy.current = current
  BY <1>2, <1>3 DEF CopyOK, StoreOK
<1>5. QED
  BY <1>1, <1>4 DEF CopyOK, Tables

(* The pointers RebuildProjections sets are those of the source.           *)
LEMMA RebuildMatches ==
  ASSUME StoreOK, StoreInv, CopyOK, CopyLogged, copied = Range(log),
         copy' = [copy EXCEPT !.current =
                    [i \in {m.id : m \in copy.memories} |-> Newest(i)]]
  PROVE  copy' = Tables
<1>1. copy.memories = memories /\ copy.rels = rels
  BY SameRows
<1>2. {m.id : m \in copy.memories} = DOMAIN current
  BY <1>1 DEF StoreOK, IdsOf
<1>3. ASSUME NEW i \in DOMAIN current
      PROVE  Newest(i) = current[i]
  <2> DEFINE V == {m.version : m \in {n \in memories : n.id = i}}
  <2>1. current[i] \in V /\ \A v \in V : v <= current[i]
    BY <1>3 DEF StoreInv, PointersNewest
  <2>2. V \subseteq Nat
    BY DEF StoreOK, MemoryRows, Versions
  <2>3. \A x \in V : (\A v \in V : x >= v) => x = current[i]
    <3> HIDE DEF V
    <3>1. \A x \in V : x >= current[i] /\ x <= current[i] => x = current[i]
      BY <2>1, <2>2
    <3>2. QED
      BY <2>1, <3>1
  <2>4. Max(V) = current[i]
    BY <2>1, <2>2, <2>3 DEF Max
  <2>5. QED
    BY <1>1, <2>4 DEF Newest
<1>4. [i \in {m.id : m \in copy.memories} |-> Newest(i)] = current
  BY <1>2, <1>3 DEF StoreOK
<1>5. copy' = [memories |-> copy.memories, current |-> current, rels |-> copy.rels]
  BY <1>4 DEF CopyOK
<1>6. QED
  BY <1>1, <1>5 DEF Tables

-----------------------------------------------------------------------------
(* The steps of a replay                                                   *)

ReplayAll == IngestInv /\ ReplayTypeInv /\ ReplayInv

LEMMA ReplayInitially == ReplayInit => ReplayAll
<1> SUFFICES ASSUME ReplayInit
             PROVE  ReplayTypeInv /\ ReplayInv
  BY IngestInitially DEF ReplayInit, ReplayAll
<1>1. ReplayTypeInv
  BY DEF ReplayInit, ReplayTypeInv, CopyOK, Empty, IdsOf
<1>2. CopyLogged
  BY DEF ReplayInit, CopyLogged, Empty, RowsIn
<1>3. Idle /\ SourceRests /\ Pending /\ InOrder /\ Finished /\ Rebuilt
  BY DEF ReplayInit, Idle, SourceRests, Pending, InOrder, Finished, Rebuilt
<1>4. QED
  BY <1>1, <1>2, <1>3 DEF ReplayInv

(* The source is written only before the first replay.                     *)
LEMMA SourceMoves ==
  ASSUME ReplayAll, replay = "idle", Next, UNCHANGED replayVars
  PROVE  ReplayTypeInv' /\ ReplayInv'
<1>1. /\ stream' = <<>> /\ copied' = {} /\ copy' = copy /\ rebuilt' = "no"
      /\ replay' = "idle" /\ lost' = lost /\ copy = Empty
  BY DEF ReplayAll, ReplayInv, Idle, replayVars, index
<1>2. ReplayTypeInv'
  BY <1>1 DEF ReplayAll, ReplayTypeInv, CopyOK, IdsOf
<1>3. CopyLogged'
  BY <1>1 DEF CopyLogged, Empty, RowsIn
<1>4. Idle' /\ SourceRests' /\ Pending' /\ InOrder' /\ Finished' /\ Rebuilt'
  BY <1>1 DEF Idle, Empty, SourceRests, Pending, InOrder, Finished, Rebuilt
<1>5. QED
  BY <1>2, <1>3, <1>4 DEF ReplayInv

(* A replay leaves the source alone.                                       *)
LEMMA SourceStays ==
  ASSUME UNCHANGED vars
  PROVE  log' = log /\ Range(log)' = Range(log) /\ Tables' = Tables
BY DEF vars, store, Tables, Range

(* A replay begins, perhaps again over what an earlier one left.           *)
LEMMA StartKeeps ==
  ASSUME ReplayAll, Start
  PROVE  ReplayTypeInv' /\ ReplayInv'
<1>1. /\ log' = log /\ Range(log)' = Range(log) /\ Tables' = Tables
      /\ copied' = copied /\ copy' = copy /\ lost' = lost /\ text' = text
      /\ rebuilt' = rebuilt /\ replay' = "running" /\ source' = Tables
      /\ stream' \in Streams /\ (ordered' => InStreamOrder(stream)')
  BY SourceStays DEF Start, index, InStreamOrder
<1>2. /\ stream' \in Seq(Range(log)) /\ Range(stream)' = Range(log)
      /\ Distinct(stream)'
  <2>1. PICK s : s = stream'
    OBVIOUS
  <2>2. s \in Seq(Range(log)) /\ Range(s) = Range(log) /\ Distinct(s)
    BY <1>1, <2>1, StreamIsComplete DEF ReplayAll, IngestInv, IngestTypeInv
  <2>3. QED
    BY <2>1, <2>2 DEF Range, Distinct
<1>3. ReplayTypeInv'
  BY <1>1, <1>2 DEF ReplayAll, ReplayTypeInv, CopyOK, IdsOf
<1>4. CopyLogged'
  BY <1>1 DEF ReplayAll, ReplayInv, CopyLogged, RowsIn
<1>5. Idle' /\ SourceRests' /\ Pending' /\ Finished'
  BY <1>1, <1>2 DEF Idle, SourceRests, Pending, Finished
<1>6. Rebuilt'
  BY <1>1 DEF ReplayAll, ReplayInv, Rebuilt, Pointed
<1>7. ASSUME ordered', Fresh'
      PROVE  /\ InStreamOrder(stream)'
             /\ \A n \in DOMAIN stream', e \in copied' : Later(stream'[n], e)
             /\ CopyNewest'
  <2>1. copied = {}
    BY <1>1, <1>2, <1>7 DEF Fresh, ReplayAll, ReplayTypeInv
  <2>2. copy.memories = {}
    BY <2>1 DEF ReplayAll, ReplayInv, CopyLogged, RowsIn
  <2>3. DOMAIN copy.current = {}
    BY <2>2 DEF ReplayAll, ReplayTypeInv, CopyOK, IdsOf
  <2>4. CopyNewest'
    BY <1>1, <2>2, <2>3 DEF CopyNewest
  <2>5. QED
    BY <1>1, <1>7, <2>1, <2>4
<1>8. InOrder'
  BY <1>7 DEF InOrder, Later
<1>9. QED
  BY <1>3, <1>4, <1>5, <1>6, <1>8 DEF ReplayInv

(* An event that is not at the destination yet is put.                     *)
LEMMA PutKeeps ==
  ASSUME ReplayAll, Replay
  PROVE  ReplayTypeInv' /\ ReplayInv'
<1> DEFINE h == Head(stream)
<1>1. /\ log' = log /\ Range(log)' = Range(log) /\ Tables' = Tables
      /\ copied' = copied \cup {h} /\ copy' = Put(copy, h) /\ stream' = Tail(stream)
      /\ rebuilt' = "no" /\ replay' = "running" /\ replay = "running"
      /\ source' = source /\ ordered' = ordered /\ h \notin copied
  BY SourceStays DEF Replay
<1>2. /\ stream \in Seq(Range(log)) /\ stream # <<>> /\ copied \subseteq Range(log)
      /\ CopyOK /\ StoreOK
  BY DEF Replay, ReplayAll, ReplayTypeInv, IngestInv, IngestTypeInv
<1>3. /\ h \in Range(log) /\ Tail(stream) \in Seq(Range(log))
      /\ 1 \in DOMAIN stream /\ h = stream[1]
      /\ \A n \in DOMAIN Tail(stream) :
           n \in Nat /\ n + 1 \in DOMAIN stream /\ Tail(stream)[n] = stream[n + 1]
      /\ Range(stream) = {h} \cup Range(Tail(stream))
  BY <1>2, Taken
<1>4. PICK e : e = h
  OBVIOUS
<1>5. e.kind \in {"memory", "relationship"} /\ (e.kind = "memory" => e.row \in MemoryRows)
  BY <1>2, <1>3, <1>4, LoggedRows
<1>6. /\ CopyOK'
      /\ copy'.memories = copy.memories \cup (IF e.kind = "memory" THEN {e.row} ELSE {})
      /\ copy'.rels = copy.rels \cup (IF e.kind = "relationship" THEN {e.row} ELSE {})
      /\ e.kind = "relationship" => copy'.current = copy.current
      /\ e.kind = "memory" =>
           /\ DOMAIN copy'.current = DOMAIN copy.current \cup {e.row.id}
           /\ \A i \in DOMAIN copy.current :
                i # e.row.id => copy'.current[i] = copy.current[i]
           /\ copy'.current[e.row.id] = e.row.version
  BY <1>1, <1>2, <1>4, <1>5, PutRow
<1>7. lost' \in Nat
  BY DEF Replay, IndexPut, Rewrite, index, ReplayAll, ReplayTypeInv
<1>8. ReplayTypeInv'
  BY <1>1, <1>2, <1>3, <1>6, <1>7 DEF ReplayTypeInv
<1>9. CopyLogged'
  BY <1>1, <1>4, <1>5, <1>6 DEF ReplayAll, ReplayInv, CopyLogged, RowsIn
<1>10. Range(stream)' = Range(Tail(stream))
  BY <1>1 DEF Range
<1>11. Pending'
  <2>1. Range(log)' \subseteq copied' \cup Range(stream)'
    BY <1>1, <1>3, <1>10 DEF ReplayAll, ReplayInv, Pending
  <2>2. Distinct(stream)'
    BY <1>1, <1>3 DEF ReplayAll, ReplayInv, Pending, Distinct
  <2>3. QED
    BY <2>1, <2>2 DEF Pending
<1>12. Idle' /\ SourceRests' /\ Finished' /\ Rebuilt'
  BY <1>1 DEF ReplayAll, ReplayInv, Idle, SourceRests, Finished, Rebuilt
<1>13. ASSUME ordered', Fresh'
       PROVE  /\ InStreamOrder(stream)'
              /\ \A n \in DOMAIN stream', f \in copied' : Later(stream'[n], f)
              /\ CopyNewest'
  <2>1. Fresh
    BY <1>1, <1>3, <1>10, <1>13 DEF Fresh
  <2>2. /\ InStreamOrder(stream) /\ CopyNewest
        /\ \A n \in DOMAIN stream, f \in copied : Later(stream[n], f)
    BY <1>1, <1>13, <2>1 DEF ReplayAll, ReplayInv, InOrder
  <2>3. InStreamOrder(stream)'
    <3>1. ASSUME NEW m \in DOMAIN Tail(stream), NEW n \in DOMAIN Tail(stream),
                 Tail(stream)[m].row.id = Tail(stream)[n].row.id,
                 Tail(stream)[m].row.version < Tail(stream)[n].row.version
          PROVE  m < n
      <4>1. m + 1 < n + 1
        BY <1>3, <2>2, <3>1 DEF InStreamOrder
      <4>2. QED
        BY <1>3, <4>1
    <3>2. QED
      BY <1>1, <3>1 DEF InStreamOrder
  <2>4. ASSUME NEW n \in DOMAIN Tail(stream), NEW f \in copied \cup {h}
        PROVE  Later(Tail(stream)[n], f)
    <3>1. CASE f \in copied
      BY <1>3, <2>2, <3>1
    <3>2. CASE f = h
      <4>1. ~(n + 1 < 1)
        BY <1>3
      <4>2. QED
        BY <1>3, <2>2, <3>2, <4>1 DEF Later, InStreamOrder
    <3>3. QED
      BY <3>1, <3>2
  <2>5. CASE e.kind = "relationship"
    <3>1. CopyNewest'
      BY <1>6, <2>2, <2>5 DEF CopyNewest
    <3>2. QED
      BY <1>1, <2>3, <2>4, <3>1
  <2>6. CASE e.kind = "memory"
    <3>1. ASSUME NEW m \in copy.memories, m.id = e.row.id
          PROVE  m.version <= e.row.version
      <4>1. PICK f \in copied : f.row = m
        BY <3>1 DEF ReplayAll, ReplayInv, CopyLogged, RowsIn
      <4>2. Later(e, f)
        BY <1>3, <1>4, <2>2, <4>1
      <4>3. m.version \in Nat /\ e.row.version \in Nat
        BY <1>2, <1>5, <2>6, <3>1 DEF CopyOK, MemoryRows, Versions
      <4>4. QED
        BY <3>1, <4>1, <4>2, <4>3 DEF Later
    <3>2. ASSUME NEW m \in copy'.memories
          PROVE  m.version <= copy'.current[m.id]
      <4>1. CASE m = e.row
        BY <1>5, <1>6, <2>6, <4>1 DEF MemoryRows, Versions
      <4>2. CASE m \in copy.memories /\ m.id = e.row.id
        BY <1>6, <2>6, <3>1, <4>2
      <4>3. CASE m \in copy.memories /\ m.id # e.row.id
        <5>1. m.id \in DOMAIN copy.current
          BY <1>2, <4>3 DEF CopyOK, IdsOf
        <5>2. QED
          BY <1>6, <2>2, <2>6, <4>3, <5>1 DEF CopyNewest
      <4>4. QED
        BY <1>6, <2>6, <4>1, <4>2, <4>3
    <3>3. ASSUME NEW i \in DOMAIN copy'.current
          PROVE  \E m \in copy'.memories : m.id = i /\ m.version = copy'.current[i]
      <4>1. CASE i = e.row.id
        BY <1>6, <2>6, <4>1
      <4>2. CASE i # e.row.id
        BY <1>6, <2>2, <2>6, <3>3, <4>2 DEF CopyNewest
      <4>3. QED
        BY <4>1, <4>2
    <3>4. CopyNewest'
      BY <3>2, <3>3 DEF CopyNewest
    <3>5. QED
      BY <1>1, <2>3, <2>4, <3>4
  <2>7. QED
    BY <1>5, <2>5, <2>6
<1>14. InOrder'
  BY <1>13 DEF InOrder, Later
<1>15. QED
  BY <1>8, <1>9, <1>11, <1>12, <1>14 DEF ReplayInv

(* A replay that breaks off leaves what it has put.                        *)
LEMMA BreakKeeps ==
  ASSUME ReplayAll, Break
  PROVE  ReplayTypeInv' /\ ReplayInv'
<1>1. /\ log' = log /\ Range(log)' = Range(log) /\ Tables' = Tables
      /\ copied' = copied /\ copy' = copy /\ stream' = stream /\ text' = text
      /\ rebuilt' = rebuilt /\ replay' = "failed" /\ replay = "running"
      /\ source' = source /\ lost' = lost
  BY SourceStays DEF Break, index
<1>2. ReplayTypeInv' /\ CopyLogged'
  BY <1>1 DEF ReplayAll, ReplayTypeInv, CopyOK, IdsOf, ReplayInv, CopyLogged, RowsIn
<1>3. Idle' /\ SourceRests' /\ Pending' /\ InOrder' /\ Finished'
  BY <1>1 DEF ReplayAll, ReplayInv, Idle, SourceRests, Pending, InOrder, Finished
<1>4. Rebuilt'
  BY <1>1 DEF ReplayAll, ReplayInv, Rebuilt, Pointed
<1>5. QED
  BY <1>2, <1>3, <1>4 DEF ReplayInv

(* A replay with nothing left has put the whole stream.                    *)
LEMMA EndKeeps ==
  ASSUME ReplayAll, End
  PROVE  ReplayTypeInv' /\ ReplayInv'
<1>1. /\ log' = log /\ Range(log)' = Range(log) /\ Tables' = Tables
      /\ copied' = copied /\ copy' = copy /\ stream' = stream /\ text' = text
      /\ rebuilt' = rebuilt /\ replay' = "finished" /\ replay = "running"
      /\ source' = source /\ lost' = lost /\ ordered' = ordered /\ stream = <<>>
  BY SourceStays DEF End, index
<1>2. ReplayTypeInv' /\ CopyLogged'
  BY <1>1 DEF ReplayAll, ReplayTypeInv, CopyOK, IdsOf, ReplayInv, CopyLogged, RowsIn
<1>3. Range(stream) = {}
  BY <1>1 DEF Range
<1>4. copied = Range(log)
  BY <1>1, <1>3 DEF ReplayAll, ReplayTypeInv, ReplayInv, Pending
<1>5. ASSUME ordered
      PROVE  copy = Tables
  <2>1. CopyNewest
    BY <1>1, <1>3, <1>5 DEF ReplayAll, ReplayInv, InOrder, Fresh
  <2>2. QED
    BY <1>4, <2>1, CopyMatches
    DEF ReplayAll, ReplayTypeInv, ReplayInv, IngestInv, IngestTypeInv
<1>6. Finished'
  BY <1>1, <1>4, <1>5 DEF Finished
<1>7. Idle' /\ SourceRests' /\ Pending' /\ InOrder'
  BY <1>1 DEF ReplayAll, ReplayInv, Idle, SourceRests, Pending, InOrder
<1>8. Rebuilt'
  BY <1>1 DEF ReplayAll, ReplayInv, Rebuilt, Pointed
<1>9. QED
  BY <1>2, <1>6, <1>7, <1>8 DEF ReplayInv

(* The rebuild brings pointers and index to the rows that are there.       *)
LEMMA RebuildKeeps ==
  ASSUME ReplayAll, RebuildProjections
  PROVE  ReplayTypeInv' /\ ReplayInv'
<1>1. /\ log' = log /\ Range(log)' = Range(log) /\ Tables' = Tables
      /\ copied' = copied /\ stream' = stream
      /\ replay' = "finished" /\ replay = "finished"
      /\ source' = source /\ ordered' = ordered
  BY SourceStays DEF RebuildProjections
<1>2. StoreOK /\ StoreInv /\ CopyOK /\ CopyLogged /\ copied = Range(log) /\ lost \in Nat
  BY <1>1 DEF ReplayAll, ReplayTypeInv, ReplayInv, IngestInv, IngestTypeInv, Finished
<1>3. copy' = Tables
  BY <1>2, RebuildMatches DEF RebuildProjections
<1>4. /\ lost' \in Nat
      /\ lost' = lost => text' = Pointed(copy')
  BY <1>2 DEF RebuildProjections, Rewrite
<1>5. copy'.memories = memories /\ copy'.rels = rels /\ copy'.current = current
  BY <1>3 DEF Tables
<1>6. CopyOK'
  BY <1>2, <1>3, <1>5 DEF CopyOK, StoreOK, Tables, IdsOf
<1>7. ReplayTypeInv'
  BY <1>1, <1>4, <1>6 DEF ReplayAll, ReplayTypeInv
<1>8. CopyLogged'
  BY <1>1, <1>2, <1>5, SameRows DEF CopyLogged, RowsIn
<1>9. Idle' /\ SourceRests' /\ Pending' /\ InOrder' /\ Finished'
  BY <1>1, <1>2, <1>3
  DEF ReplayAll, ReplayInv, Idle, SourceRests, Pending, InOrder, Finished
<1>10. Rebuilt'
  BY <1>1, <1>2, <1>3, <1>4 DEF RebuildProjections, Rebuilt, Pointed
<1>11. QED
  BY <1>7, <1>8, <1>9, <1>10 DEF ReplayInv

(* A step of the composition is one of the workflow or leaves it alone.    *)
LEMMA ReplayIsWorkflow == [ReplayNext]_allVars => [Next]_vars
BY DEF ReplayNext, Start, Replay, Break, End, RebuildProjections, allVars

LEMMA ReplayStep == ReplayAll /\ [ReplayNext]_allVars => ReplayAll'
<1> SUFFICES ASSUME ReplayAll, [ReplayNext]_allVars
             PROVE  ReplayAll'
  OBVIOUS
<1>1. IngestInv'
  BY ReplayIsWorkflow, IngestStep DEF ReplayAll
<1>2. ASSUME replay = "idle" /\ Next /\ UNCHANGED replayVars
      PROVE  ReplayTypeInv' /\ ReplayInv'
  BY <1>2, SourceMoves
<1>3. ASSUME UNCHANGED allVars
      PROVE  ReplayTypeInv' /\ ReplayInv'
  <2>1. /\ log' = log /\ Range(log)' = Range(log) /\ Tables' = Tables
        /\ copied' = copied /\ copy' = copy /\ stream' = stream /\ text' = text
        /\ rebuilt' = rebuilt /\ replay' = replay
        /\ source' = source /\ lost' = lost /\ ordered' = ordered
    BY <1>3, SourceStays DEF allVars, replayVars, index
  <2>2. ReplayTypeInv' /\ CopyLogged'
    BY <2>1 DEF ReplayAll, ReplayTypeInv, CopyOK, IdsOf, ReplayInv, CopyLogged, RowsIn
  <2>3. Idle' /\ SourceRests' /\ Finished'
    BY <2>1 DEF ReplayAll, ReplayInv, Idle, SourceRests, Finished, Empty
  <2>4. Pending'
    BY <2>1 DEF ReplayAll, ReplayInv, Pending, Distinct, Range
  <2>5. InOrder'
    BY <2>1 DEF ReplayAll, ReplayInv, InOrder, Fresh, Later, InStreamOrder, CopyNewest, Range
  <2>6. Rebuilt'
    BY <2>1 DEF ReplayAll, ReplayInv, Rebuilt, Pointed
  <2>7. QED
    BY <2>2, <2>3, <2>4, <2>5, <2>6 DEF ReplayInv
<1>4. ReplayTypeInv' /\ ReplayInv'
  BY <1>2, <1>3, StartKeeps, PutKeeps, BreakKeeps, EndKeeps, RebuildKeeps DEF ReplayNext
<1>5. QED
  BY <1>1, <1>4 DEF ReplayAll

-----------------------------------------------------------------------------
(* Theorems about replays                                                  *)

LEMMA ReplayCorrect == ReplaySpec => []ReplayAll
BY ReplayInitially, ReplayStep, PTL DEF ReplaySpec

(* A replay that returns without an error, given the versions of every     *)
(* object in their order, has rebuilt every table of the source in the     *)
(* destination, whatever the replays before it have left there.            *)
THEOREM ReplayIsFaithful == ReplaySpec => []ReplayReconstructs
<1>1. ReplayAll => ReplayReconstructs
  BY DEF ReplayAll, ReplayInv, ReplayReconstructs, Finished, SourceRests
<1>2. QED
  BY <1>1, ReplayCorrect, PTL

(* RebuildProjections after a replay of the events in any order repairs    *)
(* the pointers, and the text index too unless a statement of its own on   *)
(* the index fails.                                                        *)
THEOREM RebuildIsFaithful == ReplaySpec => []RebuildRepairs
<1>1. ReplayAll => RebuildRepairs
  BY DEF ReplayAll, ReplayInv, RebuildRepairs, Rebuilt, SourceRests
<1>2. QED
  BY <1>1, ReplayCorrect, PTL
=============================================================================
