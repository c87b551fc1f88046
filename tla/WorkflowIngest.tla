--------------------------- MODULE WorkflowIngest ---------------------------
(***************************************************************************)
(* Service.IngestWorkflowEvent: a workflow event becomes an episode and    *)
(* one relationship per reference.  Every object is a write of its own,    *)
(* under a key made from the event's id, and the errors of the references  *)
(* are dropped; the workflow may deliver an event several times, at once   *)
(* and after a failure.  Clients revise the episodes.                      *)
(*                                                                         *)
(* Data.  An event is its id, a reference its position, an object's id the *)
(* handling that has made it.  One workspace; no other write has a key     *)
(* that begins with "workflow:", and no event's id is another one's        *)
(* followed by ":ref:" and a number.                                       *)
(***************************************************************************)
EXTENDS Naturals, Sequences, FiniteSetsExt, Functions

CONSTANTS
  Deliveries,   \* requests, each the delivery of one event
  EventOf,      \* [Deliveries -> events]
  References,   \* [events -> Nat]: how many
  MaxHandlings, \* bound: of all the deliveries
  MaxRevisions  \* bound: versions written by clients

Events == Range(EventOf)
ASSUME EventsAssumption ==
  /\ DOMAIN EventOf = Deliveries
  /\ References \in [Events -> Nat]
  /\ MaxHandlings \in Nat /\ MaxRevisions \in Nat

VARIABLES
  log,      \* knowledge_events, as they were committed
  memories, \* rows: [id, version, event]
  current,  \* memory_current: id -> version
  rels,     \* rows: [id, version, from, event, ref]
  pc, try,  \* of a delivery
  got,      \* the id of its episode, <<>> before
  ref,      \* the reference it is at
  broken    \* history: a statement of this handling has failed

store == <<log, memories, current, rels>>
handling == <<pc, try, got, ref, broken>>
vars == <<store, handling>>

-----------------------------------------------------------------------------
(* The store                                                               *)

MemoryKey(w) == <<w>>
ReferenceKey(w, i) == <<w, i>>
ClientKey(id, v) == <<"client", id, v>>
Keys == {log[n].key : n \in DOMAIN log}
Known(key) == key \in Keys
ObjectOf(key) == log[CHOOSE n \in DOMAIN log : log[n].key = key].row.id

(* No constraint on the keys.                                              *)
AnyKey(key) == TRUE
(* UNIQUE(workspace_id,idempotency_key)                                    *)
KeyFree(key) == ~Known(key)

MemoryEvent(key, row) == [key |-> key, kind |-> "memory", row |-> row]
RelEvent(key, row) == [key |-> key, kind |-> "relationship", row |-> row]

PutMemory(key, row) ==
  /\ KeyFree(key)
  /\ log' = Append(log, MemoryEvent(key, row))
  /\ memories' = memories \cup {row}
  /\ current' = [i \in DOMAIN current \cup {row.id} |->
                   IF i = row.id THEN row.version ELSE current[i]]
  /\ UNCHANGED rels

PutRelationship(key, row) ==
  /\ KeyFree(key)
  /\ log' = Append(log, RelEvent(key, row))
  /\ rels' = rels \cup {row}
  /\ UNCHANGED <<memories, current>>

Revisions == Cardinality({m \in memories : m.version > 1})

(* VersionMemory, SetMemoryState: a version upon the current one, under a  *)
(* key of the client.                                                      *)
Revise(id) ==
  /\ Revisions < MaxRevisions
  /\ \E m \in memories :
       /\ m.id = id /\ m.version = current[id]
       /\ PutMemory(ClientKey(id, m.version), [m EXCEPT !.version = @ + 1])
  /\ UNCHANGED handling

-----------------------------------------------------------------------------
(* The handler                                                             *)

At(d, p) == pc[d] = p
Goto(d, p) == pc' = [pc EXCEPT ![d] = p]
Event(d) == EventOf[d]

(* replay() and GetMemory.                                                 *)
LookUp(d) ==
  /\ At(d, "lookup")
  /\ IF Known(MemoryKey(Event(d)))
     THEN /\ got' = [got EXCEPT ![d] = ObjectOf(MemoryKey(Event(d)))]
          /\ Goto(d, "reference")
     ELSE Goto(d, "create") /\ UNCHANGED got
  /\ UNCHANGED <<store, try, ref, broken>>

NewId(d) == <<d, try[d]>>

Create(d) ==
  /\ At(d, "create") /\ Goto(d, "reference")
  /\ PutMemory(MemoryKey(Event(d)), [id |-> NewId(d), version |-> 1, event |-> Event(d)])
  /\ got' = [got EXCEPT ![d] = NewId(d)]
  /\ UNCHANGED <<try, ref, broken>>

(* An error of CreateMemory, the key taken meanwhile included, or the end  *)
(* of the process.                                                         *)
Fail(d) ==
  /\ pc[d] \in {"lookup", "create", "reference", "link"}
  /\ Goto(d, "failed")
  /\ UNCHANGED <<store, try, got, ref, broken>>

More(d) == ref[d] <= References[Event(d)]
Key(d) == ReferenceKey(Event(d), ref[d])
NextRef(d) == Goto(d, "reference") /\ ref' = [ref EXCEPT ![d] = @ + 1]

(* A reference that is there ends the loop.                                *)
StopAtKnown(d) == Goto(d, "answered") /\ UNCHANGED ref
GoOn(d) == NextRef(d)

(* CreateRelationship: replay().                                           *)
Reference(d) ==
  /\ At(d, "reference") /\ More(d)
  /\ IF Known(Key(d)) THEN GoOn(d) ELSE Goto(d, "link") /\ UNCHANGED ref
  /\ UNCHANGED <<store, try, got, broken>>

(* CreateRelationship: PutRelationship.                                    *)
Link(d) ==
  /\ At(d, "link") /\ NextRef(d)
  /\ \/ PutRelationship(Key(d), [id |-> <<NewId(d), ref[d]>>, version |-> 1, from |-> got[d],
                                 event |-> Event(d), ref |-> ref[d]])
     \/ ~KeyFree(Key(d)) /\ UNCHANGED store
  /\ UNCHANGED <<try, got, broken>>

(* _, _ = s.CreateRelationship(...): a failed statement is not seen.       *)
Lose(d) ==
  /\ pc[d] \in {"reference", "link"} /\ More(d) /\ NextRef(d)
  /\ broken' = [broken EXCEPT ![d] = TRUE]
  /\ UNCHANGED <<store, try, got>>

Answer(d) ==
  /\ At(d, "reference") /\ ~More(d) /\ Goto(d, "answered")
  /\ UNCHANGED <<store, try, got, ref, broken>>

Handlings == FoldFunction(+, 0, try)

(* The workflow has had no answer, or an error.                            *)
Redeliver(d) ==
  /\ pc[d] \in {"failed", "answered"} /\ Handlings < MaxHandlings
  /\ try' = [try EXCEPT ![d] = @ + 1]
  /\ Goto(d, "lookup")
  /\ got' = [got EXCEPT ![d] = <<>>]
  /\ ref' = [ref EXCEPT ![d] = 1]
  /\ broken' = [broken EXCEPT ![d] = FALSE]
  /\ UNCHANGED store

-----------------------------------------------------------------------------
Init ==
  /\ log = <<>> /\ memories = {} /\ current = <<>> /\ rels = {}
  /\ pc = [d \in Deliveries |-> "lookup"]
  /\ try = [d \in Deliveries |-> 1]
  /\ got = [d \in Deliveries |-> <<>>]
  /\ ref = [d \in Deliveries |-> 1]
  /\ broken = [d \in Deliveries |-> FALSE]

Handle(d) ==
  \/ LookUp(d) \/ Create(d) \/ Fail(d) \/ Reference(d) \/ Link(d)
  \/ Lose(d) \/ Answer(d) \/ Redeliver(d)
Next == (\E d \in Deliveries : Handle(d)) \/ \E id \in DOMAIN current : Revise(id)

Spec == Init /\ [][Next]_vars

-----------------------------------------------------------------------------
(* Properties                                                              *)

EpisodesOf(w) == {m.id : m \in {n \in memories : n.event = w}}
LinksOf(w, i) == {r \in rels : r.event = w /\ r.ref = i}

(* However often and however concurrently an event is delivered, it has    *)
(* one episode, and each of its references one relationship, which leaves  *)
(* from that episode (the keys of IngestWorkflowEvent).                    *)
OneEpisode ==
  \A w \in Events :
    /\ Cardinality(EpisodesOf(w)) <= 1
    /\ \A i \in 1 .. References[w] :
         /\ Cardinality(LinksOf(w, i)) <= 1
         /\ \A r \in LinksOf(w, i) : r.from \in EpisodesOf(w)

(* A delivery that is answered leaves every reference of its event in      *)
(* place, unless a statement of its own has failed: what an earlier one    *)
(* lost, a retry adds, and what another one adds at the same time is not   *)
(* lost (IngestWorkflowEvent, CreateMemory and CreateRelationship).        *)
RetryCompletesReferences ==
  \A d \in Deliveries :
    (pc[d] = "answered" /\ ~broken[d]) =>
      \A i \in 1 .. References[Event(d)] : LinksOf(Event(d), i) # {}
=============================================================================
