----------------------------- MODULE EventReplay -----------------------------
(***************************************************************************)
(* ReplayEvents and RebuildProjections: a second, empty store is filled    *)
(* from the event stream of WorkflowIngest's, one transaction per event.   *)
(*                                                                         *)
(* Data.  An event's payload is the row it was written with.  The events   *)
(* come in any order: ListEvents does not always give the versions of an   *)
(* object in theirs (SnapshotTransfer).  A replay reads the first store    *)
(* once, so that it is enough to start one after the handlings and to let  *)
(* the first store rest from there on.  The destination is SQLite with a   *)
(* text index, a set of rows: two alike count once.  Entities are indexed  *)
(* and pointed to as memories are, relationships have one version.  The    *)
(* embedding state, which changes without an event, is left out.           *)
(***************************************************************************)
EXTENDS WorkflowIngest, SequencesExt

CONSTANTS
  MaxReplays, \* bound: calls of ReplayEvents
  MaxLost     \* bound: statements on the text index that fail

VARIABLES
  stream,  \* the events of the replay under way
  ordered, \* history: all its versions are in order
  source,  \* history: the tables they were read with
  copied,  \* the events of the destination
  copy,    \* its tables: [memories, current, rels]
  text,    \* its memory_fts: rows <<id, version>>
  lost,    \* history: failed statements on it
  rebuilt, \* history: what RebuildProjections has done since the last Put
  replay, replays

index == <<text, lost>>
replayVars == <<stream, ordered, source, copied, copy, index, rebuilt, replay, replays>>
allVars == <<vars, replayVars>>

Tables == [memories |-> memories, current |-> current, rels |-> rels]
Empty == [memories |-> {}, current |-> <<>>, rels |-> {}]

Streams == SetToSeqs(Range(log))
(* The versions of an object come as they were written.                    *)
InStreamOrder(s) ==
  \A m, n \in DOMAIN s :
    (s[m].row.id = s[n].row.id /\ s[m].row.version < s[n].row.version) => m < n

Resting == \A d \in Deliveries : pc[d] = "answered"

(* ListEvents at the source, then ReplayEvents.                            *)
Start ==
  /\ Resting
  /\ replay # "running" /\ replays < MaxReplays
  /\ replay' = "running" /\ replays' = replays + 1
  /\ stream' \in Streams /\ ordered' = InStreamOrder(stream')
  /\ source' = Tables
  /\ UNCHANGED <<vars, copied, copy, index, rebuilt>>

(* ON CONFLICT DO NOTHING                                                  *)
KeepVersion(old, new) == old
(* ON CONFLICT(workspace_id,id) DO UPDATE SET version=excluded.version     *)
SetVersion(old, new) == new

(* The Put of the store, by aggregate type.                                *)
Put(t, e) ==
  IF e.kind = "relationship" THEN [t EXCEPT !.rels = @ \cup {e.row}]
  ELSE [t EXCEPT
    !.memories = @ \cup {e.row},
    !.current = [i \in DOMAIN @ \cup {e.row.id} |->
                   IF i # e.row.id THEN @[i]
                   ELSE IF i \in DOMAIN @ THEN SetVersion(@[i], e.row.version)
                   ELSE e.row.version]]

(* A DELETE of the old rows and an INSERT of new ones, outside the         *)
(* transaction: the errors of both are dropped.                            *)
Rewrite(old, new) ==
  \E delete \in {old, {}}, insert \in {new, {}} :
    /\ text' = (text \ delete) \cup insert
    /\ lost' = lost + (IF delete = old THEN 0 ELSE 1) + (IF insert = new THEN 0 ELSE 1)
    /\ lost' <= MaxLost

RowsOf(id) == {x \in text : x[1] = id}
(* PutMemory indexes the version it has put, the current one or not.       *)
IndexPut(e) ==
  IF e.kind = "memory" THEN Rewrite(RowsOf(e.row.id), {<<e.row.id, e.row.version>>})
  ELSE UNCHANGED index

Replay ==
  /\ replay = "running" /\ stream # <<>>
  /\ Head(stream) \notin copied
  /\ copied' = copied \cup {Head(stream)}
  /\ copy' = Put(copy, Head(stream))
  /\ IndexPut(Head(stream))
  /\ stream' = Tail(stream) /\ rebuilt' = "no"
  /\ UNCHANGED <<vars, ordered, source, replay, replays>>

(* A statement fails, or the event is there already (its id is the key of  *)
(* the table): ReplayEvents returns, what has been put stays.              *)
Break ==
  /\ replay = "running" /\ stream # <<>>
  /\ replay' = "failed"
  /\ UNCHANGED <<vars, stream, ordered, source, copied, copy, index, rebuilt, replays>>

End ==
  /\ replay = "running" /\ stream = <<>>
  /\ replay' = "finished"
  /\ UNCHANGED <<vars, stream, ordered, source, copied, copy, index, rebuilt, replays>>

(* MIN(version)                                                            *)
Oldest(id) == Min({m.version : m \in {n \in copy.memories : n.id = id}})
Newest(id) == Max({m.version : m \in {n \in copy.memories : n.id = id}})
Pointed(t) == {<<i, t.current[i]>> : i \in DOMAIN t.current}
(* The current pointers anew from the versions, in one transaction; then   *)
(* the index anew from the pointers.                                       *)
RebuildProjections ==
  /\ replay = "finished"
  /\ copy' = [copy EXCEPT !.current = [i \in {m.id : m \in copy.memories} |-> Newest(i)]]
  /\ Rewrite(text, Pointed(copy'))
  /\ rebuilt' = IF lost' = lost THEN "all" ELSE "pointers"
  /\ UNCHANGED <<vars, stream, ordered, source, copied, replay, replays>>

ReplayInit ==
  /\ Init
  /\ stream = <<>> /\ ordered = TRUE /\ source = Empty
  /\ copied = {} /\ copy = Empty /\ text = {} /\ lost = 0 /\ rebuilt = "no"
  /\ replay = "idle" /\ replays = 0

ReplayNext ==
  \/ replay = "idle" /\ Next /\ UNCHANGED replayVars
  \/ Start \/ Replay \/ Break \/ End \/ RebuildProjections

ReplaySpec == ReplayInit /\ [][ReplayNext]_allVars

(* A replay that returns without an error has given the destination every  *)
(* row, version and current pointer the source had when its events were    *)
(* read, provided the versions of each object came in order; one into a    *)
(* store that is not empty does not pass for it (ReplayEvents).            *)
ReplayReconstructs == replay = "finished" /\ ordered => copy = source

(* RebuildProjections repairs what a replay in another order or a failed    *)
(* statement leaves behind: nothing of the source is missing or out of     *)
(* date, and each memory is indexed by the text of its current version     *)
(* alone, unless an index statement of the rebuild itself has failed       *)
(* (RebuildProjections after ReplayEvents).                                *)
RebuildRepairs ==
  replay = "finished" =>
    /\ rebuilt # "no" => copy = source
    /\ rebuilt = "all" => text = Pointed(source)
=============================================================================
