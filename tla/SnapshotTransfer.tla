-------------------------- MODULE SnapshotTransfer --------------------------
(***************************************************************************)
(* Moving a workspace to another server: Export on a source that is still  *)
(* written to, and imports of the snapshot, retried and overlapping, into  *)
(* a destination that its own clients may write to.                        *)
(*                                                                         *)
(* Export runs one query per table and no transaction.  Import runs, for   *)
(* each event in the order of the snapshot, a look-up of its key and an    *)
(* eventTx, and at the end an Export of the destination to compare counts. *)
(* Between any two statements anything else may run.                       *)
(*                                                                         *)
(* Data.  An event is the version it wrote and its occurred_at, in         *)
(* hundredths of a second.  Source and destination are stores as in        *)
(* KnowledgeWrites: a write of theirs is one step.                         *)
(***************************************************************************)
EXTENDS Naturals, Integers, FiniteSets, Sequences

CONSTANTS
  Objects,
  TableOf,    \* TableOf[o] : "entities", "artifacts" or "memories"
  MaxVersion, \* bound: versions of an object
  Stamps,     \* the instants the source's clock can show
  Importers,  \* import requests carrying the snapshot, each served once
  MaxLocal,   \* bound: writes of the destination's own clients
  MaxFaults,  \* bound: look-ups of a key that fail
  MaxAborts,  \* bound: imports cut short
  NoObject

Instants == 0 .. 99
(* The tables with versions.  Scopes, read before them, and relationships, *)
(* read after them, have one row each and fare as a first version does.    *)
AllTables == <<"entities", "artifacts", "memories">>

ASSUME ObjectsAssumption ==
  /\ NoObject \notin Objects
  /\ TableOf \in [Objects -> {AllTables[n] : n \in DOMAIN AllTables}]
ASSUME StampsAssumption == Stamps \subseteq Instants
ASSUME BoundsAssumption ==
  MaxVersion \in Nat /\ MaxLocal \in Nat /\ MaxFaults \in Nat /\ MaxAborts \in Nat

VARIABLES
  source,     \* the events of the source, hence its rows: [obj, version, at]
  reads,      \* how many queries of Export have run
  snapEvents, snapRows,  \* the snapshot: events, and rows [obj, version]
  dstEvents,  \* events of the destination: [obj, version, origin]
  dstRows,    \* its version tables: [obj, version]
  dstCurrent, \* its *_current tables
  stage,      \* stage[i] : what the import i does next
  left,       \* left[i] : events of the snapshot i has not come to
  counted,    \* counted[i] : how many counts i has compared
  report,     \* what GET /v1/imports/{id} answers
  faults, aborts

snapshot == <<snapEvents, snapRows>>
destination == <<dstEvents, dstRows, dstCurrent>>
import == <<stage, left, counted>>
bounds == <<faults, aborts>>
vars == <<source, reads, snapshot, destination, import, report, bounds>>

Rows == [obj : Objects, version : 1 .. MaxVersion]
Blank == [obj |-> NoObject, version |-> 0]
Stages == {"idle", "check", "apply", "count", "completed", "failed"}
Ended == {"completed", "failed"}

TypeOK ==
  /\ source \subseteq [obj : Objects, version : 1 .. MaxVersion, at : Stamps]
  /\ reads \in 0 .. Len(AllTables) + 1
  /\ snapEvents \subseteq source
  /\ snapRows \subseteq Rows
  /\ dstEvents \subseteq [obj : Objects, version : 1 .. MaxVersion,
                          origin : {"snapshot", "local"}]
  /\ dstRows \subseteq Rows \cup {Blank}
  /\ dstCurrent \in [Objects \cup {NoObject} -> 0 .. MaxVersion]
  /\ stage \in [Importers -> Stages]
  /\ left \in [Importers -> SUBSET snapEvents]
  /\ counted \in [Importers -> 0 .. Len(AllTables) + 1]
  /\ report \in {"none", "completed", "failed"}
  /\ faults \in 0 .. MaxFaults /\ aborts \in 0 .. MaxAborts

Init ==
  /\ source = {} /\ reads = 0 /\ snapEvents = {} /\ snapRows = {}
  /\ dstEvents = {} /\ dstRows = {}
  /\ dstCurrent = [o \in Objects \cup {NoObject} |-> 0]
  /\ stage = [i \in Importers |-> "idle"]
  /\ left = [i \in Importers |-> {}]
  /\ counted = [i \in Importers |-> 0]
  /\ report = "none"
  /\ faults = 0 /\ aborts = 0

-----------------------------------------------------------------------------
(* The order of the snapshot                                               *)

(* What RFC3339Nano writes after the seconds: trailing zeros are dropped,  *)
(* and the point with them when nothing is left.  The characters by their  *)
(* place in the alphabet: point, digits, Z.                                *)
Point == -1
Zulu == 10
Text(t) ==
  IF t = 0 THEN <<Zulu>>
  ELSE IF t % 10 = 0 THEN <<Point, t \div 10, Zulu>>
  ELSE <<Point, t \div 10, t % 10, Zulu>>

TextLess(a, b) ==
  \E n \in DOMAIN a \cap DOMAIN b :
    a[n] < b[n] /\ \A k \in 1 .. n - 1 : a[k] = b[k]

(* ORDER BY occurred_at DESC, as other lists have it.                      *)
NewestFirst(e, f) == TextLess(Text(f.at), Text(e.at))
(* ORDER BY occurred_at, a TEXT column.  Instants are distinct here: the   *)
(* random id that breaks ties is left out.                                 *)
Before(e, f) == TextLess(Text(e.at), Text(f.at))

(* The event an import works on.                                           *)
Turn(i) == CHOOSE e \in left[i] : \A f \in left[i] : e = f \/ Before(e, f)

-----------------------------------------------------------------------------
(* The source                                                              *)

(* An export that reads the stream after the tables.                       *)
EventsLast == Append(AllTables, "events")
(* ListEvents, then all(): entities, artifacts, memories.                  *)
ReadOrder == <<"events">> \o AllTables
Exported == reads = Len(ReadOrder)

VersionsOf(rows, o) == {x.version : x \in {y \in rows : y.obj = o}}
RowOf(e) == [obj |-> e.obj, version |-> e.version]

(* A write: the handler takes the time before its transaction but after it *)
(* has read the version it builds on, so an object's instants increase: on *)
(* one clock, that is not set back.  Writes after the export are left out: *)
(* nothing reads them.                                                     *)
SourceWrite(o) ==
  /\ ~Exported
  /\ Cardinality(VersionsOf(source, o)) < MaxVersion
  /\ \E t \in Stamps :
       /\ \A e \in source : e.at # t /\ (e.obj = o => e.at < t)
       /\ source' = source \cup
            {[obj |-> o, version |-> Cardinality(VersionsOf(source, o)) + 1, at |-> t]}
  /\ UNCHANGED <<reads, snapshot, destination, import, report, bounds>>

(* The next query of Export.                                               *)
ExportRead ==
  /\ ~Exported
  /\ reads' = reads + 1
  /\ LET t == ReadOrder[reads + 1] IN
     /\ snapEvents' = IF t = "events" THEN source ELSE snapEvents
     /\ snapRows' = snapRows \cup {RowOf(e) : e \in {f \in source : TableOf[f.obj] = t}}
  /\ UNCHANGED <<source, destination, import, report, bounds>>

-----------------------------------------------------------------------------
(* The destination                                                         *)

(* The primary key of the version tables.                                  *)
RowFree(o, v) == \A x \in dstRows : ~(x.obj = o /\ x.version = v)

PutRow(x) ==
  /\ dstRows' = dstRows \cup {x}
  /\ dstCurrent' = [dstCurrent EXCEPT ![x.obj] = x.version]

Local == {d \in dstEvents : d.origin = "local"}

(* CreateX or VersionX of a client of the destination.                     *)
LocalWrite(o) ==
  /\ Cardinality(Local) < MaxLocal
  /\ LET v == dstCurrent[o] + 1 IN
     /\ v <= MaxVersion /\ RowFree(o, v)
     /\ dstEvents' = dstEvents \cup {[obj |-> o, version |-> v, origin |-> "local"]}
     /\ PutRow([obj |-> o, version |-> v])
  /\ UNCHANGED <<source, reads, snapshot, import, report, bounds>>

-----------------------------------------------------------------------------
(* Import                                                                  *)

Goto(i, l) == stage' = [stage EXCEPT ![i] = l]

(* map[bool]string{true: "completed", false: "failed"}[e == nil]           *)
Outcome(ok) == IF ok THEN "completed" ELSE "failed"

(* importSnapshot answers and files the report under the checksum.         *)
Finish(i, ok) ==
  /\ Goto(i, IF ok THEN "completed" ELSE "failed")
  /\ report' = Outcome(ok)

(* The request arrives whole, or its checksum does not fit.                *)
Start(i) ==
  /\ stage[i] = "idle" /\ Exported
  /\ \/ /\ Goto(i, "check")
        /\ left' = [left EXCEPT ![i] = snapEvents]
        /\ UNCHANGED report
     \/ Finish(i, FALSE) /\ UNCHANGED left
  /\ UNCHANGED <<source, reads, snapshot, destination, counted, bounds>>

KeyOf(e) == [obj |-> e.obj, version |-> e.version, origin |-> "snapshot"]

(* No look-up: every event is applied.                                     *)
NeverKnown(e) == FALSE
(* GetEventByIdempotency                                                   *)
Known(e) == KeyOf(e) \in dstEvents

Skip(i) == left' = [left EXCEPT ![i] = @ \ {Turn(i)}]

Check(i) ==
  /\ stage[i] = "check" /\ left[i] # {}
  /\ \/ Known(Turn(i)) /\ Skip(i) /\ UNCHANGED stage
     \/ ~Known(Turn(i)) /\ Goto(i, "apply") /\ UNCHANGED left
  /\ UNCHANGED <<source, reads, snapshot, destination, counted, report, bounds>>

(* The look-up fails.  It returns a pointer along with the error, and the  *)
(* error is discarded: the event counts as known.                          *)
CheckFails(i) ==
  /\ stage[i] = "check" /\ left[i] # {}
  /\ faults < MaxFaults
  /\ faults' = faults + 1
  /\ Skip(i)
  /\ UNCHANGED <<source, reads, snapshot, destination, stage, counted, report, aborts>>

(* findX: the row of the snapshot, or a zero record.                       *)
FindRow(e) == IF RowOf(e) \in snapRows THEN RowOf(e) ELSE Blank

(* A conflict taken for work already done.                                 *)
SkipRefused(i) == Skip(i) /\ Goto(i, "check") /\ UNCHANGED report
(* PutX fails: the import ends with its error.                             *)
Refused(i) == Finish(i, FALSE) /\ UNCHANGED left

(* INSERT OR REPLACE.                                                      *)
AlwaysInsertable(e) == TRUE
(* The two constraints of eventTx.                                         *)
Insertable(e) == ~Known(e) /\ RowFree(FindRow(e).obj, FindRow(e).version)
(* PutX with the event of the snapshot.                                    *)
Apply(i) ==
  /\ stage[i] = "apply"
  /\ LET e == Turn(i) IN
     \/ /\ Insertable(e)
        /\ dstEvents' = dstEvents \cup {KeyOf(e)}
        /\ PutRow(FindRow(e))
        /\ Skip(i) /\ Goto(i, "check")
        /\ UNCHANGED report
     \/ ~Insertable(e) /\ Refused(i) /\ UNCHANGED destination
  /\ UNCHANGED <<source, reads, snapshot, counted, bounds>>

(* The loop is over.                                                       *)
StartCount(i) ==
  /\ stage[i] = "check" /\ left[i] = {}
  /\ Goto(i, "count")
  /\ UNCHANGED <<source, reads, snapshot, destination, left, counted, report, bounds>>

SizeOf(t, events, rows) ==
  IF t = "events" THEN Cardinality(events)
  ELSE Cardinality({x \in rows : x.obj # NoObject /\ TableOf[x.obj] = t})

(* Only the stream is compared.                                            *)
EventsMatch(t) ==
  t = "events" => Cardinality(dstEvents) = Cardinality(snapEvents)
(* The count of a table here and in the snapshot.                          *)
CountMatches(t) == SizeOf(t, dstEvents, dstRows) = SizeOf(t, snapEvents, snapRows)

(* Export of the destination, table after table, with its counts compared; *)
(* the code compares them when all are read.                               *)
Count(i) ==
  /\ stage[i] = "count"
  /\ counted' = [counted EXCEPT ![i] = @ + 1]
  /\ LET n == counted[i] + 1 IN
     IF ~CountMatches(ReadOrder[n]) THEN Finish(i, FALSE)
     ELSE IF n = Len(ReadOrder) THEN Finish(i, TRUE)
     ELSE UNCHANGED <<stage, report>>
  /\ UNCHANGED <<source, reads, snapshot, destination, left, bounds>>

(* The import is cut short: its process stops and forgets the reports, or  *)
(* a statement fails or the client goes away and it answers with an error. *)
Abort(i) ==
  /\ stage[i] \in {"check", "apply", "count"}
  /\ aborts < MaxAborts
  /\ aborts' = aborts + 1
  /\ \/ Goto(i, "failed") /\ report' = "none"
     \/ Finish(i, FALSE)
  /\ UNCHANGED <<source, reads, snapshot, destination, left, counted, faults>>

Next ==
  \/ \E o \in Objects : SourceWrite(o)
  \/ ExportRead
  \/ \E o \in Objects : LocalWrite(o)
  \/ \E i \in Importers : Start(i)
  \/ \E i \in Importers : Check(i)
  \/ \E i \in Importers : CheckFails(i)
  \/ \E i \in Importers : Apply(i)
  \/ \E i \in Importers : StartCount(i)
  \/ \E i \in Importers : Count(i)
  \/ \E i \in Importers : Abort(i)

Spec == Init /\ [][Next]_vars

(* A handler that has taken a request runs on: its statements return.      *)
Handle(i) == Check(i) \/ Apply(i) \/ StartCount(i) \/ Count(i)
FairSpec == Spec /\ \A i \in Importers : WF_vars(Handle(i))

-----------------------------------------------------------------------------
(* Properties                                                              *)

(* However a write to the source falls between the queries of Export, an   *)
(* import finds the row of every event: none is stored blank.              *)
NoBlankRows == Blank \notin dstRows

(* At every moment of an import, retried, overlapping with another or with *)
(* writes of the destination's clients, the destination is a store as the  *)
(* write path leaves it: versions 1 .. the current one.  It takes look-ups *)
(* that do not fail and an order in which versions increase.               *)
HistoryPreserved ==
  faults = 0 => \A o \in Objects : VersionsOf(dstRows, o) = 1 .. dstCurrent[o]

(* An import that answers "completed", and a report that says so, has      *)
(* every event of the snapshot at the destination, its own rows and no     *)
(* other's.  The counts guard this against a failed look-up as long as no  *)
(* other client's write makes up the number.                               *)
Imported == \A e \in snapEvents : Known(e)
CompletedMeansImported ==
  /\ faults = 0 \/ Local = {}
  /\ report = "completed" \/ \E i \in Importers : stage[i] = "completed"
  => Imported

(* A snapshot torn by a write between the queries of Export, which has     *)
(* rows without an event, is never reported imported.                      *)
Torn == {RowOf(e) : e \in snapEvents} # snapRows
TornIsRefused ==
  Local = {} /\ Exported /\ Torn => \A i \in Importers : stage[i] # "completed"

(* Importing once more what has been imported changes nothing, also for an *)
(* import that looked its event up before another one applied it.          *)
RepeatChangesNothing ==
  [][Imported /\ (\E i \in Importers : stage'[i] # stage[i] \/ left'[i] # left[i])
     => UNCHANGED destination]_vars

(* A retry with the same snapshot succeeds, however far earlier attempts   *)
(* came, when it runs alone and the snapshot is not torn.                  *)
Retrying(i) ==
  /\ stage[i] = "check" /\ left[i] = snapEvents
  /\ \A j \in Importers : j # i => stage[j] \in Ended
  /\ ~Torn /\ aborts = MaxAborts /\ faults = MaxFaults
RetryCompletes ==
  \A i \in Importers : Retrying(i) ~> stage[i] = "completed" \/ Local # {}

(* A completed import has given the destination the versions of the source *)
(* in full, the latest current.  The code breaks this twice: by the order  *)
(* of the text of occurred_at, and by the event a failed look-up skips,    *)
(* which the retry applies after its successors.                           *)
CompletedPreservesVersions ==
  (\E i \in Importers : stage[i] = "completed") =>
    \A o \in Objects : VersionsOf(dstRows, o) = 1 .. dstCurrent[o]
=============================================================================
