--------------------------- MODULE KnowledgeWrites ---------------------------
(***************************************************************************)
(* The write path: HTTP handlers running Service.CreateX, VersionX and     *)
(* SetXState concurrently against one SQLStore, for the kinds entity,      *)
(* artifact, memory and relationship.                                      *)
(*                                                                         *)
(* A handler is a sequence of database statements, and between two of them *)
(* any other handler may run; pc[r] names the statement request r runs     *)
(* next.  eventTx is one database transaction and therefore one action.    *)
(* The full-text statements of PutEntity and PutMemory run after it, each  *)
(* on its own.  A request can be lost at any point (Fail): a crash, a      *)
(* cancelled context, a database error.  What was committed stays.         *)
(*                                                                         *)
(* Data.  A version's content is [kept, given, state]: `kept` stands for   *)
(* the fields VersionX inherits when the caller leaves them empty          *)
(* (scope_id, type, display_name, title of an artifact, content of a       *)
(* memory, ...), `given` for those it always takes from the caller         *)
(* (content of an artifact, title and subject of a memory, aliases, ...),  *)
(* `state` for state or status, inherited and never empty.                 *)
(***************************************************************************)
EXTENDS Naturals, FiniteSets, Sequences

CONSTANTS
  Requests,      \* request slots, each serves one call
  Calls,         \* the calls clients issue (records of CallSpace)
  Keys,          \* idempotency keys
  Objects,       \* object identifiers
  KindOf,        \* KindOf[o] : the table o lives in
  Generated,     \* the identifiers NewID can return
  KeptValues, GivenValues, States,
  Unset,         \* an empty JSON field
  NewId,         \* an empty id in a create call
  NoCall,
  DefaultState,  \* "active" or "draft"
  Dialect,       \* "sqlite" | "postgres"
  EmbedderConfigured

Kinds == {"entity", "artifact", "memory", "relationship"}
VersionedKinds == {"entity", "artifact", "memory"}  \* kinds with a VersionX
StatefulKinds == {"artifact", "memory"}             \* kinds with a SetXState
IndexedKinds == {"entity", "memory"}                \* kinds with an FTS table

Content == [kept : KeptValues, given : GivenValues, state : States]

Patch == [kept : KeptValues \cup {Unset}, given : GivenValues,
          state : States \cup {Unset}]

CallSpace ==
  [op : {"create", "version", "setState"}, key : Keys, kind : Kinds,
   obj : Objects \cup {NewId}, patch : Patch]

(* Only create may leave the id to the server, and only some kinds can be  *)
(* versioned or change state.                                              *)
WellFormed(c) ==
  /\ c.obj # NewId => KindOf[c.obj] = c.kind
  /\ c.op = "version" => c.obj # NewId /\ c.kind \in VersionedKinds
  /\ c.op = "setState" =>
       c.obj # NewId /\ c.kind \in StatefulKinds /\ c.patch.state # Unset

ASSUME ObjectsAssumption ==
  /\ KindOf \in [Objects -> Kinds]
  /\ Generated \subseteq Objects
  /\ NewId \notin Objects

ASSUME ContentAssumption ==
  /\ Unset \notin KeptValues \cup States
  /\ DefaultState \in States

ASSUME CallsAssumption ==
  /\ Calls \subseteq CallSpace
  /\ \A c \in Calls : WellFormed(c)
  /\ NoCall \notin Calls

ASSUME DeploymentAssumption ==
  /\ Dialect \in {"sqlite", "postgres"}
  /\ EmbedderConfigured \in BOOLEAN

VARIABLES
  \* the database
  events,    \* knowledge_events : set of [key, obj, version]
  rows,      \* the version tables : set of [obj, version, content]
  current,   \* the *_current tables : current[o], 0 when o has no row there
  jobs,      \* embedding_jobs : set of [obj, version]
  fts,       \* entity_fts and memory_fts : set of [obj, version]
  \* the handlers
  pc,        \* pc[r] : the statement r runs next
  call,      \* call[r] : the call r serves
  target,    \* target[r] : the object r works on
  patch,     \* patch[r] : the object handed to VersionX or CreateX
  draft,     \* draft[r] : [version, content] r is about to insert
  answer,    \* answer[r] : the version r's reply shows, 0 before
  \* history
  wrote,     \* wrote[r] : the version r's transaction committed, 0 for none
  unindexed  \* requests of which a full-text statement did not run

db == <<events, rows, current, jobs, fts>>
local == <<call, target, patch, draft, answer>>
history == <<wrote, unindexed>>
vars == <<db, pc, local, history>>

InFlight ==
  {"readState", "replay", "readAnswer", "readCurrent", "commit",
   "ftsDelete", "ftsInsert", "reply"}
PcValues == InFlight \cup {"idle", "done", "failed"}

Draft == [version : Nat, content : Content]

TypeOK ==
  /\ events \subseteq [key : Keys, obj : Objects, version : Nat]
  /\ rows \subseteq [obj : Objects, version : Nat, content : Content]
  /\ current \in [Objects -> Nat]
  /\ jobs \subseteq [obj : Objects, version : Nat]
  /\ fts \subseteq [obj : Objects, version : Nat]
  /\ pc \in [Requests -> PcValues]
  /\ call \in [Requests -> Calls \cup {NoCall}]
  /\ target \in [Requests -> Objects \cup {NewId}]
  /\ patch \in [Requests -> Patch \cup {NoCall}]
  /\ draft \in [Requests -> Draft \cup {NoCall}]
  /\ answer \in [Requests -> Nat]
  /\ wrote \in [Requests -> Nat]
  /\ unindexed \subseteq Requests

Init ==
  /\ events = {} /\ rows = {} /\ jobs = {} /\ fts = {}
  /\ current = [o \in Objects |-> 0]
  /\ pc = [r \in Requests |-> "idle"]
  /\ call = [r \in Requests |-> NoCall]
  /\ target = [r \in Requests |-> NewId]
  /\ patch = [r \in Requests |-> NoCall]
  /\ draft = [r \in Requests |-> NoCall]
  /\ answer = [r \in Requests |-> 0]
  /\ wrote = [r \in Requests |-> 0]
  /\ unindexed = {}

-----------------------------------------------------------------------------
(* Helpers                                                                 *)

Goto(r, l) == pc' = [pc EXCEPT ![r] = l]

(* The row GetX(id) returns: the one its *_current row points at.          *)
CurrentRows(o) == {x \in rows : x.obj = o /\ x.version = current[o]}

(* VersionX fills the fields the caller left empty from the version read.  *)
Merge(p, c) ==
  [kept |-> IF p.kept = Unset THEN c.kept ELSE p.kept,
   given |-> p.given,
   state |-> IF p.state = Unset THEN c.state ELSE p.state]

(* CreateX has nothing to inherit from: only the state has a default.      *)
FirstContent(p) ==
  [p EXCEPT !.state = IF p.state = Unset THEN DefaultState ELSE p.state]

(* SetXState changes one field of the object it read.                      *)
WithState(c, s) == [c EXCEPT !.state = s]

(* Where the object a create call writes gets its identifier.              *)
IdFor(r) ==
  IF call[r].obj # NewId THEN {call[r].obj}
  ELSE {o \in Generated : /\ KindOf[o] = call[r].kind
                          /\ \A x \in rows : x.obj # o
                          /\ \A s \in Requests : target[s] # o}

(* PutEntity and PutMemory go on to the full-text index; the others reply. *)
AfterCommit(o) ==
  IF Dialect = "sqlite" /\ KindOf[o] \in IndexedKinds THEN "ftsDelete" ELSE "reply"

-----------------------------------------------------------------------------
(* A handler, statement by statement                                       *)

(* Mux to handler: a free slot takes a call.                               *)
Receive(r, c) ==
  /\ pc[r] = "idle"
  /\ call' = [call EXCEPT ![r] = c]
  /\ target' = [target EXCEPT ![r] = c.obj]
  /\ patch' = [patch EXCEPT ![r] = c.patch]
  /\ Goto(r, IF c.op = "setState" THEN "readState" ELSE "replay")
  /\ UNCHANGED <<db, draft, answer, history>>

(* SetMemoryState, SetArtifactStatus: the object is read before replay,    *)
(* and everything read becomes the patch handed to VersionX.               *)
ReadState(r) ==
  /\ pc[r] = "readState"
  /\ \/ /\ CurrentRows(target[r]) = {}
        /\ Goto(r, "failed")
        /\ UNCHANGED patch
     \/ \E x \in CurrentRows(target[r]) :
          /\ patch' = [patch EXCEPT ![r] =
                         WithState(x.content, call[r].patch.state)]
          /\ Goto(r, "replay")
  /\ UNCHANGED <<db, call, target, draft, answer, history>>

(* replay: the key has an event already.  CreateX answers with the object  *)
(* of that event, VersionX with the object the caller named.               *)
ReplayFound(r) ==
  /\ pc[r] = "replay"
  /\ \E e \in events :
       /\ e.key = call[r].key
       /\ target' = [target EXCEPT ![r] = IF call[r].op = "create" THEN e.obj ELSE @]
  /\ Goto(r, "readAnswer")
  /\ UNCHANGED <<db, call, patch, draft, answer, history>>

(* replay finds nothing and CreateX goes on: required fields, id, version 1. *)
ReplayCreate(r) ==
  /\ pc[r] = "replay"
  /\ call[r].op = "create"
  /\ \A e \in events : e.key # call[r].key
  /\ \/ /\ patch[r].kept = Unset
        /\ Goto(r, "failed")
        /\ UNCHANGED <<target, draft>>
     \/ /\ patch[r].kept # Unset
        /\ \E o \in IdFor(r) : target' = [target EXCEPT ![r] = o]
        /\ draft' = [draft EXCEPT ![r] =
                       [version |-> 1, content |-> FirstContent(patch[r])]]
        /\ Goto(r, "commit")
  /\ UNCHANGED <<db, call, patch, answer, history>>

(* replay finds nothing and VersionX goes on.                              *)
ReplayVersion(r) ==
  /\ pc[r] = "replay"
  /\ call[r].op # "create"
  /\ \A e \in events : e.key # call[r].key
  /\ Goto(r, "readCurrent")
  /\ UNCHANGED <<db, local, history>>

(* The replayed call answers with the object as it is now.  An identifier  *)
(* of another kind is looked up in the wrong table and not found.          *)
ReadAnswer(r) ==
  /\ pc[r] = "readAnswer"
  /\ \/ /\ CurrentRows(target[r]) = {} \/ KindOf[target[r]] # call[r].kind
        /\ Goto(r, "failed")
        /\ UNCHANGED answer
     \/ /\ KindOf[target[r]] = call[r].kind
        /\ \E x \in CurrentRows(target[r]) :
             answer' = [answer EXCEPT ![r] = x.version]
        /\ Goto(r, "done")
  /\ UNCHANGED <<db, call, target, patch, draft, history>>

(* VersionX reads the current version and prepares its successor.          *)
ReadCurrent(r) ==
  /\ pc[r] = "readCurrent"
  /\ \/ /\ CurrentRows(target[r]) = {}
        /\ Goto(r, "failed")
        /\ UNCHANGED draft
     \/ \E x \in CurrentRows(target[r]) :
          /\ draft' = [draft EXCEPT ![r] =
               [version |-> x.version + 1, content |-> Merge(patch[r], x.content)]]
          /\ Goto(r, "commit")
  /\ UNCHANGED <<db, call, target, patch, answer, history>>

(* The schema without the UNIQUE constraint, or without the version in the *)
(* primary key.                                                            *)
KeyUnchecked(r) == TRUE
VersionUnchecked(r) == TRUE

(* UNIQUE(workspace_id, idempotency_key) and PRIMARY KEY(workspace_id, id, *)
(* version): what lets eventTx commit.                                     *)
KeyFree(r) == \A e \in events : e.key # call[r].key
VersionFree(r) ==
  \A x \in rows : ~(x.obj = target[r] /\ x.version = draft[r].version)

(* ON CONFLICT DO NOTHING: the pointer stays where the create put it.      *)
InsertCurrentOnce(r) ==
  current' = [current EXCEPT ![target[r]] = IF @ = 0 THEN draft[r].version ELSE @]

(* upsertCurrent: the pointer moves to the version just written.           *)
UpsertCurrent(r) == current' = [current EXCEPT ![target[r]] = draft[r].version]

(* The embedding job PutMemory inserts in the same transaction.            *)
JobsOf(r) ==
  IF EmbedderConfigured /\ KindOf[target[r]] = "memory"
  THEN {[obj |-> target[r], version |-> draft[r].version]}
  ELSE {}

(* eventTx with the apply function of PutX: all of it or nothing.          *)
Commit(r) ==
  /\ pc[r] = "commit"
  /\ KeyFree(r) /\ VersionFree(r)
  /\ events' = events \cup
       {[key |-> call[r].key, obj |-> target[r], version |-> draft[r].version]}
  /\ rows' = rows \cup
       {[obj |-> target[r], version |-> draft[r].version, content |-> draft[r].content]}
  /\ UpsertCurrent(r)
  /\ jobs' = jobs \cup JobsOf(r)
  /\ wrote' = [wrote EXCEPT ![r] = draft[r].version]
  /\ Goto(r, AfterCommit(target[r]))
  /\ UNCHANGED <<fts, local, unindexed>>

(* A constraint refuses the insert: the transaction rolls back.            *)
Conflict(r) ==
  /\ pc[r] = "commit"
  /\ ~(KeyFree(r) /\ VersionFree(r))
  /\ Goto(r, "failed")
  /\ UNCHANGED <<db, local, history>>

(* DELETE FROM ..._fts WHERE id = ...                                      *)
IndexDelete(r) ==
  /\ pc[r] = "ftsDelete"
  /\ fts' = {f \in fts : f.obj # target[r]}
  /\ Goto(r, "ftsInsert")
  /\ UNCHANGED <<events, rows, current, jobs, local, history>>

(* An insert that only the writer of the current version makes.            *)
IndexInsertIfCurrent(r) ==
  /\ pc[r] = "ftsInsert"
  /\ fts' = IF wrote[r] = current[target[r]]
            THEN fts \cup {[obj |-> target[r], version |-> wrote[r]]}
            ELSE fts
  /\ Goto(r, "reply")
  /\ UNCHANGED <<events, rows, current, jobs, local, history>>

(* INSERT INTO ..._fts                                                     *)
IndexInsert(r) ==
  /\ pc[r] = "ftsInsert"
  /\ fts' = fts \cup {[obj |-> target[r], version |-> wrote[r]]}
  /\ Goto(r, "reply")
  /\ UNCHANGED <<events, rows, current, jobs, local, history>>

(* The error of a full-text statement is discarded: the handler goes on.   *)
IndexError(r) ==
  /\ \/ pc[r] = "ftsDelete" /\ Goto(r, "ftsInsert")
     \/ pc[r] = "ftsInsert" /\ Goto(r, "reply")
  /\ unindexed' = unindexed \cup {r}
  /\ UNCHANGED <<db, local, wrote>>

(* respond(w, got, nil, 2xx): the version the caller is shown.             *)
Reply(r) ==
  /\ pc[r] = "reply"
  /\ answer' = [answer EXCEPT ![r] = draft[r].version]
  /\ Goto(r, "done")
  /\ UNCHANGED <<db, call, target, patch, draft, history>>

(* A crash, a cancelled context, a database error, a lost reply.           *)
Fail(r) ==
  /\ pc[r] \in InFlight
  /\ Goto(r, "failed")
  /\ unindexed' =
       IF pc[r] \in {"ftsDelete", "ftsInsert"} THEN unindexed \cup {r} ELSE unindexed
  /\ UNCHANGED <<db, local, wrote>>

(* Every call has been served.                                             *)
Served ==
  /\ \A r \in Requests : pc[r] \in {"done", "failed"}
  /\ UNCHANGED vars

Next ==
  \/ \E r \in Requests, c \in Calls : Receive(r, c)
  \/ \E r \in Requests : ReadState(r)
  \/ \E r \in Requests : ReplayFound(r)
  \/ \E r \in Requests : ReplayCreate(r)
  \/ \E r \in Requests : ReplayVersion(r)
  \/ \E r \in Requests : ReadAnswer(r)
  \/ \E r \in Requests : ReadCurrent(r)
  \/ \E r \in Requests : Commit(r)
  \/ \E r \in Requests : Conflict(r)
  \/ \E r \in Requests : IndexDelete(r)
  \/ \E r \in Requests : IndexInsert(r)
  \/ \E r \in Requests : IndexError(r)
  \/ \E r \in Requests : Reply(r)
  \/ \E r \in Requests : Fail(r)
  \/ Served

Spec == Init /\ [][Next]_vars

-----------------------------------------------------------------------------
(* Safety                                                                  *)

(* Concurrent VersionX calls number their versions from what they read     *)
(* earlier and upsertCurrent moves the pointer unconditionally; still the  *)
(* versions of an object are exactly 1 .. its current one.                 *)
HistoryIsContiguous ==
  \A o \in Objects :
    {x.version : x \in {y \in rows : y.obj = o}} = 1 .. current[o]

(* The event stream and the version tables tell the same story: one row an *)
(* event, one event a row, and a key names one event.  Import and          *)
(* ReplayEvents depend on it.                                              *)
EventsMatchRows ==
  /\ {[obj |-> e.obj, version |-> e.version] : e \in events} =
     {[obj |-> x.obj, version |-> x.version] : x \in rows}
  /\ \A e, f \in events :
       e.key = f.key \/ (e.obj = f.obj /\ e.version = f.version) => e = f

(* The row behind a version is unique, and what a VersionX call wrote is   *)
(* its own patch merged into the version just before it, whoever wrote     *)
(* that one: no concurrent version is overwritten unseen.                  *)
BuiltOnPredecessor ==
  \A r \in Requests :
    wrote[r] > 1 /\ call[r].op = "version" =>
      \A x, y \in rows :
        /\ x.obj = target[r] /\ x.version = wrote[r]
        /\ y.obj = target[r] /\ y.version + 1 = wrote[r]
        => x.content = Merge(call[r].patch, y.content)

(* A call that got a 2xx answer has an event under its key, now and for    *)
(* ever; if the event is about the object shown, the version shown is at   *)
(* least the one the key produced, also when the answer is a replay made   *)
(* after the response of the call that did the work was lost.              *)
AnswerCoversEffect ==
  \A r \in Requests :
    pc[r] = "done" =>
      \E e \in events :
        /\ e.key = call[r].key
        /\ e.obj = target[r] => 1 <= e.version /\ e.version <= answer[r]
        /\ answer[r] <= current[target[r]]

(* However the full-text statements of concurrent writers interleave, an   *)
(* object all of whose writers ran both statements is in the index (under  *)
(* the text of one of its versions, not always the last).                  *)
Searchable(o) == \E f \in fts : f.obj = o
SearchableOnceIndexed ==
  \A o \in Objects :
    /\ Dialect = "sqlite" /\ KindOf[o] \in IndexedKinds /\ current[o] > 0
    /\ \A r \in Requests :
         wrote[r] > 0 /\ target[r] = o =>
           r \notin unindexed /\ pc[r] \notin {"ftsDelete", "ftsInsert"}
    => Searchable(o)

(* Archiving a memory or activating an artifact changes its state and      *)
(* nothing else.  The code breaks this: the content comes from the read    *)
(* that preceded replay.                                                   *)
StateChangeKeepsContent ==
  \A r \in Requests :
    wrote[r] > 1 /\ call[r].op = "setState" =>
      \A x, y \in rows :
        /\ x.obj = target[r] /\ x.version = wrote[r]
        /\ y.obj = target[r] /\ y.version + 1 = wrote[r]
        => x.content = WithState(y.content, call[r].patch.state)

-----------------------------------------------------------------------------
(* Refinement                                                              *)

ContentAt(o, v) == (CHOOSE x \in rows : x.obj = o /\ x.version = v).content

Log == INSTANCE VersionedLog WITH
  Contents <- Content,
  log <- [o \in Objects |-> [v \in 1 .. current[o] |-> ContentAt(o, v)]],
  effect <- events

(* The write path implements the append-only log with effect-once keys.    *)
ImplementsLog == Log!LogSpec
=============================================================================
