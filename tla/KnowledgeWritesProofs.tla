------------------------ MODULE KnowledgeWritesProofs ------------------------
(***************************************************************************)
(* TLAPS proofs about KnowledgeWrites, for every set of requests, calls,   *)
(* objects and keys.                                                       *)
(***************************************************************************)
EXTENDS KnowledgeWrites, SequenceTheorems, TLAPS

-----------------------------------------------------------------------------
(* Lemmas about the operators on contents                                  *)

(* What VersionX builds from a patch and a version read is a content.      *)
LEMMA MergeType ==
  ASSUME NEW p \in Patch, NEW c \in Content
  PROVE  Merge(p, c) \in Content
BY DEF Merge, Patch, Content

(* What CreateX builds is a content once the required fields are there.    *)
LEMMA FirstContentType ==
  ASSUME NEW p \in Patch, p.kept # Unset
  PROVE  FirstContent(p) \in Content
BY ContentAssumption DEF FirstContent, Patch, Content

(* The object SetXState hands to VersionX is a patch.                      *)
LEMMA StatePatchType ==
  ASSUME NEW c \in Content, NEW p \in Patch
  PROVE  WithState(c, p.state) \in Patch
BY DEF WithState, Patch, Content

-----------------------------------------------------------------------------
(* Type correctness                                                        *)

(* What the local variables of a request hold at each of its statements.   *)
LocalsReady ==
  \A r \in Requests :
    /\ pc[r] # "idle" => call[r] \in Calls /\ patch[r] \in Patch
    /\ pc[r] \in {"readState", "readAnswer", "readCurrent", "commit",
                  "ftsDelete", "ftsInsert", "reply"} => target[r] \in Objects
    /\ pc[r] = "replay" /\ call[r].op # "create" => target[r] \in Objects
    /\ pc[r] \in {"commit", "ftsDelete", "ftsInsert", "reply"} => draft[r] \in Draft

TypeInv == TypeOK /\ LocalsReady

(* A call other than create names its object.                              *)
LEMMA CallFields ==
  ASSUME NEW c \in Calls
  PROVE  /\ c.op \in {"create", "version", "setState"}
         /\ c.key \in Keys /\ c.kind \in Kinds /\ c.patch \in Patch
         /\ c.obj \in Objects \cup {NewId}
         /\ c.op # "create" => c.obj \in Objects
BY CallsAssumption DEF CallSpace, WellFormed

LEMMA TypeInit == Init => TypeInv
BY DEF Init, TypeInv, TypeOK, LocalsReady, PcValues, InFlight

LEMMA TypeStep == TypeInv /\ [Next]_vars => TypeInv'
<1> SUFFICES ASSUME TypeInv, [Next]_vars
             PROVE  TypeInv'
  OBVIOUS
<1> USE DEF TypeInv, TypeOK, LocalsReady
<1>1. ASSUME NEW r \in Requests, NEW c \in Calls, Receive(r, c)
      PROVE  TypeInv'
  BY <1>1, CallFields DEF Receive, Goto, PcValues, InFlight, db, history
<1>2. ASSUME NEW r \in Requests, ReadState(r)
      PROVE  TypeInv'
  <2>1. call[r] \in Calls /\ target[r] \in Objects
    BY <1>2 DEF ReadState
  <2>2. CASE Goto(r, "failed") /\ UNCHANGED patch
    BY <1>2, <2>1, <2>2 DEF ReadState, Goto, PcValues, InFlight, db, history
  <2>3. ASSUME NEW x \in CurrentRows(target[r]), Goto(r, "replay"),
               patch' = [patch EXCEPT ![r] = WithState(x.content, call[r].patch.state)]
        PROVE  TypeInv'
    <3>1. WithState(x.content, call[r].patch.state) \in Patch
      BY <2>1, <2>3, CallFields, StatePatchType DEF CurrentRows
    <3>2. QED
      BY <1>2, <2>1, <2>3, <3>1 DEF ReadState, Goto, PcValues, InFlight, db, history
  <2>4. QED
    BY <1>2, <2>2, <2>3 DEF ReadState
<1>3. ASSUME NEW r \in Requests, ReplayFound(r)
      PROVE  TypeInv'
  BY <1>3, CallFields DEF ReplayFound, Goto, PcValues, InFlight, db, history
<1>4. ASSUME NEW r \in Requests, ReplayCreate(r)
      PROVE  TypeInv'
  BY <1>4, CallFields, FirstContentType, ObjectsAssumption
  DEF ReplayCreate, IdFor, Goto, PcValues, InFlight, Draft, db, history
<1>5. ASSUME NEW r \in Requests, ReplayVersion(r)
      PROVE  TypeInv'
  BY <1>5 DEF ReplayVersion, Goto, PcValues, InFlight, db, local, history
<1>6. ASSUME NEW r \in Requests, ReadAnswer(r)
      PROVE  TypeInv'
  BY <1>6 DEF ReadAnswer, CurrentRows, Goto, PcValues, InFlight, db, history
<1>7. ASSUME NEW r \in Requests, ReadCurrent(r)
      PROVE  TypeInv'
  BY <1>7, MergeType
  DEF ReadCurrent, CurrentRows, Goto, PcValues, InFlight, Draft, db, history
<1>8. ASSUME NEW r \in Requests, Commit(r)
      PROVE  TypeInv'
  BY <1>8, CallFields
  DEF Commit, UpsertCurrent, JobsOf, AfterCommit, Goto, PcValues, InFlight, Draft, local
<1>9. ASSUME NEW r \in Requests, Conflict(r)
      PROVE  TypeInv'
  BY <1>9 DEF Conflict, Goto, PcValues, InFlight, db, local, history
<1>10. ASSUME NEW r \in Requests, IndexDelete(r)
       PROVE  TypeInv'
  BY <1>10 DEF IndexDelete, Goto, PcValues, InFlight, local, history
<1>11. ASSUME NEW r \in Requests, IndexInsert(r)
       PROVE  TypeInv'
  BY <1>11 DEF IndexInsert, Goto, PcValues, InFlight, local, history
<1>12. ASSUME NEW r \in Requests, IndexError(r)
       PROVE  TypeInv'
  BY <1>12 DEF IndexError, Goto, PcValues, InFlight, db, local
<1>13. ASSUME NEW r \in Requests, Reply(r)
       PROVE  TypeInv'
  BY <1>13 DEF Reply, Goto, PcValues, InFlight, Draft, db, history
<1>14. ASSUME NEW r \in Requests, Fail(r)
       PROVE  TypeInv'
  BY <1>14 DEF Fail, Goto, PcValues, InFlight, db, local
<1>15. CASE UNCHANGED vars
  BY <1>15 DEF vars, db, local, history
<1>16. CASE Served
  BY <1>15, <1>16 DEF Served
<1>17. QED
  BY <1>1, <1>2, <1>3, <1>4, <1>5, <1>6, <1>7, <1>8, <1>9, <1>10, <1>11, <1>12,
     <1>13, <1>14, <1>15, <1>16 DEF Next

(* Type correctness of the write path: drafts, rows and replies always     *)
(* have the shape the next statement of their handler relies on.           *)
THEOREM TypeCorrect == Spec => []TypeOK
<1>1. Spec => []TypeInv
  BY TypeInit, TypeStep, PTL DEF Spec
<1>2. TypeInv => TypeOK
  BY DEF TypeInv
<1>3. QED
  BY <1>1, <1>2, PTL

-----------------------------------------------------------------------------
(* The store: versions, pointers and events                                *)

RowsBounded ==
  \A x \in rows : 1 <= x.version /\ x.version <= current[x.obj]
RowsCover ==
  \A o \in Objects : \A v \in 1 .. current[o] :
    \E x \in rows : x.obj = o /\ x.version = v
RowsUnique ==
  \A x, y \in rows : x.obj = y.obj /\ x.version = y.version => x = y
EventsBacked ==
  \A e \in events : \E x \in rows : x.obj = e.obj /\ x.version = e.version
RowsRecorded ==
  \A x \in rows : \E e \in events : e.obj = x.obj /\ e.version = x.version
EventsUnique ==
  \A e, f \in events :
    e.key = f.key \/ (e.obj = f.obj /\ e.version = f.version) => e = f

(* A draft is never ahead of the version after the current one: what was   *)
(* read can be stale, and pointers only grow.                              *)
DraftInOrder ==
  \A r \in Requests :
    pc[r] = "commit" =>
      1 <= draft[r].version /\ draft[r].version <= current[target[r]] + 1

StoreInv ==
  /\ RowsBounded /\ RowsCover /\ RowsUnique
  /\ EventsBacked /\ RowsRecorded /\ EventsUnique
  /\ DraftInOrder

LEMMA StoreInit == Init => StoreInv
BY DEF Init, StoreInv, RowsBounded, RowsCover, RowsUnique, EventsBacked,
       RowsRecorded, EventsUnique, DraftInOrder

(* A draft the constraints accept is the successor of the current version. *)
LEMMA CommitsSuccessor ==
  ASSUME TypeInv, StoreInv, NEW r \in Requests, Commit(r)
  PROVE  /\ target[r] \in Objects /\ call[r] \in Calls /\ draft[r] \in Draft
         /\ draft[r].version = current[target[r]] + 1
         /\ current' = [current EXCEPT ![target[r]] = current[target[r]] + 1]
<1>1. target[r] \in Objects /\ call[r] \in Calls /\ draft[r] \in Draft
  BY DEF TypeInv, LocalsReady, Commit
<1>2. draft[r].version \in Nat /\ current[target[r]] \in Nat
  BY <1>1 DEF Draft, TypeInv, TypeOK
<1>3. 1 <= draft[r].version /\ draft[r].version <= current[target[r]] + 1
  BY DEF StoreInv, DraftInOrder, Commit
<1>4. ~(draft[r].version <= current[target[r]])
  BY <1>1, <1>2, <1>3 DEF StoreInv, RowsCover, Commit, VersionFree
<1>5. draft[r].version = current[target[r]] + 1
  BY <1>2, <1>3, <1>4
<1>6. QED
  BY <1>1, <1>5 DEF Commit, UpsertCurrent

(* Only Commit writes versions, pointers or events.                        *)
LEMMA OnlyCommitWrites ==
  ASSUME [Next]_vars
  PROVE  UNCHANGED <<events, rows, current>> \/ \E r \in Requests : Commit(r)
BY DEF Next, vars, db, Receive, ReadState, ReplayFound, ReplayCreate, ReplayVersion,
       ReadAnswer, ReadCurrent, Conflict, IndexDelete, IndexInsert, IndexError, Reply,
       Fail, Served

LEMMA StoreStep == TypeInv /\ StoreInv /\ [Next]_vars => StoreInv'
<1> SUFFICES ASSUME TypeInv, StoreInv, [Next]_vars
             PROVE  StoreInv'
  OBVIOUS
<1>1. TypeInv'
  BY TypeStep
<1>2. ASSUME UNCHANGED <<events, rows, current>>
      PROVE  StoreInv'
  <2>1. /\ RowsBounded' /\ RowsCover' /\ RowsUnique'
        /\ EventsBacked' /\ RowsRecorded' /\ EventsUnique'
    BY <1>2 DEF StoreInv, RowsBounded, RowsCover, RowsUnique, EventsBacked,
                RowsRecorded, EventsUnique
  <2>2. DraftInOrder'
    <3> SUFFICES ASSUME NEW r \in Requests, pc'[r] = "commit"
                 PROVE  1 <= draft'[r].version /\ draft'[r].version <= current[target'[r]] + 1
      BY <1>2 DEF DraftInOrder
    <3>1. CASE pc[r] = "commit" /\ UNCHANGED <<draft[r], target[r]>>
      BY <3>1 DEF StoreInv, DraftInOrder
    <3>2. CASE ReplayCreate(r)
      BY <1>1, <3>2 DEF ReplayCreate, Goto, TypeInv, TypeOK, LocalsReady
    <3>3. CASE ReadCurrent(r)
      BY <1>1, <3>3
      DEF ReadCurrent, CurrentRows, Goto, TypeInv, TypeOK, LocalsReady, StoreInv, RowsBounded
    <3>4. QED
      BY <3>1, <3>2, <3>3
      DEF TypeInv, TypeOK, LocalsReady, AfterCommit, Next, vars, db, local, Goto, Receive,
          ReadState, ReplayFound, ReplayCreate, ReplayVersion, ReadAnswer, ReadCurrent,
          Commit, Conflict, IndexDelete, IndexInsert, IndexError, Reply, Fail, Served
  <2>3. QED
    BY <2>1, <2>2 DEF StoreInv
<1>3. ASSUME NEW r \in Requests, Commit(r)
      PROVE  StoreInv'
  <2> DEFINE o == target[r]
             n == draft[r].version
             row == [obj |-> o, version |-> n, content |-> draft[r].content]
             evt == [key |-> call[r].key, obj |-> o, version |-> n]
  <2>1. /\ o \in Objects /\ n = current[o] + 1 /\ current[o] \in Nat
        /\ current' = [current EXCEPT ![o] = n]
    BY <1>3, CommitsSuccessor DEF TypeInv, TypeOK
  <2>2. rows' = rows \cup {row} /\ events' = events \cup {evt}
    BY <1>3 DEF Commit
  <2>3. \A x \in rows : ~(x.obj = o /\ x.version = n)
    BY <1>3 DEF Commit, VersionFree
  <2>4. \A e \in events : e.key # call[r].key
    BY <1>3 DEF Commit, KeyFree
  <2>5. \A x \in rows : x.obj \in Objects /\ x.version \in Nat
    BY DEF TypeInv, TypeOK
  <2>6. \A p \in Objects : current[p] \in Nat
    BY DEF TypeInv, TypeOK
  <2> HIDE DEF o, n
  <2>7. RowsBounded'
    BY <2>1, <2>2, <2>5, <2>6 DEF StoreInv, RowsBounded, TypeInv, TypeOK
  <2>8. RowsCover'
    <3> SUFFICES ASSUME NEW p \in Objects, NEW v \in 1 .. current'[p]
                 PROVE  \E x \in rows' : x.obj = p /\ x.version = v
      BY DEF RowsCover
    <3>1. CASE v \in 1 .. current[p]
      BY <2>2, <3>1 DEF StoreInv, RowsCover
    <3>2. CASE p = o /\ v = n
      <4>1. row \in rows' /\ row.obj = p /\ row.version = v
        BY <2>2, <3>2
      <4>2. QED
        BY <4>1
    <3>3. QED
      BY <2>1, <2>6, <3>1, <3>2 DEF TypeInv, TypeOK
  <2>9. RowsUnique'
    BY <2>2, <2>3 DEF StoreInv, RowsUnique
  <2>10. EventsBacked' /\ RowsRecorded'
    <3>1. row \in rows' /\ evt \in events' /\ row.obj = evt.obj /\ row.version = evt.version
      BY <2>2
    <3>2. /\ \A e \in events' \ {evt} : e \in events
          /\ \A x \in rows' \ {row} : x \in rows
          /\ rows \subseteq rows' /\ events \subseteq events'
      BY <2>2
    <3> HIDE DEF row, evt
    <3>3. QED
      BY <3>1, <3>2 DEF StoreInv, EventsBacked, RowsRecorded
  <2>11. EventsUnique'
    BY <2>2, <2>3, <2>4 DEF StoreInv, EventsUnique, EventsBacked
  <2>12. DraftInOrder'
    <3> SUFFICES ASSUME NEW s \in Requests, pc'[s] = "commit"
                 PROVE  1 <= draft'[s].version /\ draft'[s].version <= current'[target'[s]] + 1
      BY DEF DraftInOrder
    <3>1. pc[s] = "commit" /\ draft' = draft /\ target' = target
      BY <1>3 DEF Commit, Goto, local, TypeInv, TypeOK, AfterCommit
    <3>2. target[s] \in Objects /\ draft[s].version \in Nat
      BY <3>1 DEF TypeInv, LocalsReady, Draft
    <3>3. 1 <= draft[s].version /\ draft[s].version <= current[target[s]] + 1
      BY <3>1 DEF StoreInv, DraftInOrder
    <3>4. current[target[s]] <= current'[target[s]] /\ current'[target[s]] \in Nat
      BY <2>1, <2>6, <3>2 DEF TypeInv, TypeOK
    <3>5. current[target[s]] \in Nat
      BY <2>6, <3>2
    <3>6. QED
      BY <3>1, <3>2, <3>3, <3>4, <3>5
  <2>13. QED
    BY <2>7, <2>8, <2>9, <2>10, <2>11, <2>12 DEF StoreInv
<1>4. QED
  BY <1>2, <1>3, OnlyCommitWrites

(* The store invariant holds in every reachable state.                     *)
LEMMA StoreInvariant == Spec => [](TypeInv /\ StoreInv)
<1>1. Init => TypeInv /\ StoreInv
  BY TypeInit, StoreInit
<1>2. TypeInv /\ StoreInv /\ [Next]_vars => (TypeInv /\ StoreInv)'
  BY TypeStep, StoreStep
<1>3. QED
  BY <1>1, <1>2, PTL DEF Spec

(* The parts of the invariant that make histories contiguous.              *)
LEMMA StoreImpliesContiguous == TypeInv /\ StoreInv => HistoryIsContiguous
<1> SUFFICES ASSUME TypeInv, StoreInv, NEW o \in Objects
             PROVE  {x.version : x \in {y \in rows : y.obj = o}} = 1 .. current[o]
  BY DEF HistoryIsContiguous
<1>1. current[o] \in Nat /\ \A x \in rows : x.version \in Nat
  BY DEF TypeInv, TypeOK
<1>2. ASSUME NEW v \in {x.version : x \in {y \in rows : y.obj = o}}
      PROVE  v \in 1 .. current[o]
  BY <1>1, <1>2 DEF StoreInv, RowsBounded
<1>3. ASSUME NEW v \in 1 .. current[o]
      PROVE  v \in {x.version : x \in {y \in rows : y.obj = o}}
  BY <1>3 DEF StoreInv, RowsCover
<1>4. QED
  BY <1>2, <1>3

(* The parts of the invariant that tie events to rows.                     *)
LEMMA StoreImpliesMatch == StoreInv => EventsMatchRows
BY DEF StoreInv, EventsBacked, RowsRecorded, EventsUnique, EventsMatchRows

(* Version numbers have no gap and no duplicate and the current pointer is *)
(* the last one, whatever VersionX, CreateX and SetXState calls interleave.*)
THEOREM ContiguousVersions == Spec => []HistoryIsContiguous
BY StoreInvariant, StoreImpliesContiguous, PTL

(* Every version has exactly one event and every key at most one version.  *)
THEOREM EventsAndRowsAgree == Spec => []EventsMatchRows
BY StoreInvariant, StoreImpliesMatch, PTL

-----------------------------------------------------------------------------
(* The steps of one request                                                *)

Acts(r) ==
  \/ \E c \in Calls : Receive(r, c)
  \/ ReadState(r) \/ ReplayFound(r) \/ ReplayCreate(r) \/ ReplayVersion(r)
  \/ ReadAnswer(r) \/ ReadCurrent(r) \/ Commit(r) \/ Conflict(r)
  \/ IndexDelete(r) \/ IndexInsert(r) \/ IndexError(r) \/ Reply(r) \/ Fail(r)

Rests(r) ==
  UNCHANGED <<pc[r], call[r], target[r], patch[r], draft[r], answer[r], wrote[r]>>

(* A step belongs to one request and leaves the variables of the others    *)
(* alone.                                                                  *)
LEMMA OneActs ==
  ASSUME TypeOK, [Next]_vars, NEW r \in Requests
  PROVE  Acts(r) \/ Rests(r)
<1> USE DEF TypeOK, Rests, Acts
<1>1. ASSUME NEW s \in Requests, s # r, Acts(s)
      PROVE  Rests(r)
  <2>1. CASE \E c \in Calls : Receive(s, c)
    BY <1>1, <2>1 DEF Receive, Goto, db, history
  <2>2. CASE ReadState(s)
    BY <1>1, <2>2 DEF ReadState, Goto, db, history
  <2>3. CASE ReplayFound(s)
    BY <1>1, <2>3 DEF ReplayFound, Goto, db, history
  <2>4. CASE ReplayCreate(s)
    BY <1>1, <2>4 DEF ReplayCreate, Goto, db, history
  <2>5. CASE ReplayVersion(s) \/ Conflict(s)
    BY <1>1, <2>5 DEF ReplayVersion, Conflict, Goto, db, local, history
  <2>6. CASE ReadAnswer(s)
    BY <1>1, <2>6 DEF ReadAnswer, Goto, db, history
  <2>7. CASE ReadCurrent(s)
    BY <1>1, <2>7 DEF ReadCurrent, Goto, db, history
  <2>8. CASE Commit(s)
    BY <1>1, <2>8 DEF Commit, Goto, local
  <2>9. CASE IndexDelete(s) \/ IndexInsert(s)
    BY <1>1, <2>9 DEF IndexDelete, IndexInsert, Goto, local, history
  <2>10. CASE IndexError(s) \/ Fail(s)
    BY <1>1, <2>10 DEF IndexError, Fail, Goto, db, local
  <2>11. CASE Reply(s)
    BY <1>1, <2>11 DEF Reply, Goto, db, history
  <2>12. QED
    BY <1>1, <2>1, <2>2, <2>3, <2>4, <2>5, <2>6, <2>7, <2>8, <2>9, <2>10, <2>11
<1>2. CASE UNCHANGED vars
  BY <1>2 DEF vars, local, history
<1>3. QED
  BY <1>1, <1>2 DEF Next, Served

(* The store only grows: events and rows are added, pointers move up.      *)
LEMMA StoreGrows ==
  ASSUME TypeInv, StoreInv, [Next]_vars
  PROVE  /\ events \subseteq events' /\ rows \subseteq rows'
         /\ \A o \in Objects : current[o] <= current'[o]
<1>1. CASE UNCHANGED <<events, rows, current>>
  BY <1>1 DEF TypeInv, TypeOK
<1>2. ASSUME NEW r \in Requests, Commit(r)
      PROVE  /\ events \subseteq events' /\ rows \subseteq rows'
             /\ \A o \in Objects : current[o] <= current'[o]
  <2>1. \A o \in Objects : current[o] \in Nat
    BY DEF TypeInv, TypeOK
  <2>2. \A o \in Objects : current'[o] \in {current[o], current[o] + 1}
    BY <1>2, CommitsSuccessor DEF TypeInv, TypeOK
  <2>3. QED
    BY <1>2, <2>1, <2>2 DEF Commit
<1>3. QED
  BY <1>1, <1>2, OnlyCommitWrites

-----------------------------------------------------------------------------
(* Keys and answers                                                        *)

Wrote(r) == [key |-> call[r].key, obj |-> target[r], version |-> wrote[r]]

(* What request r has written is recorded before it is answered and stays. *)
Recorded(r) ==
  /\ wrote[r] # 0 => pc[r] \in {"ftsDelete", "ftsInsert", "reply", "done", "failed"}
  /\ wrote[r] # 0 => target[r] \in Objects /\ wrote[r] <= current[target[r]]
  /\ pc[r] \in {"ftsDelete", "ftsInsert", "reply"} =>
       wrote[r] = draft[r].version /\ wrote[r] # 0 /\ Wrote(r) \in events
  /\ pc[r] = "readAnswer" => \E e \in events : e.key = call[r].key

(* The body of AnswerCoversEffect.                                         *)
Covered(r) ==
  pc[r] = "done" =>
    /\ target[r] \in Objects
    /\ \E e \in events :
         /\ e.key = call[r].key
         /\ e.obj = target[r] => 1 <= e.version /\ e.version <= answer[r]
         /\ answer[r] <= current[target[r]]

EffectInv == \A r \in Requests : Recorded(r) /\ Covered(r)

LEMMA EffectInit == Init => EffectInv
BY DEF Init, EffectInv, Recorded, Covered

LEMMA EffectStep == TypeInv /\ StoreInv /\ EffectInv /\ [Next]_vars => EffectInv'
<1> SUFFICES ASSUME TypeInv, StoreInv, EffectInv, [Next]_vars, NEW r \in Requests
             PROVE  (Recorded(r) /\ Covered(r))'
  BY DEF EffectInv
<1>1. Recorded(r) /\ Covered(r)
  BY DEF EffectInv
<1>2. /\ events \subseteq events'
      /\ \A o \in Objects : current[o] <= current'[o]
      /\ \A o \in Objects : current[o] \in Nat /\ current'[o] \in Nat
      /\ wrote[r] \in Nat /\ answer[r] \in Nat
  BY StoreGrows, TypeStep DEF TypeInv, TypeOK
<1>3. pc[r] = "reply" \/ pc[r] = "readAnswer" => target[r] \in Objects
  BY DEF TypeInv, LocalsReady
<1>4. \A e \in events : 1 <= e.version /\ e.version <= current[e.obj] /\ e.version \in Nat
  BY DEF StoreInv, EventsBacked, RowsBounded, TypeInv, TypeOK
<1> USE DEF Recorded, Covered, Wrote
<1>5. CASE Rests(r)
  <2>1. Recorded(r)'
    BY <1>1, <1>2, <1>5 DEF Rests
  <2>2. Covered(r)'
    BY <1>1, <1>2, <1>5 DEF Rests
  <2>3. QED
    BY <2>1, <2>2
<1>6. CASE \E c \in Calls : Receive(r, c)
  BY <1>1, <1>6 DEF Receive, Goto, history, TypeInv, TypeOK
<1>7. CASE ReadState(r)
  BY <1>1, <1>7 DEF ReadState, Goto, history, TypeInv, TypeOK
<1>8. CASE ReplayFound(r)
  BY <1>1, <1>8 DEF ReplayFound, Goto, db, history, TypeInv, TypeOK
<1>9. CASE ReplayCreate(r)
  BY <1>1, <1>9 DEF ReplayCreate, Goto, db, history, TypeInv, TypeOK
<1>10. CASE ReplayVersion(r) \/ Conflict(r) \/ ReadCurrent(r)
  BY <1>1, <1>10
  DEF ReplayVersion, Conflict, ReadCurrent, Goto, db, local, history, TypeInv, TypeOK
<1>11. CASE ReadAnswer(r)
  BY <1>1, <1>2, <1>3, <1>4, <1>11
  DEF ReadAnswer, CurrentRows, Goto, db, history, TypeInv, TypeOK
<1>12. CASE Commit(r)
  <2>1. /\ target[r] \in Objects /\ draft[r].version = current[target[r]] + 1
        /\ current'[target[r]] = draft[r].version
        /\ wrote'[r] = draft[r].version /\ Wrote(r)' \in events'
        /\ UNCHANGED local
    BY <1>12, CommitsSuccessor DEF Commit, TypeInv, TypeOK, local
  <2>2. pc'[r] \in {"ftsDelete", "reply"}
    BY <1>12 DEF Commit, AfterCommit, Goto, TypeInv, TypeOK
  <2>3. QED
    BY <1>1, <1>2, <2>1, <2>2 DEF local
<1>13. CASE IndexDelete(r) \/ IndexInsert(r)
  BY <1>1, <1>13 DEF IndexDelete, IndexInsert, Goto, local, history, TypeInv, TypeOK
<1>14. CASE IndexError(r) \/ Fail(r)
  BY <1>1, <1>14 DEF IndexError, Fail, Goto, db, local, TypeInv, TypeOK
<1>15. CASE Reply(r)
  BY <1>1, <1>2, <1>3, <1>4, <1>15 DEF Reply, Goto, db, history, TypeInv, TypeOK
<1>16. QED
  BY <1>5, <1>6, <1>7, <1>8, <1>9, <1>10, <1>11, <1>12, <1>13, <1>14, <1>15, OneActs
  DEF Acts, TypeInv

(* The effects of requests are as recorded in every reachable state.       *)
LEMMA EffectInvariant == Spec => [](TypeInv /\ StoreInv /\ EffectInv)
<1>1. TypeInv /\ StoreInv /\ EffectInv /\ [Next]_vars => EffectInv'
  BY EffectStep
<1>2. QED
  BY StoreInvariant, EffectInit, <1>1, PTL DEF Spec

(* A 2xx answer means that the key has an event, for ever, and shows a     *)
(* version no older than the one the key produced.                         *)
THEOREM AnswersCoverEffects == Spec => []AnswerCoversEffect
<1>1. EffectInv => AnswerCoversEffect
  BY DEF EffectInv, Covered, AnswerCoversEffect
<1>2. QED
  BY EffectInvariant, <1>1, PTL

-----------------------------------------------------------------------------
(* Lineage: what a VersionX call builds on                                 *)

Predecessor(y, o, n) == y.obj = o /\ y.version + 1 = n

(* The draft is the caller's patch on the version just below it, which is  *)
(* in the store already: no commit can slip in between.                    *)
Lineage(r) ==
  call[r].op = "version" =>
    /\ pc[r] # "idle" => pc[r] # "readState" /\ patch[r] = call[r].patch
    /\ pc[r] = "commit" =>
         \A y \in rows :
           Predecessor(y, target[r], draft[r].version) =>
             draft[r].content = Merge(call[r].patch, y.content)
    /\ pc[r] # "idle" /\ wrote[r] > 1 =>
         \A x, y \in rows :
           /\ x.obj = target[r] /\ x.version = wrote[r]
           /\ Predecessor(y, target[r], wrote[r])
           => x.content = Merge(call[r].patch, y.content)

LineageInv == \A r \in Requests : Lineage(r)

LEMMA LineageInit == Init => LineageInv
BY DEF Init, LineageInv, Lineage

(* A commit adds the version after the current one, so it puts nothing     *)
(* below a version or a draft that is there already.                       *)
LEMMA CommitAddsOnTop ==
  ASSUME TypeInv, StoreInv, NEW r \in Requests, Commit(r),
         NEW o \in Objects, NEW n \in Nat, n <= current[o] + 1,
         NEW y \in rows', Predecessor(y, o, n)
  PROVE  y \in rows
<1>1. /\ rows' = rows \cup {[obj |-> target[r], version |-> draft[r].version,
                             content |-> draft[r].content]}
      /\ draft[r].version = current[target[r]] + 1
      /\ target[r] \in Objects
  BY CommitsSuccessor DEF Commit
<1>2. current[o] \in Nat
  BY DEF TypeInv, TypeOK
<1>3. QED
  BY <1>1, <1>2 DEF Predecessor

LEMMA LineageStep ==
  TypeInv /\ StoreInv /\ EffectInv /\ LineageInv /\ [Next]_vars => LineageInv'
<1> SUFFICES ASSUME TypeInv, StoreInv, EffectInv, LineageInv, [Next]_vars,
                    NEW r \in Requests
             PROVE  Lineage(r)'
  BY DEF LineageInv
<1>1. Lineage(r) /\ Recorded(r)
  BY DEF LineageInv, EffectInv
<1>2. /\ wrote[r] \in Nat /\ current \in [Objects -> Nat]
      /\ pc[r] = "commit" => target[r] \in Objects /\ draft[r].version \in Nat
      /\ pc[r] = "commit" => draft[r].version <= current[target[r]] + 1
  BY DEF TypeInv, TypeOK, LocalsReady, StoreInv, DraftInOrder, Draft
<1>3. ASSUME NEW o \in Objects, NEW n \in Nat, n <= current[o] + 1
      PROVE  \A y \in rows' : Predecessor(y, o, n) => y \in rows
  BY <1>3, CommitAddsOnTop, OnlyCommitWrites
<1>4. ASSUME NEW o \in Objects, NEW n \in Nat, n <= current[o]
      PROVE  \A x \in rows' : x.obj = o /\ x.version = n => x \in rows
  BY <1>2, <1>4, CommitsSuccessor, OnlyCommitWrites DEF Commit
<1>5. CASE Rests(r)
  <2>1. ASSUME pc[r] = "commit", call[r].op = "version", NEW y \in rows',
               Predecessor(y, target[r], draft[r].version)
        PROVE  draft[r].content = Merge(call[r].patch, y.content)
    BY <1>1, <1>2, <1>3, <2>1 DEF Lineage
  <2>2. ASSUME pc[r] # "idle", call[r].op = "version", wrote[r] > 1,
               NEW x \in rows', NEW y \in rows', x.obj = target[r], x.version = wrote[r],
               Predecessor(y, target[r], wrote[r])
        PROVE  x.content = Merge(call[r].patch, y.content)
    <3>1. target[r] \in Objects /\ wrote[r] <= current[target[r]]
      BY <1>1, <1>2, <2>2 DEF Recorded
    <3>2. wrote[r] <= current[target[r]] + 1
      BY <1>2, <3>1
    <3>3. x \in rows /\ y \in rows
      BY <1>2, <1>3, <1>4, <2>2, <3>1, <3>2
    <3>4. QED
      BY <1>1, <2>2, <3>3 DEF Lineage
  <2>3. QED
    BY <1>1, <1>5, <2>1, <2>2 DEF Lineage, Rests
<1>6. CASE Commit(r)
  <2>1. /\ target[r] \in Objects /\ draft[r].version = current[target[r]] + 1
        /\ wrote'[r] = draft[r].version /\ UNCHANGED local
        /\ pc[r] = "commit" /\ pc'[r] \in {"ftsDelete", "reply"}
    BY <1>6, CommitsSuccessor DEF Commit, AfterCommit, Goto, TypeInv, TypeOK
  <2>2. \A x \in rows' : x.obj = target[r] /\ x.version = draft[r].version
                         => x.content = draft[r].content
    BY <1>6 DEF Commit, VersionFree
  <2>3. \A y \in rows' : Predecessor(y, target[r], draft[r].version) => y \in rows
    BY <1>2, <1>3, <2>1
  <2>4. QED
    BY <1>1, <2>1, <2>2, <2>3 DEF Lineage, local
<1>7. CASE ReadCurrent(r)
  <2>1. CASE UNCHANGED draft /\ Goto(r, "failed")
    BY <1>1, <1>7, <2>1
    DEF ReadCurrent, Goto, Lineage, Recorded, db, history, TypeInv, TypeOK
  <2>2. ASSUME NEW x \in CurrentRows(target[r]), Goto(r, "commit"),
               draft' = [draft EXCEPT ![r] =
                 [version |-> x.version + 1, content |-> Merge(patch[r], x.content)]]
        PROVE  Lineage(r)'
    <3>1. /\ x \in rows /\ x.obj = target[r] /\ x.version \in Nat /\ wrote[r] = 0
          /\ draft'[r] = [version |-> x.version + 1, content |-> Merge(patch[r], x.content)]
          /\ pc'[r] = "commit" /\ pc[r] = "readCurrent"
      BY <1>1, <1>7, <2>2 DEF ReadCurrent, CurrentRows, Recorded, Goto, TypeInv, TypeOK
    <3>2. \A y \in rows : Predecessor(y, target[r], x.version + 1) => y = x
      BY <3>1 DEF Predecessor, StoreInv, RowsUnique, TypeInv, TypeOK
    <3>3. QED
      BY <1>1, <1>7, <3>1, <3>2 DEF ReadCurrent, Lineage, db, history
  <2>3. QED
    BY <1>7, <2>1, <2>2 DEF ReadCurrent
<1>8. CASE \E c \in Calls : Receive(r, c)
  BY <1>1, <1>8 DEF Receive, Goto, Lineage, Recorded, history, TypeInv, TypeOK
<1>9. CASE ReadState(r)
  BY <1>1, <1>9 DEF ReadState, Lineage
<1>10. CASE ReplayCreate(r)
  BY <1>1, <1>10 DEF ReplayCreate, Goto, Lineage, Recorded, db, history, TypeInv, TypeOK
<1>11. CASE ReplayFound(r) \/ ReplayVersion(r) \/ ReadAnswer(r)
  BY <1>1, <1>11
  DEF ReplayFound, ReplayVersion, ReadAnswer, Goto, Lineage, Recorded, db, local, history,
      TypeInv, TypeOK
<1>12. CASE Conflict(r) \/ IndexDelete(r) \/ IndexInsert(r) \/ IndexError(r) \/ Fail(r) \/ Reply(r)
  BY <1>1, <1>12
  DEF Conflict, IndexDelete, IndexInsert, IndexError, Fail, Reply, InFlight, Goto, Lineage,
      db, local, history, TypeInv, TypeOK
<1>13. QED
  BY <1>5, <1>6, <1>7, <1>8, <1>9, <1>10, <1>11, <1>12, OneActs DEF Acts, TypeInv

(* Whatever runs at the same time, the version a VersionX call has written *)
(* is its own patch on the version just before it.                         *)
THEOREM VersionsBuildOnPredecessors == Spec => []BuiltOnPredecessor
<1>1. TypeInv /\ StoreInv /\ EffectInv /\ LineageInv /\ [Next]_vars => LineageInv'
  BY LineageStep
<1>2. EffectInv /\ LineageInv => BuiltOnPredecessor
  BY DEF EffectInv, Recorded, LineageInv, Lineage, Predecessor, BuiltOnPredecessor
<1>3. QED
  BY EffectInvariant, LineageInit, <1>1, <1>2, PTL DEF Spec

-----------------------------------------------------------------------------
(* The full-text index                                                     *)

(* The body of SearchableOnceIndexed: an object out of the index has a     *)
(* writer that is not through with its two statements, or has missed one.  *)
InArrears(r) == r \in unindexed \/ pc[r] \in {"ftsDelete", "ftsInsert"}
Kept(o) ==
  Dialect = "sqlite" /\ KindOf[o] \in IndexedKinds /\ current[o] > 0 =>
    Searchable(o) \/ \E r \in Requests : wrote[r] > 0 /\ target[r] = o /\ InArrears(r)

IndexInv == \A o \in Objects : Kept(o)

LEMMA IndexInit == Init => IndexInv
BY DEF Init, IndexInv, Kept

LEMMA IndexStep == TypeInv /\ StoreInv /\ EffectInv /\ IndexInv /\ [Next]_vars => IndexInv'
<1> SUFFICES ASSUME TypeInv, StoreInv, EffectInv, IndexInv, [Next]_vars,
                    NEW o \in Objects, Kept(o)
             PROVE  Kept(o)'
  BY DEF IndexInv
<1> DEFINE Owes(r) == wrote[r] > 0 /\ target[r] = o /\ InArrears(r)
<1>1. ASSUME current'[o] = current[o], Searchable(o) => Searchable(o)',
             \A r \in Requests : Owes(r) => Owes(r)'
      PROVE  Kept(o)'
  BY <1>1 DEF Kept
<1>2. \A r \in Requests : wrote[r] \in Nat /\ (EffectInv => Recorded(r))
  BY DEF TypeInv, TypeOK, EffectInv
(* A step after which whoever owed the index a statement still does.       *)
<1>3. ASSUME NEW r \in Requests, wrote' = wrote, unindexed \subseteq unindexed',
             target'[r] = target[r] \/ wrote[r] = 0,
             \A s \in Requests \ {r} : target'[s] = target[s] /\ pc'[s] = pc[s],
             InArrears(r) => InArrears(r)'
      PROVE  \A s \in Requests : Owes(s) => Owes(s)'
  BY <1>2, <1>3 DEF InArrears
<1>4. CASE UNCHANGED vars
  BY <1>1, <1>4 DEF vars, db, local, history, Searchable, InArrears
<1>5. ASSUME NEW r \in Requests, NEW c \in Calls, Receive(r, c)
      PROVE  Kept(o)'
  <2>1. wrote[r] = 0
    BY <1>2, <1>5 DEF Receive, Recorded
  <2>2. QED
    BY <1>1, <1>3, <1>5, <2>1
    DEF Receive, Goto, db, history, Searchable, InArrears, TypeInv, TypeOK
<1>6. ASSUME NEW r \in Requests,
             ReadState(r) \/ ReplayVersion(r) \/ ReadAnswer(r) \/ ReadCurrent(r)
             \/ Conflict(r) \/ Reply(r)
      PROVE  Kept(o)'
  BY <1>1, <1>3, <1>6
  DEF ReadState, ReplayVersion, ReadAnswer, ReadCurrent, Conflict, Reply, Goto, db, local,
      history, Searchable, InArrears, TypeInv, TypeOK
<1>7. ASSUME NEW r \in Requests, ReplayFound(r) \/ ReplayCreate(r)
      PROVE  Kept(o)'
  <2>1. wrote[r] = 0
    BY <1>2, <1>7 DEF ReplayFound, ReplayCreate, Recorded
  <2>2. QED
    BY <1>1, <1>3, <1>7, <2>1
    DEF ReplayFound, ReplayCreate, Goto, db, history, Searchable, InArrears, TypeInv, TypeOK
<1>8. ASSUME NEW r \in Requests, Commit(r)
      PROVE  Kept(o)'
  <2>1. /\ target' = target /\ unindexed' = unindexed /\ fts' = fts
        /\ \A s \in Requests \ {r} : wrote'[s] = wrote[s] /\ pc'[s] = pc[s]
        /\ wrote'[r] = draft[r].version /\ draft[r].version > 0 /\ pc[r] = "commit"
        /\ pc'[r] = AfterCommit(target[r])
    <3>1. draft[r].version = current[target[r]] + 1 /\ current[target[r]] \in Nat
      BY <1>8, CommitsSuccessor DEF TypeInv, TypeOK
    <3>2. QED
      BY <1>8, <3>1 DEF Commit, Goto, local, TypeInv, TypeOK
  <2>2. CASE target[r] = o
    BY <2>1, <2>2 DEF Kept, AfterCommit, InArrears
  <2>3. CASE target[r] # o
    <3>1. current'[o] = current[o]
      BY <1>8, <2>3, CommitsSuccessor DEF TypeInv, TypeOK
    <3>2. \A s \in Requests : Owes(s) => Owes(s)'
      BY <2>1, <2>3 DEF InArrears
    <3>3. QED
      BY <1>1, <2>1, <3>1, <3>2 DEF Searchable
  <2>4. QED
    BY <2>2, <2>3
<1>9. ASSUME NEW r \in Requests, IndexDelete(r)
      PROVE  Kept(o)'
  <2>1. /\ current' = current /\ \A s \in Requests : Owes(s) => Owes(s)'
        /\ Owes(r) \/ target[r] # o
    BY <1>2, <1>3, <1>9
    DEF IndexDelete, Goto, local, history, InArrears, Recorded, TypeInv, TypeOK
  <2>2. CASE target[r] # o
    BY <1>1, <1>9, <2>1, <2>2 DEF IndexDelete, Searchable
  <2>3. CASE Owes(r)
    BY <2>1, <2>3 DEF Kept
  <2>4. QED
    BY <2>1, <2>2, <2>3
<1>10. ASSUME NEW r \in Requests, IndexInsert(r)
       PROVE  Kept(o)'
  <2>1. /\ current' = current /\ fts \subseteq fts'
        /\ [obj |-> target[r], version |-> wrote[r]] \in fts'
        /\ \A s \in Requests \ {r} : Owes(s) => Owes(s)'
    BY <1>10 DEF IndexInsert, Goto, local, history, InArrears, TypeInv, TypeOK
  <2>2. target[r] = o => Searchable(o)'
    BY <2>1 DEF Searchable
  <2>3. Searchable(o) => Searchable(o)'
    BY <2>1 DEF Searchable
  <2>4. QED
    BY <2>1, <2>2, <2>3 DEF Kept
<1>11. ASSUME NEW r \in Requests, IndexError(r) \/ Fail(r)
       PROVE  Kept(o)'
  BY <1>1, <1>3, <1>11
  DEF IndexError, Fail, Goto, db, local, Searchable, InArrears, TypeInv, TypeOK
<1>12. QED
  BY <1>4, <1>5, <1>6, <1>7, <1>8, <1>9, <1>10, <1>11 DEF Next, Served

(* However the statements on the full-text index interleave, an object     *)
(* whose writers all ran both of theirs is found by some text of its own.  *)
THEOREM WrittenIsSearchable == Spec => []SearchableOnceIndexed
<1>1. TypeInv /\ StoreInv /\ EffectInv /\ IndexInv /\ [Next]_vars => IndexInv'
  BY IndexStep
<1>2. IndexInv => SearchableOnceIndexed
  BY DEF IndexInv, Kept, InArrears, SearchableOnceIndexed
<1>3. QED
  BY EffectInvariant, IndexInit, <1>1, <1>2, PTL DEF Spec

-----------------------------------------------------------------------------
(* Refinement                                                              *)

History(o) == [v \in 1 .. current[o] |-> ContentAt(o, v)]

(* Stated for any set of rows, so that it serves the rows before a step    *)
(* and those after it.                                                     *)
LEMMA ChosenRow ==
  ASSUME NEW R, NEW x \in R,
         \A y, z \in R : y.obj = z.obj /\ y.version = z.version => y = z
  PROVE  (CHOOSE y \in R : y.obj = x.obj /\ y.version = x.version).content = x.content
OBVIOUS

(* The abstract log of an object has a content for each version.           *)
LEMMA HistoryType ==
  ASSUME TypeInv, StoreInv, NEW o \in Objects
  PROVE  /\ History(o) \in Seq(Content)
         /\ Len(History(o)) = current[o]
         /\ current[o] \in Nat
<1>1. current[o] \in Nat
  BY DEF TypeInv, TypeOK
<1>2. ASSUME NEW v \in 1 .. current[o]
      PROVE  ContentAt(o, v) \in Content
  <2>1. PICK x \in rows : x.obj = o /\ x.version = v
    BY DEF StoreInv, RowsCover
  <2>2. x.content \in Content
    BY DEF TypeInv, TypeOK
  <2>3. ContentAt(x.obj, x.version) = x.content
    BY ChosenRow DEF ContentAt, StoreInv, RowsUnique
  <2>4. QED
    BY <2>1, <2>2, <2>3
<1>3. QED
  BY <1>1, <1>2 DEF History

(* A commit appends its draft to the history of its object and leaves the  *)
(* other histories as they are.                                            *)
LEMMA CommitAppends ==
  ASSUME TypeInv, StoreInv, [Next]_vars, NEW r \in Requests, Commit(r), NEW o \in Objects
  PROVE  History(o)' = IF o = target[r] THEN Append(History(o), draft[r].content)
                       ELSE History(o)
<1> DEFINE t == target[r]
           n == draft[r].version
           row == [obj |-> t, version |-> n, content |-> draft[r].content]
<1>1. /\ t \in Objects /\ n = current[t] + 1
      /\ current' = [current EXCEPT ![t] = n]
      /\ rows' = rows \cup {row}
  BY CommitsSuccessor DEF Commit
<1>2. /\ \A y, z \in rows : y.obj = z.obj /\ y.version = z.version => y = z
      /\ \A y, z \in rows' : y.obj = z.obj /\ y.version = z.version => y = z
  BY StoreStep DEF StoreInv, RowsUnique
<1>3. current \in [Objects -> Nat]
  BY DEF TypeInv, TypeOK
<1>4. ASSUME NEW v \in 1 .. current[o]
      PROVE  ContentAt(o, v)' = ContentAt(o, v)
  <2>1. PICK x \in rows : x.obj = o /\ x.version = v
    BY DEF StoreInv, RowsCover
  <2>2. ContentAt(x.obj, x.version) = x.content
    BY <1>2, ChosenRow DEF ContentAt
  <2>3. (CHOOSE y \in rows' : y.obj = x.obj /\ y.version = x.version).content = x.content
    BY <1>1, <1>2, ChosenRow
  <2>4. QED
    BY <2>1, <2>2, <2>3 DEF ContentAt
<1>5. (CHOOSE y \in rows' : y.obj = t /\ y.version = n).content = draft[r].content
  <2>1. row \in rows' /\ row.obj = t /\ row.version = n /\ row.content = draft[r].content
    BY <1>1
  <2> HIDE DEF row
  <2>2. (CHOOSE y \in rows' : y.obj = row.obj /\ y.version = row.version).content = row.content
    BY <1>2, <2>1, ChosenRow
  <2>3. QED
    BY <2>1, <2>2
<1> HIDE DEF t, n, row
<1>6. CASE o # t
  <2>1. current'[o] = current[o]
    BY <1>1, <1>3, <1>6
  <2>2. QED
    BY <1>4, <1>6, <2>1 DEF History, t
<1>7. CASE o = t
  <2>1. /\ current'[o] = current[o] + 1 /\ current[o] \in Nat
        /\ n = current[o] + 1
    BY <1>1, <1>3, <1>7
  <2>2. ASSUME NEW v \in 1 .. current[o] + 1
        PROVE  ContentAt(o, v)' = Append(History(o), draft[r].content)[v]
    <3>1. Len(History(o)) = current[o] /\ History(o) \in Seq(Content)
      BY HistoryType
    <3>2. CASE v \in 1 .. current[o]
      <4>1. Append(History(o), draft[r].content)[v] = History(o)[v]
        BY <2>1, <3>1, <3>2
      <4>2. History(o)[v] = ContentAt(o, v)
        BY <3>2 DEF History
      <4>3. ContentAt(o, v)' = ContentAt(o, v)
        BY <1>4, <3>2
      <4>4. QED
        BY <4>1, <4>2, <4>3
    <3>3. CASE v = current[o] + 1
      <4>1. ContentAt(o, v)' = draft[r].content
        BY <1>5, <1>7, <2>1, <3>3 DEF ContentAt
      <4>2. QED
        BY <2>1, <3>1, <3>3, <4>1
    <3>4. v \in 1 .. current[o] \/ v = current[o] + 1
      BY <2>1
    <3>5. QED
      BY <3>2, <3>3, <3>4
  <2>3. Append(History(o), draft[r].content) =
          [v \in 1 .. current[o] + 1 |-> Append(History(o), draft[r].content)[v]]
    BY <2>1, HistoryType
  <2>4. QED
    BY <1>7, <2>1, <2>2, <2>3 DEF History, t
<1>8. QED
  BY <1>6, <1>7 DEF t

LEMMA LogInitially == Init => Log!LogInit
BY DEF Init, Log!LogInit

LEMMA LogStep == TypeInv /\ StoreInv /\ [Next]_vars => [Log!LogNext]_(Log!logVars)
<1> SUFFICES ASSUME TypeInv, StoreInv, [Next]_vars
             PROVE  [Log!LogNext]_(Log!logVars)
  OBVIOUS
<1>1. CASE UNCHANGED <<events, rows, current>>
  BY <1>1 DEF Log!logVars, ContentAt
<1>2. ASSUME NEW r \in Requests, Commit(r)
      PROVE  Log!LogNext
  <2> DEFINE k == call[r].key
             t == target[r]
             c == draft[r].content
  <2>1. k \in Keys /\ t \in Objects /\ c \in Content
    BY <1>2, CommitsSuccessor, CallFields DEF Draft
  <2>2. \A e \in events : e.key # k
    BY <1>2 DEF Commit, KeyFree
  <2>3. events' = events \cup {[key |-> k, obj |-> t, version |-> Len(History(t)) + 1]}
    BY <1>2, <2>1, HistoryType, CommitsSuccessor DEF Commit
  <2>4. [o \in Objects |-> History(o)'] =
          [[o \in Objects |-> History(o)] EXCEPT ![t] = Append(@, c)]
    BY <1>2, <2>1, CommitAppends
  <2>5. [o \in Objects |-> History(o)][t] = History(t)
    BY <2>1
  <2> HIDE DEF k, t, c
  <2>6. Log!AppendVersion(k, t, c)
    BY <2>2, <2>3, <2>4, <2>5 DEF Log!AppendVersion, History
  <2>7. QED
    BY <2>1, <2>6, Zenon DEF Log!LogNext, Log!AppendVersion
<1>3. QED
  BY <1>1, <1>2, OnlyCommitWrites

(* The write path implements the append-only log: each step of a handler   *)
(* appends one version under an unused key or changes nothing a caller can *)
(* see.                                                                    *)
THEOREM WritesImplementLog == Spec => ImplementsLog
BY StoreInvariant, LogInitially, LogStep, PTL DEF Spec, ImplementsLog, Log!LogSpec
=============================================================================
