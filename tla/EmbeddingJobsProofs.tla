------------------------- MODULE EmbeddingJobsProofs -------------------------
(***************************************************************************)
(* Proofs about the embedding queue, for any number of servers, memories,  *)
(* backfills, imports, crashes and failed statements.                      *)
(***************************************************************************)
EXTENDS EmbeddingJobs, FiniteSetTheorems, TLAPS

-----------------------------------------------------------------------------
(* Types                                                                   *)

(* TypeOK by groups of variables; a worker past the SELECT holds a job,    *)
(* and an import about to enqueue has marked a version.                    *)
JobsOK ==
  /\ status \in [Versions -> JobStates]
  /\ attempts \in [Versions -> Nat]
  /\ due \in [Versions -> BOOLEAN]
MemoryOK ==
  /\ current \in [Memories -> 0 .. MaxVersion]
  /\ live \subseteq Versions
  /\ embState \in [Versions -> {"none", "not_configured", "pending", "ready", "failed"}]
  /\ vector \in [Versions -> Models \cup {None}]
WorkerOK ==
  /\ model \in [Servers -> Models]
  /\ at \in [Servers -> WorkerStates]
  /\ held \in [Servers -> Versions \cup {None}]
  /\ tries \in [Servers -> Nat]
  /\ \A s \in Servers : at[s] # "idle" => held[s] \in Versions
RequestOK ==
  /\ stage \in [Requests -> Stages]
  /\ mode \in [Requests -> {"missing", "all"}]
  /\ todo \in [Requests -> SUBSET Versions]
  /\ marked \in [Requests -> Versions \cup {None}]
  /\ \A q \in Requests : stage[q] = "enqueue" => marked[q] \in Versions
WantedOK == wanted \in [Versions -> Models \cup {None}]
BoundsOK == crashes \in 0 .. MaxCrashes /\ faults \in 0 .. MaxFaults

TypeInv == JobsOK /\ MemoryOK /\ WorkerOK /\ RequestOK /\ WantedOK /\ BoundsOK

LEMMA TypeInit == Init => TypeInv
BY ModelAssumption, BoundsAssumption
DEF Init, TypeInv, JobsOK, MemoryOK, WorkerOK, RequestOK, WantedOK, BoundsOK,
    JobStates, Backlog, WorkerStates, Stages

(* What a step leaves alone keeps its type.                                *)
LEMMA Untouched ==
  ASSUME TypeInv
  PROVE  /\ UNCHANGED jobs => JobsOK'
         /\ UNCHANGED memory => MemoryOK'
         /\ UNCHANGED worker => WorkerOK'
         /\ UNCHANGED request => RequestOK'
         /\ UNCHANGED wanted => WantedOK'
         /\ UNCHANGED bounds => BoundsOK'
<1> USE DEF TypeInv
<1>1. UNCHANGED jobs => JobsOK'
  BY DEF jobs, JobsOK
<1>2. UNCHANGED memory => MemoryOK'
  BY DEF memory, MemoryOK
<1>3. UNCHANGED worker => WorkerOK'
  BY DEF worker, WorkerOK
<1>4. UNCHANGED request => RequestOK'
  BY DEF request, RequestOK
<1>5. UNCHANGED wanted => WantedOK'
  BY DEF WantedOK
<1>6. UNCHANGED bounds => BoundsOK'
  BY DEF bounds, BoundsOK
<1>7. QED
  BY <1>1, <1>2, <1>3, <1>4, <1>5, <1>6

(* A worker goes on to one of its statements.                              *)
LEMMA AdvanceType ==
  ASSUME TypeInv, NEW s \in Servers, NEW l \in WorkerStates, at[s] # "idle", Advance(s, l)
  PROVE  WorkerOK'
BY DEF Advance, TypeInv, WorkerOK

(* A version is stored, and queued when it waits.                          *)
LEMMA PutVersionType ==
  ASSUME TypeInv, NEW v \in Versions, NEW active \in BOOLEAN,
         NEW st \in {"pending", "not_configured", "ready", "failed"},
         PutVersion(v, st, active)
  PROVE  MemoryOK' /\ JobsOK'
<1>1. v[1] \in Memories /\ v[2] \in 0 .. MaxVersion
  BY BoundsAssumption DEF Versions
<1>2. MemoryOK'
  BY <1>1 DEF PutVersion, SetState, TypeInv, MemoryOK
<1>3. JobsOK'
  BY Untouched DEF PutVersion, Enqueue, TypeInv, JobsOK, JobStates, Backlog
<1>4. QED
  BY <1>2, <1>3

LEMMA TypeStep == TypeInv /\ [Next]_vars => TypeInv'
<1> SUFFICES ASSUME TypeInv, [Next]_vars
             PROVE  TypeInv'
  OBVIOUS
<1>1. ASSUME NEW m \in Memories, Write(m)
      PROVE  TypeInv'
  <2>1. /\ m \in Memories /\ current[m] \in 0 .. MaxVersion /\ current[m] < MaxVersion
    BY <1>1 DEF Write, TypeInv, MemoryOK
  <2>2. <<m, current[m] + 1>> \in Versions
    BY <2>1, BoundsAssumption DEF Versions
  <2>3. QED
    BY <1>1, <2>2, PutVersionType, Untouched, StatesAssumption DEF Write, TypeInv
<1>2. ASSUME NEW s \in Servers, ClaimSelect(s)
      PROVE  TypeInv'
  <2>1. PICK v \in Versions : /\ held' = [held EXCEPT ![s] = v]
                            /\ tries' = [tries EXCEPT ![s] = attempts[v]]
    BY <1>2 DEF ClaimSelect
  <2>2. attempts[v] \in Nat
    BY DEF TypeInv, JobsOK
  <2>3. WorkerOK'
    BY <1>2, <2>1, <2>2 DEF ClaimSelect, TypeInv, WorkerOK, WorkerStates
  <2>4. QED
    BY <1>2, <2>3, Untouched DEF ClaimSelect, TypeInv
<1>3. ASSUME NEW s \in Servers, ClaimUpdate(s)
      PROVE  TypeInv'
  <2>1. held[s] \in Versions
    BY <1>3 DEF ClaimUpdate, TypeInv, WorkerOK
  <2>2. JobsOK'
    BY <1>3, <2>1, Untouched DEF ClaimUpdate, TypeInv, JobsOK, JobStates, Backlog
  <2>3. WorkerOK'
    <3>1. CASE Advance(s, "idle")
      BY <1>3, <3>1, AdvanceType DEF ClaimUpdate, WorkerStates
    <3>2. CASE /\ at' = [at EXCEPT ![s] = "embed"] /\ tries' = [tries EXCEPT ![s] = @ + 1]
               /\ UNCHANGED <<model, held>>
      BY <2>1, <3>2 DEF TypeInv, WorkerOK, WorkerStates
    <3>3. QED
      BY <1>3, <3>1, <3>2 DEF ClaimUpdate
  <2>4. QED
    BY <1>3, <2>2, <2>3, Untouched DEF ClaimUpdate, TypeInv
<1>4. ASSUME NEW s \in Servers, Embed(s)
      PROVE  TypeInv'
  BY <1>4, AdvanceType, Untouched DEF Embed, AfterEmbed, WorkerStates, TypeInv
<1>5. ASSUME NEW s \in Servers, PutEmbedding(s)
      PROVE  TypeInv'
  <2>1. held[s] \in Versions
    BY <1>5 DEF PutEmbedding, TypeInv, WorkerOK
  <2>2. MemoryOK'
    BY <1>5, <2>1 DEF PutEmbedding, TypeInv, WorkerOK, MemoryOK, Store
  <2>3. WorkerOK'
    BY <1>5, AdvanceType DEF PutEmbedding, WorkerStates
  <2>4. QED
    BY <1>5, <2>2, <2>3, Untouched DEF PutEmbedding, TypeInv
<1>6. ASSUME NEW s \in Servers, SetReady(s)
      PROVE  TypeInv'
  <2>1. held[s] \in Versions
    BY <1>6 DEF SetReady, TypeInv, WorkerOK
  <2>2. MemoryOK'
    BY <1>6, <2>1 DEF SetReady, TypeInv, WorkerOK, MemoryOK, SetState
  <2>3. WorkerOK'
    BY <1>6, AdvanceType DEF SetReady, WorkerStates
  <2>4. QED
    BY <1>6, <2>2, <2>3, Untouched DEF SetReady, TypeInv
<1>7. ASSUME NEW s \in Servers, FinishOk(s)
      PROVE  TypeInv'
  <2>1. held[s] \in Versions
    BY <1>7 DEF FinishOk, TypeInv, WorkerOK
  <2>2. JobsOK'
    BY <1>7, <2>1 DEF FinishOk, TypeInv, WorkerOK, JobsOK, JobStates, Backlog
  <2>3. WorkerOK'
    BY <1>7, AdvanceType DEF FinishOk, WorkerStates
  <2>4. QED
    BY <1>7, <2>2, <2>3, Untouched DEF FinishOk, TypeInv
<1>8. ASSUME NEW s \in Servers, FinishErr(s)
      PROVE  TypeInv'
  <2>1. held[s] \in Versions
    BY <1>8 DEF FinishErr, TypeInv, WorkerOK
  <2>2. JobsOK'
    BY <1>8, <2>1 DEF FinishErr, TypeInv, WorkerOK, JobsOK, AfterFailure, JobStates, Backlog
  <2>3. WorkerOK'
    BY <1>8, AdvanceType DEF FinishErr, WorkerStates, AfterFinishErr
  <2>4. QED
    BY <1>8, <2>2, <2>3, Untouched DEF FinishErr, TypeInv
<1>9. ASSUME NEW s \in Servers, SetFailed(s)
      PROVE  TypeInv'
  <2>1. held[s] \in Versions
    BY <1>9 DEF SetFailed, TypeInv, WorkerOK
  <2>2. MemoryOK'
    BY <1>9, <2>1 DEF SetFailed, TypeInv, WorkerOK, MemoryOK, SetState
  <2>3. WorkerOK'
    BY <1>9, AdvanceType DEF SetFailed, WorkerStates
  <2>4. QED
    BY <1>9, <2>2, <2>3, Untouched DEF SetFailed, TypeInv
<1>10. ASSUME NEW s \in Servers, StatementFails(s)
      PROVE  TypeInv'
  <2>1. BoundsOK'
    BY <1>10, BoundsAssumption DEF StatementFails, TypeInv, BoundsOK
  <2>2. AfterFault(s) \in WorkerStates
    BY DEF AfterFault, AfterFinishErr, WorkerStates
  <2>3. WorkerOK'
    BY <1>10, <2>2, AdvanceType DEF StatementFails
  <2>4. QED
    BY <1>10, <2>1, <2>3, Untouched DEF StatementFails, TypeInv
<1>11. ASSUME NEW s \in Servers, Crash(s)
      PROVE  TypeInv'
  <2>1. WorkerOK'
    BY <1>11, BoundsAssumption DEF Crash, TypeInv, WorkerOK, WorkerStates
  <2>2. RequestOK'
    BY <1>11, BoundsAssumption DEF Crash, TypeInv, RequestOK, Stages
  <2>3. WantedOK'
    BY <1>11, BoundsAssumption DEF Crash, TypeInv, WantedOK
  <2>4. BoundsOK'
    BY <1>11, BoundsAssumption DEF Crash, TypeInv, BoundsOK
  <2>5. QED
    BY <1>11, <2>1, <2>2, <2>3, <2>4, Untouched DEF Crash, TypeInv
<1>12. ASSUME NEW v \in Versions, BackoffElapses(v)
      PROVE  TypeInv'
  <2>1. JobsOK'
    BY <1>12 DEF BackoffElapses, TypeInv, JobsOK
  <2>2. QED
    BY <1>12, <2>1, Untouched DEF BackoffElapses, TypeInv
<1>13. ASSUME NEW b \in Backfills, BackfillRead(b)
      PROVE  TypeInv'
  <2>1. RequestOK'
    BY <1>13 DEF BackfillRead, TypeInv, RequestOK, Stages, Requests
  <2>2. QED
    BY <1>13, <2>1, Untouched DEF BackfillRead, TypeInv
<1>14. ASSUME NEW b \in Backfills, BackfillCommit(b)
      PROVE  TypeInv'
  <2>1. JobsOK'
    BY <1>14, RequestsAssumption DEF BackfillCommit, TypeInv, JobsOK, RequeuedDue, JobStates, Backlog
  <2>2. MemoryOK'
    BY <1>14, RequestsAssumption DEF BackfillCommit, TypeInv, MemoryOK
  <2>3. RequestOK'
    BY <1>14, RequestsAssumption DEF BackfillCommit, TypeInv, RequestOK, Stages, Requests
  <2>4. WantedOK'
    BY <1>14, RequestsAssumption DEF BackfillCommit, TypeInv, WantedOK, WorkerOK, Requests
  <2>5. QED
    BY <1>14, <2>1, <2>2, <2>3, <2>4, Untouched DEF BackfillCommit, TypeInv
<1>15. ASSUME NEW i \in Imports, ImportStart(i)
      PROVE  TypeInv'
  <2>1. RequestOK'
    BY <1>15 DEF ImportStart, TypeInv, RequestOK, Stages, Requests
  <2>2. QED
    BY <1>15, <2>1, Untouched DEF ImportStart, TypeInv
<1>16. ASSUME NEW i \in Imports, ImportRow(i)
      PROVE  TypeInv'
  <2>1. Snapshot \subseteq Versions
    BY SnapshotAssumption
  <2>2. QED
    BY <1>16, <2>1, PutVersionType, Untouched, StatesAssumption DEF ImportRow, TypeInv
<1>17. ASSUME NEW i \in Imports, ImportCounted(i)
      PROVE  TypeInv'
  <2>1. RequestOK'
    BY <1>17, SnapshotAssumption DEF ImportCounted, TypeInv, RequestOK, Stages, Requests
  <2>2. QED
    BY <1>17, <2>1, Untouched DEF ImportCounted, TypeInv
<1>18. ASSUME NEW i \in Imports, ImportMark(i)
      PROVE  TypeInv'
  <2>1. MemoryOK'
    BY <1>18 DEF ImportMark, TypeInv, MemoryOK, SetState, RequestOK, Requests
  <2>2. RequestOK'
    BY <1>18 DEF ImportMark, TypeInv, RequestOK, Stages, Requests
  <2>3. QED
    BY <1>18, <2>1, <2>2, Untouched DEF ImportMark, TypeInv
<1>19. ASSUME NEW i \in Imports, ImportEnqueue(i)
      PROVE  TypeInv'
  <2>1. JobsOK'
    BY <1>19 DEF ImportEnqueue, TypeInv, JobsOK, Enqueue, RequestOK, Requests, JobStates, Backlog
  <2>2. RequestOK'
    BY <1>19 DEF ImportEnqueue, TypeInv, RequestOK, Stages, Requests
  <2>3. QED
    BY <1>19, <2>1, <2>2, Untouched DEF ImportEnqueue, TypeInv
<1>20. ASSUME NEW q \in Requests, RequestFails(q)
      PROVE  TypeInv'
  <2>1. RequestOK'
    BY <1>20, BoundsAssumption DEF RequestFails, TypeInv, RequestOK, Stages
  <2>2. BoundsOK'
    BY <1>20, BoundsAssumption DEF RequestFails, TypeInv, BoundsOK
  <2>3. QED
    BY <1>20, <2>1, <2>2, Untouched DEF RequestFails, TypeInv
<1>21. CASE UNCHANGED vars
  BY <1>21, Untouched DEF vars, TypeInv
<1>22. QED
  BY <1>1, <1>2, <1>3, <1>4, <1>5, <1>6, <1>7, <1>8, <1>9, <1>10, <1>11, <1>12,
     <1>13, <1>14, <1>15, <1>16, <1>17, <1>18, <1>19, <1>20,
     <1>21 DEF Next

(* Every variable keeps its type, and no worker or import acts on a job it *)
(* does not hold.                                                          *)
THEOREM QueueTypeCorrect == Spec => []TypeOK
<1>1. TypeInv => TypeOK
  BY DEF TypeInv, TypeOK, JobsOK, MemoryOK, WorkerOK, RequestOK, WantedOK, BoundsOK
<1>2. QED
  BY TypeInit, TypeStep, <1>1, PTL DEF Spec

-----------------------------------------------------------------------------
(* Existence                                                               *)

Known(v) == v[2] <= current[v[1]]

(* Jobs, states and whatever a worker or a request works on belong to      *)
(* versions that have been written: the next version is untouched.         *)
KnownRows ==
  \A v \in Versions : Exists(v) \/ status[v] # "none" \/ wanted[v] # None => Known(v)
KnownHeld == \A s \in Servers : at[s] # "idle" => Known(held[s])
KnownTodo ==
  \A q \in Requests :
    /\ \A v \in todo[q] : Known(v)
    /\ stage[q] = "enqueue" => Known(marked[q])

KnownOnly == KnownRows /\ KnownHeld /\ KnownTodo

LEMMA KnownInit == Init => KnownOnly
BY ModelAssumption
DEF Init, KnownOnly, KnownRows, KnownHeld, KnownTodo, Exists

(* PutMemory for the next version of its memory touches no other version.  *)
LEMMA PutVersionNext ==
  ASSUME TypeInv, NEW v \in Versions, NEW st, NEW active \in BOOLEAN,
         v[2] = current[v[1]] + 1, PutVersion(v, st, active)
  PROVE  /\ \A u \in Versions : Known(u) => Known(u)'
         /\ Known(v)' /\ ~Known(v)
         /\ \A u \in Versions \ {v} :
              embState'[u] = embState[u] /\ status'[u] = status[u] /\ attempts'[u] = attempts[u]
         /\ st = "pending" /\ status[v] = "none" => status'[v] = "pending"
         /\ st # "pending" => status'[v] = status[v]
         /\ embState'[v] = st /\ attempts' = attempts /\ vector' = vector
<1>1. v[1] \in Memories /\ v[2] \in 1 .. MaxVersion /\ current[v[1]] \in Nat
  BY BoundsAssumption DEF TypeInv, MemoryOK, Versions
<1>2. /\ current' = [current EXCEPT ![v[1]] = v[2]]
      /\ embState' = [embState EXCEPT ![v] = st] /\ vector' = vector
      /\ attempts' = attempts /\ status' \in [Versions -> JobStates]
      /\ \A u \in Versions \ {v} : status'[u] = status[u]
      /\ st = "pending" /\ status[v] = "none" => status'[v] = "pending"
      /\ st # "pending" => status'[v] = status[v]
  BY DEF PutVersion, Enqueue, SetState, jobs, TypeInv, JobsOK, JobStates, Backlog
<1>3. ASSUME NEW u \in Versions, Known(u)
      PROVE  Known(u)'
  <2>1. u[1] \in Memories /\ current[u[1]] \in Nat /\ u[2] \in Nat /\ u[2] <= current[u[1]]
    BY <1>3, BoundsAssumption DEF Known, TypeInv, MemoryOK, Versions
  <2>2. CASE u[1] = v[1]
    BY <1>1, <1>2, <2>1, <2>2 DEF Known, TypeInv, MemoryOK
  <2>3. CASE u[1] # v[1]
    BY <1>1, <1>2, <2>1, <2>3 DEF Known, TypeInv, MemoryOK
  <2>4. QED
    BY <2>2, <2>3
<1>4. Known(v)' /\ ~Known(v)
  BY <1>1, <1>2 DEF Known, TypeInv, MemoryOK
<1>5. QED
  BY <1>1, <1>2, <1>3, <1>4 DEF TypeInv, MemoryOK

(* A version that is stored is the first beyond those known.               *)
LEMMA PutVersionKnown ==
  ASSUME TypeInv, KnownOnly, NEW v \in Versions, NEW st, NEW active \in BOOLEAN,
         v[2] = current[v[1]] + 1, PutVersion(v, st, active),
         UNCHANGED <<worker, request, wanted>>
  PROVE  KnownOnly'
<1>1. KnownRows'
  BY PutVersionNext DEF KnownOnly, KnownRows, Exists
<1>2. KnownHeld'
  BY PutVersionNext DEF KnownOnly, KnownHeld, worker, TypeInv, WorkerOK
<1>3. KnownTodo'
  BY PutVersionNext DEF KnownOnly, KnownTodo, request, TypeInv, RequestOK
<1>4. QED
  BY <1>1, <1>2, <1>3 DEF KnownOnly

(* A worker that goes on holds what it held.                               *)
LEMMA AdvanceKnown ==
  ASSUME TypeInv, KnownHeld, NEW s \in Servers, NEW l, at[s] # "idle", Advance(s, l),
         UNCHANGED current
  PROVE  KnownHeld'
BY DEF Advance, TypeInv, WorkerOK, KnownHeld, Known

LEMMA KnownStep == TypeInv /\ KnownOnly /\ [Next]_vars => KnownOnly'
<1> SUFFICES ASSUME TypeInv, KnownOnly, [Next]_vars
             PROVE  KnownOnly'
  OBVIOUS
<1>0. /\ UNCHANGED <<current, status, embState, wanted>> => KnownRows'
      /\ UNCHANGED <<current, worker>> => KnownHeld'
      /\ UNCHANGED <<current, request>> => KnownTodo'
  <2>1. UNCHANGED <<current, status, embState, wanted>> => KnownRows'
    BY DEF KnownOnly, KnownRows, Known, Exists
  <2>2. UNCHANGED <<current, worker>> => KnownHeld'
    BY DEF KnownOnly, KnownHeld, Known, worker
  <2>3. UNCHANGED <<current, request>> => KnownTodo'
    BY DEF KnownOnly, KnownTodo, Known, request
  <2>4. QED
    BY <2>1, <2>2, <2>3
<1>1. ASSUME NEW m \in Memories, Write(m)
      PROVE  KnownOnly'
  <2> DEFINE v == <<m, current[m] + 1>>
  <2>1. v \in Versions /\ v[2] = current[v[1]] + 1
    BY <1>1, BoundsAssumption DEF Write, TypeInv, MemoryOK, Versions
  <2>2. QED
    BY <1>1, <2>1, PutVersionKnown DEF Write
<1>2. ASSUME NEW s \in Servers, ClaimSelect(s)
      PROVE  KnownOnly'
  <2>1. PICK v \in Versions : /\ status[v] \in Claimable
                            /\ held' = [held EXCEPT ![s] = v]
    BY <1>2 DEF ClaimSelect
  <2>2. Known(v)
    BY <2>1 DEF Claimable, KnownOnly, KnownRows
  <2>3. KnownHeld'
    BY <1>2, <2>1, <2>2 DEF ClaimSelect, KnownOnly, KnownHeld, Known, memory, TypeInv, WorkerOK
  <2>4. QED
    BY <1>0, <1>2, <2>3 DEF ClaimSelect, jobs, memory, worker, request, KnownOnly
<1>3. ASSUME NEW s \in Servers, ClaimUpdate(s)
      PROVE  KnownOnly'
  <2>1. Known(held[s]) /\ held[s] \in Versions
    BY <1>3 DEF ClaimUpdate, KnownOnly, KnownHeld, TypeInv, WorkerOK
  <2>2. KnownRows'
    BY <1>3, <2>1
    DEF ClaimUpdate, KnownOnly, KnownRows, Known, Exists, memory, jobs, TypeInv, JobsOK
  <2>3. KnownHeld'
    BY <1>3, <2>1, AdvanceKnown
    DEF ClaimUpdate, KnownOnly, KnownHeld, Known, memory, TypeInv, WorkerOK
  <2>4. QED
    BY <1>0, <1>3, <2>2, <2>3 DEF ClaimUpdate, jobs, memory, worker, request, KnownOnly
<1>4. ASSUME NEW s \in Servers, Embed(s)
      PROVE  KnownOnly'
  <2>1. KnownHeld'
    BY <1>4, AdvanceKnown DEF Embed, KnownOnly, memory
  <2>2. QED
    BY <1>0, <1>4, <2>1 DEF Embed, jobs, memory, worker, request, KnownOnly
<1>5. ASSUME NEW s \in Servers, PutEmbedding(s)
      PROVE  KnownOnly'
  <2>1. KnownHeld'
    BY <1>5, AdvanceKnown DEF PutEmbedding, KnownOnly, memory
  <2>2. QED
    BY <1>0, <1>5, <2>1 DEF PutEmbedding, jobs, memory, worker, request, KnownOnly
<1>6. ASSUME NEW s \in Servers, SetReady(s)
      PROVE  KnownOnly'
  <2>1. KnownHeld'
    BY <1>6, AdvanceKnown DEF SetReady, KnownOnly, memory
  <2>2. KnownRows'
    BY <1>6 DEF SetReady, KnownOnly, KnownRows, KnownHeld, Known, Exists, TypeInv, JobsOK, MemoryOK, WorkerOK, memory, SetState, jobs
  <2>3. QED
    BY <1>0, <1>6, <2>1, <2>2 DEF SetReady, jobs, memory, worker, request, KnownOnly
<1>7. ASSUME NEW s \in Servers, FinishOk(s)
      PROVE  KnownOnly'
  <2>1. KnownHeld'
    BY <1>7, AdvanceKnown DEF FinishOk, KnownOnly, memory
  <2>2. KnownRows'
    BY <1>7 DEF FinishOk, KnownOnly, KnownRows, KnownHeld, Known, Exists, TypeInv, JobsOK, MemoryOK, WorkerOK, memory
  <2>3. QED
    BY <1>0, <1>7, <2>1, <2>2 DEF FinishOk, jobs, memory, worker, request, KnownOnly
<1>8. ASSUME NEW s \in Servers, FinishErr(s)
      PROVE  KnownOnly'
  <2>1. KnownHeld'
    BY <1>8, AdvanceKnown DEF FinishErr, KnownOnly, memory
  <2>2. KnownRows'
    BY <1>8 DEF FinishErr, KnownOnly, KnownRows, KnownHeld, Known, Exists, TypeInv, JobsOK, MemoryOK, WorkerOK, memory
  <2>3. QED
    BY <1>0, <1>8, <2>1, <2>2 DEF FinishErr, jobs, memory, worker, request, KnownOnly
<1>9. ASSUME NEW s \in Servers, SetFailed(s)
      PROVE  KnownOnly'
  <2>1. KnownHeld'
    BY <1>9, AdvanceKnown DEF SetFailed, KnownOnly, memory
  <2>2. KnownRows'
    BY <1>9 DEF SetFailed, KnownOnly, KnownRows, KnownHeld, Known, Exists, TypeInv, JobsOK, MemoryOK, WorkerOK, memory, SetState, jobs
  <2>3. QED
    BY <1>0, <1>9, <2>1, <2>2 DEF SetFailed, jobs, memory, worker, request, KnownOnly
<1>10. ASSUME NEW s \in Servers, StatementFails(s)
      PROVE  KnownOnly'
  <2>1. KnownHeld'
    BY <1>10, AdvanceKnown DEF StatementFails, KnownOnly, memory
  <2>2. QED
    BY <1>0, <1>10, <2>1 DEF StatementFails, jobs, memory, worker, request, KnownOnly
<1>11. ASSUME NEW s \in Servers, Crash(s)
      PROVE  KnownOnly'
  <2>1. KnownRows'
    BY <1>11 DEF Crash, KnownOnly, KnownRows, Known, TypeInv, Exists, jobs, memory
  <2>2. KnownHeld'
    BY <1>11 DEF Crash, KnownOnly, KnownHeld, Known, TypeInv, WorkerOK, memory
  <2>3. KnownTodo'
    BY <1>11 DEF Crash, KnownOnly, KnownTodo, Known, TypeInv, RequestOK, memory
  <2>4. QED
    BY <1>0, <1>11, <2>1, <2>2, <2>3 DEF Crash, jobs, memory, worker, request, KnownOnly
<1>12. ASSUME NEW v \in Versions, BackoffElapses(v)
      PROVE  KnownOnly'
  BY <1>0, <1>12 DEF BackoffElapses, jobs, memory, worker, request, KnownOnly
<1>13. ASSUME NEW b \in Backfills, BackfillRead(b)
      PROVE  KnownOnly'
  <2>1. KnownTodo'
    BY <1>13 DEF BackfillRead, KnownOnly, KnownTodo, Known, TypeInv, RequestOK, Requests, memory, Candidate, Exists, KnownRows
  <2>2. QED
    BY <1>0, <1>13, <2>1 DEF BackfillRead, jobs, memory, worker, request, KnownOnly
<1>14. ASSUME NEW b \in Backfills, BackfillCommit(b)
      PROVE  KnownOnly'
  <2>1. KnownRows'
    BY <1>14 DEF BackfillCommit, KnownOnly, KnownRows, Known, TypeInv, KnownTodo, RequestOK, JobsOK, MemoryOK, WantedOK, Requests, Exists
  <2>2. KnownTodo'
    BY <1>14 DEF BackfillCommit, KnownOnly, KnownTodo, Known, TypeInv, RequestOK, Requests
  <2>3. QED
    BY <1>0, <1>14, <2>1, <2>2 DEF BackfillCommit, jobs, memory, worker, request, KnownOnly
<1>15. ASSUME NEW i \in Imports, ImportStart(i)
      PROVE  KnownOnly'
  BY <1>0, <1>15 DEF ImportStart, KnownTodo, Known, jobs, memory, worker, request, KnownOnly
<1>16. ASSUME NEW i \in Imports, ImportRow(i)
      PROVE  KnownOnly'
  <2>1. Snapshot \subseteq Versions
    BY SnapshotAssumption
  <2>2. QED
    BY <1>16, <2>1, PutVersionKnown DEF ImportRow
<1>17. ASSUME NEW i \in Imports, ImportCounted(i)
      PROVE  KnownOnly'
  <2>1. KnownTodo'
    BY <1>17, SnapshotAssumption DEF ImportCounted, KnownOnly, KnownTodo, Known, TypeInv, RequestOK, Requests, memory, KnownRows
  <2>2. QED
    BY <1>0, <1>17, <2>1 DEF ImportCounted, jobs, memory, worker, request, KnownOnly
<1>18. ASSUME NEW i \in Imports, ImportMark(i)
      PROVE  KnownOnly'
  <2>1. KnownRows'
    BY <1>18 DEF ImportMark, KnownOnly, KnownRows, Known, TypeInv, KnownTodo, RequestOK, MemoryOK, Requests, Exists, SetState, jobs
  <2>2. KnownTodo'
    BY <1>18 DEF ImportMark, KnownOnly, KnownTodo, Known, TypeInv, RequestOK, Requests
  <2>3. QED
    BY <1>0, <1>18, <2>1, <2>2 DEF ImportMark, jobs, memory, worker, request, KnownOnly
<1>19. ASSUME NEW i \in Imports, ImportEnqueue(i)
      PROVE  KnownOnly'
  <2>1. KnownRows'
    BY <1>19, ModelAssumption DEF ImportEnqueue, KnownOnly, KnownRows, Known, TypeInv, KnownTodo, RequestOK, JobsOK, Requests, Exists, Enqueue, memory
  <2>2. KnownTodo'
    BY <1>19, ModelAssumption DEF ImportEnqueue, KnownOnly, KnownTodo, Known, TypeInv, RequestOK, Requests, memory
  <2>3. QED
    BY <1>0, <1>19, <2>1, <2>2 DEF ImportEnqueue, jobs, memory, worker, request, KnownOnly
<1>20. ASSUME NEW q \in Requests, RequestFails(q)
      PROVE  KnownOnly'
  <2>1. KnownTodo'
    BY <1>20 DEF RequestFails, KnownOnly, KnownTodo, Known, TypeInv, RequestOK, memory
  <2>2. QED
    BY <1>0, <1>20, <2>1 DEF RequestFails, jobs, memory, worker, request, KnownOnly
<1>21. CASE UNCHANGED vars
  BY <1>0, <1>21 DEF vars, jobs, memory, worker, request, KnownOnly
<1>22. QED
  BY <1>1, <1>2, <1>3, <1>4, <1>5, <1>6, <1>7, <1>8, <1>9, <1>10, <1>11, <1>12,
     <1>13, <1>14, <1>15, <1>16, <1>17, <1>18, <1>19, <1>20,
     <1>21 DEF Next

-----------------------------------------------------------------------------
(* Ownership                                                               *)

(* A backfill or an import puts a job back while a worker is at it.        *)
RequeuesOwned ==
  \E s \in Servers, v \in Versions : Owns(s, v) /\ status'[v] = "pending"

(* A worker's job is out of reach of every claim.                          *)
OwnedTaken ==
  \A s \in Servers : \A v \in Versions :
    Owns(s, v) => status[v] = "running" \/ (status[v] = "failed" /\ at[s] = "setFailed")

OwnerInv == SingleOwner /\ OwnedTaken

LEMMA OwnerInit == Init => OwnerInv
BY DEF Init, OwnerInv, SingleOwner, OwnedTaken, Owns

(* A step that takes no job into hand and leaves the owned jobs as they are. *)
LEMMA OwnersStay ==
  ASSUME TypeInv, OwnerInv,
         \A s \in Servers, v \in Versions : Owns(s, v)' =>
           Owns(s, v) /\ (status'[v] = "running" \/ (status'[v] = "failed" /\ at'[s] = "setFailed"))
  PROVE  OwnerInv'
BY DEF OwnerInv, SingleOwner, OwnedTaken

(* ... in particular one that changes no worker.                           *)
LEMMA OwnersRest ==
  ASSUME TypeInv, OwnerInv, UNCHANGED worker,
         \A s \in Servers, v \in Versions : Owns(s, v) => status'[v] = status[v]
  PROVE  OwnerInv'
<1>1. \A s \in Servers, v \in Versions :
        /\ Owns(s, v)' => Owns(s, v)
        /\ Owns(s, v) => status[v] = "running" \/ (status[v] = "failed" /\ at'[s] = "setFailed")
  BY DEF OwnerInv, OwnedTaken, Owns, worker
<1>2. QED
  BY <1>1, OwnersStay

(* No worker but the one that goes on is concerned.                        *)
LEMMA AdvanceOwns ==
  ASSUME TypeInv, NEW s \in Servers, NEW l, Advance(s, l), at[s] # "idle"
  PROVE  /\ \A t \in Servers \ {s} : at'[t] = at[t] /\ held'[t] = held[t]
         /\ at'[s] = l
         /\ l # "idle" => held' = held
BY DEF Advance, TypeInv, WorkerOK

LEMMA OwnerStep ==
  TypeInv /\ KnownOnly /\ OwnerInv /\ [Next]_vars /\ ~RequeuesOwned => OwnerInv'
<1> SUFFICES ASSUME TypeInv, KnownOnly, OwnerInv, [Next]_vars, ~RequeuesOwned
             PROVE  OwnerInv'
  OBVIOUS
<1>1. ASSUME NEW m \in Memories, Write(m)
      PROVE  OwnerInv'
  <2>1. PICK u \in Versions, st \in WriteStates, active \in BOOLEAN :
          u[2] = current[u[1]] + 1 /\ PutVersion(u, st, active)
    BY <1>1, BoundsAssumption DEF Write, TypeInv, MemoryOK, Versions
  <2>2. \A s \in Servers, v \in Versions : Owns(s, v) => status'[v] = status[v]
    BY <2>1, PutVersionNext DEF KnownOnly, KnownHeld, Owns
  <2>3. QED
    BY <1>1, <2>2, OwnersRest DEF Write
<1>2. ASSUME NEW s \in Servers, ClaimSelect(s)
      PROVE  OwnerInv'
  <2>1. \A t \in Servers, v \in Versions : Owns(t, v)' <=> Owns(t, v)
    BY <1>2 DEF ClaimSelect, Owns, TypeInv, WorkerOK
  <2>2. at'[s] = "claim" /\ \A t \in Servers \ {s} : at'[t] = at[t]
    BY <1>2 DEF ClaimSelect, TypeInv, WorkerOK
  <2>3. QED
    BY <1>2, <2>1, <2>2, OwnersStay DEF ClaimSelect, jobs, OwnerInv, OwnedTaken, Owns
<1>3. ASSUME NEW s \in Servers, ClaimUpdate(s)
      PROVE  OwnerInv'
  <2>1. CASE Advance(s, "idle") /\ UNCHANGED jobs
    BY <1>3, <2>1, AdvanceOwns, OwnersStay DEF ClaimUpdate, jobs, OwnerInv, OwnedTaken, Owns
  <2>2. CASE /\ StillClaimable(held[s]) /\ status' = [status EXCEPT ![held[s]] = "running"]
             /\ at' = [at EXCEPT ![s] = "embed"] /\ UNCHANGED held
    <3>1. /\ held[s] \in Versions /\ at[s] = "claim"
          /\ \A t \in Servers : ~Owns(t, held[s])
      BY <1>3, <2>2
      DEF ClaimUpdate, StillClaimable, Claimable, OwnerInv, OwnedTaken, TypeInv, WorkerOK
    <3>2. status'[held[s]] = "running" /\ \A v \in Versions \ {held[s]} : status'[v] = status[v]
      BY <2>2, <3>1 DEF TypeInv, JobsOK
    <3>3. at'[s] = "embed" /\ \A t \in Servers \ {s} : at'[t] = at[t]
      BY <2>2 DEF TypeInv, WorkerOK
    <3>4. /\ \A t \in Servers \ {s}, v \in Versions : Owns(t, v)' <=> Owns(t, v)
          /\ \A v \in Versions : Owns(s, v)' <=> v = held[s]
      BY <2>2, <3>1, <3>3 DEF Owns
    <3>5. QED
      BY <3>1, <3>2, <3>3, <3>4 DEF OwnerInv, OwnedTaken, SingleOwner
  <2>3. QED
    BY <1>3, <2>1, <2>2 DEF ClaimUpdate
<1>4. ASSUME NEW s \in Servers, Embed(s)
      PROVE  OwnerInv'
  <2>1. at[s] \notin {"idle", "claim", "setFailed"} /\ status' = status
    BY <1>4 DEF Embed, jobs
  <2>2. QED
    BY <1>4, <2>1, AdvanceOwns, OwnersStay DEF Embed, AfterEmbed, OwnerInv, OwnedTaken, Owns
<1>5. ASSUME NEW s \in Servers, PutEmbedding(s)
      PROVE  OwnerInv'
  <2>1. at[s] \notin {"idle", "claim", "setFailed"} /\ status' = status
    BY <1>5 DEF PutEmbedding, jobs
  <2>2. QED
    BY <1>5, <2>1, AdvanceOwns, OwnersStay DEF PutEmbedding, OwnerInv, OwnedTaken, Owns
<1>6. ASSUME NEW s \in Servers, SetReady(s)
      PROVE  OwnerInv'
  <2>1. at[s] \notin {"idle", "claim", "setFailed"} /\ status' = status
    BY <1>6 DEF SetReady, jobs
  <2>2. QED
    BY <1>6, <2>1, AdvanceOwns, OwnersStay DEF SetReady, OwnerInv, OwnedTaken, Owns
<1>7. ASSUME NEW s \in Servers, FinishOk(s)
      PROVE  OwnerInv'
  <2>1. \A t \in Servers, v \in Versions : Owns(t, v)' => Owns(t, v) /\ t # s
    BY <1>7, AdvanceOwns DEF FinishOk, Owns
  <2>2. \A t \in Servers \ {s}, v \in Versions : Owns(t, v) => v # held[s]
    BY <1>7 DEF FinishOk, OwnerInv, SingleOwner, Owns
  <2>3. QED
    BY <1>7, <2>1, <2>2, AdvanceOwns, OwnersStay
    DEF FinishOk, OwnerInv, OwnedTaken, TypeInv, JobsOK
<1>8. ASSUME NEW s \in Servers, FinishErr(s)
      PROVE  OwnerInv'
  <2>1. /\ \A t \in Servers, v \in Versions : Owns(t, v)' => Owns(t, v)
        /\ \A t \in Servers \ {s} : at'[t] = at[t]
        /\ at'[s] = AfterFinishErr(s)
    BY <1>8, AdvanceOwns DEF FinishErr, Owns
  <2>2. /\ held[s] \in Versions
        /\ \A t \in Servers \ {s}, v \in Versions : Owns(t, v) => v # held[s]
    BY <1>8 DEF FinishErr, OwnerInv, SingleOwner, Owns, TypeInv, WorkerOK
  <2>3. /\ status'[held[s]] = AfterFailure(s)
        /\ \A v \in Versions \ {held[s]} : status'[v] = status[v]
    BY <1>8, <2>2 DEF FinishErr, TypeInv, JobsOK
  <2>4. \A v \in Versions : Owns(s, v)' => v = held[s] /\ LastTry(s)
    BY <1>8, <2>1, AdvanceOwns DEF FinishErr, AfterFinishErr, Owns
  <2>5. QED
    BY <2>1, <2>2, <2>3, <2>4, OwnersStay
    DEF AfterFailure, AfterFinishErr, OwnerInv, OwnedTaken
<1>9. ASSUME NEW s \in Servers, SetFailed(s)
      PROVE  OwnerInv'
  <2>1. at[s] = "setFailed" /\ status' = status
    BY <1>9 DEF SetFailed, jobs
  <2>2. QED
    BY <1>9, <2>1, AdvanceOwns, OwnersStay DEF SetFailed, OwnerInv, OwnedTaken, Owns
<1>10. ASSUME NEW s \in Servers, StatementFails(s)
      PROVE  OwnerInv'
  <2>1. /\ at[s] # "idle" /\ status' = status
        /\ at[s] = "claim" => AfterFault(s) = "idle"
        /\ at[s] = "setFailed" => AfterFault(s) = "idle"
    BY <1>10 DEF StatementFails, AfterFault, jobs
  <2>2. QED
    BY <1>10, <2>1, AdvanceOwns, OwnersStay DEF StatementFails, OwnerInv, OwnedTaken, Owns
<1>11. ASSUME NEW s \in Servers, Crash(s)
      PROVE  OwnerInv'
  <2>1. status' = status /\ \A t \in Servers, v \in Versions : Owns(t, v)' => Owns(t, v) /\ t # s
    BY <1>11 DEF Crash, jobs, Owns, TypeInv, WorkerOK
  <2>2. \A t \in Servers \ {s} : at'[t] = at[t]
    BY <1>11 DEF Crash, TypeInv, WorkerOK
  <2>3. QED
    BY <2>1, <2>2, OwnersStay DEF OwnerInv, OwnedTaken
<1>12. ASSUME NEW v \in Versions, BackoffElapses(v)
      PROVE  OwnerInv'
  BY <1>12, OwnersRest DEF BackoffElapses, worker
<1>13. ASSUME NEW b \in Backfills, BackfillRead(b)
      PROVE  OwnerInv'
  BY <1>13, OwnersRest DEF BackfillRead, worker, jobs, memory, request
<1>14. ASSUME NEW b \in Backfills, BackfillCommit(b)
      PROVE  OwnerInv'
  <2>1. \A v \in Versions : status'[v] = IF v \in todo[b] THEN "pending" ELSE status[v]
    BY <1>14 DEF BackfillCommit
  <2>2. QED
    BY <1>14, <2>1, OwnersRest DEF BackfillCommit, RequeuesOwned
<1>15. ASSUME NEW i \in Imports, ImportStart(i)
      PROVE  OwnerInv'
  BY <1>15, OwnersRest DEF ImportStart, worker, jobs, memory, request
<1>16. ASSUME NEW i \in Imports, ImportRow(i)
      PROVE  OwnerInv'
  <2>1. PICK u \in Versions, active \in BOOLEAN :
          u[2] = current[u[1]] + 1 /\ PutVersion(u, SnapshotState, active)
    BY <1>16, SnapshotAssumption DEF ImportRow
  <2>2. \A s \in Servers, v \in Versions : Owns(s, v) => status'[v] = status[v]
    BY <2>1, PutVersionNext DEF KnownOnly, KnownHeld, Owns
  <2>3. QED
    BY <1>16, <2>2, OwnersRest DEF ImportRow
<1>17. ASSUME NEW i \in Imports, ImportCounted(i)
      PROVE  OwnerInv'
  BY <1>17, OwnersRest DEF ImportCounted, worker, jobs, memory, request
<1>18. ASSUME NEW i \in Imports, ImportMark(i)
      PROVE  OwnerInv'
  BY <1>18, OwnersRest DEF ImportMark, worker, jobs, memory, request
<1>19. ASSUME NEW i \in Imports, ImportEnqueue(i)
      PROVE  OwnerInv'
  <2>1. \A v \in Versions :
          status'[v] = IF v = marked[i] /\ status[v] # "completed" THEN "pending" ELSE status[v]
    BY <1>19 DEF ImportEnqueue, Enqueue, TypeInv, JobsOK
  <2>2. QED
    BY <1>19, <2>1, OwnersRest DEF ImportEnqueue, RequeuesOwned
<1>20. ASSUME NEW q \in Requests, RequestFails(q)
      PROVE  OwnerInv'
  BY <1>20, OwnersRest DEF RequestFails, worker, jobs, memory, request
<1>21. CASE UNCHANGED vars
  BY <1>21, OwnersRest DEF vars, jobs
<1>22. QED
  BY <1>1, <1>2, <1>3, <1>4, <1>5, <1>6, <1>7, <1>8, <1>9, <1>10, <1>11, <1>12,
     <1>13, <1>14, <1>15, <1>16, <1>17, <1>18, <1>19, <1>20,
     <1>21 DEF Next

(* Servers that share the queue never embed one job at a time together,    *)
(* whatever crashes and fails, unless a backfill or an import puts a job   *)
(* back that a worker still has in hand.                                   *)
THEOREM OwnersStaySingle == Spec /\ [][~RequeuesOwned]_vars => []SingleOwner
<1>1. OwnerInv => SingleOwner
  BY DEF OwnerInv
<1>2. TypeInv /\ KnownOnly /\ OwnerInv /\ UNCHANGED vars => OwnerInv'
  BY OwnersRest DEF vars, jobs
<1>3. QED
  BY TypeInit, TypeStep, KnownInit, KnownStep, OwnerInit, OwnerStep, <1>1, <1>2, PTL DEF Spec

-----------------------------------------------------------------------------
(* Orphans                                                                 *)

(* Running, and every worker that still holds the job is past the point    *)
(* where it would finish it.                                               *)
Loose(v) ==
  status[v] = "running" /\ \A s \in Servers : Owns(s, v) => at[s] = "setFailed"
LooseJobs == {v \in Versions : Loose(v)}

LossInv == IsFiniteSet(LooseJobs) /\ Cardinality(LooseJobs) <= crashes + faults

LEMMA LossInit == Init => LossInv
<1> SUFFICES ASSUME Init
             PROVE  LossInv
  OBVIOUS
<1>1. LooseJobs = {}
  BY DEF Init, LooseJobs, Loose
<1>2. QED
  BY <1>1, FS_EmptySet DEF Init, LossInv

(* A step that counts no loss must leave no job loose, and one that counts *)
(* a loss may leave one.                                                   *)
LEMMA LossKept ==
  ASSUME TypeInv, LossInv, UNCHANGED bounds,
         \A v \in Versions : Loose(v)' => Loose(v)
  PROVE  LossInv'
<1>1. LooseJobs' \subseteq LooseJobs
  BY DEF LooseJobs
<1>2. /\ IsFiniteSet(LooseJobs') /\ Cardinality(LooseJobs') <= Cardinality(LooseJobs)
      /\ Cardinality(LooseJobs) \in Nat /\ Cardinality(LooseJobs') \in Nat
  BY <1>1, FS_Subset, FS_CardinalityType DEF LossInv
<1>3. crashes \in Nat /\ faults \in Nat
  BY BoundsAssumption DEF TypeInv, BoundsOK
<1>4. QED
  BY <1>2, <1>3 DEF LossInv, bounds

(* A step that counts a loss may leave one job loose.                      *)
LEMMA LossCounted ==
  ASSUME TypeInv, LossInv, NEW u, crashes' + faults' = crashes + faults + 1,
         \A v \in Versions \ {u} : Loose(v)' => Loose(v)
  PROVE  LossInv'
<1>1. LooseJobs' \subseteq LooseJobs \cup {u}
  BY DEF LooseJobs
<1>2. /\ IsFiniteSet(LooseJobs \cup {u})
      /\ Cardinality(LooseJobs \cup {u}) <= Cardinality(LooseJobs) + 1
      /\ Cardinality(LooseJobs) \in Nat
  <2>1. IsFiniteSet(LooseJobs) /\ Cardinality(LooseJobs) \in Nat
    BY FS_CardinalityType DEF LossInv
  <2>2. /\ IsFiniteSet(LooseJobs \cup {u})
        /\ Cardinality(LooseJobs \cup {u}) =
             IF u \in LooseJobs THEN Cardinality(LooseJobs) ELSE Cardinality(LooseJobs) + 1
    BY <2>1, FS_AddElement
  <2>3. QED
    BY <2>1, <2>2
<1>3. /\ IsFiniteSet(LooseJobs') /\ Cardinality(LooseJobs') <= Cardinality(LooseJobs \cup {u})
      /\ Cardinality(LooseJobs \cup {u}) \in Nat /\ Cardinality(LooseJobs') \in Nat
  BY <1>1, <1>2, FS_Subset, FS_CardinalityType
<1>4. crashes \in Nat /\ faults \in Nat
  BY BoundsAssumption DEF TypeInv, BoundsOK
<1>5. QED
  BY <1>2, <1>3, <1>4 DEF LossInv

(* A request never takes a job from its worker, it only writes the status. *)
LEMMA LossRests ==
  ASSUME TypeInv, LossInv, UNCHANGED <<worker, bounds>>,
         \A v \in Versions : status'[v] = status[v] \/ status'[v] # "running"
  PROVE  LossInv'
<1>1. \A v \in Versions : Loose(v)' => Loose(v)
  BY DEF Loose, Owns, worker
<1>2. QED
  BY <1>1, LossKept

LEMMA LossStep == TypeInv /\ LossInv /\ [Next]_vars => LossInv'
<1> SUFFICES ASSUME TypeInv, LossInv, [Next]_vars
             PROVE  LossInv'
  OBVIOUS
<1>1. ASSUME NEW m \in Memories, Write(m)
      PROVE  LossInv'
  <2>1. \A v \in Versions : status'[v] = status[v] \/ status'[v] # "running"
    BY <1>1 DEF Write, PutVersion, Enqueue, jobs, TypeInv, JobsOK
  <2>2. QED
    BY <1>1, <2>1, LossRests DEF Write
<1>2. ASSUME NEW s \in Servers, ClaimSelect(s)
      PROVE  LossInv'
  <2>1. \A v \in Versions : Loose(v)' => Loose(v)
    BY <1>2 DEF ClaimSelect, Loose, Owns, jobs, TypeInv, WorkerOK
  <2>2. QED
    BY <1>2, <2>1, LossKept DEF ClaimSelect
<1>3. ASSUME NEW s \in Servers, ClaimUpdate(s)
      PROVE  LossInv'
  <2>1. CASE Advance(s, "idle") /\ UNCHANGED jobs
    <3>1. \A v \in Versions : Loose(v)' => Loose(v)
      BY <1>3, <2>1, AdvanceOwns DEF ClaimUpdate, Loose, Owns, jobs
    <3>2. QED
      BY <1>3, <3>1, LossKept DEF ClaimUpdate
  <2>2. CASE /\ status' = [status EXCEPT ![held[s]] = "running"]
             /\ at' = [at EXCEPT ![s] = "embed"] /\ UNCHANGED held
    <3>1. held[s] \in Versions /\ at[s] = "claim"
      BY <1>3 DEF ClaimUpdate, TypeInv, WorkerOK
    <3>2. at'[s] = "embed" /\ \A t \in Servers \ {s} : at'[t] = at[t]
      BY <2>2 DEF TypeInv, WorkerOK
    <3>3. \A v \in Versions : Loose(v)' => Loose(v)
      BY <2>2, <3>1, <3>2 DEF Loose, Owns, TypeInv, JobsOK
    <3>4. QED
      BY <1>3, <3>3, LossKept DEF ClaimUpdate
  <2>3. QED
    BY <1>3, <2>1, <2>2 DEF ClaimUpdate
<1>4. ASSUME NEW s \in Servers, Embed(s)
      PROVE  LossInv'
  <2>1. \A v \in Versions : Loose(v)' => Loose(v)
    BY <1>4, AdvanceOwns DEF Embed, Loose, Owns, jobs, AfterEmbed
  <2>2. QED
    BY <1>4, <2>1, LossKept DEF Embed
<1>5. ASSUME NEW s \in Servers, PutEmbedding(s)
      PROVE  LossInv'
  <2>1. \A v \in Versions : Loose(v)' => Loose(v)
    BY <1>5, AdvanceOwns DEF PutEmbedding, Loose, Owns, jobs
  <2>2. QED
    BY <1>5, <2>1, LossKept DEF PutEmbedding
<1>6. ASSUME NEW s \in Servers, SetReady(s)
      PROVE  LossInv'
  <2>1. \A v \in Versions : Loose(v)' => Loose(v)
    BY <1>6, AdvanceOwns DEF SetReady, Loose, Owns, jobs
  <2>2. QED
    BY <1>6, <2>1, LossKept DEF SetReady
<1>7. ASSUME NEW s \in Servers, FinishOk(s)
      PROVE  LossInv'
  <2>1. \A v \in Versions : Loose(v)' => Loose(v)
    BY <1>7, AdvanceOwns DEF FinishOk, Loose, Owns, jobs, TypeInv, JobsOK
  <2>2. QED
    BY <1>7, <2>1, LossKept DEF FinishOk
<1>8. ASSUME NEW s \in Servers, FinishErr(s)
      PROVE  LossInv'
  <2>1. \A v \in Versions : Loose(v)' => Loose(v)
    BY <1>8, AdvanceOwns DEF FinishErr, Loose, Owns, jobs, AfterFinishErr, AfterFailure, TypeInv, JobsOK
  <2>2. QED
    BY <1>8, <2>1, LossKept DEF FinishErr
<1>9. ASSUME NEW s \in Servers, SetFailed(s)
      PROVE  LossInv'
  <2>1. \A v \in Versions : Loose(v)' => Loose(v)
    BY <1>9, AdvanceOwns DEF SetFailed, Loose, Owns, jobs
  <2>2. QED
    BY <1>9, <2>1, LossKept DEF SetFailed
<1>10. ASSUME NEW s \in Servers, StatementFails(s)
      PROVE  LossInv'
  <2>1. \A v \in Versions \ {held[s]} : Loose(v)' => Loose(v)
    BY <1>10, AdvanceOwns DEF StatementFails, Loose, Owns, jobs
  <2>2. crashes' + faults' = crashes + faults + 1
    BY <1>10, BoundsAssumption DEF StatementFails, TypeInv, BoundsOK
  <2>3. QED
    BY <2>1, <2>2, LossCounted
<1>11. ASSUME NEW s \in Servers, Crash(s)
      PROVE  LossInv'
  <2>1. \A v \in Versions \ {held[s]} : Loose(v)' => Loose(v)
    BY <1>11 DEF Crash, Loose, Owns, jobs, TypeInv, WorkerOK
  <2>2. crashes' + faults' = crashes + faults + 1
    BY <1>11, BoundsAssumption DEF Crash, TypeInv, BoundsOK
  <2>3. QED
    BY <2>1, <2>2, LossCounted
<1>12. ASSUME NEW v \in Versions, BackoffElapses(v)
      PROVE  LossInv'
  BY <1>12, LossRests DEF BackoffElapses
<1>13. ASSUME NEW b \in Backfills, BackfillRead(b)
      PROVE  LossInv'
  BY <1>13, LossRests DEF BackfillRead, jobs
<1>14. ASSUME NEW b \in Backfills, BackfillCommit(b)
      PROVE  LossInv'
  <2>1. \A v \in Versions : status'[v] = status[v] \/ status'[v] # "running"
    BY <1>14 DEF BackfillCommit
  <2>2. QED
    BY <1>14, <2>1, LossRests DEF BackfillCommit
<1>15. ASSUME NEW i \in Imports, ImportStart(i)
      PROVE  LossInv'
  BY <1>15, LossRests DEF ImportStart, jobs
<1>16. ASSUME NEW i \in Imports, ImportRow(i)
      PROVE  LossInv'
  <2>1. \A v \in Versions : status'[v] = status[v] \/ status'[v] # "running"
    BY <1>16 DEF ImportRow, PutVersion, Enqueue, jobs, TypeInv, JobsOK
  <2>2. QED
    BY <1>16, <2>1, LossRests DEF ImportRow
<1>17. ASSUME NEW i \in Imports, ImportCounted(i)
      PROVE  LossInv'
  BY <1>17, LossRests DEF ImportCounted, jobs
<1>18. ASSUME NEW i \in Imports, ImportMark(i)
      PROVE  LossInv'
  BY <1>18, LossRests DEF ImportMark, jobs
<1>19. ASSUME NEW i \in Imports, ImportEnqueue(i)
      PROVE  LossInv'
  <2>1. \A v \in Versions : status'[v] = status[v] \/ status'[v] # "running"
    BY <1>19 DEF ImportEnqueue, Enqueue, TypeInv, JobsOK
  <2>2. QED
    BY <1>19, <2>1, LossRests DEF ImportEnqueue
<1>20. ASSUME NEW q \in Requests, RequestFails(q)
      PROVE  LossInv'
  <2>1. \A v \in Versions : Loose(v)' => Loose(v)
    BY <1>20 DEF RequestFails, Loose, Owns, jobs, worker
  <2>2. crashes' + faults' = crashes + faults + 1
    BY <1>20, BoundsAssumption DEF RequestFails, TypeInv, BoundsOK
  <2>3. QED
    BY <2>1, <2>2, LossCounted
<1>21. CASE UNCHANGED vars
  BY <1>21, LossRests DEF vars, jobs
<1>22. QED
  BY <1>1, <1>2, <1>3, <1>4, <1>5, <1>6, <1>7, <1>8, <1>9, <1>10, <1>11, <1>12,
     <1>13, <1>14, <1>15, <1>16, <1>17, <1>18, <1>19, <1>20,
     <1>21 DEF Next

(* However many servers claim, retry and requeue, the jobs nobody works on *)
(* but that still read running number at most the crashes and the failed   *)
(* statements so far.                                                      *)
THEOREM OrphansBounded == Spec => []OrphansAreLosses
<1>1. TypeInv /\ LossInv => OrphansAreLosses
  <2> SUFFICES ASSUME TypeInv, LossInv
               PROVE  OrphansAreLosses
    OBVIOUS
  <2> DEFINE Orphans == {v \in Versions : Orphan(v)}
  <2>1. Orphans \subseteq LooseJobs
    BY DEF LooseJobs, Loose, Orphan
  <2>2. /\ Cardinality(Orphans) <= Cardinality(LooseJobs)
        /\ Cardinality(Orphans) \in Nat /\ Cardinality(LooseJobs) \in Nat
    BY <2>1, FS_Subset, FS_CardinalityType DEF LossInv
  <2>3. crashes \in Nat /\ faults \in Nat
    BY BoundsAssumption DEF TypeInv, BoundsOK
  <2>4. QED
    BY <2>2, <2>3 DEF LossInv, OrphansAreLosses
<1>2. QED
  BY TypeInit, TypeStep, LossInit, LossStep, <1>1, PTL DEF Spec

-----------------------------------------------------------------------------
(* Vectors                                                                 *)

VectorInv ==
  faults = 0 =>
  /\ \A s \in Servers : at[s] = "setReady" => vector[held[s]] # None
  /\ \A v \in Versions :
       embState[v] = "ready" => vector[v] # None \/ SnapshotState = "ready"

LEMMA VectorInit == Init => VectorInv
BY DEF Init, VectorInv

(* A step that stores no vector and sends nobody to setReady or to a ready *)
(* state it was not in.                                                    *)
LEMMA VectorRests ==
  ASSUME TypeInv, VectorInv, UNCHANGED vector, faults' = 0 => faults = 0,
         \A s \in Servers :
           at'[s] = "setReady" => at[s] = "setReady" /\ held'[s] = held[s],
         \A v \in Versions :
           embState'[v] = "ready" =>
             embState[v] = "ready" \/ vector[v] # None \/ SnapshotState = "ready"
  PROVE  VectorInv'
BY DEF VectorInv

LEMMA VectorStep == TypeInv /\ VectorInv /\ [Next]_vars => VectorInv'
<1> SUFFICES ASSUME TypeInv, VectorInv, [Next]_vars
             PROVE  VectorInv'
  OBVIOUS
<1>1. ASSUME NEW m \in Memories, Write(m)
      PROVE  VectorInv'
  <2>1. \A v \in Versions :
          embState'[v] = "ready" => embState[v] = "ready" \/ SnapshotState = "ready"
    BY <1>1, StatesAssumption DEF Write, PutVersion, SetState, TypeInv, MemoryOK
  <2>2. QED
    BY <1>1, <2>1, VectorRests DEF Write, PutVersion, worker, bounds
<1>2. ASSUME NEW s \in Servers, ClaimSelect(s)
      PROVE  VectorInv'
  BY <1>2, VectorRests DEF ClaimSelect, memory, bounds, TypeInv, WorkerOK
<1>3. ASSUME NEW s \in Servers, ClaimUpdate(s)
      PROVE  VectorInv'
  <2>1. \A t \in Servers :
          at'[t] = "setReady" => at[t] = "setReady" /\ held'[t] = held[t]
    BY <1>3, AdvanceOwns DEF ClaimUpdate, TypeInv, WorkerOK
  <2>2. QED
    BY <1>3, <2>1, VectorRests DEF ClaimUpdate, memory, bounds
<1>4. ASSUME NEW s \in Servers, Embed(s)
      PROVE  VectorInv'
  BY <1>4, AdvanceOwns, VectorRests DEF Embed, memory, bounds, AfterEmbed
<1>5. ASSUME NEW s \in Servers, PutEmbedding(s)
      PROVE  VectorInv'
  <2>1. held[s] \in Versions /\ model[s] # None /\ model[s] \in Models
    BY <1>5, ModelAssumption DEF PutEmbedding, TypeInv, WorkerOK
  <2>2. /\ vector'[held[s]] # None
        /\ \A v \in Versions : vector[v] # None => vector'[v] # None
    BY <1>5, <2>1 DEF PutEmbedding, Store, TypeInv, MemoryOK
  <2>3. /\ held' = held /\ \A t \in Servers \ {s} : at'[t] = at[t]
        /\ faults' = faults /\ embState' = embState
    BY <1>5, AdvanceOwns DEF PutEmbedding, bounds
  <2>4. \A t \in Servers : at[t] = "setReady" => held[t] \in Versions
    BY DEF TypeInv, WorkerOK
  <2>5. QED
    BY <2>2, <2>3, <2>4 DEF VectorInv
<1>6. ASSUME NEW s \in Servers, SetReady(s)
      PROVE  VectorInv'
  <2>1. /\ held[s] \in Versions /\ faults' = faults /\ vector' = vector
        /\ faults = 0 => vector[held[s]] # None
        /\ \A v \in Versions \ {held[s]} : embState'[v] = embState[v]
    BY <1>6 DEF SetReady, SetState, VectorInv, bounds, TypeInv, WorkerOK, MemoryOK
  <2>2. \A t \in Servers :
          at'[t] = "setReady" => at[t] = "setReady" /\ held'[t] = held[t]
    BY <1>6, AdvanceOwns DEF SetReady
  <2>3. QED
    BY <2>1, <2>2 DEF VectorInv
<1>7. ASSUME NEW s \in Servers, FinishOk(s)
      PROVE  VectorInv'
  BY <1>7, AdvanceOwns, VectorRests DEF FinishOk, memory, bounds
<1>8. ASSUME NEW s \in Servers, FinishErr(s)
      PROVE  VectorInv'
  BY <1>8, AdvanceOwns, VectorRests DEF FinishErr, memory, bounds, AfterFinishErr
<1>9. ASSUME NEW s \in Servers, SetFailed(s)
      PROVE  VectorInv'
  <2>1. \A v \in Versions : embState'[v] = "ready" => embState[v] = "ready"
    BY <1>9 DEF SetFailed, SetState, TypeInv, MemoryOK
  <2>2. QED
    BY <1>9, <2>1, AdvanceOwns, VectorRests DEF SetFailed, bounds
<1>10. ASSUME NEW s \in Servers, StatementFails(s)
      PROVE  VectorInv'
  BY <1>10, BoundsAssumption DEF StatementFails, VectorInv, TypeInv, BoundsOK
<1>11. ASSUME NEW s \in Servers, Crash(s)
      PROVE  VectorInv'
  BY <1>11, VectorRests DEF Crash, memory, TypeInv, WorkerOK
<1>12. ASSUME NEW v \in Versions, BackoffElapses(v)
      PROVE  VectorInv'
  BY <1>12, VectorRests DEF BackoffElapses, memory, worker, bounds
<1>13. ASSUME NEW b \in Backfills, BackfillRead(b)
      PROVE  VectorInv'
  BY <1>13, VectorRests DEF BackfillRead, memory, worker, bounds
<1>14. ASSUME NEW b \in Backfills, BackfillCommit(b)
      PROVE  VectorInv'
  BY <1>14, VectorRests DEF BackfillCommit, memory, worker, bounds, TypeInv, MemoryOK
<1>15. ASSUME NEW i \in Imports, ImportStart(i)
      PROVE  VectorInv'
  BY <1>15, VectorRests DEF ImportStart, memory, worker, bounds
<1>16. ASSUME NEW i \in Imports, ImportRow(i)
      PROVE  VectorInv'
  <2>1. \A v \in Versions :
          embState'[v] = "ready" => embState[v] = "ready" \/ SnapshotState = "ready"
    BY <1>16, StatesAssumption DEF ImportRow, PutVersion, SetState, TypeInv, MemoryOK
  <2>2. QED
    BY <1>16, <2>1, VectorRests DEF ImportRow, PutVersion, worker, bounds
<1>17. ASSUME NEW i \in Imports, ImportCounted(i)
      PROVE  VectorInv'
  BY <1>17, VectorRests DEF ImportCounted, memory, worker, bounds
<1>18. ASSUME NEW i \in Imports, ImportMark(i)
      PROVE  VectorInv'
  BY <1>18, VectorRests DEF ImportMark, memory, worker, bounds, SetState, TypeInv, MemoryOK
<1>19. ASSUME NEW i \in Imports, ImportEnqueue(i)
      PROVE  VectorInv'
  BY <1>19, VectorRests DEF ImportEnqueue, memory, worker, bounds
<1>20. ASSUME NEW q \in Requests, RequestFails(q)
      PROVE  VectorInv'
  BY <1>20, BoundsAssumption DEF RequestFails, VectorInv, TypeInv, BoundsOK
<1>21. CASE UNCHANGED vars
  BY <1>21, VectorRests DEF vars, memory, worker, bounds
<1>22. QED
  BY <1>1, <1>2, <1>3, <1>4, <1>5, <1>6, <1>7, <1>8, <1>9, <1>10, <1>11, <1>12,
     <1>13, <1>14, <1>15, <1>16, <1>17, <1>18, <1>19, <1>20,
     <1>21 DEF Next

(* As long as no statement failed unnoticed, a version that semantic       *)
(* search considers ready has a vector, for any number of servers.  The    *)
(* exception is a snapshot that records its versions as ready: between the *)
(* import of such a row and its marking the row has no vector yet.         *)
THEOREM ReadyVectors ==
  ASSUME SnapshotState # "ready"
  PROVE  Spec => []ReadyHasVector
<1>1. VectorInv => ReadyHasVector
  BY DEF VectorInv, ReadyHasVector
<1>2. QED
  BY TypeInit, TypeStep, VectorInit, VectorStep, <1>1, PTL DEF Spec

OneServer == \A s, t \in Servers : s = t

(* What a full backfill asked for is what the one server is configured     *)
(* with, and a worker about to mark its job ready has stored just that.    *)
WantedInv ==
  faults = 0 =>
  /\ \A s \in Servers, v \in Versions : wanted[v] # None => wanted[v] = model[s]
  /\ \A s \in Servers : at[s] = "setReady" => vector[held[s]] = model[s]
  /\ StaleVectorsExcluded

LEMMA WantedInit == Init => WantedInv
BY DEF Init, WantedInv, StaleVectorsExcluded

(* A step that marks nothing ready and stores no vector.                   *)
LEMMA WantedRests ==
  ASSUME TypeInv, WantedInv, UNCHANGED <<vector, wanted, model>>, faults' = 0 => faults = 0,
         \A s \in Servers :
           at'[s] = "setReady" => at[s] = "setReady" /\ held'[s] = held[s],
         \A v \in Versions :
           embState'[v] = "ready" => embState[v] = "ready" \/ wanted[v] = None
  PROVE  WantedInv'
BY DEF WantedInv, StaleVectorsExcluded

LEMMA WantedStep ==
  OneServer /\ TypeInv /\ KnownOnly /\ WantedInv /\ [Next]_vars => WantedInv'
<1> SUFFICES ASSUME OneServer, TypeInv, KnownOnly, WantedInv, [Next]_vars
             PROVE  WantedInv'
  OBVIOUS
<1>1. ASSUME NEW m \in Memories, Write(m)
      PROVE  WantedInv'
  <2>1. \A v \in Versions : embState'[v] = "ready" => embState[v] = "ready"
    BY <1>1, StatesAssumption DEF Write, PutVersion, SetState, TypeInv, MemoryOK
  <2>2. QED
    BY <1>1, <2>1, WantedRests DEF Write, PutVersion, worker, bounds
<1>2. ASSUME NEW s \in Servers, ClaimSelect(s)
      PROVE  WantedInv'
  BY <1>2, WantedRests DEF ClaimSelect, memory, bounds, TypeInv, WorkerOK
<1>3. ASSUME NEW s \in Servers, ClaimUpdate(s)
      PROVE  WantedInv'
  <2>1. \A t \in Servers :
          at'[t] = "setReady" => at[t] = "setReady" /\ held'[t] = held[t]
    BY <1>3, AdvanceOwns DEF ClaimUpdate, TypeInv, WorkerOK
  <2>2. QED
    BY <1>3, <2>1, WantedRests DEF ClaimUpdate, memory, bounds, Advance
<1>4. ASSUME NEW s \in Servers, Embed(s)
      PROVE  WantedInv'
  BY <1>4, AdvanceOwns, WantedRests DEF Embed, memory, bounds, Advance, AfterEmbed
<1>5. ASSUME NEW s \in Servers, PutEmbedding(s)
      PROVE  WantedInv'
  <2>1. /\ held[s] \in Versions /\ \A t \in Servers : t = s
        /\ vector'[held[s]] = model[s]
        /\ \A v \in Versions \ {held[s]} : vector'[v] = vector[v]
    BY <1>5 DEF PutEmbedding, Store, OneServer, TypeInv, WorkerOK, MemoryOK
  <2>2. held' = held /\ model' = model /\ wanted' = wanted /\ faults' = faults /\ embState' = embState
    BY <1>5, AdvanceOwns DEF PutEmbedding, bounds, Advance
  <2>3. QED
    BY <2>1, <2>2 DEF WantedInv, StaleVectorsExcluded
<1>6. ASSUME NEW s \in Servers, SetReady(s)
      PROVE  WantedInv'
  <2>1. /\ held[s] \in Versions /\ \A v \in Versions \ {held[s]} : embState'[v] = embState[v]
        /\ faults = 0 => vector[held[s]] = model[s]
    BY <1>6 DEF SetReady, SetState, WantedInv, TypeInv, WorkerOK, MemoryOK
  <2>2. \A t \in Servers :
          at'[t] = "setReady" => at[t] = "setReady" /\ held'[t] = held[t]
    BY <1>6, AdvanceOwns DEF SetReady
  <2>3. model' = model /\ wanted' = wanted /\ faults' = faults /\ vector' = vector
    BY <1>6 DEF SetReady, Advance, bounds
  <2>4. QED
    BY <2>1, <2>2, <2>3 DEF WantedInv, StaleVectorsExcluded
<1>7. ASSUME NEW s \in Servers, FinishOk(s)
      PROVE  WantedInv'
  BY <1>7, AdvanceOwns, WantedRests DEF FinishOk, memory, bounds, Advance
<1>8. ASSUME NEW s \in Servers, FinishErr(s)
      PROVE  WantedInv'
  BY <1>8, AdvanceOwns, WantedRests DEF FinishErr, memory, bounds, Advance, AfterFinishErr
<1>9. ASSUME NEW s \in Servers, SetFailed(s)
      PROVE  WantedInv'
  <2>1. \A v \in Versions : embState'[v] = "ready" => embState[v] = "ready"
    BY <1>9 DEF SetFailed, SetState, TypeInv, MemoryOK
  <2>2. QED
    BY <1>9, <2>1, AdvanceOwns, WantedRests DEF SetFailed, bounds, Advance
<1>10. ASSUME NEW s \in Servers, StatementFails(s)
      PROVE  WantedInv'
  BY <1>10, BoundsAssumption DEF StatementFails, WantedInv, TypeInv, BoundsOK
<1>11. ASSUME NEW s \in Servers, Crash(s)
      PROVE  WantedInv'
  <2>1. /\ \A t \in Servers : t = s
        /\ at'[s] = "idle" /\ vector' = vector /\ embState' = embState /\ faults' = faults
    BY <1>11 DEF Crash, OneServer, memory, TypeInv, WorkerOK
  <2>2. \/ model'[s] = model[s] /\ wanted' = wanted
        \/ \A v \in Versions : wanted'[v] = None
    BY <1>11 DEF Crash, TypeInv, WorkerOK
  <2>3. QED
    BY <2>1, <2>2 DEF WantedInv, StaleVectorsExcluded
<1>12. ASSUME NEW v \in Versions, BackoffElapses(v)
      PROVE  WantedInv'
  BY <1>12, WantedRests DEF BackoffElapses, memory, worker, bounds
<1>13. ASSUME NEW b \in Backfills, BackfillRead(b)
      PROVE  WantedInv'
  BY <1>13, WantedRests DEF BackfillRead, memory, worker, bounds
<1>14. ASSUME NEW b \in Backfills, BackfillCommit(b)
      PROVE  WantedInv'
  <2>1. /\ vector' = vector /\ at' = at /\ held' = held /\ model' = model /\ faults' = faults
        /\ \A v \in todo[b] \cap Versions : embState'[v] = "pending"
        /\ \A v \in Versions \ todo[b] : embState'[v] = embState[v] /\ wanted'[v] = wanted[v]
    BY <1>14 DEF BackfillCommit, worker, bounds
  <2>2. \A s \in Servers, v \in Versions :
          wanted'[v] = wanted[v] \/ wanted'[v] = model[s]
    BY <1>14, RequestsAssumption DEF BackfillCommit, OneServer, Requests
  <2>3. QED
    BY <2>1, <2>2 DEF WantedInv, StaleVectorsExcluded
<1>15. ASSUME NEW i \in Imports, ImportStart(i)
      PROVE  WantedInv'
  BY <1>15, WantedRests DEF ImportStart, memory, worker, bounds
<1>16. ASSUME NEW i \in Imports, ImportRow(i)
      PROVE  WantedInv'
  <2>1. PICK u \in Versions, active \in BOOLEAN :
          u[2] = current[u[1]] + 1 /\ PutVersion(u, SnapshotState, active)
    BY <1>16, SnapshotAssumption DEF ImportRow
  <2>2. wanted[u] = None /\ \A v \in Versions \ {u} : embState'[v] = embState[v]
    BY <2>1, PutVersionNext DEF KnownOnly, KnownRows
  <2>3. QED
    BY <1>16, <2>1, <2>2, WantedRests DEF ImportRow, PutVersion, worker, bounds
<1>17. ASSUME NEW i \in Imports, ImportCounted(i)
      PROVE  WantedInv'
  BY <1>17, WantedRests DEF ImportCounted, memory, worker, bounds
<1>18. ASSUME NEW i \in Imports, ImportMark(i)
      PROVE  WantedInv'
  BY <1>18, WantedRests DEF ImportMark, memory, worker, bounds, SetState, TypeInv, MemoryOK
<1>19. ASSUME NEW i \in Imports, ImportEnqueue(i)
      PROVE  WantedInv'
  BY <1>19, WantedRests DEF ImportEnqueue, memory, worker, bounds
<1>20. ASSUME NEW q \in Requests, RequestFails(q)
      PROVE  WantedInv'
  BY <1>20, BoundsAssumption DEF RequestFails, WantedInv, TypeInv, BoundsOK
<1>21. CASE UNCHANGED vars
  BY <1>21, WantedRests DEF vars, memory, worker, bounds
<1>22. QED
  BY <1>1, <1>2, <1>3, <1>4, <1>5, <1>6, <1>7, <1>8, <1>9, <1>10, <1>11, <1>12,
     <1>13, <1>14, <1>15, <1>16, <1>17, <1>18, <1>19, <1>20,
     <1>21 DEF Next

(* With one server, a full backfill under a new model hides every vector   *)
(* of the old one for as long as no statement fails unnoticed, in spite of *)
(* restarts, imports and retries.                                          *)
THEOREM BackfillHidesStale ==
  ASSUME OneServer
  PROVE  Spec => []StaleVectorsExcluded
<1>1. WantedInv => StaleVectorsExcluded
  BY DEF WantedInv, StaleVectorsExcluded
<1>2. TypeInv /\ KnownOnly /\ WantedInv /\ [Next]_vars => WantedInv'
  BY WantedStep
<1>3. QED
  BY TypeInit, TypeStep, KnownInit, KnownStep, WantedInit, <1>1, <1>2, PTL DEF Spec

-----------------------------------------------------------------------------
(* Attempts                                                                *)

(* The imports that may still enqueue v, and those that no longer can.     *)
MayEnqueue(i, v) == stage[i] \in {"idle", "rows"} \/ v \in todo[i] \/ (stage[i] = "enqueue" /\ marked[i] = v)
Spent(v) == {i \in Imports : ~MayEnqueue(i, v)}

(* The workers that put v back into the queue if their attempt fails: the  *)
(* copy of the attempts that each decides from, counted up by the UPDATE   *)
(* of the claim, is below the limit.                                       *)
Retriers(v) ==
  {s \in Servers :
     /\ at[s] # "idle" /\ held[s] = v
     /\ tries[s] + (IF at[s] = "claim" THEN 1 ELSE 0) < MaxAttempts}
Free(v) == IF status[v] \in Claimable THEN 1 ELSE 0
Limit(v) == MaxAttempts + (Cardinality(Servers) - 1) + Cardinality(Spent(v))

(* The attempts of a version, the one it can be claimed for now, and one   *)
(* for every worker that may still put it back stay within the limit: each *)
(* attempt uses up the claim, and each retry uses up a worker's old copy.  *)
Budget(v) == attempts[v] + Cardinality(Retriers(v)) + Free(v) <= Limit(v)
AttemptsLeft == \A v \in Versions : Budget(v)

(* A version without a job was never tried, a worker past its claim has    *)
(* counted its attempt, and an import enqueues a version at most once.     *)
NoneUntried == \A v \in Versions : status[v] = "none" => attempts[v] = 0
Counted == \A s \in Servers : at[s] \notin {"idle", "claim"} => tries[s] > 0
MarkedOnce == \A i \in Imports : stage[i] = "enqueue" => marked[i] \notin todo[i]

AttemptInv == AttemptsLeft /\ NoneUntried /\ Counted /\ MarkedOnce

(* There are no more imports of a version than imports.                    *)
LEMMA SpentCount ==
  ASSUME NEW v
  PROVE  /\ IsFiniteSet(Spent(v)) /\ Cardinality(Spent(v)) \in Nat
         /\ Cardinality(Spent(v)) <= Cardinality(Imports) /\ Cardinality(Imports) \in Nat
<1>1. Spent(v) \subseteq Imports
  BY DEF Spent
<1>2. QED
  BY <1>1, ServersAssumption, FS_Subset, FS_CardinalityType

(* An import that can no longer enqueue a version never will.              *)
LEMMA SpentGrows ==
  ASSUME TypeInv, [Next]_vars, NEW v \in Versions
  PROVE  Spent(v) \subseteq Spent(v)'
<1> SUFFICES ASSUME NEW j \in Imports, ~MayEnqueue(j, v)
             PROVE  ~MayEnqueue(j, v)'
  BY DEF Spent
<1> USE DEF MayEnqueue
<1>1. CASE UNCHANGED request
  BY <1>1 DEF request
<1>2. CASE \E b \in Backfills : BackfillRead(b) \/ BackfillCommit(b)
  BY <1>2, RequestsAssumption DEF BackfillRead, BackfillCommit, Requests, TypeInv, RequestOK
<1>3. ASSUME NEW i \in Imports, ImportStart(i) \/ ImportCounted(i) \/ ImportMark(i) \/ ImportEnqueue(i)
      PROVE  ~MayEnqueue(j, v)'
  BY <1>3 DEF ImportStart, ImportCounted, ImportMark, ImportEnqueue, Requests, TypeInv, RequestOK
<1>4. ASSUME NEW q \in Requests, RequestFails(q)
      PROVE  ~MayEnqueue(j, v)'
  BY <1>4 DEF RequestFails, Requests, TypeInv, RequestOK
<1>5. ASSUME NEW s \in Servers, Crash(s)
      PROVE  ~MayEnqueue(j, v)'
  BY <1>5 DEF Crash, Requests, TypeInv, RequestOK
<1>6. QED
  BY <1>1, <1>2, <1>3, <1>4, <1>5
  DEF Next, vars, Write, ClaimSelect, ClaimUpdate, Embed, PutEmbedding, SetReady, FinishOk,
      FinishErr, SetFailed, StatementFails, BackoffElapses, ImportRow

(* An import that has queued a version stays one that has.                 *)
LEMMA SpentCountGrows ==
  ASSUME TypeInv, [Next]_vars, NEW v \in Versions
  PROVE  /\ Cardinality(Spent(v)) \in Nat /\ Cardinality(Spent(v)') \in Nat
         /\ Cardinality(Spent(v)) <= Cardinality(Spent(v)')
<1>1. Spent(v) \subseteq Spent(v)' /\ Spent(v)' \subseteq Imports
  BY SpentGrows DEF Spent
<1>2. IsFiniteSet(Spent(v)')
  BY <1>1, ServersAssumption, FS_Subset
<1>3. QED
  BY <1>1, <1>2, FS_Subset, FS_CardinalityType

(* Any group of servers is finite, and there is at least one server.       *)
LEMMA ServersCount ==
  ASSUME NEW S, S \subseteq Servers
  PROVE  /\ IsFiniteSet(S) /\ Cardinality(S) \in Nat
         /\ Cardinality(S) <= Cardinality(Servers)
         /\ Cardinality(Servers) \in Nat \ {0}
<1>1. IsFiniteSet(S) /\ Cardinality(S) <= Cardinality(Servers)
  BY ServersAssumption, FS_Subset
<1>2. Cardinality(Servers) \in Nat /\ Cardinality(Servers) # 0
  BY ServersAssumption, FS_CardinalityType, FS_EmptySet
<1>3. QED
  BY <1>1, <1>2, FS_CardinalityType

(* A step that shrinks the group of retriers shrinks their number.         *)
LEMMA FewerRetriers ==
  ASSUME NEW v, Retriers(v)' \subseteq Retriers(v)
  PROVE  Cardinality(Retriers(v)') <= Cardinality(Retriers(v))
<1>1. Retriers(v) \subseteq Servers
  BY DEF Retriers
<1>2. QED
  BY <1>1, ServersCount, FS_Subset

(* The numbers that a budget is made of.                                   *)
LEMMA BudgetNumbers ==
  ASSUME TypeInv, [Next]_vars, NEW v \in Versions
  PROVE  /\ attempts[v] \in Nat /\ attempts'[v] \in Nat
         /\ MaxAttempts \in Nat \ {0} /\ Cardinality(Servers) \in Nat \ {0}
         /\ Cardinality(Retriers(v)) \in Nat /\ Cardinality(Retriers(v)') \in Nat
         /\ Cardinality(Retriers(v)) <= Cardinality(Servers)
         /\ Cardinality(Retriers(v)') <= Cardinality(Servers)
         /\ Cardinality(Spent(v)) \in Nat /\ Cardinality(Spent(v)') \in Nat
         /\ Cardinality(Spent(v)) <= Cardinality(Spent(v)')
         /\ Free(v) \in {0, 1} /\ Free(v)' \in {0, 1}
<1>1. Retriers(v) \subseteq Servers /\ Retriers(v)' \subseteq Servers
  BY DEF Retriers
<1>2. attempts[v] \in Nat /\ attempts'[v] \in Nat
  BY TypeStep DEF TypeInv, JobsOK
<1>3. Free(v) \in {0, 1} /\ Free(v)' \in {0, 1}
  BY DEF Free
<1>4. QED
  BY <1>1, <1>2, <1>3, ServersCount, SpentCountGrows, BoundsAssumption

LEMMA AttemptInit == Init => AttemptInv
<1> SUFFICES ASSUME Init
             PROVE  AttemptInv
  OBVIOUS
<1>1. ASSUME NEW v \in Versions
      PROVE  Budget(v)
  <2>1. Retriers(v) = {}
    BY <1>1 DEF Init, Retriers
  <2>2. attempts[v] = 0 /\ Free(v) = 0
    BY <1>1 DEF Init, Free, Claimable
  <2>3. /\ Cardinality(Retriers(v)) = 0 /\ Cardinality(Servers) \in Nat \ {0}
        /\ Cardinality(Spent(v)) \in Nat /\ MaxAttempts \in Nat
    BY <2>1, FS_EmptySet, ServersCount, SpentCount, BoundsAssumption
  <2>4. QED
    BY <2>2, <2>3 DEF Budget, Limit
<1>2. QED
  BY <1>1 DEF Init, AttemptInv, AttemptsLeft, NoneUntried, Counted, MarkedOnce, Requests

(* The worker keeps its job and its copy, or forgets both.                 *)
LEMMA RetriersStay ==
  ASSUME TypeInv, NEW v,
         \A s \in Servers :
           at'[s] # "idle" =>
             /\ at[s] # "idle" /\ held'[s] = held[s] /\ tries'[s] = tries[s]
             /\ at[s] = "claim" => at'[s] = "claim"
  PROVE  Retriers(v)' \subseteq Retriers(v)
<1> SUFFICES ASSUME NEW s \in Servers, s \in Retriers(v)'
             PROVE  s \in Retriers(v)
  BY DEF Retriers
<1>1. tries[s] \in Nat /\ MaxAttempts \in Nat
  BY BoundsAssumption DEF TypeInv, WorkerOK
<1>2. QED
  BY <1>1 DEF Retriers

(* A step that adds neither an attempt, nor a claim, nor a retrier.        *)
LEMMA BudgetStays ==
  ASSUME TypeInv, [Next]_vars, NEW v \in Versions, Budget(v),
         Retriers(v)' \subseteq Retriers(v),
         attempts'[v] + Free(v)' <= attempts[v] + Free(v)
  PROVE  Budget(v)'
<1> DEFINE R == Cardinality(Retriers(v))
           P == Cardinality(Retriers(v)')
<1>1. P <= R
  BY FewerRetriers
<1>2. QED
  BY <1>1, BudgetNumbers DEF Budget, Limit

(* A version that is only now written has all its attempts before it.      *)
LEMMA BudgetOfNew ==
  ASSUME TypeInv, KnownOnly, NoneUntried, [Next]_vars,
         NEW u \in Versions, ~Known(u), attempts' = attempts, UNCHANGED worker
  PROVE  Budget(u)'
<1>1. Retriers(u)' = {}
  BY DEF Retriers, KnownOnly, KnownHeld, worker
<1>2. Cardinality(Retriers(u)') = 0
  BY <1>1, FS_EmptySet
<1>3. attempts'[u] = 0
  BY DEF KnownOnly, KnownRows, NoneUntried
<1>4. QED
  BY <1>2, <1>3, BudgetNumbers DEF Budget, Limit

(* An import has taken what it is about to queue off its list.             *)
LEMMA MarkedStay == TypeInv /\ MarkedOnce /\ [Next]_vars => MarkedOnce'
<1> SUFFICES ASSUME TypeInv, MarkedOnce, [Next]_vars, NEW j \in Imports, stage'[j] = "enqueue"
             PROVE  marked'[j] \notin todo'[j]
  BY DEF MarkedOnce
<1>1. CASE UNCHANGED request
  BY <1>1 DEF request, MarkedOnce
<1>2. CASE \E b \in Backfills : BackfillRead(b) \/ BackfillCommit(b)
  BY <1>2, RequestsAssumption
  DEF BackfillRead, BackfillCommit, Requests, TypeInv, RequestOK, MarkedOnce
<1>3. ASSUME NEW i \in Imports, ImportStart(i) \/ ImportCounted(i) \/ ImportMark(i) \/ ImportEnqueue(i)
      PROVE  marked'[j] \notin todo'[j]
  BY <1>3 DEF ImportStart, ImportCounted, ImportMark, ImportEnqueue, Requests, TypeInv, RequestOK, MarkedOnce
<1>4. ASSUME NEW q \in Requests, RequestFails(q)
      PROVE  marked'[j] \notin todo'[j]
  BY <1>4 DEF RequestFails, Requests, TypeInv, RequestOK, MarkedOnce
<1>5. ASSUME NEW s \in Servers, Crash(s)
      PROVE  marked'[j] \notin todo'[j]
  BY <1>5 DEF Crash, Requests, TypeInv, RequestOK, MarkedOnce
<1>6. QED
  BY <1>1, <1>2, <1>3, <1>4, <1>5
  DEF Next, vars, Write, ClaimSelect, ClaimUpdate, Embed, PutEmbedding, SetReady, FinishOk,
      FinishErr, SetFailed, StatementFails, BackoffElapses, ImportRow

(* A job that was never tried stays so while it has no row.                *)
LEMMA NoneUntriedStep == TypeInv /\ NoneUntried /\ [Next]_vars => NoneUntried'
<1> SUFFICES ASSUME TypeInv, NoneUntried, [Next]_vars, NEW v \in Versions, status'[v] = "none"
             PROVE  attempts'[v] = 0
  BY DEF NoneUntried
<1> USE DEF NoneUntried
<1>1. CASE UNCHANGED jobs
  BY <1>1 DEF jobs
<1>2. ASSUME NEW u \in Versions, NEW st, NEW active \in BOOLEAN, PutVersion(u, st, active)
      PROVE  attempts'[v] = 0
  BY <1>2 DEF PutVersion, Enqueue, jobs, TypeInv, JobsOK
<1>3. ASSUME NEW s \in Servers, ClaimUpdate(s) \/ FinishOk(s) \/ FinishErr(s)
      PROVE  attempts'[v] = 0
  BY <1>3 DEF ClaimUpdate, FinishOk, FinishErr, AfterFailure, jobs, TypeInv, JobsOK
<1>4. ASSUME NEW b \in Backfills, BackfillCommit(b)
      PROVE  attempts'[v] = 0
  BY <1>4 DEF BackfillCommit
<1>5. ASSUME NEW i \in Imports, ImportEnqueue(i)
      PROVE  attempts'[v] = 0
  BY <1>5 DEF ImportEnqueue, Enqueue, TypeInv, JobsOK
<1>6. ASSUME NEW u \in Versions, BackoffElapses(u)
      PROVE  attempts'[v] = 0
  BY <1>6 DEF BackoffElapses
<1>7. ASSUME NEW m \in Memories, Write(m)
      PROVE  attempts'[v] = 0
  <2>1. PICK u \in Versions, st \in WriteStates, active \in BOOLEAN : PutVersion(u, st, active)
    BY <1>7, BoundsAssumption DEF Write, TypeInv, MemoryOK, Versions
  <2>2. QED
    BY <2>1, <1>2
<1>8. ASSUME NEW i \in Imports, ImportRow(i)
      PROVE  attempts'[v] = 0
  BY <1>8, <1>2, SnapshotAssumption DEF ImportRow
<1>9. QED
  BY <1>1, <1>3, <1>4, <1>5, <1>6, <1>7, <1>8
  DEF Next, vars, ClaimSelect, Embed, PutEmbedding, SetReady, SetFailed, StatementFails, Crash,
      BackfillRead, ImportStart, ImportCounted, ImportMark, RequestFails

(* A worker counts its attempt before it leaves the claim.                 *)
LEMMA CountedStep == TypeInv /\ Counted /\ [Next]_vars => Counted'
<1> SUFFICES ASSUME TypeInv, Counted, [Next]_vars, NEW t \in Servers, at'[t] \notin {"idle", "claim"}
             PROVE  tries'[t] > 0
  BY DEF Counted
<1> USE DEF Counted, TypeInv, WorkerOK
<1>1. CASE UNCHANGED worker
  BY <1>1 DEF worker
<1>2. ASSUME NEW s \in Servers, NEW l, Advance(s, l), at[s] \notin {"idle", "claim"} \/ l = "idle"
      PROVE  tries'[t] > 0
  BY <1>2 DEF Advance
<1>3. ASSUME NEW s \in Servers, ClaimSelect(s) \/ Crash(s)
      PROVE  tries'[t] > 0
  BY <1>3 DEF ClaimSelect, Crash
<1>4. ASSUME NEW s \in Servers, ClaimUpdate(s)
      PROVE  tries'[t] > 0
  BY <1>4, <1>2 DEF ClaimUpdate
<1>5. ASSUME NEW s \in Servers,
             \/ Embed(s) \/ PutEmbedding(s) \/ SetReady(s) \/ FinishOk(s)
             \/ FinishErr(s) \/ SetFailed(s) \/ StatementFails(s)
      PROVE  tries'[t] > 0
  <2>1. PICK l : Advance(s, l) /\ (at[s] \notin {"idle", "claim"} \/ l = "idle")
    BY <1>5
    DEF Embed, PutEmbedding, SetReady, FinishOk, FinishErr, SetFailed, StatementFails, AfterFault
  <2>2. QED
    BY <2>1, <1>2
<1>6. QED
  BY <1>1, <1>3, <1>4, <1>5
  DEF Next, vars, Write, BackoffElapses, BackfillRead, BackfillCommit, ImportStart, ImportRow,
      ImportCounted, ImportMark, ImportEnqueue, RequestFails

(* The worker goes on, and its job is queued again by no one.              *)
LEMMA WorkerBudget ==
  ASSUME TypeInv, [Next]_vars, AttemptsLeft, NEW s \in Servers,
         \/ Embed(s) \/ PutEmbedding(s) \/ SetReady(s) \/ FinishOk(s)
         \/ SetFailed(s) \/ StatementFails(s) \/ Crash(s),
         NEW v \in Versions
  PROVE  Budget(v)'
<1>1. attempts' = attempts /\ (status'[v] = status[v] \/ status'[v] \notin Claimable)
  BY DEF Embed, PutEmbedding, SetReady, FinishOk, SetFailed, StatementFails, Crash,
         jobs, TypeInv, JobsOK, Claimable
<1>2. \A t \in Servers :
        at'[t] # "idle" =>
          /\ at[t] # "idle" /\ held'[t] = held[t] /\ tries'[t] = tries[t]
          /\ at[t] = "claim" => at'[t] = "claim"
  <2>1. ASSUME NEW l, Advance(s, l), at[s] # "idle", at[s] = "claim" => l = "idle", NEW t \in Servers
        PROVE  at'[t] # "idle" =>
                 /\ at[t] # "idle" /\ held'[t] = held[t] /\ tries'[t] = tries[t]
                 /\ at[t] = "claim" => at'[t] = "claim"
    BY <2>1 DEF Advance, TypeInv, WorkerOK
  <2>2. CASE Crash(s)
    BY <2>2 DEF Crash, TypeInv, WorkerOK
  <2>3. CASE ~Crash(s)
    <3>1. PICK l : Advance(s, l) /\ at[s] # "idle" /\ (at[s] = "claim" => l = "idle")
      BY <2>3 DEF Embed, PutEmbedding, SetReady, FinishOk, SetFailed, StatementFails, AfterFault
    <3>2. QED
      BY <2>1, <3>1
  <2>4. QED
    BY <2>2, <2>3
<1>3. Retriers(v)' \subseteq Retriers(v)
  BY <1>2, RetriersStay
<1>4. Free(v)' <= Free(v) /\ attempts'[v] = attempts[v]
  BY <1>1 DEF Free
<1>5. attempts'[v] + Free(v)' <= attempts[v] + Free(v)
  BY <1>4, BudgetNumbers
<1>6. QED
  BY <1>3, <1>5, BudgetStays DEF AttemptsLeft

(* Nothing that a budget is made of changes, but for the imports.          *)
LEMMA QuietBudget ==
  ASSUME TypeInv, [Next]_vars, UNCHANGED worker,
         NEW v \in Versions, Budget(v), attempts'[v] = attempts[v], status'[v] = status[v]
  PROVE  Budget(v)'
<1>1. Retriers(v)' = Retriers(v)
  BY DEF Retriers, worker
<1>2. Free(v)' = Free(v)
  BY DEF Free
<1>3. QED
  BY <1>1, <1>2, BudgetNumbers, BudgetStays

(* The SELECT: a copy that is below the limit leaves room for one retrier  *)
(* more, for there are no more of them than servers.                       *)
LEMMA SelectBudget ==
  ASSUME TypeInv, [Next]_vars, AttemptsLeft, NEW s \in Servers, ClaimSelect(s), NEW v \in Versions
  PROVE  Budget(v)'
<1>1. PICK u \in Versions : held' = [held EXCEPT ![s] = u] /\ tries' = [tries EXCEPT ![s] = attempts[u]]
  BY DEF ClaimSelect
<1>2. /\ attempts' = attempts /\ status' = status /\ at[s] = "idle"
      /\ at' = [at EXCEPT ![s] = "claim"]
  BY DEF ClaimSelect, jobs
<1>3. Free(v)' = Free(v) /\ attempts'[v] = attempts[v]
  BY <1>2 DEF Free
<1>4. CASE v = u /\ attempts[v] + 1 < MaxAttempts
  BY <1>3, <1>4, BudgetNumbers DEF Budget, Limit
<1>5. CASE ~(v = u /\ attempts[v] + 1 < MaxAttempts)
  <2>1. Retriers(v)' \subseteq Retriers(v)
    BY <1>1, <1>2, <1>5 DEF Retriers, TypeInv, WorkerOK
  <2>2. QED
    BY <1>3, <2>1, BudgetNumbers, BudgetStays DEF AttemptsLeft
<1>6. QED
  BY <1>4, <1>5

(* The UPDATE: the attempt it counts is the claim it takes, and the worker *)
(* counts it in its copy too.                                              *)
LEMMA ClaimBudget ==
  ASSUME TypeInv, [Next]_vars, AttemptsLeft, NEW s \in Servers, ClaimUpdate(s), NEW v \in Versions
  PROVE  Budget(v)'
<1>1. CASE Advance(s, "idle") /\ UNCHANGED jobs
  <2>1. Retriers(v)' \subseteq Retriers(v)
    BY <1>1, RetriersStay DEF Advance, TypeInv, WorkerOK
  <2>2. Free(v)' = Free(v) /\ attempts'[v] = attempts[v]
    BY <1>1 DEF Free, jobs
  <2>3. QED
    BY <2>1, <2>2, BudgetNumbers, BudgetStays DEF AttemptsLeft
<1>2. CASE /\ StillClaimable(held[s]) /\ status' = [status EXCEPT ![held[s]] = "running"]
           /\ attempts' = [attempts EXCEPT ![held[s]] = @ + 1]
           /\ at' = [at EXCEPT ![s] = "embed"]
           /\ tries' = [tries EXCEPT ![s] = @ + 1] /\ UNCHANGED held
  <2>1. /\ held[s] \in Versions /\ at[s] = "claim" /\ tries[s] \in Nat /\ attempts[v] \in Nat
        /\ MaxAttempts \in Nat
    BY BoundsAssumption DEF ClaimUpdate, TypeInv, WorkerOK, JobsOK
  <2>2. Retriers(v)' \subseteq Retriers(v)
    <3> SUFFICES ASSUME NEW t \in Servers, t \in Retriers(v)'
                 PROVE  t \in Retriers(v)
      BY DEF Retriers
    <3>1. CASE t = s
      BY <1>2, <2>1, <3>1 DEF Retriers, TypeInv, WorkerOK
    <3>2. CASE t # s
      BY <1>2, <3>2 DEF Retriers, TypeInv, WorkerOK
    <3>3. QED
      BY <3>1, <3>2
  <2>3. CASE v = held[s]
    <3>1. attempts'[v] = attempts[v] + 1 /\ Free(v)' = 0 /\ Free(v) = 1
      BY <1>2, <2>3, <2>1 DEF Free, StillClaimable, Claimable, TypeInv, JobsOK
    <3>2. attempts'[v] + Free(v)' <= attempts[v] + Free(v)
      BY <2>1, <3>1
    <3>3. QED
      BY <2>2, <3>2, BudgetStays DEF AttemptsLeft
  <2>4. CASE v # held[s]
    <3>1. attempts'[v] = attempts[v] /\ Free(v)' = Free(v)
      BY <1>2, <2>4 DEF Free, TypeInv, JobsOK
    <3>2. QED
      BY <2>2, <3>1, BudgetNumbers, BudgetStays DEF AttemptsLeft
  <2>5. QED
    BY <2>3, <2>4
<1>3. QED
  BY <1>1, <1>2 DEF ClaimUpdate

(* A failed attempt: a job put back into the queue has one retrier less.   *)
LEMMA RetryBudget ==
  ASSUME TypeInv, [Next]_vars, AttemptsLeft, NEW s \in Servers, FinishErr(s), NEW v \in Versions
  PROVE  Budget(v)'
<1>1. /\ held[s] \in Versions /\ at[s] = "finishErr" /\ tries[s] \in Nat /\ MaxAttempts \in Nat
      /\ attempts' = attempts
  BY BoundsAssumption DEF FinishErr, TypeInv, WorkerOK
<1>2. Retriers(v)' \subseteq Retriers(v)
  <2>1. Advance(s, AfterFinishErr(s)) /\ AfterFinishErr(s) \in {"idle", "setFailed"}
    BY DEF FinishErr, AfterFinishErr
  <2>2. QED
    BY <1>1, <2>1, RetriersStay DEF Advance, TypeInv, WorkerOK
<1>3. CASE v # held[s] \/ LastTry(s)
  <2>1. Free(v)' <= Free(v) /\ attempts'[v] = attempts[v]
    BY <1>1, <1>3 DEF FinishErr, AfterFailure, Free, Claimable, TypeInv, JobsOK
  <2>2. attempts'[v] + Free(v)' <= attempts[v] + Free(v)
    BY <2>1, BudgetNumbers
  <2>3. QED
    BY <1>2, <2>2, BudgetStays DEF AttemptsLeft
<1>4. CASE v = held[s] /\ ~LastTry(s)
  <2>1. s \in Retriers(v)
    BY <1>1, <1>4 DEF Retriers, LastTry
  <2>2. s \notin Retriers(v)'
    BY <1>1, <1>4 DEF FinishErr, AfterFinishErr, Advance, Retriers, TypeInv, WorkerOK
  <2>3. Retriers(v) \subseteq Servers
    BY DEF Retriers
  <2>4. /\ IsFiniteSet(Retriers(v)) /\ IsFiniteSet(Retriers(v) \ {s})
        /\ Cardinality(Retriers(v) \ {s}) = Cardinality(Retriers(v)) - 1
    BY <2>1, <2>3, ServersCount, FS_RemoveElement
  <2>5. Cardinality(Retriers(v)') <= Cardinality(Retriers(v)) - 1
    BY <1>2, <2>2, <2>4, FS_Subset
  <2>6. attempts'[v] = attempts[v]
    BY <1>1
  <2>7. Budget(v)
    BY DEF AttemptsLeft
  <2>8. QED
    BY <2>5, <2>6, <2>7, BudgetNumbers DEF Budget, Limit
<1>5. QED
  BY <1>3, <1>4

(* A backfill starts the attempts over.  There may be a retrier on every   *)
(* server, but none when one attempt is all a job has.                     *)
LEMMA BackfillBudget ==
  ASSUME TypeInv, [Next]_vars, AttemptsLeft, Counted, NEW b \in Backfills, BackfillCommit(b),
         NEW v \in Versions
  PROVE  Budget(v)'
<1>1. Retriers(v)' = Retriers(v) /\ UNCHANGED worker
  BY DEF BackfillCommit, Retriers, worker
<1>2. CASE v \notin todo[b]
  BY <1>1, <1>2, QuietBudget DEF BackfillCommit, AttemptsLeft
<1>3. CASE v \in todo[b]
  <2>1. attempts'[v] = 0
    BY <1>3 DEF BackfillCommit
  <2>2. CASE MaxAttempts = 1
    <3>1. Retriers(v) = {}
      BY <2>2 DEF Retriers, Counted, TypeInv, WorkerOK
    <3>2. Cardinality(Retriers(v)') = 0
      BY <1>1, <3>1, FS_EmptySet
    <3>3. Free(v)' <= MaxAttempts + (Cardinality(Servers) - 1)
      BY <2>2, BudgetNumbers
    <3>4. QED
      BY <2>1, <3>2, <3>3, BudgetNumbers DEF Budget, Limit
  <2>3. CASE MaxAttempts # 1
    <3>1. Cardinality(Retriers(v)') + Free(v)' <= MaxAttempts + (Cardinality(Servers) - 1)
      BY <2>3, BudgetNumbers
    <3>2. QED
      BY <2>1, <3>1, BudgetNumbers DEF Budget, Limit
  <2>4. QED
    BY <2>2, <2>3
<1>4. QED
  BY <1>2, <1>3

(* An import queues a version: it has been spent on it, which is one       *)
(* attempt more.                                                           *)
LEMMA ImportBudget ==
  ASSUME TypeInv, [Next]_vars, AttemptsLeft, MarkedOnce, NEW i \in Imports, ImportEnqueue(i),
         NEW v \in Versions
  PROVE  Budget(v)'
<1>0. PICK u \in Versions : u = marked[i]
  BY DEF ImportEnqueue, Requests, TypeInv, RequestOK
<1>1. /\ i \in Requests /\ stage[i] = "enqueue" /\ u \notin todo[i] /\ UNCHANGED worker
      /\ attempts' = attempts /\ todo' = todo /\ stage'[i] \in {"done", "mark"}
  BY <1>0 DEF ImportEnqueue, Enqueue, Requests, MarkedOnce, TypeInv, RequestOK
<1>2. CASE v # u
  BY <1>0, <1>1, <1>2, QuietBudget DEF ImportEnqueue, Enqueue, AttemptsLeft, TypeInv, JobsOK
<1>3. CASE v = u
  <2>1. i \notin Spent(v) /\ i \in Spent(v)' /\ Spent(v) \subseteq Spent(v)'
    BY <1>0, <1>1, <1>3, SpentGrows DEF Spent, MayEnqueue
  <2>2. IsFiniteSet(Spent(v)) /\ IsFiniteSet(Spent(v)')
    <3>1. Spent(v) \subseteq Imports /\ Spent(v)' \subseteq Imports
      BY DEF Spent
    <3>2. QED
      BY <3>1, ServersAssumption, FS_Subset
  <2>3. IsFiniteSet(Spent(v) \cup {i}) /\ Cardinality(Spent(v) \cup {i}) = Cardinality(Spent(v)) + 1
    BY <2>1, <2>2, FS_AddElement
  <2>4. Cardinality(Spent(v)) + 1 <= Cardinality(Spent(v)')
    BY <2>1, <2>2, <2>3, FS_Subset
  <2>5. Retriers(v)' = Retriers(v) /\ attempts'[v] = attempts[v]
    BY <1>1 DEF Retriers, worker
  <2>6. Budget(v)
    BY DEF AttemptsLeft
  <2>7. QED
    BY <2>4, <2>5, <2>6, BudgetNumbers DEF Budget, Limit
<1>4. QED
  BY <1>2, <1>3

LEMMA AttemptStep == TypeInv /\ KnownOnly /\ AttemptInv /\ [Next]_vars => AttemptInv'
<1> SUFFICES ASSUME TypeInv, KnownOnly, AttemptInv, [Next]_vars, NEW v \in Versions
             PROVE  Budget(v)'
  BY MarkedStay, NoneUntriedStep, CountedStep DEF AttemptInv, AttemptsLeft
<1> USE DEF AttemptInv
<1>1. ASSUME NEW u \in Versions, NEW st \in {"pending", "not_configured", "ready", "failed"},
             NEW active \in BOOLEAN, u[2] = current[u[1]] + 1, PutVersion(u, st, active), UNCHANGED worker
      PROVE  Budget(v)'
  <2>1. ~Known(u) /\ attempts' = attempts
    BY <1>1, PutVersionNext
  <2>2. CASE v = u
    BY <1>1, <2>1, <2>2, BudgetOfNew
  <2>3. CASE v # u
    BY <1>1, <2>1, <2>3, PutVersionNext, QuietBudget DEF AttemptsLeft
  <2>4. QED
    BY <2>2, <2>3
<1>2. ASSUME NEW m \in Memories, Write(m)
      PROVE  Budget(v)'
  <2>1. PICK u \in Versions, st \in WriteStates, active \in BOOLEAN :
          u[2] = current[u[1]] + 1 /\ PutVersion(u, st, active)
    BY <1>2, BoundsAssumption DEF Write, TypeInv, MemoryOK, Versions
  <2>2. QED
    BY <1>1, <1>2, <2>1, StatesAssumption DEF Write
<1>3. ASSUME NEW s \in Servers, ClaimSelect(s) \/ ClaimUpdate(s) \/ FinishErr(s)
      PROVE  Budget(v)'
  BY <1>3, SelectBudget, ClaimBudget, RetryBudget
<1>4. ASSUME NEW s \in Servers,
             \/ Embed(s) \/ PutEmbedding(s) \/ SetReady(s) \/ FinishOk(s)
             \/ SetFailed(s) \/ StatementFails(s) \/ Crash(s)
      PROVE  Budget(v)'
  BY <1>4, WorkerBudget
<1>5. ASSUME NEW u \in Versions, BackoffElapses(u)
      PROVE  Budget(v)'
  BY <1>5, QuietBudget DEF BackoffElapses, AttemptsLeft
<1>6. ASSUME NEW b \in Backfills, BackfillCommit(b)
      PROVE  Budget(v)'
  BY <1>6, BackfillBudget
<1>7. ASSUME NEW i \in Imports, ImportRow(i)
      PROVE  Budget(v)'
  <2>1. PICK u \in Versions, active \in BOOLEAN :
          u[2] = current[u[1]] + 1 /\ PutVersion(u, SnapshotState, active)
    BY <1>7, SnapshotAssumption DEF ImportRow
  <2>2. QED
    BY <1>1, <1>7, <2>1, StatesAssumption DEF ImportRow
<1>8. ASSUME NEW i \in Imports, ImportEnqueue(i)
      PROVE  Budget(v)'
  BY <1>8, ImportBudget
<1>9. CASE UNCHANGED jobs /\ UNCHANGED worker
  BY <1>9, QuietBudget DEF jobs, AttemptsLeft
<1>10. QED
  BY <1>2, <1>3, <1>4, <1>5, <1>6, <1>7, <1>8, <1>9
  DEF Next, vars, BackfillRead, ImportStart, ImportCounted, ImportMark, RequestFails

(* A job is tried at most MaxAttempts times, once more for every other     *)
(* server, whose worker may have read the count before the last attempts,  *)
(* and once more for every import that enqueued it again, whatever         *)
(* crashes, fails or is requeued in between.                               *)
THEOREM AttemptsStayBounded == Spec => []AttemptsBounded
<1>1. TypeInv /\ AttemptInv => AttemptsBounded
  <2> SUFFICES ASSUME TypeInv, AttemptInv, NEW v \in Versions
               PROVE  attempts[v] <= MaxAttempts + (Cardinality(Servers) - 1) + Cardinality(Imports)
    BY DEF AttemptsBounded
  <2>1. Retriers(v) \subseteq Servers /\ Budget(v)
    BY DEF Retriers, AttemptInv, AttemptsLeft
  <2>2. /\ attempts[v] \in Nat /\ MaxAttempts \in Nat /\ Free(v) \in {0, 1}
        /\ Cardinality(Retriers(v)) \in Nat /\ Cardinality(Servers) \in Nat
    BY <2>1, ServersCount, BoundsAssumption DEF TypeInv, JobsOK, Free
  <2>3. QED
    BY <2>1, <2>2, SpentCount DEF Budget, Limit
<1>2. QED
  BY TypeInit, TypeStep, KnownInit, KnownStep, AttemptInit, AttemptStep, <1>1, PTL DEF Spec

-----------------------------------------------------------------------------
(* The backlog                                                             *)

(* While nothing is lost, a version that waits has a job in the queue or a *)
(* worker about to mark it failed.                                         *)
SettleInv ==
  crashes = 0 /\ faults = 0 =>
  /\ \A v \in Versions :
       embState[v] = "pending" =>
         status[v] \in Backlog \/ \E s \in Servers : at[s] = "setFailed" /\ held[s] = v
  /\ \A s \in Servers : at[s] = "finishOk" => embState[held[s]] # "pending"

LEMMA SettleInit == Init => SettleInv
BY DEF Init, SettleInv

(* A step that makes no version wait and leaves the waiting ones in the    *)
(* queue.                                                                  *)
LEMMA SettleRests ==
  ASSUME TypeInv, SettleInv, crashes' = 0 /\ faults' = 0 => crashes = 0 /\ faults = 0,
         \A v \in Versions : embState'[v] = "pending" => embState[v] = "pending",
         \A v \in Versions : status[v] \in Backlog => status'[v] \in Backlog,
         \A s \in Servers :
           /\ at[s] = "setFailed" => at'[s] = "setFailed" /\ held'[s] = held[s]
           /\ at'[s] = "finishOk" => at[s] = "finishOk" /\ held'[s] = held[s]
  PROVE  SettleInv'
BY DEF SettleInv, TypeInv, WorkerOK

LEMMA SettleStep ==
  ASSUME Imports = {}, TypeInv, KnownOnly, SettleInv, [Next]_vars, ~RequeuesOwned
  PROVE  SettleInv'
<1>1. ASSUME NEW m \in Memories, Write(m)
      PROVE  SettleInv'
  <2>1. PICK u \in Versions, st \in WriteStates, active \in BOOLEAN :
          u[2] = current[u[1]] + 1 /\ PutVersion(u, st, active)
    BY <1>1, BoundsAssumption DEF Write, TypeInv, MemoryOK, Versions
  <2>2. /\ status[u] = "none" /\ \A s \in Servers : at[s] # "idle" => held[s] # u
        /\ \A v \in Versions \ {u} : embState'[v] = embState[v] /\ status'[v] = status[v]
        /\ embState'[u] = "pending" => status'[u] = "pending"
    BY <2>1, PutVersionNext DEF KnownOnly, KnownRows, KnownHeld
  <2>3. QED
    BY <1>1, <2>2 DEF Write, worker, bounds, SettleInv, Backlog, TypeInv, WorkerOK
<1>2. ASSUME NEW s \in Servers, ClaimSelect(s)
      PROVE  SettleInv'
  BY <1>2, SettleRests DEF ClaimSelect, jobs, memory, bounds, TypeInv, WorkerOK
<1>3. ASSUME NEW s \in Servers, ClaimUpdate(s)
      PROVE  SettleInv'
  <2>1. \A v \in Versions : status[v] \in Backlog => status'[v] \in Backlog
    BY <1>3 DEF ClaimUpdate, jobs, Backlog, TypeInv, JobsOK
  <2>2. \A t \in Servers :
          /\ at[t] = "setFailed" => at'[t] = "setFailed" /\ held'[t] = held[t]
          /\ at'[t] = "finishOk" => at[t] = "finishOk" /\ held'[t] = held[t]
    BY <1>3, AdvanceOwns DEF ClaimUpdate, TypeInv, WorkerOK
  <2>3. QED
    BY <1>3, <2>1, <2>2, SettleRests DEF ClaimUpdate, memory, bounds
<1>4. ASSUME NEW s \in Servers, Embed(s)
      PROVE  SettleInv'
  BY <1>4, AdvanceOwns, SettleRests DEF Embed, AfterEmbed, jobs, memory, bounds
<1>5. ASSUME NEW s \in Servers, PutEmbedding(s)
      PROVE  SettleInv'
  BY <1>5, AdvanceOwns, SettleRests DEF PutEmbedding, jobs, bounds
<1>6. ASSUME NEW s \in Servers, SetReady(s)
      PROVE  SettleInv'
  <2>1. /\ held[s] \in Versions /\ embState'[held[s]] = "ready" /\ status' = status
        /\ \A v \in Versions \ {held[s]} : embState'[v] = embState[v]
    BY <1>6 DEF SetReady, SetState, jobs, TypeInv, WorkerOK, MemoryOK
  <2>2. at[s] = "setReady" /\ held' = held /\ \A t \in Servers \ {s} : at'[t] = at[t]
    BY <1>6, AdvanceOwns DEF SetReady
  <2>3. crashes' = crashes /\ faults' = faults
    BY <1>6 DEF SetReady, bounds
  <2>4. QED
    BY <2>1, <2>2, <2>3 DEF SettleInv, TypeInv, WorkerOK
<1>7. ASSUME NEW s \in Servers, FinishOk(s)
      PROVE  SettleInv'
  <2>1. /\ held[s] \in Versions /\ embState' = embState /\ at[s] = "finishOk" /\ at'[s] = "idle"
        /\ \A v \in Versions \ {held[s]} : status'[v] = status[v]
        /\ crashes' = crashes /\ faults' = faults
    BY <1>7, AdvanceOwns DEF FinishOk, memory, bounds, TypeInv, WorkerOK, JobsOK
  <2>2. \A t \in Servers \ {s} : at'[t] = at[t] /\ held'[t] = held[t]
    BY <1>7, AdvanceOwns DEF FinishOk
  <2>3. QED
    BY <2>1, <2>2 DEF SettleInv
<1>8. ASSUME NEW s \in Servers, FinishErr(s)
      PROVE  SettleInv'
  <2>1. /\ held[s] \in Versions /\ embState' = embState /\ at[s] = "finishErr"
        /\ \A v \in Versions \ {held[s]} : status'[v] = status[v]
        /\ crashes' = crashes /\ faults' = faults
    BY <1>8 DEF FinishErr, memory, bounds, TypeInv, WorkerOK, JobsOK
  <2>2. \A t \in Servers \ {s} : at'[t] = at[t] /\ held'[t] = held[t]
    BY <1>8, AdvanceOwns DEF FinishErr
  <2>3. \/ status'[held[s]] = "retry" /\ at'[s] = "idle"
        \/ at'[s] = "setFailed" /\ held'[s] = held[s]
    BY <1>8, <2>1, AdvanceOwns DEF FinishErr, AfterFailure, AfterFinishErr, TypeInv, JobsOK
  <2>4. QED
    BY <2>1, <2>2, <2>3 DEF SettleInv, Backlog
<1>9. ASSUME NEW s \in Servers, SetFailed(s)
      PROVE  SettleInv'
  <2>1. /\ held[s] \in Versions /\ embState'[held[s]] = "failed" /\ status' = status
        /\ \A v \in Versions \ {held[s]} : embState'[v] = embState[v]
        /\ crashes' = crashes /\ faults' = faults
    BY <1>9 DEF SetFailed, SetState, jobs, bounds, TypeInv, WorkerOK, MemoryOK
  <2>2. /\ at[s] = "setFailed" /\ at'[s] = "idle"
        /\ \A t \in Servers \ {s} : at'[t] = at[t] /\ held'[t] = held[t]
    BY <1>9, AdvanceOwns DEF SetFailed
  <2>3. QED
    BY <2>1, <2>2 DEF SettleInv, TypeInv, WorkerOK
<1>10. ASSUME NEW s \in Servers, StatementFails(s)
      PROVE  SettleInv'
  BY <1>10, BoundsAssumption DEF StatementFails, SettleInv, TypeInv, BoundsOK
<1>11. ASSUME NEW s \in Servers, Crash(s)
      PROVE  SettleInv'
  BY <1>11, BoundsAssumption DEF Crash, SettleInv, TypeInv, BoundsOK
<1>12. ASSUME NEW v \in Versions, BackoffElapses(v)
      PROVE  SettleInv'
  BY <1>12, SettleRests DEF BackoffElapses, memory, worker, bounds
<1>13. ASSUME NEW b \in Backfills, BackfillRead(b)
      PROVE  SettleInv'
  BY <1>13, SettleRests DEF BackfillRead, jobs, memory, worker, bounds
<1>14. ASSUME NEW b \in Backfills, BackfillCommit(b)
      PROVE  SettleInv'
  <2>1. \A v \in Versions :
          \/ status'[v] = "pending" /\ embState'[v] = "pending"
          \/ status'[v] = status[v] /\ embState'[v] = embState[v]
    BY <1>14 DEF BackfillCommit
  <2>2. \A s \in Servers, v \in Versions : Owns(s, v) => status'[v] # "pending"
    BY DEF RequeuesOwned
  <2>3. \A s \in Servers : at[s] = "finishOk" => held[s] \in Versions /\ Owns(s, held[s])
    BY DEF Owns, TypeInv, WorkerOK
  <2>4. at' = at /\ held' = held /\ crashes' = crashes /\ faults' = faults
    BY <1>14 DEF BackfillCommit, worker, bounds
  <2>5. \A s \in Servers : at[s] = "finishOk" => embState'[held[s]] = embState[held[s]]
    BY <2>1, <2>2, <2>3
  <2>6. QED
    BY <2>1, <2>4, <2>5 DEF SettleInv, Backlog
<1>15. ASSUME NEW i \in Imports, ImportStart(i)
      PROVE  SettleInv'
  BY <1>15
<1>16. ASSUME NEW i \in Imports, ImportRow(i)
      PROVE  SettleInv'
  BY <1>16
<1>17. ASSUME NEW i \in Imports, ImportCounted(i)
      PROVE  SettleInv'
  BY <1>17
<1>18. ASSUME NEW i \in Imports, ImportMark(i)
      PROVE  SettleInv'
  BY <1>18
<1>19. ASSUME NEW i \in Imports, ImportEnqueue(i)
      PROVE  SettleInv'
  BY <1>19
<1>20. ASSUME NEW q \in Requests, RequestFails(q)
      PROVE  SettleInv'
  BY <1>20, BoundsAssumption DEF RequestFails, SettleInv, TypeInv, BoundsOK
<1>21. CASE UNCHANGED vars
  BY <1>21, SettleRests DEF vars, jobs, memory, worker, bounds
<1>22. QED
  BY <1>1, <1>2, <1>3, <1>4, <1>5, <1>6, <1>7, <1>8, <1>9, <1>10, <1>11, <1>12,
     <1>13, <1>14, <1>15, <1>16, <1>17, <1>18, <1>19, <1>20,
     <1>21 DEF Next

(* An empty backlog means that nothing waits for an embedding, for any      *)
(* number of servers and backfills, as long as nothing was lost, no import *)
(* marks what it does not queue, and no backfill requeues a job in hand.   *)
THEOREM FreshIndexIsSettled ==
  ASSUME Imports = {}
  PROVE  Spec /\ [][~RequeuesOwned]_vars =>
           [](crashes = 0 /\ faults = 0 => FreshMeansSettled)
<1>1. TypeInv /\ KnownOnly /\ SettleInv /\ [Next]_vars /\ ~RequeuesOwned => SettleInv'
  BY SettleStep
<1>2. TypeInv /\ SettleInv /\ UNCHANGED vars => SettleInv'
  BY SettleRests DEF vars, jobs, memory, worker, bounds
<1>3. SettleInv => (crashes = 0 /\ faults = 0 => FreshMeansSettled)
  BY DEF SettleInv, FreshMeansSettled, Resting
<1>4. QED
  BY TypeInit, TypeStep, KnownInit, KnownStep, SettleInit, <1>1, <1>2, <1>3, PTL DEF Spec

-----------------------------------------------------------------------------
(* Where nothing is requeued                                               *)

(* Without backfills and imports nothing puts a job back that a worker has *)
(* in hand.                                                                *)
LEMMA OnlyRequestsRequeue ==
  ASSUME Requests = {}, TypeInv, KnownOnly, OwnerInv, [Next]_vars
  PROVE  ~RequeuesOwned
<1> SUFFICES ASSUME NEW s \in Servers, NEW v \in Versions, Owns(s, v)
             PROVE  status'[v] # "pending"
  BY DEF RequeuesOwned
<1>1. status[v] \in {"running", "failed"} /\ Known(v)
  BY DEF OwnerInv, OwnedTaken, KnownOnly, KnownHeld, Owns
<1>2. CASE UNCHANGED status
  BY <1>1, <1>2
<1>3. ASSUME NEW m \in Memories, Write(m)
      PROVE  status'[v] # "pending"
  <2>1. PICK u \in Versions, st \in WriteStates, active \in BOOLEAN :
          u[2] = current[u[1]] + 1 /\ PutVersion(u, st, active)
    BY <1>3, BoundsAssumption DEF Write, TypeInv, MemoryOK, Versions
  <2>2. QED
    BY <1>1, <2>1, PutVersionNext
<1>4. ASSUME NEW t \in Servers, ClaimUpdate(t) \/ FinishOk(t) \/ FinishErr(t)
      PROVE  status'[v] # "pending"
  BY <1>1, <1>4
  DEF ClaimUpdate, FinishOk, FinishErr, AfterFailure, jobs, TypeInv, JobsOK, WorkerOK
<1>5. QED
  BY <1>2, <1>3, <1>4
  DEF Next, vars, jobs, Requests, ClaimSelect, Embed, PutEmbedding, SetReady, SetFailed,
      StatementFails, Crash, BackoffElapses

(* So servers that only claim, crash and fail keep to one worker a job.    *)
THEOREM SingleWorkerPerJob ==
  ASSUME Requests = {}
  PROVE  Spec => []SingleOwner
<1>1. TypeInv /\ KnownOnly /\ OwnerInv /\ [Next]_vars => OwnerInv'
  BY OnlyRequestsRequeue, OwnerStep
<1>2. OwnerInv => SingleOwner
  BY DEF OwnerInv
<1>3. QED
  BY TypeInit, TypeStep, KnownInit, KnownStep, OwnerInit, <1>1, <1>2, PTL DEF Spec
-----------------------------------------------------------------------------
(* The abstract queue                                                      *)

PhaseMap == [v \in Versions |-> PhaseOf(status[v])]
Hands(v) == {s \in Servers : InHand(s, v)}
HandsMap == [v \in Versions |-> Hands(v)]

(* A job in hand is running, and in no other hand.                         *)
LEMMA OneHand ==
  ASSUME TypeInv, OwnerInv, NEW s \in Servers, NEW v \in Versions, InHand(s, v)
  PROVE  status[v] = "running" /\ Hands(v) = {s} /\ PhaseMap[v] = "taken"
<1>1. Owns(s, v) /\ at[s] # "setFailed"
  BY DEF InHand, Owns
<1>2. status[v] = "running"
  BY <1>1 DEF OwnerInv, OwnedTaken
<1>3. \A t \in Servers : InHand(t, v) => t = s
  BY <1>1 DEF OwnerInv, SingleOwner, InHand, Owns
<1>4. QED
  BY <1>2, <1>3 DEF Hands, PhaseMap, PhaseOf

(* What a step does to the abstract queue, seen job by job.                *)
LEMMA JobByJob ==
  ASSUME NEW v \in Versions, NEW p, NEW X,
         \A u \in Versions : PhaseOf(status[u])' = IF u = v THEN p ELSE PhaseOf(status[u]),
         \A u \in Versions : Hands(u)' = IF u = v THEN X ELSE Hands(u)
  PROVE  /\ PhaseMap' = [PhaseMap EXCEPT ![v] = p]
         /\ HandsMap' = [HandsMap EXCEPT ![v] = X]
<1>1. PhaseMap' = [u \in Versions |-> IF u = v THEN p ELSE PhaseOf(status[u])]
  BY DEF PhaseMap
<1>2. HandsMap' = [u \in Versions |-> IF u = v THEN X ELSE Hands(u)]
  BY DEF HandsMap
<1>3. QED
  BY <1>1, <1>2 DEF PhaseMap, HandsMap

(* A step that keeps the status of every job and all hands is a stutter.   *)
LEMMA QueueStutters ==
  ASSUME status' = status,
         \A s \in Servers, v \in Versions : InHand(s, v)' <=> InHand(s, v)
  PROVE  UNCHANGED Queue!queueVars
<1>1. \A v \in Versions : {s \in Servers : InHand(s, v)}' = {s \in Servers : InHand(s, v)}
  OBVIOUS
<1>2. QED
  BY <1>1 DEF Queue!queueVars

(* A worker lets go of its job, which gets the status q.                   *)
LEMMA LetsGo ==
  ASSUME TypeInv, OwnerInv, NEW s \in Servers, NEW v \in Versions, InHand(s, v),
         \A t \in Servers \ {s} : at'[t] = at[t] /\ held'[t] = held[t],
         at'[s] \in {"idle", "setFailed"},
         NEW q, \A u \in Versions : status'[u] = IF u = v THEN q ELSE status[u]
  PROVE  /\ PhaseMap' = [PhaseMap EXCEPT ![v] = PhaseOf(q)]
         /\ HandsMap' = [HandsMap EXCEPT ![v] = {}]
<1>1. \A u \in Versions : PhaseOf(status[u])' = IF u = v THEN PhaseOf(q) ELSE PhaseOf(status[u])
  BY DEF PhaseOf
<1>2. ASSUME NEW u \in Versions
      PROVE  Hands(u)' = IF u = v THEN {} ELSE Hands(u)
  <2>1. \A t \in Servers \ {s} : InHand(t, u)' <=> InHand(t, u)
    BY DEF InHand
  <2>2. ~InHand(s, u)'
    BY DEF InHand
  <2>3. \A t \in Servers : InHand(t, v) => t = s
    BY OneHand DEF Hands
  <2>4. u # v => ~InHand(s, u)
    BY DEF InHand
  <2>5. QED
    BY <2>1, <2>2, <2>3, <2>4 DEF Hands
<1>3. QED
  BY <1>1, <1>2, JobByJob

(* ... which settles it or gives it back, or loses it.                     *)
LEMMA LetsGoAbstractly ==
  ASSUME TypeInv, OwnerInv, NEW s \in Servers, NEW v \in Versions, InHand(s, v),
         HandsMap' = [HandsMap EXCEPT ![v] = {}],
         NEW p \in {"waiting", "completed", "failed", "taken"},
         PhaseMap' = [PhaseMap EXCEPT ![v] = p]
  PROVE  Queue!QueueNext
<1>1. PhaseMap[v] = "taken" /\ HandsMap[v] = {s}
  BY OneHand DEF HandsMap
<1>2. CASE p = "taken"
  <2>1. PhaseMap' = PhaseMap
    BY <1>1, <1>2 DEF PhaseMap
  <2>2. HandsMap[v] # {}
    BY <1>1
  <2>3. Queue!Lose(v)
    BY <1>1, <2>1, <2>2 DEF Queue!Lose, PhaseMap, HandsMap, Hands
  <2>4. QED
    BY <2>3, Zenon DEF Queue!QueueNext, Queue!Lose
<1>3. CASE p # "taken"
  <2>1. Queue!Return(v, s)
    BY <1>1, <1>3 DEF Queue!Return, PhaseMap, HandsMap, Hands
  <2>2. QED
    BY <2>1, Zenon DEF Queue!QueueNext, Queue!Return
<1>4. QED
  BY <1>2, <1>3

(* A worker that goes on keeps its job in hand or had none in hand.        *)
LEMMA GoesOn ==
  ASSUME TypeInv, NEW s \in Servers, NEW l, Advance(s, l), at[s] # "idle", status' = status,
         \/ /\ at[s] \in {"embed", "put", "setReady", "finishOk", "finishErr"}
            /\ l \in {"embed", "put", "setReady", "finishOk", "finishErr"}
         \/ /\ at[s] \in {"claim", "setFailed"}
            /\ l \in {"idle", "setFailed"}
  PROVE  UNCHANGED Queue!queueVars
<1>1. \A t \in Servers, v \in Versions : InHand(t, v)' <=> InHand(t, v)
  BY AdvanceOwns DEF InHand
<1>2. QED
  BY <1>1, QueueStutters

(* The UPDATE of a claim takes a job that no one has in hand.              *)
LEMMA ClaimTakes ==
  ASSUME TypeInv, OwnerInv, NEW s \in Servers, ClaimUpdate(s)
  PROVE  [Queue!QueueNext]_(Queue!queueVars)
<1>1. CASE Advance(s, "idle") /\ UNCHANGED jobs
  BY <1>1, GoesOn DEF ClaimUpdate, jobs
<1>2. CASE /\ StillClaimable(held[s]) /\ status' = [status EXCEPT ![held[s]] = "running"]
           /\ at' = [at EXCEPT ![s] = "embed"] /\ UNCHANGED held
  <2>0. PICK v \in Versions : v = held[s] /\ at[s] = "claim"
    BY DEF ClaimUpdate, TypeInv, WorkerOK
  <2>1. status[v] \in {"pending", "retry"} /\ \A t \in Servers : ~InHand(t, v)
    BY <1>2, <2>0, OneHand DEF StillClaimable, Claimable
  <2>2. PhaseMap[v] = "waiting" /\ HandsMap[v] = {}
    BY <2>1 DEF PhaseMap, PhaseOf, HandsMap, Hands
  <2>3. \A u \in Versions : PhaseOf(status[u])' = IF u = v THEN "taken" ELSE PhaseOf(status[u])
    BY <1>2, <2>0 DEF PhaseOf, TypeInv, JobsOK
  <2>4. ASSUME NEW u \in Versions
        PROVE  Hands(u)' = IF u = v THEN {s} ELSE Hands(u)
    <3>1. \A t \in Servers \ {s} : InHand(t, u)' <=> InHand(t, u)
      BY <1>2 DEF InHand, TypeInv, WorkerOK
    <3>2. (InHand(s, u)' <=> u = v) /\ ~InHand(s, u)
      BY <1>2, <2>0 DEF InHand, TypeInv, WorkerOK
    <3>3. QED
      BY <2>1, <3>1, <3>2 DEF Hands
  <2>5. /\ PhaseMap' = [PhaseMap EXCEPT ![v] = "taken"]
        /\ HandsMap' = [HandsMap EXCEPT ![v] = {s}]
    BY <2>3, <2>4, JobByJob
  <2>6. Queue!Take(v, s)
    BY <2>2, <2>5 DEF Queue!Take, PhaseMap, HandsMap, Hands
  <2>7. QED
    BY <2>6, Zenon DEF Queue!QueueNext, Queue!Take
<1>3. QED
  BY <1>1, <1>2 DEF ClaimUpdate

(* A version that is stored is submitted when it waits.                    *)
LEMMA PutSubmits ==
  ASSUME TypeInv, KnownOnly, UNCHANGED worker,
         NEW v \in Versions, NEW st, NEW active \in BOOLEAN,
         v[2] = current[v[1]] + 1, PutVersion(v, st, active)
  PROVE  [Queue!QueueNext]_(Queue!queueVars)
<1>1. \A s \in Servers, u \in Versions : InHand(s, u)' <=> InHand(s, u)
  BY DEF InHand, worker
<1>2. /\ status[v] = "none" /\ \A u \in Versions \ {v} : status'[u] = status[u]
      /\ st = "pending" => status'[v] = "pending"
      /\ st # "pending" => status'[v] = status[v]
  BY PutVersionNext DEF KnownOnly, KnownRows
<1>3. CASE st = "pending"
  <2>1. \A u \in Versions : PhaseOf(status[u])' = IF u = v THEN "waiting" ELSE PhaseOf(status[u])
    BY <1>2, <1>3 DEF PhaseOf
  <2>2. \A u \in Versions : Hands(u)' = Hands(u)
    BY <1>1 DEF Hands
  <2>3. \A u \in Versions : Hands(u)' = IF u = v THEN Hands(v) ELSE Hands(u)
    BY <2>2
  <2>4. PhaseMap' = [PhaseMap EXCEPT ![v] = "waiting"] /\ HandsMap' = HandsMap
    BY <2>1, <2>2, <2>3, JobByJob DEF HandsMap
  <2>5. PhaseMap[v] = "absent"
    BY <1>2 DEF PhaseMap, PhaseOf
  <2>6. Queue!Submit(v)
    BY <2>4, <2>5 DEF Queue!Submit, PhaseMap, HandsMap, Hands
  <2>7. QED
    BY <2>6, Zenon DEF Queue!QueueNext, Queue!Submit
<1>4. CASE st # "pending"
  <2>1. status' = status
    BY <1>2, <1>4 DEF PutVersion, jobs
  <2>2. QED
    BY <1>1, <2>1, QueueStutters
<1>5. QED
  BY <1>3, <1>4

(* A request puts the jobs J back, and none of them is in hand.            *)
LEMMA RequestRequeues ==
  ASSUME UNCHANGED worker, ~RequeuesOwned, NEW q \in Requests, NEW J \in SUBSET Versions,
         \A v \in Versions : status'[v] = IF v \in J THEN "pending" ELSE status[v]
  PROVE  [Queue!QueueNext]_(Queue!queueVars)
<1>1. \A v \in Versions : Hands(v)' = Hands(v)
  BY DEF Hands, InHand, worker
<1>2. \A v \in J : HandsMap[v] = {}
  BY DEF RequeuesOwned, HandsMap, Hands, InHand, Owns
<1>3. PhaseMap' = [v \in Versions |-> IF v \in J THEN "waiting" ELSE PhaseMap[v]]
  BY DEF PhaseMap, PhaseOf
<1>4. HandsMap' = HandsMap
  BY <1>1 DEF HandsMap
<1>5. Queue!Requeue(J)
  BY <1>2, <1>3, <1>4 DEF Queue!Requeue, PhaseMap, HandsMap, Hands
<1>6. QED
  BY <1>5, Zenon DEF Queue!QueueNext, Queue!Requeue

(* Each step of the table and its workers is one of the queue, or none.    *)
LEMMA QueueStep ==
  TypeInv /\ KnownOnly /\ OwnerInv /\ [Next]_vars /\ ~RequeuesOwned
    => [Queue!QueueNext]_(Queue!queueVars)
<1> SUFFICES ASSUME TypeInv, KnownOnly, OwnerInv, [Next]_vars, ~RequeuesOwned
             PROVE  [Queue!QueueNext]_(Queue!queueVars)
  OBVIOUS
<1>1. ASSUME NEW m \in Memories, Write(m)
      PROVE  [Queue!QueueNext]_(Queue!queueVars)
  <2>1. PICK u \in Versions, st \in WriteStates, active \in BOOLEAN :
          u[2] = current[u[1]] + 1 /\ PutVersion(u, st, active)
    BY <1>1, BoundsAssumption DEF Write, TypeInv, MemoryOK, Versions
  <2>2. QED
    BY <1>1, <2>1, PutSubmits DEF Write
<1>2. ASSUME NEW s \in Servers, ClaimSelect(s)
      PROVE  UNCHANGED Queue!queueVars
  <2>1. \A t \in Servers, v \in Versions : InHand(t, v)' <=> InHand(t, v)
    BY <1>2 DEF ClaimSelect, InHand, TypeInv, WorkerOK
  <2>2. QED
    BY <1>2, <2>1, QueueStutters DEF ClaimSelect, jobs
<1>3. ASSUME NEW s \in Servers, ClaimUpdate(s)
      PROVE  [Queue!QueueNext]_(Queue!queueVars)
  BY <1>3, ClaimTakes
<1>4. ASSUME NEW s \in Servers, Embed(s) \/ PutEmbedding(s) \/ SetReady(s) \/ SetFailed(s)
      PROVE  UNCHANGED Queue!queueVars
  BY <1>4, GoesOn DEF Embed, AfterEmbed, PutEmbedding, SetReady, SetFailed, jobs
<1>5. ASSUME NEW s \in Servers, FinishOk(s) \/ FinishErr(s)
      PROVE  Queue!QueueNext
  <2>1. PICK v \in Versions : v = held[s] /\ InHand(s, v)
    BY <1>5 DEF FinishOk, FinishErr, InHand, TypeInv, WorkerOK
  <2>2. PICK q \in {"completed", "retry", "failed"} :
          \A u \in Versions : status'[u] = IF u = v THEN q ELSE status[u]
    BY <1>5, <2>1 DEF FinishOk, FinishErr, AfterFailure, TypeInv, JobsOK
  <2>3. PICK l \in {"idle", "setFailed"} : Advance(s, l) /\ at[s] # "idle"
    BY <1>5 DEF FinishOk, FinishErr, AfterFinishErr
  <2>4. \A t \in Servers \ {s} : at'[t] = at[t] /\ held'[t] = held[t]
    BY <2>3, AdvanceOwns
  <2>5. at'[s] \in {"idle", "setFailed"}
    BY <2>3, AdvanceOwns
  <2>6. PhaseOf(q) \in {"waiting", "completed", "failed", "taken"}
    BY <2>2 DEF PhaseOf
  <2>7. /\ PhaseMap' = [PhaseMap EXCEPT ![v] = PhaseOf(q)]
        /\ HandsMap' = [HandsMap EXCEPT ![v] = {}]
    BY <2>1, <2>2, <2>4, <2>5, LetsGo
  <2>8. QED
    BY <2>1, <2>6, <2>7, LetsGoAbstractly
<1>6. ASSUME NEW s \in Servers, NEW v \in Versions, InHand(s, v), status' = status,
             \A t \in Servers \ {s} : at'[t] = at[t] /\ held'[t] = held[t],
             at'[s] \in {"idle", "setFailed"}
      PROVE  Queue!QueueNext
  <2>1. \A u \in Versions : status'[u] = IF u = v THEN "running" ELSE status[u]
    BY <1>6, OneHand
  <2>2. PhaseOf("running") = "taken"
    BY DEF PhaseOf
  <2>3. /\ PhaseMap' = [PhaseMap EXCEPT ![v] = "taken"]
        /\ HandsMap' = [HandsMap EXCEPT ![v] = {}]
    BY <1>6, <2>1, <2>2, LetsGo
  <2>4. QED
    BY <1>6, <2>3, LetsGoAbstractly
<1>7. ASSUME NEW s \in Servers, StatementFails(s)
      PROVE  [Queue!QueueNext]_(Queue!queueVars)
  <2>1. Advance(s, AfterFault(s)) /\ at[s] # "idle" /\ status' = status /\ held[s] \in Versions
    BY <1>7 DEF StatementFails, jobs, TypeInv, WorkerOK
  <2>2. CASE at[s] \in {"finishOk", "finishErr"}
    <3>1. AfterFault(s) \in {"idle", "setFailed"} /\ InHand(s, held[s])
      BY <2>2 DEF AfterFault, AfterFinishErr, InHand
    <3>2. QED
      BY <1>6, <2>1, <3>1, AdvanceOwns
  <2>3. CASE at[s] \in {"put", "setReady", "claim", "setFailed"}
    BY <2>1, <2>3, GoesOn DEF AfterFault
  <2>4. QED
    BY <1>7, <2>2, <2>3 DEF StatementFails, WorkerStates
<1>8. ASSUME NEW s \in Servers, Crash(s)
      PROVE  [Queue!QueueNext]_(Queue!queueVars)
  <2>1. /\ status' = status /\ at'[s] = "idle"
        /\ \A t \in Servers \ {s} : at'[t] = at[t] /\ held'[t] = held[t]
    BY <1>8 DEF Crash, jobs, TypeInv, WorkerOK
  <2>2. CASE \E v \in Versions : InHand(s, v)
    BY <1>6, <2>1, <2>2
  <2>3. CASE \A v \in Versions : ~InHand(s, v)
    <3>1. \A t \in Servers, v \in Versions : InHand(t, v)' <=> InHand(t, v)
      BY <2>1, <2>3 DEF InHand
    <3>2. QED
      BY <2>1, <3>1, QueueStutters
  <2>4. QED
    BY <2>2, <2>3
<1>9. ASSUME NEW b \in Backfills, BackfillCommit(b)
      PROVE  [Queue!QueueNext]_(Queue!queueVars)
  <2>1. b \in Requests /\ todo[b] \in SUBSET Versions
    BY DEF Requests, TypeInv, RequestOK
  <2>2. \A v \in Versions : status'[v] = IF v \in todo[b] THEN "pending" ELSE status[v]
    BY <1>9 DEF BackfillCommit
  <2>3. QED
    BY <1>9, <2>1, <2>2, RequestRequeues DEF BackfillCommit
<1>10. ASSUME NEW i \in Imports, ImportRow(i)
      PROVE  [Queue!QueueNext]_(Queue!queueVars)
  <2>1. PICK u \in Versions, active \in BOOLEAN :
          u[2] = current[u[1]] + 1 /\ PutVersion(u, SnapshotState, active)
    BY <1>10, SnapshotAssumption DEF ImportRow
  <2>2. QED
    BY <1>10, <2>1, PutSubmits DEF ImportRow
<1>11. ASSUME NEW i \in Imports, ImportEnqueue(i)
      PROVE  [Queue!QueueNext]_(Queue!queueVars)
  <2> DEFINE J == {v \in Versions : v = marked[i] /\ status[v] # "completed"}
  <2>1. i \in Requests /\ J \in SUBSET Versions
    BY DEF Requests
  <2>2. \A v \in Versions : status'[v] = IF v \in J THEN "pending" ELSE status[v]
    BY <1>11 DEF ImportEnqueue, Enqueue, TypeInv, JobsOK
  <2> HIDE DEF J
  <2>3. QED
    BY <1>11, <2>1, <2>2, RequestRequeues DEF ImportEnqueue
<1>12. CASE status' = status /\ UNCHANGED worker
  BY <1>12, QueueStutters DEF InHand, worker
<1>13. QED
  BY <1>1, <1>2, <1>3, <1>4, <1>5, <1>7, <1>8, <1>9, <1>10, <1>11, <1>12
  DEF Next, vars, jobs, BackoffElapses, BackfillRead, ImportStart, ImportCounted, ImportMark,
      RequestFails

LEMMA QueueInitially == Init => Queue!QueueInit
BY DEF Init, Queue!QueueInit, PhaseOf, InHand

(* The refinement: for any number of servers that share the table, and     *)
(* whatever crashes and fails, the queue keeps its promise unless a request *)
(* puts a job back that a worker still has in hand.                        *)
THEOREM QueueImplemented == Spec /\ [][~RequeuesOwned]_vars => ImplementsQueue
<1>1. TypeInv /\ KnownOnly /\ OwnerInv /\ UNCHANGED vars => OwnerInv'
  BY OwnersRest DEF vars, jobs
<1>2. UNCHANGED vars => UNCHANGED Queue!queueVars
  BY QueueStutters DEF vars, jobs, worker, InHand
<1>3. QED
  BY TypeInit, TypeStep, KnownInit, KnownStep, OwnerInit, OwnerStep, QueueInitially, QueueStep,
     <1>1, <1>2, PTL DEF Spec, ImplementsQueue, Queue!QueueSpec

(* So servers that only claim, crash and fail implement the queue.         *)
THEOREM UnrequestedQueueImplemented ==
  ASSUME Requests = {}
  PROVE  Spec => ImplementsQueue
<1>1. TypeInv /\ KnownOnly /\ OwnerInv /\ [Next]_vars => OwnerInv'
  BY OnlyRequestsRequeue, OwnerStep
<1>2. TypeInv /\ KnownOnly /\ OwnerInv /\ [Next]_vars => [Queue!QueueNext]_(Queue!queueVars)
  BY OnlyRequestsRequeue, QueueStep
<1>3. QED
  BY TypeInit, TypeStep, KnownInit, KnownStep, OwnerInit, QueueInitially, <1>1, <1>2,
     PTL DEF Spec, ImplementsQueue, Queue!QueueSpec
=============================================================================
