---------------------------- MODULE EmbeddingJobs ----------------------------
(***************************************************************************)
(* The embedding queue: the table embedding_jobs, the column               *)
(* memories.embedding_state and the table embeddings, as the worker of     *)
(* each server process, the memory writes, the admin backfill and snapshot *)
(* imports change them.                                                    *)
(*                                                                         *)
(* The worker runs six statements per job, none in a transaction with      *)
(* another, and discards the error of all but the claim.  Between any two  *)
(* of them other servers, requests and crashes may come.                   *)
(*                                                                         *)
(* Data.  A memory version is <<m, n>>.  A vector is the model that made   *)
(* it.  Time is one flag per job, due[v]: available_at has passed.  The    *)
(* claim takes any due job: ORDER BY updated_at is left out, it only       *)
(* restricts the choice.                                                   *)
(***************************************************************************)
EXTENDS Naturals, FiniteSets

CONSTANTS
  Servers,       \* server processes; each runs one embedding worker
  Memories,
  MaxVersion,    \* bound: versions of a memory
  MaxAttempts,   \* 5 in the code
  Models,        \* embedding models a server may be configured with
  FirstModel,    \* the model every server starts with
  WriteStates,   \* embedding_state of a new version: "pending" when an
                 \* embedder is configured, else "not_configured"
  Backfills,     \* admin backfill requests, each served once
  Imports,       \* snapshot imports, each served once
  ServerOf,      \* ServerOf[q] : the server that serves request q
  Snapshot,      \* the memory versions in the snapshot the imports carry
  SnapshotState, \* embedding_state the snapshot records for its versions
  MaxCrashes,    \* bound: crashes and restarts
  MaxFaults,     \* bound: statements that fail, of a worker or a request
  MaxLosses,     \* bound: crashes and failed statements together
  None

Versions == Memories \X (1 .. MaxVersion)
Requests == Backfills \cup Imports

ASSUME ServersAssumption ==
  /\ IsFiniteSet(Servers) /\ Servers # {}
  /\ IsFiniteSet(Imports)
ASSUME BoundsAssumption ==
  /\ MaxVersion \in Nat /\ MaxAttempts \in Nat \ {0}
  /\ MaxCrashes \in Nat /\ MaxFaults \in Nat /\ MaxLosses \in Nat
ASSUME ModelAssumption == FirstModel \in Models /\ None \notin Models
ASSUME StatesAssumption ==
  /\ WriteStates \subseteq {"pending", "not_configured"}
  /\ SnapshotState \in {"pending", "not_configured", "ready", "failed"}
ASSUME RequestsAssumption ==
  /\ Backfills \cap Imports = {}
  /\ ServerOf \in [Requests -> Servers]
ASSUME SnapshotAssumption ==
  /\ Snapshot \subseteq Versions
  /\ \A v \in Snapshot : \A n \in 1 .. v[2] : <<v[1], n>> \in Snapshot

VARIABLES
  \* the database
  current,    \* current[m] : memory_current, 0 before the first version
  live,       \* live versions: state neither archived nor tombstoned
  embState,   \* embState[v] : memories.embedding_state, "none" without a row
  vector,     \* vector[v] : the row of embeddings, None without one
  status,     \* status[v] : embedding_jobs.status, "none" without a job
  attempts,   \* attempts[v] : embedding_jobs.attempts
  due,        \* due[v] : available_at <= now
  \* the servers
  model,      \* model[s] : the configured embedder
  at,         \* at[s] : the statement the worker of s runs next
  held,       \* held[s] : the job the worker holds
  tries,      \* tries[s] : j.Attempts, the worker's copy
  \* the requests
  stage,      \* stage[q]
  mode,       \* mode[q] : the mode of a backfill
  todo,       \* todo[q] : versions a backfill or an import still has to queue
  marked,     \* marked[q] : the version an import has set to pending, not queued
  \* history and bounds
  wanted,     \* wanted[v] : the model of the last full backfill that covered v
  crashes, faults

jobs == <<status, attempts, due>>
memory == <<current, live, embState, vector>>
worker == <<model, at, held, tries>>
request == <<stage, mode, todo, marked>>
bounds == <<crashes, faults>>
vars == <<jobs, memory, worker, request, wanted, bounds>>

PendingOnly == {"pending"}                  \* a claim that never retries
Unsettled == {"pending", "retry", "running"}  \* a claim that takes over jobs
Claimable == {"pending", "retry"}           \* what ClaimEmbedding selects
Backlog == {"pending", "retry", "running"}  \* EmbeddingBacklog counts these
JobStates == Backlog \cup {"none", "completed", "failed"}
WorkerStates == {"idle", "claim", "embed", "put", "setReady", "finishOk",
                 "finishErr", "setFailed"}
Stages == {"idle", "commit", "rows", "mark", "enqueue", "done"}

TypeOK ==
  /\ current \in [Memories -> 0 .. MaxVersion]
  /\ live \subseteq Versions
  /\ embState \in [Versions -> {"none", "not_configured", "pending", "ready", "failed"}]
  /\ vector \in [Versions -> Models \cup {None}]
  /\ status \in [Versions -> JobStates]
  /\ attempts \in [Versions -> Nat]
  /\ due \in [Versions -> BOOLEAN]
  /\ model \in [Servers -> Models]
  /\ at \in [Servers -> WorkerStates]
  /\ held \in [Servers -> Versions \cup {None}]
  /\ tries \in [Servers -> Nat]
  /\ stage \in [Requests -> Stages]
  /\ mode \in [Requests -> {"missing", "all"}]
  /\ todo \in [Requests -> SUBSET Versions]
  /\ marked \in [Requests -> Versions \cup {None}]
  /\ wanted \in [Versions -> Models \cup {None}]
  /\ crashes \in 0 .. MaxCrashes /\ faults \in 0 .. MaxFaults

Init ==
  /\ current = [m \in Memories |-> 0]
  /\ live = {}
  /\ embState = [v \in Versions |-> "none"]
  /\ vector = [v \in Versions |-> None]
  /\ status = [v \in Versions |-> "none"]
  /\ attempts = [v \in Versions |-> 0]
  /\ due = [v \in Versions |-> FALSE]
  /\ model = [s \in Servers |-> FirstModel]
  /\ at = [s \in Servers |-> "idle"]
  /\ held = [s \in Servers |-> None]
  /\ tries = [s \in Servers |-> 0]
  /\ stage = [q \in Requests |-> "idle"]
  /\ mode = [q \in Requests |-> "missing"]
  /\ todo = [q \in Requests |-> {}]
  /\ marked = [q \in Requests |-> None]
  /\ wanted = [v \in Versions |-> None]
  /\ crashes = 0 /\ faults = 0

-----------------------------------------------------------------------------
(* Helpers                                                                 *)

Exists(v) == embState[v] # "none"

(* The worker of s moves on; idle again, it forgets its job.               *)
Advance(s, l) ==
  /\ at' = [at EXCEPT ![s] = l]
  /\ held' = IF l = "idle" THEN [held EXCEPT ![s] = None] ELSE held
  /\ tries' = IF l = "idle" THEN [tries EXCEPT ![s] = 0] ELSE tries
  /\ UNCHANGED model

SetState(v, st) == embState' = [embState EXCEPT ![v] = st]

(* An UPDATE where the code has an upsert: a version without a job gets none. *)
EnqueueExisting(v) ==
  /\ status' = [status EXCEPT ![v] = IF @ \in {"none", "completed"} THEN @ ELSE "pending"]
  /\ due' = [due EXCEPT ![v] = TRUE]
  /\ UNCHANGED attempts

(* PutMemory and EnqueueEmbedding: INSERT ... ON CONFLICT keeps a completed *)
(* job completed, makes any other pending, and leaves attempts alone.      *)
Enqueue(v) ==
  /\ status' = [status EXCEPT ![v] = IF @ = "completed" THEN @ ELSE "pending"]
  /\ due' = [due EXCEPT ![v] = TRUE]
  /\ UNCHANGED attempts

-----------------------------------------------------------------------------
(* Writes                                                                  *)

(* PutMemory commits version n of m: the row with its embedding state, the *)
(* pointer, and the job when the state is pending.                         *)
PutVersion(v, st, active) ==
  /\ current' = [current EXCEPT ![v[1]] = v[2]]
  /\ live' = IF active THEN live \cup {v} ELSE live
  /\ SetState(v, st)
  /\ IF st = "pending" THEN Enqueue(v) ELSE UNCHANGED jobs
  /\ UNCHANGED vector

(* CreateMemory, VersionMemory, SetMemoryState.                            *)
Write(m) ==
  /\ current[m] < MaxVersion
  /\ \E st \in WriteStates, active \in BOOLEAN :
       PutVersion(<<m, current[m] + 1>>, st, active)
  /\ UNCHANGED <<worker, request, wanted, bounds>>

-----------------------------------------------------------------------------
(* The worker                                                              *)

(* ClaimEmbedding, the SELECT: a due job and the attempts it has seen.     *)
ClaimSelect(s) ==
  /\ at[s] = "idle"
  /\ \E v \in Versions :
       /\ status[v] \in Claimable /\ due[v]
       /\ held' = [held EXCEPT ![s] = v]
       /\ tries' = [tries EXCEPT ![s] = attempts[v]]
  /\ at' = [at EXCEPT ![s] = "claim"]
  /\ UNCHANGED <<jobs, memory, model, request, wanted, bounds>>

(* An UPDATE by primary key alone.                                         *)
ClaimUnchecked(v) == TRUE

(* The WHERE clause of the UPDATE looks at the status again.               *)
StillClaimable(v) == status[v] \in Claimable

(* ClaimEmbedding, the UPDATE: it checks the status again, not the         *)
(* attempts.  No row updated means another worker has the job.             *)
ClaimUpdate(s) ==
  /\ at[s] = "claim"
  /\ LET v == held[s] IN
     \/ /\ StillClaimable(v)
        /\ status' = [status EXCEPT ![v] = "running"]
        /\ attempts' = [attempts EXCEPT ![v] = @ + 1]
        /\ at' = [at EXCEPT ![s] = "embed"]
        /\ tries' = [tries EXCEPT ![s] = @ + 1]
        /\ UNCHANGED <<due, model, held>>
     \/ /\ ~StillClaimable(v)
        /\ Advance(s, "idle")
        /\ UNCHANGED jobs
  /\ UNCHANGED <<memory, request, wanted, bounds>>

(* Marking the version ready without storing its vector.                   *)
MarkFirst == "setReady"
(* An embedded job stores its vector next.                                 *)
AfterEmbed == "put"

(* Embedder.Embed: the provider answers, or fails or times out.            *)
Embed(s) ==
  /\ at[s] = "embed"
  /\ \/ Advance(s, AfterEmbed)
     \/ Advance(s, "finishErr")
  /\ UNCHANGED <<jobs, memory, request, wanted, bounds>>

(* ON CONFLICT DO NOTHING: the first vector of a version stays.            *)
StoreOnce(v, m) == IF vector[v] = None THEN m ELSE vector[v]
(* ON CONFLICT DO UPDATE: the vector of an earlier model is replaced.      *)
Store(v, m) == m

PutEmbedding(s) ==
  /\ at[s] = "put"
  /\ vector' = [vector EXCEPT ![held[s]] = Store(held[s], model[s])]
  /\ Advance(s, "setReady")
  /\ UNCHANGED <<jobs, current, live, embState, request, wanted, bounds>>

(* SetEmbeddingState(..., "ready").                                        *)
SetReady(s) ==
  /\ at[s] = "setReady"
  /\ SetState(held[s], "ready")
  /\ Advance(s, "finishOk")
  /\ UNCHANGED <<jobs, current, live, vector, request, wanted, bounds>>

(* FinishEmbedding(j, nil): completed, whatever the status is by now.      *)
FinishOk(s) ==
  /\ at[s] = "finishOk"
  /\ status' = [status EXCEPT ![held[s]] = "completed"]
  /\ Advance(s, "idle")
  /\ UNCHANGED <<attempts, due, memory, request, wanted, bounds>>

(* One attempt too many.                                                   *)
BeyondLastTry(s) == tries[s] > MaxAttempts
(* j.Attempts >= 5, asked by FinishEmbedding and by the worker alike.      *)
LastTry(s) == tries[s] >= MaxAttempts

(* A failed attempt that leaves the job as the claim set it.               *)
StillRunning(s) == IF LastTry(s) THEN "failed" ELSE "running"
AfterFailure(s) == IF LastTry(s) THEN "failed" ELSE "retry"

(* A worker that leaves embedding_state to the job table.                  *)
NeverMarksFailed(s) == "idle"
AfterFinishErr(s) == IF LastTry(s) THEN "setFailed" ELSE "idle"

(* FinishEmbedding(j, err): retry later, or failed at the last attempt.    *)
FinishErr(s) ==
  /\ at[s] = "finishErr"
  /\ status' = [status EXCEPT ![held[s]] = AfterFailure(s)]
  /\ due' = [due EXCEPT ![held[s]] = FALSE]
  /\ Advance(s, AfterFinishErr(s))
  /\ UNCHANGED <<attempts, memory, request, wanted, bounds>>

SetFailed(s) ==
  /\ at[s] = "setFailed"
  /\ SetState(held[s], "failed")
  /\ Advance(s, "idle")
  /\ UNCHANGED <<jobs, current, live, vector, request, wanted, bounds>>

(* A statement of the worker fails: the claim gives up, the others go on   *)
(* as if it had worked.                                                    *)
AfterFault(s) ==
  CASE at[s] = "put" -> "setReady"
    [] at[s] = "setReady" -> "finishOk"
    [] at[s] = "finishErr" -> AfterFinishErr(s)
    [] OTHER -> "idle"

StatementFails(s) ==
  /\ at[s] \in WorkerStates \ {"idle", "embed"}
  /\ faults < MaxFaults /\ crashes + faults < MaxLosses
  /\ faults' = faults + 1
  /\ Advance(s, AfterFault(s))
  /\ UNCHANGED <<jobs, memory, request, wanted, crashes>>

(* The backoff of a failed attempt elapses.                                *)
BackoffElapses(v) ==
  /\ status[v] = "retry" /\ ~due[v]
  /\ due' = [due EXCEPT ![v] = TRUE]
  /\ UNCHANGED <<status, attempts, memory, worker, request, wanted, bounds>>

-----------------------------------------------------------------------------
(* POST /admin/v1/embeddings/backfill                                      *)

Candidate(v, md) ==
  /\ Exists(v) /\ v[2] = current[v[1]] /\ v \in live
  /\ md = "all" \/ vector[v] = None \/ embState[v] \in {"not_configured", "failed"}

(* QueueEmbeddings reads its candidates before the transaction.            *)
BackfillRead(b) ==
  /\ stage[b] = "idle"
  /\ \E md \in {"missing", "all"} :
       LET found == {v \in Versions : Candidate(v, md)} IN
       /\ mode' = [mode EXCEPT ![b] = md]
       /\ todo' = [todo EXCEPT ![b] = found]
       /\ stage' = [stage EXCEPT ![b] = IF found = {} THEN "done" ELSE "commit"]
  /\ UNCHANGED <<jobs, memory, worker, marked, wanted, bounds>>

(* A backfill that keeps the available_at of the job it requeues.          *)
SameDue(b) == due
(* available_at=excluded.available_at: a requeued job is due at once.      *)
RequeuedDue(b) == [v \in Versions |-> v \in todo[b] \/ due[v]]

(* ... and queues them all in one, whatever their jobs are doing by then.  *)
BackfillCommit(b) ==
  /\ stage[b] = "commit"
  /\ status' = [v \in Versions |-> IF v \in todo[b] THEN "pending" ELSE status[v]]
  /\ attempts' = [v \in Versions |-> IF v \in todo[b] THEN 0 ELSE attempts[v]]
  /\ due' = RequeuedDue(b)
  /\ embState' = [v \in Versions |-> IF v \in todo[b] THEN "pending" ELSE embState[v]]
  /\ wanted' = [v \in Versions |->
                  IF v \in todo[b] /\ mode[b] = "all" THEN model[ServerOf[b]] ELSE wanted[v]]
  /\ stage' = [stage EXCEPT ![b] = "done"]
  /\ todo' = [todo EXCEPT ![b] = {}]
  /\ UNCHANGED <<current, live, vector, mode, marked, worker, bounds>>

-----------------------------------------------------------------------------
(* POST /v1/imports.  The events of the snapshot carry the keys of the     *)
(* writes they came from, so a version that exists is the snapshot's own.  *)

(* ImportSnapshot after a well-formed snapshot has been decoded.           *)
ImportStart(i) ==
  /\ stage[i] = "idle"
  /\ stage' = [stage EXCEPT ![i] = "rows"]
  /\ UNCHANGED <<jobs, memory, worker, mode, todo, marked, wanted, bounds>>

(* Import inserts a version it does not find, in the order of the stream.  *)
ImportRow(i) ==
  /\ stage[i] = "rows"
  /\ \E v \in Snapshot :
       /\ v[2] = current[v[1]] + 1
       /\ \E active \in BOOLEAN : PutVersion(v, SnapshotState, active)
  /\ UNCHANGED <<worker, request, wanted, bounds>>

(* Every event has been seen: the counts are compared, then the marking    *)
(* starts.                                                                 *)
ImportCounted(i) ==
  /\ stage[i] = "rows"
  /\ \A v \in Snapshot : Exists(v)
  /\ LET same == Cardinality({v \in Versions : Exists(v)}) = Cardinality(Snapshot) IN
     /\ stage' = [stage EXCEPT ![i] = IF same THEN "mark" ELSE "done"]
     /\ todo' = [todo EXCEPT ![i] = IF same THEN Snapshot ELSE {}]
  /\ UNCHANGED <<jobs, memory, worker, mode, marked, wanted, bounds>>

(* SetEmbeddingState(..., "pending") for the next version of the snapshot. *)
ImportMark(i) ==
  /\ stage[i] = "mark"
  /\ \E v \in todo[i] :
       /\ SetState(v, "pending")
       /\ todo' = [todo EXCEPT ![i] = @ \ {v}]
       /\ marked' = [marked EXCEPT ![i] = v]
  /\ stage' = [stage EXCEPT ![i] = "enqueue"]
  /\ UNCHANGED <<jobs, current, live, vector, worker, mode, wanted, bounds>>

(* EnqueueEmbedding for the version just marked.                           *)
ImportEnqueue(i) ==
  /\ stage[i] = "enqueue"
  /\ Enqueue(marked[i])
  /\ marked' = [marked EXCEPT ![i] = None]
  /\ stage' = [stage EXCEPT ![i] = IF todo[i] = {} THEN "done" ELSE "mark"]
  /\ UNCHANGED <<memory, worker, mode, todo, wanted, bounds>>

(* A backfill or an import answers with an error: a statement failed or the *)
(* client went away.  An open transaction rolls back, the rest stays.      *)
RequestFails(q) ==
  /\ stage[q] \notin {"idle", "done"}
  /\ faults < MaxFaults /\ crashes + faults < MaxLosses
  /\ faults' = faults + 1
  /\ stage' = [stage EXCEPT ![q] = "done"]
  /\ todo' = [todo EXCEPT ![q] = {}]
  /\ marked' = [marked EXCEPT ![q] = None]
  /\ UNCHANGED <<jobs, memory, worker, mode, wanted, crashes>>

-----------------------------------------------------------------------------
(* A server stops at any point, with its worker and the requests it was    *)
(* serving, and comes back, perhaps configured with another model.         *)
Crash(s) ==
  /\ crashes < MaxCrashes /\ crashes + faults < MaxLosses
  /\ crashes' = crashes + 1
  /\ \E m \in Models :
       /\ model' = [model EXCEPT ![s] = m]
       /\ wanted' = IF m = model[s] THEN wanted ELSE [v \in Versions |-> None]
  /\ at' = [at EXCEPT ![s] = "idle"]
  /\ held' = [held EXCEPT ![s] = None]
  /\ tries' = [tries EXCEPT ![s] = 0]
  /\ LET lost == {q \in Requests : ServerOf[q] = s /\ stage[q] # "idle"} IN
     /\ stage' = [q \in Requests |-> IF q \in lost THEN "done" ELSE stage[q]]
     /\ todo' = [q \in Requests |-> IF q \in lost THEN {} ELSE todo[q]]
     /\ marked' = [q \in Requests |-> IF q \in lost THEN None ELSE marked[q]]
  /\ UNCHANGED <<jobs, memory, mode, faults>>

Next ==
  \/ \E m \in Memories : Write(m)
  \/ \E s \in Servers : ClaimSelect(s)
  \/ \E s \in Servers : ClaimUpdate(s)
  \/ \E s \in Servers : Embed(s)
  \/ \E s \in Servers : PutEmbedding(s)
  \/ \E s \in Servers : SetReady(s)
  \/ \E s \in Servers : FinishOk(s)
  \/ \E s \in Servers : FinishErr(s)
  \/ \E s \in Servers : SetFailed(s)
  \/ \E s \in Servers : StatementFails(s)
  \/ \E s \in Servers : Crash(s)
  \/ \E v \in Versions : BackoffElapses(v)
  \/ \E b \in Backfills : BackfillRead(b)
  \/ \E b \in Backfills : BackfillCommit(b)
  \/ \E i \in Imports : ImportStart(i)
  \/ \E i \in Imports : ImportRow(i)
  \/ \E i \in Imports : ImportCounted(i)
  \/ \E i \in Imports : ImportMark(i)
  \/ \E i \in Imports : ImportEnqueue(i)
  \/ \E q \in Requests : RequestFails(q)

Spec == Init /\ [][Next]_vars

(* The worker's ticker keeps firing and its calls return: the provider     *)
(* request has a 30 second timeout, the statements come back or fail.  The *)
(* backoff is a time that passes.  Clients, crashes and faults owe nothing. *)
WorkerStep(s) ==
  \/ ClaimSelect(s) \/ ClaimUpdate(s) \/ Embed(s) \/ PutEmbedding(s)
  \/ SetReady(s) \/ FinishOk(s) \/ FinishErr(s) \/ SetFailed(s)

Fairness ==
  /\ \A s \in Servers : WF_vars(WorkerStep(s))
  /\ \A v \in Versions : WF_vars(BackoffElapses(v))

FairSpec == Spec /\ Fairness

-----------------------------------------------------------------------------
(* Safety                                                                  *)

(* Past the conditional UPDATE of the claim, a job belongs to one worker:  *)
(* servers that selected the same job do not both embed it.                *)
Owns(s, v) == at[s] \notin {"idle", "claim"} /\ held[s] = v
SingleOwner ==
  \A s, t \in Servers : \A v \in Versions : Owns(s, v) /\ Owns(t, v) => s = t

(* Running without a worker: only a crash or a discarded error leaves a    *)
(* job there, one job each, and nothing but a backfill or a re-import takes *)
(* it out again, for the claim passes over it.                             *)
Orphan(v) == status[v] = "running" /\ \A s \in Servers : ~Owns(s, v)
OrphansAreLosses ==
  Cardinality({v \in Versions : Orphan(v)}) <= crashes + faults

(* A version marked ready, which is what semantic search asks of it, has a *)
(* vector, in spite of crashes, retries, changes of model and requeues.    *)
(* Two things are excused: a statement that failed unnoticed, which may be *)
(* the one that stores the vector (EmbedOne discards PutEmbedding's        *)
(* error), and a snapshot that brings the mark without the vector, so that *)
(* it holds only where SnapshotState is not "ready".                       *)
ReadyHasVector ==
  faults = 0 => \A v \in Versions : embState[v] = "ready" => vector[v] # None

(* An empty backlog, reported as index_fresh, means what it says once the  *)
(* workers and requests are through: nothing waits for an embedding.       *)
Resting ==
  /\ \A s \in Servers : at[s] = "idle"
  /\ \A q \in Requests : stage[q] \in {"idle", "done"}
FreshMeansSettled ==
  /\ Resting
  /\ \A v \in Versions : status[v] \notin Backlog
  => \A v \in Versions : embState[v] # "pending"

(* A job is claimed MaxAttempts times before it is failed or a backfill    *)
(* starts it over, and at most once more for every other server, which may *)
(* decide about the retry from the count it selected before the others'    *)
(* attempts.  A re-import of a failed job grants one attempt more, for it  *)
(* does not reset the count.                                               *)
AttemptsBounded ==
  \A v \in Versions :
    attempts[v] <= MaxAttempts + (Cardinality(Servers) - 1) + Cardinality(Imports)

(* After a full backfill under a new model, search offers no vector of the *)
(* old one: the version is pending until it is embedded again.             *)
StaleVectorsExcluded ==
  faults = 0 =>
  \A v \in Versions :
    embState[v] = "ready" /\ wanted[v] # None => vector[v] = wanted[v]

(* A worker has v in hand from its claim until it finishes.                *)
InHand(s, v) ==
  held[s] = v /\ at[s] \in {"embed", "put", "setReady", "finishOk", "finishErr"}

PhaseOf(st) ==
  CASE st = "none" -> "absent"
    [] st \in {"pending", "retry"} -> "waiting"
    [] st = "running" -> "taken"
    [] OTHER -> st

Queue == INSTANCE JobQueue WITH
  Jobs <- Versions, Workers <- Servers, Clients <- Requests,
  phase <- [v \in Versions |-> PhaseOf(status[v])],
  holders <- [v \in Versions |-> {s \in Servers : InHand(s, v)}]

(* The table and the workers that compete for it implement the queue as    *)
(* long as no request puts a job back that a worker has in hand: between   *)
(* the SELECT and the UPDATE of a claim, and with a server that stops or a *)
(* statement that fails anywhere, no job gets into two hands, none is      *)
(* settled by a worker that does not hold it, and none settled comes back. *)
ImplementsQueue == Queue!QueueSpec

-----------------------------------------------------------------------------
(* Liveness                                                                *)

(* Every queued job is settled: embedded, or failed after its attempts.    *)
Settled(v) == status[v] \in {"completed", "failed"}
JobsSettle == \A v \in Versions : status[v] \in Backlog ~> Settled(v)

(* A version that waits for its embedding becomes searchable or failed.    *)
PendingResolves ==
  \A v \in Versions : embState[v] = "pending" ~> embState[v] \in {"ready", "failed"}

(* Once no more is lost, a job in the queue is settled, also one that a    *)
(* backfill put back after a crash had left it running.                    *)
RevivedJobsSettle ==
  \A v \in Versions :
    /\ crashes + faults = MaxLosses
    /\ status[v] \in Claimable
    ~> Settled(v)
=============================================================================
