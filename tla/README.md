# A TLA+ model of the Vessica knowledge server

The knowledge server (`src/`, Go) keeps entities, artifacts, memories and
relationships of a workspace in SQLite or Postgres, each as a sequence of
immutable versions with an event per version. It serves them over HTTP, embeds
memories in the background, assembles ranked context under a token budget and
moves a workspace from one server to another by snapshots. Several server
processes may share a Postgres database. No process keeps a lock across
statements: correctness rests on a few transactions, unique constraints and
conditional updates. These modules model that and check it with TLC; all of
the safety properties are also proved with TLAPS for all values of the constants.

Run a model from this directory with `tlc -config <Run>.cfg <Module>.tla`, a
proof with `tlapm <Module>.tla`. `PROJECT.json` maps every definition to the
lines it translates.

## 1. Inventory

| Component | State | Operations | What is hard about it | What makes it correct | Module |
|---|---|---|---|---|---|
| Write path (`service.go`, `sqlstore.go`, `http.go`) | `knowledge_events`, version tables, `*_current`, `embedding_jobs`, FTS tables | CreateX, VersionX, SetXState | statements of handlers interleave; retries overlap; a handler stops anywhere | versions contiguous, events and rows agree, a key has one effect, no version lost unseen | `KnowledgeWrites` |
| Embedding queue and worker (`service.go`, `sqlstore.go`, `embedder.go`) | `embedding_jobs`, `embeddings`, `memories.embedding_state` | claim, embed, store, mark, finish; backfill; queueing after an import | several servers, crashes between six statements, discarded errors, retries, requeues of a running job | one owner per job, every job settled, "ready" has a vector of the wanted model, `index_fresh` is true | `EmbeddingJobs` |
| Snapshots (`sqlstore.go`, `http.go`) | the snapshot; `Server.imports` | Export, Import, import status | Export is not a transaction; Import is retried and overlaps; order of events | the destination has the source's versions, or the import says it failed | `SnapshotTransfer` |
| Context assembly (`service.go`) | none; one request | Context | three budgets in four passes, overrides, late reads | budgets kept, explicit first, durable before ordinary, all answered | `ContextAssembly` |
| Retrieval and reranking (`retrieval.go`, `reranker.go`) | none; one request | RetrieveMemories, maybeRerank | half a dozen separate reads; the provider's answer may be anything | only versions that were eligible during the request; nothing that matches is lost; a reranker reorders or rejects what it was sent and adds nothing | `Retrieval` |
| Scope tree (`service.go`, `sqlstore.go`, `retrieval.go`) | `scopes` | CreateScope, Import of scopes, GetScope by id or canonical key, ScopeAncestors | two names per scope, which may clash; parents nobody checks on import; one query per scope while others are created; order gives specificity | ancestors before descendants, all of them, and an end, as long as the table is founded | `ScopeTree` |
| Workflow ingestion (`service.go`) | as the write path | IngestWorkflowEvent | a composed write whose later steps may fail unnoticed; deliveries repeat and overlap | one episode per event; a retry completes what is missing | `WorkflowIngest` |
| Projections and replay (`sqlstore.go`, `replay.go`) | a second store | ReplayEvents, RebuildProjections | order of the events; an interrupted replay | the copy is the source | `EventReplay` |
| HTTP gateway (`http.go`) | `rates`, `imports` in memory | auth, rate window, pagination, readiness | windows; offsets into a moving list | a burst is bounded, nobody is refused early, no item lost by paging | `Gateway` |
| Migrations (`sqlstore.go`) | `knowledge_schema_migrations` | migrate | one transaction before the first request; on SQLite its first statement takes the write lock, on Postgres an advisory lock | applied once | no |
| Go client (`client.go`) | none | one HTTP call each | nothing of its own | - | no |
| Server process (`main.go`) | configuration | start, shutdown without waiting for the worker | shutdown in the middle of a job | - | `Crash` of `EmbeddingJobs` |

How they interact: the handlers of the write path commit a pending job with a
memory version, which the workers of all servers then compete for. The backfill
and the second half of ImportSnapshot write the same job table. Import writes
through the same `eventTx` as the write path, with the events of the snapshot.
Retrieval reads what the write path, the full-text statements and the worker
left, and Context calls it; both expand the scopes of the request first.
IngestWorkflowEvent calls CreateMemory and CreateRelationship. ReplayEvents
fills another store with the events of this one. Every request passes the rate
window. The hazards of the code, each at its line and with
the properties that watch it, are listed in `PROJECT.json`.

## 2. The modules

### KnowledgeWrites, VersionedLog

A request `r` is an HTTP handler; `pc[r]` names the statement it runs next, so
every database statement is one action and anything may happen in between.
`Receive` decodes the call, `ReadState` is the read SetXState makes before
anything else, `Replay*` is the look-up of the idempotency key, `ReadCurrent` the
read VersionX numbers its version from, `Commit` and `Conflict` are `eventTx`
with the three constraints that can refuse it, `Index*` are the full-text
statements of SQLite outside the transaction, `Reply` is the answer, and `Fail`
ends a handler at any statement. `events`, `rows`, `current`, `jobs` and `fts`
are the tables. A retry is another request with the same call. The content of a
version is reduced to three parts: fields VersionX inherits when left empty,
fields it always takes from the caller, and the state.

`VersionedLog` is the abstract promise, an append-only log per object with keys
that take effect once; `ImplementsLog` is the refinement.

### EmbeddingJobs, JobQueue

`at[s]` is the statement the worker of server `s` runs next. The claim is two
statements (`ClaimSelect`, `ClaimUpdate`); embedding, storing, marking and
finishing one each. `tries[s]` is the worker's own copy of the attempts, taken by
the SELECT. Backfills read candidates and queue them in a later transaction;
imports go on to mark and queue version by version. `Crash` stops a server and
restarts it, perhaps with another model; `StatementFails` is a database error the
worker discards, `RequestFails` one that ends a request.

`JobQueue` is the abstract promise: a job waits, is in the hands of one worker, who
alone gives it back or settles it, comes back settled only when a client asks, and
may be lost with its worker. In `ImplementsQueue` a row's `status` gives the
phase, and a worker has a job in hand (`InHand`) from the UPDATE of its claim until
FinishEmbedding, whatever it does to the memory in between.

### SnapshotTransfer

`source` is written to while `ExportRead` runs the queries of Export one by one.
Each import (`stage[i]`, `left[i]`) then goes through the events in the order of
the text of `occurred_at`: look-up (`Check`, or `CheckFails` when it returns an
error, which the code discards), `Apply`, and at the end `Count`. `LocalWrite` is
a client of the destination, `Abort` an import cut short. Instants are hundredths
of a second with the text RFC3339Nano gives them, trailing zeros dropped, because
the order of those texts is what ListEvents sorts by.

### ContextAssembly

The two lists are inputs, in any order. `pass` and `pos` say where the four loops
of Context are; `used`, `artifactUsed`, `episodeUsed`, `instructionKeys`, `taken`
and `omissions` are its variables. Whether an artifact is related to an entity is
chosen at its turn, since `relatedToAny` reads the store that late. A memory has the
`level` of its scope, which no loop looks at, so that one can say which of two
instructions is the more specific.

### ScopeTree

`scopes` is the table, to which `CreateScope` and `ImportScope` add; the rest is one
request for context. `Visit` is one query of ScopeAncestors, `stack` its open calls,
innermost first, and `Return` closes them all, because the code runs no statement
between one return and the next. `ExpandAgain` is RetrieveMemories expanding what
Context has expanded. A scope is called by its id or its key everywhere, so
`Find` has one string for both columns, and where a string calls two scopes a query
returns either. `ImportScope` puts the scopes of the snapshot in any order, since the
text of `occurred_at` may give any, and `orphans` remembers those put before their
parent. `MaxDepth` cuts a walk that has no end of its own.

### Retrieval

One request; `pc` names its next read. `memory` holds the current versions,
reduced to what the ranking looks at, and `Change` writes one between any two
reads; `indexed` says whose text the index has caught up with. `candidates` keeps
each memory as it was read. The text engine, the vectors, the relationships and
the reranker may answer anything they can; the filters, the score (weights in
hundredths, components in thousandths), the order and the treatment of the
reranker's answer are the code's; what an answer leaves out follows it in the order
of the ranking (`Unseen`). `was` remembers every version that was eligible
at some moment of the request.

### WorkflowIngest, EventReplay

A delivery `d` is one request with a workflow event; `pc[d]` is its next statement.
`LookUp` and `Create` are CreateMemory, `Reference` and `Link` CreateRelationship,
`Lose` an error of it that the loop drops, `Redeliver` another attempt. `log` is
`knowledge_events`, whose unique key is what keeps deliveries apart.

`EventReplay` extends it by a second store. `Start` reads the events of the first,
in any order, because ListEvents does not always give the stream's (`SnapshotOrder`);
`Replay` puts one, whose text-index statements may fail unseen (`Rewrite`), `Break` ends
the call with an error, `RebuildProjections` sets the pointers and the index anew. No
route of the server calls either, so nothing writes to the copy beside them. It stands on top of `WorkflowIngest` so that the stream is one the
code has written: memories with several versions, and relationships.

### Gateway

One Authorization header at one server process, and one walk through the pages of
a list. `Allow` and `Refuse` are a request with a valid token in `allow`, `accepted` the times of the accepted ones in order, `Page` a
list handler, `Write` and `TakeOut` what writers do to the list it reads anew.

### The proofs

`KnowledgeWritesProofs`, `EmbeddingJobsProofs`, `SnapshotTransferProofs`,
`ContextAssemblyProofs`, `RetrievalProofs`, `ScopeTreeProofs` and `GatewayProofs` each
extend the module they are named for, `EventReplayProofs` the composition of
`EventReplay` and `WorkflowIngest`. Each stands by itself: the few facts about finite
sets and natural numbers that several need are stated where they are used.

## 3. The runs

| Run | Question | Bounds |
|---|---|---|
| `Writes` | Do concurrent creates, versions and state changes, retried and interrupted anywhere, leave the store consistent, and do they implement `VersionedLog`? | three handlers, each any of ten calls over three objects and three keys, shared between calls, kinds and objects |
| `WritesStatus` (violation) | Does a status change keep the content? No: it writes back what it read before another caller's version | three handlers, three calls on one artifact |
| `EmbeddingServers` | Do two servers share the queue as `JobQueue` promises, how often is a job tried at most, does every job get settled, and does an empty backlog mean that nothing waits? | two servers, two memories, no crashes |
| `EmbeddingRecovery` | What survives a crash or a lost statement, a change of model, a backfill and an import, and what does a backfill repair? | one server, one memory with two versions, one crash or failed statement |
| `EmbeddingStuck` (violation) | Is every job settled in spite of a crash? No: it stays `running` | one server, one memory, one crash |
| `SnapshotImport` | Do exports under writes, retried and overlapping imports give the destination the source's history, or fail? | two objects with two versions, two imports, one failed look-up, one abort, one local write |
| `SnapshotOrder` (violation) | Does a completed import leave the last version current? Not when the texts of two instants sort the other way round | one object, one import |
| `Scopes` | In a founded table, is an expansion complete, in the order scopeScore takes it for, the same the second time, and does it end? | three scopes, a string that may be the id of one and the key of another, a request of up to two names, a snapshot of a parent and a child in any order, four open calls |
| `Retrieval` | Does a request return only what was eligible, lose nothing that matches, and let a reranker reorder or reject and no more? | three memories of four shapes, one write, a text limit and a reranker limit of two, answers of up to two identifiers, one of them invented |
| `Context` | Are the budgets kept, explicit artifacts authoritative, durable memories undisturbed, overrides justified, all items answered? | all lists of up to two artifacts and three memories over eleven shapes, two budgets |
| `Workflow` | Do repeated and concurrent deliveries make one episode with all its references, and does a replay copy the store? | two deliveries, three handlings, two references, one revision, two replays, one failed index statement |
| `Gateway` | Is a burst bounded, is a refusal justified, does paging find every item? | six ticks, windows of two, a limit of two; three items, pages of one and two, two writes |

Why the bounds are enough. The write path coordinates through constraints on
pairs (two drafts of one version, two uses of one key); the third handler lets a
retry or a later version come between such a pair. Entities behave as memories do
without jobs and relationships as artifacts without later versions, so the
instance holds memories and artifacts. `MaxAttempts` is 2 instead of 5: it gives
a first, a middle and a last attempt, and nothing depends on the number. Two
servers suffice for the claim, where only the winner of one UPDATE differs from
the others, and reach the bound of `AttemptsBounded`, one attempt more than
`MaxAttempts`. `MaxLosses` bounds crashes and failed statements together; the
defects found need one. Two imports cover a retry and an overlap. In `Context`
the budgets 10 and 5 with costs 1 to 4 make each of the three limits bind alone
and together. In `Scopes` a chain of three has a scope that is neither first nor
last; three scopes are enough for a circle through an import and for one through a
clash of names, and four open calls are one more than a founded table of three needs.
In `Retrieval` two shapes have one score, one found by its words and one by
its vector, and limits of two leave a third memory out of the search, the
reranker's candidates or the answer; the constants stand for 50, 12, .08 and the
three candidates below which nothing is reranked. What is written after the last
read of memories is not enabled: the request no longer sees it. In `Workflow` the
third handling is a retry beside or after the two overlapping ones. A replay
starts once they have ended: it reads the events of the first store in one query,
so that only what that store holds then can matter. In `Gateway` a window of two
ticks has an inside and an edge, and the walk may wait a whole window for a page.

**Deadlock** is checked in `Writes` and `WritesStatus`, where a state without a
next step must be one in which every handler has answered (`Served`). In the other
runs it is not: clients may have nothing more to ask, the worker's queue may be
empty, one request has been answered, or the clock of the instance stops.

**Fairness.** `EmbeddingJobs` assumes weak fairness of each worker's next step
and of the end of a backoff. The worker is a loop on a ticker, its request to the
provider has a timeout of 30 seconds, statements return or fail, and
`available_at` is a point in time. Nothing is assumed of clients, crashes or
failures. `SnapshotTransfer` assumes that a handler that has taken a request runs
on. Nothing else is fair. The newer modules state no liveness: in a founded table the
walk of `ScopeTree` ends, since by `NoReentry` its open calls are never more than the
rows (`WalkNoDeeperThanTable`) and a name comes off the list whenever they close; in
other tables it need not end (section 4). The other requests run a fixed list of
statements.

**Conditions in the properties.** Some properties hold only while no error was
discarded (`faults = 0`); each says so, and the runs that end in a violation show
what happens otherwise. `JobsSettle` and `PendingResolves` are checked without
crashes (`EmbeddingServers`) because with a crash they fail (`EmbeddingStuck`);
`RevivedJobsSettle` says what a backfill restores. `AttemptsBounded`
grants an attempt more for each other server, whose copy of the count may be old,
and for each import: section 4 has the sixth attempt. `ImplementsQueue` and
`SingleOwner` are checked without backfills and imports, which may queue a job again
under the worker that has it; their theorems have that as a hypothesis, and hold
with crashes and failed statements too. `HistoryPreserved` needs look-ups that do not fail and
instants whose texts are in order. `ReadyHasVector` excuses failed statements, and is
checked where snapshots bring no "ready". `AncestorsFirst`, `ExpansionStable` and
`NoReentry` speak of tables that are `Founded`: no string calls two scopes and every
scope is put after its parent. Neither CreateScope nor Import sees to that; the run
reaches the other tables too, and section 4 says what happens in them.
`RerankReordersOrRejects` leaves open what becomes of the candidates a valid answer
omits, and `OverrideHasWinner` which of two instructions is returned, because there
the documentation asks for something else than the code does (section 4).
`ReplayReconstructs` needs the versions of an
object in order, `RebuildRepairs` does not; of the index it speaks when no statement
of the rebuild's own was lost. `NoItemSkipped` holds as long as
nothing leaves the list. `MatchedIsRanked` names the three ways in which a
memory that matches may be left out.

**Types.** Each module says in `TypeOK`, or in the comments of its variables, what
it keeps. The type invariants of `KnowledgeWrites`, `EmbeddingJobs`, `SnapshotTransfer`,
`ContextAssembly`, `ScopeTree`, `Retrieval` and `Gateway` are proved (section 5) and take no
room among the runs.

## 4. Where the code and its documentation part

`PROJECT.json` quotes the lines under `findings`.

1. A status change reverts content committed after its first read (`WritesStatus`).
2. A job whose worker stopped stays `running`; no claim selects it (`EmbeddingStuck`).
3. Events are ordered by the text of their time; a completed import may leave an older version current (`SnapshotOrder`).

The others need no run of their own. They come back with
these changes to the instances that are kept:

- ScopeAncestors recurses without end. A circle of parents is closed in two ways.
  An imported child may precede its parent, which Import does not look for
  (sqlstore.go:946); a client then creates the missing parent below its own child.
  And a scope may get an id that is another one's canonical key (service.go:117):
  GetScope answers with either row (sqlstore.go:239), and a scope whose parent is
  named by that string may turn out its own ancestor. `Scopes` with `Founded` left
  out of `NoReentry`; with only `orphans = {}` or only `Unambiguous` in its place TLC
  shows either way by itself.
- The reranker "can reorder or reject IDs" (OPERATIONS.md:80), and its prompt asks it
  to "Omit irrelevant IDs" (reranker.go:37); maybeRerank appends what the answer
  omits, in its former order, so that nothing is rejected (retrieval.go:245).
  `Retrieval` with `MaxAnswer = 1` and the invariant
  `applied => Len(results) <= MaxAnswer + Cardinality(Unsent)`: one identifier is
  answered for two candidates, and both are returned.
- "A more-specific applicable instruction replaces a broader instruction"
  (service.go:669, part of every response); the loop keeps the first in rank, and
  the scope is a tenth of the score. `Context` with
  `ShapeOf(x).level >= ShapeOf(o.item).level` beside `SameKey` in `OverrideHasWinner`:
  a broad instruction ranked first replaces a specific one.
- Importing again marks embedded versions pending and queues nothing, and the
  index is reported fresh (service.go:564): `EmbeddingStuck` with
  `WriteStates = {}`, `Imports = {i1, i2}`, `SnapshotState = "not_configured"`,
  `MaxCrashes = 0` and the invariant `FreshMeansSettled`.
- A finishing worker overwrites a backfill's requeue (sqlstore.go:468): `EmbeddingStuck`
  with `Backfills = {b1}`, `MaxCrashes = 0` and `FreshMeansSettled`.
- A job whose five attempts have failed is put back for a sixth, though
  OPERATIONS.md:84 has it "`failed` after five attempts": the UPDATE of a claim tests
  the status and not the count its SELECT read, and another server may have run a
  whole attempt in between (sqlstore.go:455, :462): `EmbeddingServers` with
  `MaxAttempts` alone as the bound in `AttemptsBounded`.
- A failed look-up skips an event, and the retry applies it last, over a newer
  version (sqlstore.go:943): `SnapshotOrder` with `Stamps = {21, 22}`,
  `Importers = {i1, i2}` and `MaxFaults = 1`.
- VersionMemory accepts any type; Context spends tokens on such a memory and
  mentions it nowhere (service.go:331): `Context`, with the condition on types in
  `AnsweredOnce` left out.

Seen while reading: the error of PutEmbedding is discarded, so a job completes
without a vector; explicit versions of artifacts are matched against current
versions only; an answer that turns invalid after some ids leaves their "reranker" component in the explanations of the results it
falls back to, because the map is shared; on SQLite
SearchEmbeddings ignores its limit; ListRelationships pages a list without an
order; an import that skips its events still answers with the counts of the
snapshot.

## 5. What is proved

Every invariant and action property the runs check, and both refinements, is a theorem for all values of the constants that meet the modules'
named `ASSUME`s, which every run evaluates; some have a hypothesis of their own,
named below, where the code breaks the property without it. `PROJECT.json` lists
them under `theorems`. Few of the invariants are inductive. What was added to make them so
was checked on the runs' instances first, and it is what one has to know about the
code to see why it is right.

**`KnowledgeWritesProofs`**

- `TypeCorrect`. `TypeInv` adds `LocalsReady`, what a handler's variables hold at
  each statement: without it, nothing says that the draft committed has a type.
- `ContiguousVersions`, `EventsAndRowsAgree`. A draft is numbered from a read
  made long before the commit. `StoreInv` adds `DraftInOrder`: it is at most one
  version ahead of the current one, since pointers only grow. `CommitsSuccessor`
  is the heart: what the constraints accept is exactly the next version, because
  every version up to the current one is taken.
- `AnswersCoverEffects`. `EffectInv` says of every handler which event and row
  its commit left (`Recorded`), and what its answer shows (`Covered`).
- `VersionsBuildOnPredecessors`. `LineageInv` follows the content from the read
  through the draft to the row; `CommitAddsOnTop` says that no commit of another
  handler slips a version below a draft that can still be accepted.
- `WrittenIsSearchable`. `IndexInv`: an object that is not in the index has a
  writer between its two full-text statements, or one that missed one of them.
- `WritesImplementLog` is the refinement. `Commit` is the only action that maps to
  a step of `VersionedLog`; `StoreInv` supplies what that step requires.

**`EmbeddingJobsProofs`** is about any number of servers, memories, requests,
crashes and failed statements, except where a hypothesis says otherwise.

- `QueueTypeCorrect`; `KnownOnly` beside it: whoever holds a version holds one that
  exists.
- `OwnersStaySingle`: a job has one owner as long as no request queues it again
  under its owner (`RequeuesOwned`, which the code permits: it is among the
  defects of section 4). `OwnedTaken` is what makes it inductive: an owned job
  cannot be claimed. `SingleWorkerPerJob` is the case without requests, where the
  hypothesis follows.
- `OrphansBounded`. The jobs counted are the `Loose` ones: running, and nobody
  left who would finish them. A worker about to write "failed" already counts, for
  that statement may come after another worker's.
- `ReadyVectors`, if snapshots do not bring "ready" without a vector
  (`SnapshotState # "ready"`): `VectorInv` ties each worker's statement to the
  vector it has stored.
- `BackfillHidesStale`, with one server (`OneServer`): servers with two models
  store each other's.
- `AttemptsStayBounded`, for any number of servers, finitely many of them as of the
  imports. `Budget` is the idea: the attempts of a job, the claim it waits for and the
  workers that would still put it back (`Retriers`) stay within the limit, since an
  attempt uses up the claim and a retry a worker's old copy of the count.
- `FreshIndexIsSettled`, without imports, without requeues under a worker and
  while nothing was lost: those are the three ways in which the code breaks it
  (section 4 and `EmbeddingStuck`). `SettleInv`: a version that waits has a job in
  the queue, or a worker about to mark it failed.
- `QueueImplemented`: as long as no request queues a job again under its owner, the
  table and its workers implement `JobQueue`; `UnrequestedQueueImplemented` is the case
  without requests, where the hypothesis follows. `OwnerInv` says that a job is in one
  hand (`OneHand`), so that the steps of a worker are those of its only holder, and
  the UPDATE of a claim, late as it comes, finds a job nobody holds.

**`SnapshotTransferProofs`**

- `TransferTypeCorrect`; `RowsAreFound`: since the stream is read before the tables
  (`ExportInv`), the snapshot has the row of each of its events.
- `CompletedIsComplete`: with look-ups that answer, an import has what it has
  passed (`ProgressInv`). With one that failed, the counts decide: while no client
  writes, everything at the destination is the snapshot's, and as many means all
  (`AsManyMeansAll`, a comparison of cardinalities).
- `TornSnapshotsAreRefused`: by the same counts (`CountInv`), some table has a row
  too many.
- `RepeatsAreHarmless`, an action property: an event applied again, or looked up
  before another import applied it, meets its own key and changes nothing.
- `HistoryStaysWhole`, if the texts of the instants sort as time does
  (`InTimeOrder`; `SnapshotOrder` shows why): an import whose turn it is has passed
  every earlier version of the object, so each one it applies is the successor.
  `TextsInOrder` and the lemmas before it do the arithmetic of RFC3339Nano's
  dropped zeros for all instants.

**`EventReplayProofs`** is about `WorkflowIngest` and the copy.

- `EventsHaveOneEpisode`, `AnsweredMeansComplete`. `IngestInv` ties the keys in
  `log` to the rows they were taken for (`KeyInv`), the rows to one id for each event
  (`UniqueInv`), and the position of a handling to the references in place before
  it (`ProgressInv`).
- `ReplayIsFaithful`, `RebuildIsFaithful`. While replaying, the copy holds the rows
  of the events copied (`CopyLogged`); in order, its pointers are the newest of them
  (`InOrder`), also after a break and a second start. For the rebuild the order is not needed.

**`ScopeTreeProofs`**, for any table, snapshot and request

- `TreeTypeCorrect`, of every table.
- `WalkNeverReenters`, `WalkNoDeeperThanTable`, `ExpansionListsAncestorsFirst`,
  `SecondExpansionAgrees`, of tables that are `Founded`: of the others nothing is
  proved, because it is not so (section 4). A table that is founded has always been
  (`FoundedBefore`), so that the invariant may be conditional (`TreeInv`). `Ranked` is
  the idea: some numbering puts every scope beyond its parent, and each new row extends
  it because its parent was there first and its names call nothing else. Hence the
  stack never repeats a scope and has no more calls than the table has rows.
  `FollowsFirst` keeps the two lists of a request in one order while rows are added
  beside it.

**`ContextAssemblyProofs`**, for any lists, costs and budgets

- `ContextTypeCorrect`. `SpendInv` adds that artifacts are part of what is spent;
  without it the explicit ones could overrun `artifactUsed`.
- `OverridesHaveWinners`. `KeyInv` ties the keys noted to the instructions returned
  and places these before the current position. It also has what the code does beyond
  the property (`FirstIsReturned`): the first in rank wins.
- `EveryItemIsAnswered`. Each item has one loop that deals with it (`Home`); what
  that loop has passed is returned or omitted (`AnswerInv`).
- `BudgetIsKept`, `ExplicitIsAuthoritative`, `DurableComesFirst`. The counters are
  sums of the costs of what is returned (`SumInv`), and what did not fit did not
  fit beside these items (`CrowdInv`).

**`GatewayProofs`**: `GatewayTypeCorrect`; `BurstsAreBounded` and
`RefusalsAreEarned` for every limit and length of a minute. `BeforeInv` is what is missing in
the window itself: the minute before it saw no more than the limit either.
`WalksAreWhole`, for lists and pages of any size: what is behind the cursor and
untouched has been served (`ServedInv`).

**`RetrievalProofs`**, for any number of memories, shapes and limits

- `RetrievalTypeCorrect`; `ResultsWereEligible`. `EligibleInv`: every candidate was
  eligible when it was read, and what is eligible now is in `was`, so that a
  memory read again after a write needs nothing else.
- `MatchesAreRanked`. `SteadyInv` follows a memory nobody touches: the index has its
  text, the candidate is the memory, and the text search has found it unless its limit
  is used up. `ListedInv` says what each list is made of.
- `RerankersReorderOrReject`, from what the code does beyond it (`OnlyReorders`): it
  loses none of what the answer omits. The answer is a list and what it leaves out, in the order of
  the ranking. `PlaceIs` and `CutIs` say what `Place` and a cut do for lists of any
  length, and `OnlyTheFirstMove` that a list which keeps the order of the rest leaves
  the places of the rest alone.

Two things recur. An induction over natural numbers is a least counterexample
(`LeastNatural`). And the prover cannot unfold the recursion in `MapThenSumSet`, so the
lemmas on sums at the head of `ContextAssemblyProofs` start from the existence of the
sum over each subset (`SumExists`) and derive how a sum grows, splits and compares.

**Only model-checked**

- Liveness (`JobsSettle`, `PendingResolves`, `RevivedJobsSettle`,
  `RetryCompletes`): it needs fairness and `ENABLED`.
- The properties of the violation runs, which do not hold.

## 6. What is left out

Texts and JSON; size and range checks of request bodies; which token fits which
route; reads that change nothing (single objects, histories, plain search) and the
readiness report; the HTTP requests to the embedding and reranking providers
beyond what they may answer; the explanations of results and `index_fresh`; the
wording of errors. A memory stays live or not as written: what a date of validity
does by passing is, for `Retrieval`, one of its writes.

Not modelled: the migrations, one transaction of `IF NOT EXISTS` statements before
the server takes requests, which a model would only restate; and the Go client,
one HTTP request per call without retry or state, whose callers' retries are the
repeated calls of `KnowledgeWrites`.

## 7. Plan

What could follow:

1. A weaker abstract queue, in which a client may queue a job again under its holder
   and the holder's last statement then settles it: what the code really promises
   when backfills and workers overlap, and the place to say what a fix would add.
2. `Gateway`: that the window of `allow` implements a counter of the accepted
   requests of a minute, of which `BurstsAreBounded` and `RefusalsAreEarned` are the
   two directions.
3. The Go client and the migrations, once they have state of their own.
