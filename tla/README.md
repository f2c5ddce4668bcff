# A TLA+ verification of vectorlink

vectorlink indexes the documents of versioned databases for semantic and
full-text search. A client pushes the changes of one commit of one branch of a
*domain* (a database); the server embeds the documents, writes them into a Lance
dataset and tags the resulting version with the commit. Searches name a commit
and read the tagged version.

This directory models what can go wrong in ways tests hardly reach: what
concurrent requests, failures and restarts do to one domain, to the files and
tables behind it, and to the data directory that server processes share. File
names below are relative to `src/src/`.

## 1. Inventory

| Component | State it keeps | Operations | Properties that make it correct |
|---|---|---|---|
| Push admission and hand-over (`service/mod.rs` `push_stream`, `store/lance/commit.rs`, `store/branch.rs`) | reservations, cancellation tokens, pipeline locks, task table | reserve (409), fork, register and cancel the previous push, wait for the lock (503), spawn, monitor | one push per (branch, commit); one writer per branch; everything reserved is released; every push is answered |
| Indexing pipeline (`service/mod.rs` `io_run_index_pipeline_stream`, `store/lance/write.rs`) | accumulated deletes and rows, write handle | receive, embed, delete, append, build indices, tag, cache, clean up | Complete means that the commit shows what was pushed |
| Body reader (`http_api/handlers.rs` `handle_push`) | line buffer, channel to the pipeline | read chunks, parse lines, send operations | a truncated body is not taken for a complete one |
| Lance dataset (`store/lance/mod.rs`; the library is external) | versions per branch, tags | open or create, fork, append, delete, tag, prune | tags never dangle, snapshots never change |
| Commit tags and last-indexed (`store/lance/commit.rs`) | tags on disk, cache of the newest commit per branch | tag, `/assign`, derive from disk, cache | the cache agrees with the disk |
| Deletion (`store/lance/stats.rs`) | every map above | DELETE `/branch-index`, DELETE `/domain` | nobody is left with a lock, a reservation or a tag of something that is gone |
| Crash and restart | the dataset survives, the maps do not | restart | what is derived from disk is what was reported |
| Compaction (`store/lance/commit.rs` `io_retag_with_delta_forks`) | rebuild branches, moved tags | fork, replay, retag, clean up | a retagged commit shows the same documents; every tag stays readable; an interruption loses as little as possible |
| Index files and rollup (`store/lance/index.rs`, `rollup.rs`, `mod.rs`, `store/vector_index.rs`) | index segments, `_indices` and its backup, delta counts | index pass, cascade, hide, clean up, prune, recover | a tagged version is fully indexed and its files exist |
| Commit resolution and search (`service/mod.rs`, `store/lance/search.rs`, `dedup.rs`, `layeridx`) | none of its own; shares the handle cache and the last-indexed cache | resolve a commit or its nearest ancestor, open its snapshot, search, collapse chunks to documents, fuse ranks, page | a request sees one commit and the right one; its page is a page of the whole ranking |
| Entity resolution (`store/lance/resolve.rs`, `service/mod.rs`) | none | `/duplicates`, `/candidates`, streamed `/embeddings` | no near pair is missed, none is reported twice |
| Embedding client and cache (`embed`) | embedding cache on disk, shared by all requests | look up, batch, retry one by one, store, prime | no text gets another one's vector; a bad text costs only its own document |
| Chunker (`chunk/mod.rs`) | none | split a text | chunks leave out no token and fit the model's window |
| Task table, handle cache | bounded maps | insert, evict, refresh | a live entry is not evicted; a handle shows the dataset on disk, and where a failure leaves it behind, an older version of it |
| Statistics and integrity check (`store/lance/stats.rs`, `integrity.rs`) | none of their own | count, compare | every domain is counted once; no false alarm |
| Configuration and processes (`config/mod.rs`, `main.rs`) | locked embedding parameters, domain settings, cache lock, number of running tasks | start, probe, drain, exit, drop-store | the vectors of a store are of one model; one process writes; settings and running pushes survive |
| HTTP routing, in-memory store, load tool | none of their own | parsing, test stub | - |

How they interact. An axum handler runs `push_stream`, which makes the
reservation, forks the branch, registers a cancellation token, waits for the
pipeline lock of the branch and spawns the pipeline. The handler then reads the
body and feeds the pipeline over a bounded channel; the pipeline takes the
domain guard, writes, tags and updates the caches; a monitor task waits for it.
Every request is a tokio task of its own; they share the concurrent maps of
`LanceStore` and the dataset on disk.

What is hard here: several maps and a directory that no common lock protects;
mutexes that live in a map which DELETE `/domain` empties; tokens that are
registered and removed by branch name; handlers that disappear when their client
does; pipelines that fail or panic between a write and the tag; a cache that must
agree with the disk; a restart. `PROJECT.json` lists these as hazards, each at
its line and with the properties that would notice.

## 2. Modules

| Module | Content |
|---|---|
| `LanceDataset` | constants, the dataset as data: histories, tags, what each store call does to them, which versions cleanup may prune, which tag is the newest |
| `PushPipeline` | one action per step of a push: handler, spawned pipeline, body reader, panic monitor |
| `DomainStore` | extends it with `/assign`, `/last-indexed`, the two DELETE requests, dropped requests and crashes; the specification, its fairness, its properties and the refinement mapping |
| `CommitIndex` | the abstract specification: what a domain promises to readers of commits |
| `MCDomainStore` | the requests that clients may send in each run |
| `PushIngest` | the inside of one push, from the chunks of its body to the rows: reader, two bounded channels, micro-batches, count check, write phase |
| `MCPushIngest` | the bodies that clients may send in each run |
| `Compaction` | delta-fork retagging with its interruptions, and the startup cleanup |
| `MCCompaction` | symmetry for its runs |
| `Search` | reads of one domain during pushes, DELETE `/domain` and restarts: resolution, snapshots, ranking, paging |
| `MCSearch` | commits, rankings and read requests of its runs |
| `Embedding` | chunker, cache, batches and retries, scatter into rows, `prime-embed-cache` |
| `Resolution` | scans of a snapshot: duplicates, candidates, the stream of embeddings |
| `MCResolution` | documents and scopes of its runs |
| `Rollup` | the base-3 arithmetic of the cascade, and which segments a merge takes |
| `IndexFiles` | extends it: segments, manifests, hiding and pruning of index directories, the integrity check |
| `Tables` | the handle cache and the statistics counted over it; the task table |
| `Lifecycle` | processes on one data directory: start, settings, drain, exit |
| `MCRestart`, `MCProgress`, `MCMaintenance`, `MCReads` | composites for the runs of these names |
| `LanceDatasetProofs` | lemmas on the dataset operators |
| `DomainStoreProofs` | type correctness, tags, snapshots, the refinement; mutexes, one writer, reservations; what a push that reports Complete has achieved |
| `IngestProofs` | from the body of a push to its rows; the count check |
| `SearchProofs` | what reads see, which commit they are served, when they get a 404 |
| `CompactionProofs` | what compactions keep, and what an interruption may lose |
| `IndexFilesProofs` | index files, coverage of tagged versions, the integrity check |
| `EmbeddingProofs` | vectors and texts, chunks, what failures cost |
| `ServerProofs` | handle cache, statistics, task table (`Tables`); start, settings and shutdown of processes (`Lifecycle`) |

### State and code

| Variable | In the code |
|---|---|
| `hist`, `tags`, `pruned`, `clock` | the Lance dataset on disk: versions per branch, tags with `created_at`, versions removed by `io_cleanup_aggressive` |
| `incarn` | how often the directory was removed: a write handle of an earlier incarnation fails |
| `seen` | version shown by the handle in the dataset cache, 0 if there is none |
| `inflight` | `inflight_commits` |
| `lastIdx` | `last_indexed` |
| `epoch`, `locks`, `guards` | `pipeline_locks` and `domain_guards`; the epoch tells a mutex from its successor after the map was emptied |
| `token`, `cancelled` | `pipeline_cancel_tokens`, and which tokens have been cancelled |
| `task` | the task table |
| `pc`, `req`, `lk`, `gd`, `inc`, `wr`, `ver`, `res` | program point and local variables of a push: request, mutexes looked up, write handle, work, version to tag, result |
| `body`, `errDue` | how the body ended, and an error that the reader has yet to record |
| `apc`, `areq`, `aep`, `aval` | program point and local variables of the other requests |

An action is the code between two points where another task can interfere: an
`await` on a mutex, or a change of a shared map or of the dataset. A push goes
through

    Reserve -> [Fork] -> Register -> AcquireLock -> Open -> EndOfInput
      -> [Delete] -> [AppendRows] -> BuildIndex | Noop -> TagCommit
      -> CacheAndClean -> Unregister -> RecordResult -> Release

with a way out to `unregister` from every step of the pipeline (`Fail`), and
`LockTimeout`, `ForkFailed`, `Disconnect`, `Panic` and `Crash` beside it. The
body reader runs concurrently and decides whether the input ends complete,
aborted, malformed or broken.

`PushIngest` opens up what `PushPipeline` does in `EndOfInput`, `Delete` and
`AppendRows`, for one push and without the world around it. The body is a sequence
of lines of three units (first part of the text, rest of it, newline), a chunk is
any run of units; `got` and `parsed` say how far reader and parser are, `chan` is
the operation channel, `progress` the number of lines in the response channel,
`batch` the micro-batch, `docsSeen` and `dels` the two counters of the count check.
`report` says that the pipeline waits to send a progress line, where it does not
look at its cancellation token.

`Compaction` models `io_retag_with_delta_forks`, which no route calls at this commit
(the store's tests do; its startup cleanup runs at every start). `comp` holds the
locals of the running compaction: the sorted commits, the versions planned for
intermediate (`plan`) and boundary (`bounds`) commits, and the tags still to be
moved (`todo`). A run is

    StartCompaction -> ReplayCommit* -> ReplayDone
      -> (RetagDelete -> CreateTag)* -> PhaseDone
      -> (MigrateDelete -> CreateTag | MigrateSkip)* -> PhaseDone
      -> DropOldRebuilds -> FinishCompaction

and may end early with `ReplayFails`, `RetagFails` or `Crash` and `Startup`.
`pushed` is a history variable: what each commit showed when it was pushed. Tags
are moved in two steps because that is where a crash hurts; deletions of several
branches or tags are one step with an arbitrary subset that succeeds, which covers
a crash in the middle. A push is one step there, of one document. Pushes do not run
during a compaction: the comments of the code require it, and nothing else would
make sense of a list of tags read once at the start.

`Search` composes a reader with the writers of a domain. The writers are short
(`PushBegin` to `PushCache`, one push at a time): what matters of them here is that
rows, tag, handle and cache entry change in separate steps. A request goes through

    Ask -> [Derive] -> [Latest] -> ListTags -> [[Derive] -> WalkAncestors]
      -> [Probe] -> Scan -> [Fetch]

where `Derive` is the miss of the last-indexed cache. `known` is the tag list that
resolution works on, `served` the commit it settles for, `got` the row set of each
snapshot the request opens, `page` its answer; `before` and `gone` are history
variables (the commits indexed when it was sent, a DELETE since). `Nearest` and
`Matching` give the order of all chunks by distance and by score; which vectors and
scores produce it does not matter. What the answers should be is defined from the
pushes alone (`Content`, `ByBestChunk`).

`CommitIndex` says what a domain is for: a commit shows nothing until it is
published, then always the same branch and rows, until a client orders its branch
or the domain deleted. `DomainStore` implements it: `shown` is the tag of a commit
with the rows of the version it names (`ShownByTag`), `orders` are the DELETE
requests under way with the branches they concern (`DeletesUnderWay`). Only the
tag step of a push or an `/assign` publishes, only the tag steps of the DELETE
requests retract, and everything else - forks, writes, prunes, caches, crashes - is
a step that readers of commits cannot see.

`Embedding` follows a sub-batch of documents, or a search, through `Lookup` and
`Reply` (or `Blip`, a failure that is not the text's fault) for each batch, each
individual retry after a failed batch, and each role, then `Scatter` and `Return`;
the caller, which may be cancelled in between, shares `cache` with the others. The
vector of a text is the triple that determines it (model, prefix, text), so a vector
in the wrong place is seen as such. A chunk has a range of tokens and the text that
`Slice` cuts out of the document for it: `Split` are the tokens that begin inside a
character, and a slice takes a character whole (`snap_to_char_boundary_down`, `_up`), so
its text may be longer than its range.

`Resolution` computes the lists of `/duplicates` and `/candidates` in one step each from a
snapshot that does not change; what may come between is an error, of the scan or of the
reads after it (`Override`, `FetchDetails`), or, in the stream, the pace of the client and
rows that the producer skips without a record (`skips`). Its properties define the right
answers from the distances of documents alone.

`IndexFiles` has manifests per branch that name segments; a pipeline goes through

    BeginPush -> AppendFragment -> IndexFragments -> [Cascade] -> TagIndexed
      -> [HideIndices] -> Sweep -> [RestoreIndices] -> Collect -> Prune

and `odd` remembers the two cases in which the code's own precaution fails: a
cleanup policy that cannot be built leaves the directory hidden until the next
start (`stranded`), and a second process undoes the hiding at its start
(`unhidden`), because recovery runs before the read-only probe. The integrity check
reads `_indices` and `tree/<entry>/_indices`, one level deep; `nested` are the branches
whose name has a slash, for which that is not deep enough (`Found`).

`Tables`: opening a dataset and inserting its handle are two steps (`OpenFresh`,
`InsertHandle`), as are the removal of a directory and of its handle, and the commit of a
version and the refresh after it. `WriteFails` ends a push between the two: the delete,
the append or the index pass that fails after another has committed, and the refresh
itself. `behind` are the domains whose handle was left at an older version that way,
`raced` those with a handle that an overtaken open inserted. The
statistics request is a reader of the same cache: `CountCached -> DiscoverOnDisk ->
[SkipCached] -> OpenListed* -> Report`; a request for one domain skips the second
read of the map. Ages of tasks are ticks up to one more than the limit.

`Lifecycle`: `Boot -> Verify [-> LockParams -> LockWritten] -> LoadSettings ->
OpenCache -> Listen -> Signal -> Drained | DrainTimeout -> Exit`, or `Kill`
anywhere. A write of a file is a truncation and a write. `past` holds what the
properties exclude, and nothing else depends on it.

### Abstractions

- One domain, except in `Tables` and `Lifecycle`. Nothing of another domain is
  shared but the size limits of the tables, the settings file and the directory.
- A row is `<<document, writing push>>`: content and vectors matter only in
  whose they are. A document either is embedded or is skipped after an error.
- In `PushPipeline` the operations of a push fit into one micro-batch; several
  micro-batches are the subject of `PushIngest`. There a commit names a document
  once (it is a diff), an embedding sub-batch is one document, and an operation
  received in the same poll as a cancellation is taken as received before it.
- The FTS and vector index versions of a push collapse into one version; the
  versions in between are neither tagged nor observable.
- The handle in the dataset cache may be evicted at any time, so a fork without
  an indexed parent takes either the version of the cached handle or the newest.
- DELETE `/domain` empties the maps one after the other; the model does it in
  one step, and one epoch stands for the generations of both mutex maps. A
  directory that cannot be removed stays as it was.
- `Release` drops the reservation and the lock in one step (the code drops the
  reservation first; a push in between would wait for the lock).
- In `Compaction` the second component of a row is its content. Equal rows
  collapse, so duplicates of the same content are not counted. Only the main branch
  is pushed to, and creation times play no part.
- In `Search` commits are a chain on the main branch and pushed in order, rows that
  a repeated push writes again are one row, no two chunks are equally near, the
  vector index is exact, the full-text index exists at every tagged version, and
  no read has a type or id filter. One reader: reads share only caches that they
  fill with what is on disk. `/similar` re-sorts its page after it has set the
  distance of exact copies to 0: without equal distances that changes nothing.
- Writing through a handle whose directory was removed fails.
- The read-only mode is a matter of `Lifecycle`; the other modules are about the
  process that writes.
- `CommitIndex` promises nothing about how much a DELETE that fails has deleted,
  and that a commit is shown says nothing about its rows being those of the push:
  that is `CompleteIsPublished`.
- `Embedding`: the provider is a function of its input apart from `Blip`, a
  rejected text is one with a token in `Bad`, and rows are collected in a set. Tokens are
  those of the chunker, which counts without special tokens (`encode(.., false)`) on the
  whole document; the provider tokenizes each slice again, with them, and what it counts
  is not modelled.
- `Resolution`: vectors are points on a line, Lance's `nearest` is exact, the order
  of equal distances is that of the ids or its reverse. Clustering distances and
  the semaphore of heavy scans are left out. A row that a stream skips (a column that
  is missing, a vector that cannot be read) is any row, up to `MaxSkips` of them.
- `IndexFiles`: the pipelines of a domain exclude each other, so there is one
  record for the one that runs; the vector and the clustering index are one.
- `Tables`: a dataset has one row per write. Counts of branches, commits and
  distinct documents are left out. `IndexFiles` treats a merge as Lance documents it: the
  n most recent segments become one.
- `Lifecycle`: a model name stands for provider, URL, name and dimension. A push is
  its settings write, its counter and its vectors; slot 2 has no prefix overrides.
- Composites (`MCRestart`, `MCProgress`, `MCMaintenance`, `MCReads`) put components without
  common state into one run. A behaviour exercises one of them (`part`), which loses
  nothing for invariants. For the liveness properties of `MCProgress` fairness is that of
  the part that runs; the other part stays in its initial state, in which no push has
  been sent and no body read, and its properties say nothing.
- When the client disconnects, the HTTP server drops the handler's future at the
  point where it waits. A spawned pipeline is not affected.

## 3. Runs

Bounds: up to three pushes, two other requests, two branches, three commits, one
document, one crash. Three pushes are the least with which a third can meet what
two others left behind (a token, a lock, a reservation). One document is enough
because operations of different documents do not interact in this part of the
code; each request set holds an insert and a change or a deletion of it. Clients
pick requests freely and may repeat them. Counters are bounded by the constants
named `Max...`. Runs do not check for deadlock: when all requests have ended, the
server is idle. Pushes, other requests, processes and contents are
interchangeable, so the safety runs use symmetry; the liveness runs do not.

| Run | Environment | Shows |
|---|---|---|
| `Deletes` | two pushes on two branches and two of the other requests; storage errors, disconnects, no crash (`RequestSpec`; 2.3 million states) | `TagsResolve`, `LockDiscipline`, `CompleteIsPublished` (until the domain is deleted), `ImplementsIndex` |
| `Restart` | *domain*: three pushes on main with broken or malformed bodies and aborts; cold reads; a crash. *starts*, *stops*: two processes and up to three starts in three environments on three kinds of directory, pushes that set clustering, panics, signals, one kill (1.5 million states together) | `DomainTypeOK`, `CacheCoherent`, `PushedIsLastIndexed`; `StartGuards`, `SettingsKept`, `DrainKeepsJobs` |
| `Progress` | *domain*: two pushes that contend, or push one commit to main and to its fork; storage errors, failing embeddings, panics, one crash. *body*: four bodies of three lines, both response modes, with and without a declared count, channels of capacity 1, micro-batches of 2; the stream ends, breaks or is cut inside a character anywhere; documents fail, the push is cancelled, the client leaves (77 thousand states together) | `OneWriter`, `ReservedOnce`, `EveryPushAnswered`, `ReservationReleased`, `TaskTerminates`; `PushMatchesOps`, `CountChecked`, `PushEnds` |
| `Maintenance` | *retag*: five pushes (writes, deletions, empty commits) of one document with two contents, two compactions, three names for rebuild branches, one crash or failure. *index*: two pushes, on main or a fork, after none or eight earlier ones, with two errors, crashes, branch deletions or second processes, and an integrity check, with flat and nested branch names. *handles*: two domains, room for one handle, two readers, pushes that fail after any commit. *count*: statistics beside a reader. *tasks*: five tasks, room for two (1.8 million states together) | `MaintTypeOK`; `TagsReadable`, `DocumentsKept`, `LossBounded`; `IndexesBacked`, `TaggedFullyIndexed`, `NoFalseAlarm`; `HandlesCurrent`, `StatisticsExact`; `StatusKept` |
| `Reads` | *search*: three commits (an insert, a change, a deletion), documents of one to three chunks, 24 requests; pushes and reads fail, one DELETE `/domain`, restarts. *embed*: two requests, models with and without prefixes, a rejected text, a token inside a character, two transient failures, a restart, priming. *scan*: corpora of three documents with up to three chunks at three places, five scopes, two k and thresholds, failing reads, skipped rows (1.3 million states together) | `ReadsTypeOK`; `SnapshotReads`, `ServedNearest`, `NotFoundIsTrue`, `PageExact`; `OwnVectors`, `IsolatedFailures`, `EveryTokenIndexed`; `DuplicatesExact`, `CandidatesExact`, `StreamComplete` |
| `VCancelled` | three pushes of one branch, no fault | violates `PreviousPushCancelled` |
| `VRepush` | a push and its repetition, one crash | violates `OneCopyPerDocument` |
| `VDisconnect` | a client that leaves while it waits | violates `ReservationReleased` |
| `VTruncated` | two Changed documents, micro-batches of 1 | violates `TruncatedRejected` |
| `VChanged` | three pushes, one compaction, no fault | violates `SnapshotIsolation` |
| `VSimilar` | two commits, no fault, `/similar` at the first | violates `SimilarReproducible` |
| `VDedup` | three documents, `/duplicates` for two of them, no target | violates `WithinSet` |

What the violations say of the code:

- `VCancelled`: a push that ends removes the token its *branch* has registered,
  also if it belongs to the push that replaced it. A third push then cancels
  nobody and has to wait, up to the timeout, for one it meant to replace.
- `VRepush`: rows appended by an attempt that died before the tag stay on the
  branch. The re-push appends them again: a document of the indexed commit has
  two copies.
- `VDisconnect`: the reservation is not tied to the handler's life. If the
  client leaves while the handler waits for the lock or the fork, later pushes of
  the commit are refused with 409 until a restart or a DELETE.
- `VTruncated`: the count check adds the documents seen and the ids to delete,
  and a flushed micro-batch has already added its Changed documents to the latter.
  A push that lost as many operations as it had flushed Changed documents passes.
  `CountChecked` is the part of the claim that does hold: before the first flush
  nothing is counted twice, and a complete push always passes.
- `VChanged`: a changed document is appended to the rebuild branch and its old rows
  are not deleted there, so the retagged commit shows both contents.
  `DocumentsKept` is what does hold: the set of documents is right, and nothing that
  was pushed is missing.
- `VSimilar`: `/similar` searches the snapshot of the commit, but reads the vector
  that it compares with at the head of the branch. Once a later commit has changed
  the document - already while it is being pushed - the same request gives another
  answer, and after a deletion it gives 404.
- `VDedup`: without a target the neighbour filter of `/duplicates` excludes only the
  document itself (`build_neighbour_filter`), so a set member is paired with its nearest
  document in the whole snapshot, in the set or not. `schema.rs`, `service/mod.rs` and
  `docs/architecture/04-search.md` call this within-set dedup. `DuplicatesExact` says what
  does hold, for the documents that the filter lets through (`Compared`).

In the part *retag* five commits are the least for which a commit that was intermediate
becomes a boundary (position 3 of five) and has to be migrated in the second
compaction; the interruption may hit either of the two. `EmptyPass = {1}` assumes
that an index pass commits a version even if no row is new. If Lance skips it,
`TagsReadable` fails without any crash: a commit on the old rebuild branch ties with
the first commit, is sorted before it, is not migrated and is deleted as an orphan.
The boundary positions are 0, 3, 12, 39; the comment beside the loop says 0, 3, 9,
27. After a compaction the derived last-indexed commit can be an older one: changed
documents cost more versions on main than on the rebuild branch. No property states
this.

Two choices of environment are deliberate. `Restart` has no storage errors or
panics because `CacheCoherent` then fails: if the refresh after the tag fails, the
cache keeps the older commit. `Progress` has one request for the feature branch
because `EveryPushAnswered` fails with two: a fork of an existing branch waits for
the pipeline lock without a timeout, behind a client that may never finish.

Further behaviours that the model has and no run keeps: a push that timed out
registers its token again and cancels a later push; the rows of a failed push
become visible with the next commit of the branch; a truncated body without
`expected_docs` is indexed; `/assign` to an older commit makes the cache older,
and across branches it tags a version of the wrong branch; `/assign` overtaken by
DELETE `/domain` creates an empty dataset; after DELETE `/domain` an old and a new
push can write at the same time; a cold last-indexed read overtaken by DELETE
`/branch-index` caches a deleted commit; DELETE waits for a stalled client.

In the part *body* the capacities are the smallest, so that both channels are full most
of the time; micro-batches of 2 with bodies of three documents give a full batch, a
flush in the middle of the input and a last one of a different size. `PushEnds`
needs a client that goes on reading the response (`ClientWorks`). A client that
reads it only after it has sent its body can block: progress lines fill their
channel, the pipeline stops receiving, and the body is no longer read.

In the part *search* six versions leave room for one failed push and its repetition beside
the three commits, and one DELETE for a domain that is created again. A window of
two ancestors makes nearest and farthest differ, three chunks per document are the
most that the over-fetch provides for. `PageExact` depends on two things that the
code does not enforce: with a document of six chunks, or several of four, a page can
come out short, and a hybrid search that is walked page by page can show a document
twice and another never, because the fused ranks depend on how many chunks were
fetched (`docs/user/04-searching.md` recommends that walk).

In *index* eight earlier pushes make the next one a boundary with a delta count of
three, so that it runs the cascade; fork, cleanup and crash may come between any two
of its steps. In *handles* and *tasks* the limits are so
small that every insert may evict. In *count* a request is followed as long as one of its
domains is settled (`Countable`); beyond that `StatisticsExact` says nothing of it. In *embed* batches hold three texts, so that a
batch mixes hits and misses, documents straddle batches and a rejected text has
neighbours. In *scan* one document has three chunks and k is 1 or 2, so that on the
index path, which fetches 2k chunks, it can crowd a nearer document out; `CandidatesExact`
asks for a neighbour only if the documents as near as it have fewer chunks than that. In
*starts* the environments differ in a prefix only or in slot 2 only, the cases in
which a comparison of model names would not be enough.

What these properties exclude is what the code does not guarantee. `StartGuards`:
two first starts may both find no parameter file; a process without an embedding
cache does not take part in the lock. `SettingsKept`: a process writes the map that
it loaded, also a read-only one, and a write that is cut leaves a file that loads as
empty. `DrainKeepsJobs`: pushes that start in the grace period are cut.
`HandlesCurrent`: a push that fails between a committed version and the refresh
(`service/mod.rs` 2946-2991) leaves its handle at an older version of the dataset, and an
open overtaken by such a push, an eviction or a DELETE inserts one that may be stale; the
next push, an eviction or a DELETE repairs it. The property says that there is no other
way, and that a handle left behind is of the same incarnation and older.
`StatisticsExact`: what such a handle shows is counted, and a handle that enters or leaves
the cache between the two reads of the map makes its domain count twice or not at all.
`NoFalseAlarm`: a segment of a branch with a slash in its name is reported as dangling,
because the scan of the branch trees is one level deep. `StreamComplete`: a row with a
missing column or an unreadable vector is skipped without a record (`search.rs` 834-871),
so a document all of whose rows are skipped is missing from the stream, noticed only by a
count against `x-total-count`; `io_fetch_result_embeddings` fails loudly on the same rows
(700-707). `EveryTokenIndexed`: the range and the prefix fit in the window by the chunker's
count; the provider adds the special tokens and what a slice takes beyond its range, so a
full chunk is 512 tokens before `<s>` and `</s>`, where
`docs/architecture/05-embeddings-and-determinism.md` speaks of a "512-token hard limit".
It is about stored rows; a search query is not chunked at all.
`StatusKept`: pushes that time out on the lock leave pending entries for ever, and a
table full of them evicts results. `OwnVectors`: `prime-embed-cache
--include-clustering` on a domain without clustering caches zero vectors.

What the documentation says and the code does differently, beyond the violations above:

- `docs/architecture/05-embeddings-and-determinism.md`, section 5: "Provider returns
  non-2xx -> the indexing task fails", "unreachable -> task errors; never a degraded
  success" (also `03`, line 68). `io_embed_batched` retries one text at a time, and a push
  whose documents all failed still ends Complete, with the documents skipped and
  reported one by one. `IsolatedFailures` bounds what is lost, as the code means it.
- The comment on `io_search` (`search.rs` 24-26) speaks of "the current head of the cached
  dataset" that "may include in-flight rows"; it opens the tagged snapshot
  (`SnapshotReads`).
- `service/mod.rs` 876 and `docs/architecture/04-search.md` 127 describe a cache of 404
  verdicts. There is none: `NotFoundIsTrue` relies on every walk being made anew. For a
  request without a commit that property only says that the branch has no indexed commit.
- `rollup.rs` 7-9 promises O(log3 N) segments. The functions that roll up,
  `io_exponential_rollup` and `io_merge_indices`, are called by tests only; what a push
  runs is the cascade at a boundary, and between them the full-text segments of the head
  grow by one per commit.
- The comment of `candidates_gather` says clustering embeddings are fetched for "ALL docs
  involved (both sources and neighbours)"; without embeddings or content in the request
  only the documents with a list of their own are fetched, and neighbours without one get
  no clustering distance.

Other things met while modelling, which no run keeps: the doc of
`io_resolve_cross_neighbours` promises lists sorted and capped
at k, which merged lists are not; the flat path omits documents without neighbours and
the index path gives them empty lists; a process started while the old one drains stays
read-only for its life; DELETE `/domain` keeps the domain's settings; `config/mod.rs` calls
these immutable after the first push, which a later push may change.

### Fairness

Server tasks are scheduled, so every step the server can take by itself is weakly
fair. The tokio mutexes are FIFO, so a waiter does not starve: `Fork`, `Open`
and the steps of DELETE that wait for a mutex are strongly fair. The lock of a
push needs no more than weak fairness: the timeout is always possible while the
lock is taken. A client owes the server nothing: starting a request, finishing a
body, leaving, faults and crashes carry no fairness. `ReservationReleased` and
`TaskTerminates` say what happens *if* clients finish (`ClientsFinish` is a
hypothesis of theirs); `EveryPushAnswered` holds without it. A crash ends every
request and every task without an answer, which `TaskTerminates` allows for.

## 4. Proofs

The theorems hold for every value of the constants: all sets of branches, commits,
documents, requests and processes, every set of faults, every number of crashes and
starts, every limit of a table or a channel. They assume what the
modules assume of the constants and TLC evaluates on every run: `Main` is a branch,
`None` and the other marks are no values of the sets beside them, requests are
well-typed, pushes and other requests are different, limits are positive numbers, a
body names a document once, the commits of `Search` are `1 .. n`, `None` is no set of
rows (`NoRowsAssumption`), and a data directory
that a first server finds holds vectors of one space, the recorded one if it has a
parameter file (`StoresAssumption`). Every specification
below is the one that the runs use, or (`LifeSpec`, `TabSpec`, `CountSpec`, `IxSpec`, `EmbSpec`, `IngSpec`) the
component of a composite by itself, with all of its actions.

| Module | Theorem | States | Inductive invariant |
|---|---|---|---|
| `DomainStoreProofs` | `TypeCorrect` | `Spec => []DomainTypeOK` | `StoreInv` |
| | `TagsAlwaysResolve` | `Spec => []TagsResolve` | `StoreInv` |
| | `SnapshotsAreStable` | `Spec => SnapshotStable` | `StoreInv` |
| | `DomainImplementsIndex` | `Spec => ImplementsIndex` | `StoreInv` |
| | `MutexesAreExclusive` | `Spec => []LockDiscipline` | itself, with types |
| | `OneWriterPerBranch` | no DELETE `/domain` `=> (Spec => []OneWriter)` | `LockDiscipline`, `OneGeneration` |
| | `ReservationIsUnique` | no DELETE `=> (Spec => []ReservedOnce)` | `NoPurge` |
| | `CompleteMeansPublished` | `Spec => []CompleteIsPublished` | `PublishInv` |
| | `PushedCommitIsLastIndexed` | no `/assign`, no DELETE `/domain` `=> (Spec => []PushedIsLastIndexed)` | `NewestInv` |
| | `CacheIsCoherent` | no request but pushes and `/last-indexed`, no storage error, no panic `=> (Spec => []CacheCoherent)` | `CacheInv` on `NewestInv` |
| `IngestProofs` | `PushAppliesItsOps` | `IngSpec => []PushMatchesOps` | `FateInv` |
| | `CountCheckIsRight` | `IngSpec => []CountChecked` | `CountInv` |
| `SearchProofs` | `ReadsAreSnapshots` | `Spec => []SnapshotReads` | `ReadInv` |
| | `NearestIsServed` | `Spec => []ServedNearest` | `ReadInv` |
| | `NotFoundAnswersAreTrue` | `Spec => []NotFoundIsTrue` | `ReadInv` |
| `CompactionProofs` | `CommitsStayReadable` | every index pass adds a version `=> (Spec => []TagsReadable)` | `CompInv` |
| | `CompactionKeepsDocuments` | the same `=> (Spec => []DocumentsKept)` | `CompInv` |
| | `LossIsBounded` | the same `=> (Spec => []LossBounded)` | `CompInv` |
| `IndexFilesProofs` | `IndexFilesAreKept` | `IxSpec => []IndexesBacked` | `FilesInv` |
| | `TaggedIsFullyIndexed` | `IxSpec => []TaggedFullyIndexed` | `FilesInv` |
| | `NoFalseAlarms` | `IxSpec => []NoFalseAlarm` | `FilesInv` |
| `EmbeddingProofs` | `EmbeddingTypes` | `EmbSpec => []EmbTypeOK` | `EmbInv` |
| | `VectorsAreOwn` | `EmbSpec => []OwnVectors` | `EmbInv` |
| | `TokensAreIndexed` | `EmbSpec => []EveryTokenIndexed` | `EmbInv` |
| | `FailuresAreIsolated` | window above 2 `=> (EmbSpec => []IsolatedFailures)` | `EmbInv` |
| `ServerProofs` | `HandlesAreCurrent` | `TabSpec => []HandlesCurrent` | `HandleInv` |
| | `StatisticsAreExact` | `CountSpec => []StatisticsExact` | `StatInv`, `OrderInv`, `HandleInv` |
| | `StatusIsKept` | `TabSpec => []StatusKept` | `StatusInv` |
| | `TablesAreBounded` | `TabSpec => []TabTypeOK` | `OrderInv`, `StatusInv` |
| | `LifePlaces` | `LifeSpec => []LifeBase` | itself |
| | `StartsAreGuarded` | `LifeSpec => []StartGuards` | `OwnerInv`, `GuardInv` |
| | `SettingsAreKept` | `LifeSpec => []SettingsKept` | `MapInv` |
| | `DrainKeepsRunningJobs` | `LifeSpec => []DrainKeepsJobs` | `DrainInv` |

### The store

`TagsResolve` is not inductive: a push tags the version it remembers, and a fork
takes the version its parent's tag or the cached handle names. `StoreInv` adds
that branches exist only if the dataset does (`Rooted`), that the cached handle
shows an existing version, and that a write handle of the current incarnation
names an existing branch (`HandlesValid`). Its steps rest on the lemmas of
`LanceDatasetProofs`: opening, writing and forking only append to histories, and
what a history had it keeps.

`OneWriter` follows from `LockDiscipline` only if both pushes looked their mutexes
up in the same generation of the maps. `OneGeneration` says that without DELETE
`/domain` there is one; with it, two writers are possible, which is why the
theorem has the hypothesis. Likewise every DELETE clears the reservations of
pushes that are still waiting.

`DomainImplementsIndex` takes `StoreInv` (so that `ShownByTag` is well typed and
resolves every tag) and looks at what a step does to tags and histories. Histories
only grow and tagged versions are not pruned (`StoreInv`), so a step that leaves the
tags alone leaves `shown` alone; one that adds a tag (`TagsOneCommit`) is `Publish`
of a commit that had none; the two DELETE steps that remove tags remove those of the
branches of an order under way (`TagsByOneOrder`), which `DeletesUnderWay` has since
the request was admitted. `Crash` and a dropped request end orders, which `Order`
allows. `SnapshotStable`, which says the same of single steps, is proved and not
checked by a run of its own: the refinement implies it for what readers see.

### A push that reports Complete

`CompleteIsPublished` follows a push along its pipeline. `Phase` says how far it has
come: after the delete the head has none of the documents it deletes, after the
append it has the new rows, at the tag the version it remembers has both, and from
the tag on its commit is published. Each phase lasts because nobody else changes the
head of the branch while the push has the domain guard (`HeadKept`), and nobody
removes its tag while it has the pipeline lock (`TagKept`); both come from
`LockDiscipline`. DELETE `/domain` throws the mutexes away, so the property and its
invariant are about the domain until then (`FirstLife`: until then there is one
generation of the maps).

`PushedIsLastIndexed` needs in addition that creation times grow (`ClockAhead`) and
that nobody else tags commits of the branch: `/assign` takes no pipeline lock, so the
theorem excludes it, as the run does. `CacheCoherent` adds what a cold
`/last-indexed` read may insert. Its hypotheses are those of the run `Restart`, and
are needed: if the refresh after the tag fails, the cache keeps the older commit.

### From the body to the rows

`PushMatchesOps` relates the end of the input to the beginning, so `Fate` says where
an operation is in between: what arrived is in the channel, or in the micro-batch, or
decided (a row, a deletion, skipped), in one place only, and nowhere else unless the
pipeline gave up; and what has been decided for a document says which operation it
was: rows and deletion means Changed. With one operation per document (a commit is a
diff) places exclude each other by document, which is what a step needs to know when
it moves a line. `CountInv` bounds the lines that arrived by `Received` and the lines
in the channel, with equality until the first micro-batch is full; `VTruncated` shows
what happens after it. The counting lemmas (`DocLinesAppend`, `DocLinesTail`,
`DocLinesPrefix`) say how the number of operations changes at either end of a queue.

### Reads

`SnapshotReads` compares rows with `Content`, a recursive function of the chain of
commits, so `StoreInv` of `SearchProofs` has to know what pushes do: every tag shows
the content of its commit, and the push in progress, at whichever step, or the
repetition of a failed one, completes the content of the next. That a repeated push
leads to the same content although it starts from what the failed one left is the
core of the argument (`After(c, Newest) = Content[c]`). `ServedNearest` and
`NotFoundIsTrue` need to know how the three tag lists a request looks at (before it
was sent, listed, and now) include each other unless the domain was deleted.

### Compaction

The three properties support each other, so `CompInv` has them all. What carries them:

- *The deltas telescope* (`ReplayOK`). While phase 1 runs, the newest version of the
  rebuild branch has the documents of the commit replayed last and at least its rows;
  the next delta is taken between that commit's snapshot and the next one's, so it
  leads to the documents of the next. Only at least its rows: a changed document keeps
  its old rows (`VChanged`), and the invariant must not say more. No order of the
  pushes is used, since the sort by version does not give it.
- *What is planned may take the tags* (`MovesOK`): every planned version is on the
  rebuild branch, shows its commit, and is not for the first commit, which stays.
- *The first commit is on main* (`RootOK`). The code resolves the number of the first
  sorted commit on main. That is right because a commit that was moved always has a
  version above one that stayed, from one compaction to the next; `SortedFirst` and
  the lemmas on `SortedByVersion` say that the sort finds a least number.
- *Nothing is left behind* (`RetagOK`): until old rebuild branches are dropped, every
  tag on one of them is still on the list to move.

`RootOK` needs the theorems' only hypothesis, `IndexPassCommits`: an index pass over no
new rows adds a version too. Without it the rebuild branch may not be longer than the
fork point, a moved commit then has the number of the first one, and TLC finds
`TagsReadable` violated (`EmptyPass = {0, 1}`, see the hazards). A boundary commit has
no index pass, so the second commit must not be one (`SecondIsNoBoundary`): its pass
lifts the rebuild branch above the fork point, and every later version with it.

### Index files

`IndexesBacked` and `TaggedFullyIndexed` are about versions that a tag or a head
names, but two versions that nobody names yet matter as well. Between the index pass
and the tag the cascade makes the indexed version one behind the head (`MergeOK`), and
a fork resolves a version of main while cleanups remove others (`ForkOK`): it is still
backed, or marked as gone, and then the fork fails. `HideOK` says what a cleanup finds
hidden and that the set collected before pruning has every live segment until pruning
ends; `QuietOK` that the check and a pipeline exclude each other. `FilesInv` needs no
bound: not on pushes, nor on failures, crashes or second processes.

That segments are only ever added (`SegsGrow`) makes all statements on old manifests
stable. For the new ones the lemmas say what the operators do to a list of disjoint
segments: an index pass adds the fragments that the list does not cover, and a merge
replaces the last n segments by one that covers what they did, at either end of the
list.

### Embedding

`EmbInv` says of every call where its texts are between the documents and the answers:

- *Order* (`Aligned`). The batches that are left are, one after the other, the texts
  behind those already answered. Splitting a failed batch into single texts, the
  second pass for the clustering vectors and merging replies with hits all keep it,
  and with it the place of a vector says whose it is.
- *Content* (`GotOK`, `FirstOK`, `HitsOK`, `CacheOK`, `RowsOK`). A value at a place, in
  a hit, in the cache or in a row is the vector of its text in its role, or a zero
  that was primed, or a failure. `MissIndices` is increasing and names the misses, all
  of them, so the reply goes where the misses are.
- *Failures* (`ChargeOK`). Every failed text that the provider would have taken is paid
  for by a transient failure of the call, and, if no text of the call is refused, one
  more has split its batch.

That a skipped document has a failed text at one of its chunks goes through the
flattening of chunks into batches: the chunks of a document are a run of the flat
list, its start is the number of chunks before it. `EveryTokenIndexed` is what the
loop of `Ranges` computes, for every length, budget and overlap: the ranges start at 0,
each begins at or before the end of its predecessor, and the last one ends at the
length; the budget leaves room for the longer of the two prefixes; and snapping moves the
start of a slice down and its end up only, so that the text of a row has its range.

`FailuresAreIsolated` assumes that the window is longer than the longest prefix (two
tokens in the model; the window is 512 in the code and 4 in the run): otherwise the
budget is 0, chunking fails, and every document is skipped without any failed request.

### Tables and processes

`HandlesCurrent` is about an open that races with writers: a reader between
`OpenFresh` and `InsertHandle` has a handle that is still right, or the domain is
cached already (so that the insert does not count), or a writer will repair it, or
it is marked late; and a push that fails marks the opens under way late and the handle it
would have refreshed as behind, which `HandleInv` knows to be older and of the same
incarnation. `StatInv` says for every settled domain what of it has been
counted and what is left to count at each step of the request. `OrderInv` ties the
LRU order to the cache; for `StatusKept` the eviction of the oldest finished tasks
has to leave the newest, which needs the cardinalities of what is evicted.

`GuardInv` ties the stored vectors, the parameter file and the environments of all
processes that passed the check together; `MapInv` says that one process at a time
has the settings in memory, with all that was kept; `DrainInv` counts running tasks.

### How recursion is dealt with

Induction theorems cannot be instantiated, but that the natural numbers are
well-founded can be used: of the arguments for which a recursive function fails its
equation there is a smallest, for which it does not. `ContentValue` (the function
`Content`) and `LeastNumber` and `LargestNumber` (`Min` and `Max` of finite sets)
are proved this way, and so are the loop of `BoundaryPositions` (`LoopValue`, by
position) and `SortedByVersion` (`SortValue`, by the size of the set). `EmbeddingProofs`
states it once for sets (`Induct`: a set of numbers with 0 and every successor up to n
has all up to n) and uses it for the chunker's loop, the batches, the misses and the
flattening.

### Only model-checked

- The liveness properties `EveryPushAnswered`, `ReservationReleased`,
  `TaskTerminates` and `PushEnds`: fairness and ENABLED are outside the prover's
  reach.
- `PageExact`: ranked pages are built with folds and sorted sequences of sets, and the
  property depends on the number of chunks per document.
- What `merges_needed` computes: the theorems on `IndexFiles` hold whatever it answers.
- `DuplicatesExact`, `CandidatesExact`, `StreamComplete`: not attempted; answers are
  computed in one step from sorted lists, by chains of folds.
- `MaintTypeOK`, `ReadsTypeOK`: types of the composites. The parts that a theorem
  needs (`CompTypeOK`; `PipeShape`, `ManifestsOK` and `TagsOK`; `TabTypeOK`; `EmbTypeOK`) are
  conjuncts of the inductive invariants or proved by themselves.

## 5. Plan

Done: all modules of section 2 and the proofs of section 4. Left, the most important
first:

1. Proofs: `PageExact` (`Search`) and the answers of `Resolution`.
2. `Compaction` joined with the derivation of last-indexed, with feature branches,
   and as a refinement of `CommitIndex` with losses.

## 6. Not modelled

- `/suggest` and `/compare`, the type and id filters of `/search`, equal distances and
  approximate indices: single reads of a snapshot whose result is Lance's or a
  formula.
- `io_retag_to_boundaries`, `service.push`, `io_run_index_pipeline`, the roll-up functions
  `io_exponential_rollup` and `io_merge_indices`, and `resolve::resolve` with its thresholds
  and stages (`/candidates` has "No matching algorithm, no tau thresholds"): nothing, or
  nothing but tests, calls them. The in-memory store is a stub for tests.
- HTTP routing, authentication, parsing of the other settings, metrics text, integrity
  reports other than dangling indexes, floating-point distances, the load tool: no
  state of their own to protect.
- The semaphore of heavy scans: permits are taken and given back by one task, around
  a scan.
- What Lance, tokio, axum and sled do inside is external: the model has what the code
  relies on (a write adds a version, a tag is created once and only for an existing
  version, a merge takes the newest segments, mutexes are exclusive and FIFO, a
  dropped handler stops where it waits, the cache's lock goes with its process).
