# tagmem in TLA+

Models, model-checking runs and machine-checked proofs about tagmem, a local
memory store for agents: entries with tags and source texts in SQLite, a
persistent vector index over them, a JSON compatibility mirror, a knowledge
graph and a diary, used through a command line, a Unix-socket daemon and an MCP
server.

## The system: inventory

Paths are under `src/internal/`.

| component | state | operations | correct when | modelled by |
|---|---|---|---|---|
| entry store (`store/`) | `store.db` (entries, tags, meta: next_id, index_state, metadata_revision, json_mirror_revision), `store.json`, the vector index directory, `sources/` blobs; per process a cached snapshot with the stamp of `store.json`, an open vector collection, a query cache | Init, AddMany, Update, Delete, RebuildIndex, SearchDetailed, DuplicateCheck, List, Get; migration of an older directory | no id is given out twice; a mutation is all or nothing; rows, mirror, index and cached copies agree whenever they claim to; a blob exists before its row; a query's answer passes its filters and is not empty for want of candidates | `Repository`, `EntryStore`, `Migration`, `Search` |
| embedder (`vector/local_minilm.go`, `vector/cache.go`, `store/query_cache.go`) | two FIFO caches (map and order), pool of model sessions | queryEmbedding, Embed, EmbedBatch | every text gets its own vector; order and map hold the same keys, at most `capacity`; sessions come back; calls end | `FifoCache`, `Embedder` |
| knowledge graph (`kg/`), diary (`diary/`) | one JSON file; one JSON file per agent | Add, Invalidate, Query; Write, Read | nothing lost, ids unique, invalidation only ends open facts | `JsonStores`, `Ledger` |
| daemon server (`daemon/server.go`, `client.go`, `protocol.go`) | socket file, listener, handlers | listen, accept, handle, shut down; a client's call with a timeout | a daemon that serves can be reached; one command stores at most one entry and reports no success without one; shutdown waits for handlers and ends | `DaemonServer` |
| daemon backend (`daemon/backend.go`) | repository, KG, diary, corpus cache | dispatch; ensure_corpus, search_corpus, Close | one corpus per key, none leaked, none closed under a search | `Corpora`, `ToolRouting` |
| MCP server (`mcp/`) | repository, KG, diary; or a daemon socket | tools | a tool does the same in both modes, but for named arguments | `ToolRouting`, `DaemonServer` |
| command line (`cli/`) | a process per command | init, add, list, search, ingest, repair, serve, mcp, ... | the operations run in the order the store expects; a command does the same in both modes (it does not) | `Repository`, `DaemonServer`, `ToolRouting` |
| importer (`importer/`) | origins seen | walk, chunk, AddMany per file | nothing imported twice, chunks cover the file | `Ingest`, `Chunking` |
| splitter (`splitter/`) | files | split, rename original | a log is set aside only when its parts are whole | `Ingest` |
| tag graph (`taggraph/`) | none | Traverse, FindBridges | breadth-first distances | `TagGraph` |
| benchmark corpora and runs (`bench/interface.go`, `bench/longmemeval.go`) | a daemon's corpora, corpus directories, a vector cache, channels | build, keep, search; worker pools | a corpus that is kept is opened whole (it is not always); runs end; every vector is at the place of its text | `Corpora`, `CorpusDir`, `LongMemEval`, `Chunking`, `Search` |
| tagging, retrieval scoring, embedding providers, other benchmarks, rendering, paths | none that survives a call | | | not modelled, see below |

How they interact: the daemon, an MCP server in direct mode and every direct
command line process each own a `Repository` on the same directory. They share
only files. `withLock` (`store/repository.go:1292`) serialises operations with a
mutex per process and a flock on `store.json.lock`; between two operations of a
process any other process may run. The daemon's handlers are goroutines over one
`Repository`; KG and diary have no lock at all. Commands and MCP servers reach the
daemon by one connection per request. A benchmark run may leave its corpora to the
daemon, whose handlers build and search them, or keep them on disk.

What is hard: an operation makes up to seven durable effects in different stores
without a common commit; copies kept in memory across operations are validated by
the stamp of `store.json`, a file that mutations no longer write; processes crash
or fail between any two effects; a client's deadline does not stop the handler; a
daemon is known by a file name that anyone may remove; a corpus is built without a
lock and searched without one. `PROJECT.json` lists each hazard with its line.

## Modules

| module | what it is |
|---|---|
| `EntryStore` | the promise: a table in which AddMany takes the next ids, never a used one, stores all or nothing, and nothing but the three mutations changes anything |
| `Repository` | the entry store as the code does it: several processes, one action per durable effect |
| `Migration` | the first start on a data directory of an older version, ended anywhere |
| `Search` | what SearchDetailed, List, DuplicateCheck and a benchmark's search return |
| `Ledger` | the promise of knowledge graph and diaries: appended facts that may be ended, appended entries |
| `JsonStores` | the JSON files as the code changes them: load, temporary file, rename, without a lock |
| `FifoCache` | the two caches as operators on one record; no state |
| `Embedder` | calls of several repositories on the shared embedder, `EXTENDS FifoCache` |
| `DaemonServer` | daemons, the socket file, connections with two ends, and the commands that call |
| `ToolRouting` | the arguments of every tool and command in both modes, down to the stores |
| `Corpora` | the daemon's hot corpora composed with the runs that use them: feeder, workers, collector |
| `CorpusDir` | a corpus directory and its meta file, opened, built and removed by workers of one run or of several |
| `Ingest` | splitting logs and ingesting files, stopped and run again |
| `Chunking` | how texts and conversations are cut |
| `TagGraph` | the walk over the tags |
| `LongMemEval` | how the benchmark's workers get their vectors |
| `MCRepository`, `MCJsonStores`, `MCEmbedder`, `MCDaemonServer` | model values, command and fault assignments for TLC |
| `MCDataDir` | the entry store with one writer, in two ways, and the knowledge graph with two, in one run |
| `MCWorkbench` | the components from `Migration` to `LongMemEval` that share no state, in one run |
| `RepositoryProofs` | proofs about `Repository` with no restriction |
| `RepositoryOneWriterProofs` | proofs about `Repository` when one process writes, and its refinement of `EntryStore` |
| `JsonStoresProofs` | proofs about `JsonStores`, and its refinement of `Ledger` |
| `EmbedderProofs` | proofs about `FifoCache` and `Embedder` |
| `DaemonServerProofs` | proofs about `DaemonServer` and `ToolRouting` |
| `CorporaProofs` | proofs about `Corpora` |
| `DataDirProofs` | proofs about what runs that end anywhere leave on disk: `CorpusDir`, `Migration`, `Ingest` |
| `AlgorithmProofs` | proofs about `TagGraph`, `Search`, `Chunking` and `LongMemEval` |

Definitions marked `(mutant)` are changed forms of the definition below them; no
specification uses them.

### Repository and the code

| state | code |
|---|---|
| `rows`, `nextId`, `dirty`, `metaRev`, `mirrorRev` | tables and meta keys of `store.db` |
| `mirror`, `index`, `blobs` | `store.json`, the vector collection on disk, `sources/` |
| `cache[p]`, `seen[p]`, `coll[p]` | `r.snapshot`/`r.loaded`, `r.storeStamp` equal to the file's, `r.collection` of process p |
| `holder` | who is inside `withLock` |
| `kind`, `at`, `batch`, `todo`, `snap` | the running operation, its next step, and its locals |
| `status[p]` | a process that is not running, has not called Init, or has |

An operation begins when it has the lock (`BeginInit`, `BeginAdd`, ...) and then
takes one step per durable effect: store.json rename (`WriteMirror`), its revision
transaction (`RecordMirror`), one source blob (`PrepareAdd`, `PrepareUpdate`), the
metadata transaction with the cached snapshot (`Commit`), removal from the index
(`Unindex`), one document (`IndexDocument`), index_state (`SetReady`), the mirror
transaction (`MarkMirror`), dropping the collection (`ResetIndex`), the final sync
(`SyncRows`). `Crash` may come between any two of them, `StepFails` and
`IndexFails` make the step the code is at return its error. Searches are one step
(they change only the open collection).

Reductions. An entry is its id and its content: depth, title, tags and times are
written with the body by the same statements. A file stamp is a Boolean per
process, "the store.json it has seen is the present one", which assumes that two
different writes never have the same size and nanosecond time. Memory is not
reused after an exit. Reads that change nothing (List, Get, status) have no
action. The shared lock is taken with the process mutex and excludes writers, so a
search is atomic. `store.db` exists from the start; how it comes to exist on an
older directory is `Migration`.

### Migration and the code

`db` is the file `store.db`; `migrated`, `stale` and `numbered` are its rows,
`index_state = dirty` and the presence of `next_id`; `json` and `damaged` are
`store.json`. A start is `Run("start")` (Init) and a repair `Run("repair")`
(RebuildIndex); the steps are those of `ensureMetadataStoreLocked` (`OpenDB`,
`Decode`, `Insert`, then the index document by document, `Settle`, `Number`) and of
`ensureIndexLocked` (`CheckDocs`). `EndProcess` is a kill or an error at any of
them. One process works at a time, by the store's lock.

### Search and the code

Ids are numbered by nearness to the query, so the index is their order. `table`
tells of each entry whether it has the depth asked for, the tag asked for and a
token of the query. A search takes the nearest `Widening * limit` documents of the
right depth (4 times in the code), drops those without the tag, lets the rerank
choose and order, and falls back on the rows with a token. The distances are left
out: the rerank may drop any but the best candidate. `query.form` is a list, a
search, a duplicate check or the search of a benchmark's corpus, whose documents
are made of several chunks.

### JsonStores and the code

`path`, `tmp` and `data` are the file, its `.tmp` and the contents of inodes:
`os.WriteFile` truncates whatever file has the temporary name now and goes on
writing it when somebody renames it, so names alone would not do. A worker is a
goroutine of the daemon or another process; `change` is its request, `text` the
snapshot it altered in memory, `fd` the file it has open. Loading and altering
are one step, since no other worker sees anything between; `Open`, `Write` and
`Rename` are the three system calls of `save`. `Stop` is an error or the end of
the process anywhere, also in the middle of the write. Two overlapping writes to one inode
leave one text or no valid JSON (`Overwritten`). Subject, predicate and object
are one triple; dates are days; an empty date is today. The second in a diary
entry's id is a day too: entries of one second share an id, as in the code.

### Embedder and the code

A worker is a repository: its `opMu` lets it make one call at a time, and all
repositories of a process (the daemon's store and its corpora) use one embedder.
A call takes one step per critical section: one cache lookup (`Get`), taking a
session (`Checkout`), a micro-batch with the return of the session (`Run`,
`RunFails`), one put (`Put`), and for a query the lookup and put in the
repository's own cache. A vector is named by the text it was computed from, so
"the right vector" is equality. Lengths of texts are left out: sorting may give
any order. The model is the build with ONNX; the stub build only returns errors.

### DaemonServer and the code

| state | code |
|---|---|
| `stage[d]`, `stopping[d]` | where `Run` of process d is, one stage per system call others can notice; its context is cancelled |
| `path` | the socket file: whose socket it leads to, no file, or another kind of file |
| `listening[d]` | d's listener accepts connections |
| `conn[k]` | both ends of a connection: not yet accepted, in a handler's hands, answered; what the client wrote; what it got; whether it is still open at the client's end |
| `at[c]`, `mode[c]`, `line[c]` | a client's call, whether an MCP server has decided for the daemon or for the files, its connection |
| `tries`, `refused`, `stored`, `told` | commands begun, ended before the add was sent, entries added, successes reported |

`Stat`, `ProbeSocket`, `RemoveStale`, `Bind`, `Listen`, `Chmod` are the steps of
`listen` and `removeSocketFile`; `CloseListener` is the goroutine that waits for
the context, `Drained` and `Unlink` the deferred calls of `Run` in their order.
`Handle` does what was asked whether or not the client still waits; an add may fail
before it stores and after. `Kill` leaves the socket file. A client's command is an
add that is preceded by a status call, except for an MCP server that has made up
its mind. Without a daemon the command line refuses, and so does an MCP server that
`TAGMEM_MCP_USE_DAEMON` binds to one or whose `Init` fails (`NoDaemon`); another MCP
server adds to the files itself (`AddDirectly`), which may fail as in a handler.
`TimeOut` is the deadline of a call.

### ToolRouting and the code

`Calls` and `Commands` are the arguments a tool or command takes; `Direct` and
`RunAdd`, `QuerySearch` what the direct mode hands to the stores, `Served`,
`AddViaDaemon`, `SearchViaDaemon` what dispatch hands to them; the last section is
what the stores make of it. A text is its trimmed core and whether there is space
around it; numbers above `MaxSafe` stand for those a JSON number cannot carry.

### Corpora and the code

`hot` is the map of `corpusCache`; `dirs` are the temporary directories on disk,
`litter` those a killed daemon has left. A worker (`at[w]`) is at one point of a
worker of `RunLongMemEvalInterfaceWithOptions`, or of the handler that serves it
(`building`, `searching`): `Ensure` is the head of the loop in
`ensureDaemonCorpus`, `EnsureHit`, `EnsureMiss` and `Store` are the two looks of
`ensureCorpus` with the build between them, `LookUp` and `Searched` are
`searchCorpus`. `known` and `flight` are `daemonCorpusKeys` and `daemonEnsures`;
`queue` is the results channel, `fed` what the feeder has handed out, `status` the
collector. `ExitRun` ends a run's process while its calls go on in the daemon.
`StopDaemon`, `CloseBackend`, `KillDaemon` and `RestartDaemon` are what
`DaemonServer` does in detail; that the backend is closed only after the last
handler is `ClosedAfterLast` there.

### CorpusDir, Ingest, Chunking, TagGraph, LongMemEval

- `CorpusDir`: `entries` is the store in the directory, `meta` the file
  `corpus-meta.json`, `building[b]` where `NewCorpus` of worker b is, and `held[b]` which
  of the two it has open and nobody has removed. `NewCorpus` reads the meta file
  (`ReadMeta`), opens (`OpenCached`) or removes what is there (`RemoveOne`, one file at a
  time in any order, `Discarded`) and builds (`MakeDir`, `MakeStore`, `AddDocuments`,
  `WriteMeta`: the file is empty or cut before it is whole). `Finish` is the end of a
  question; `EndRun`, an error or a kill, comes anywhere for a worker in `Failing`.
  Workers share the directory and the lock of the store in it (`Unlocked`), no other.
- `Ingest`: `tagmem split` writes the parts of a log one by one and renames the log
  last; `tagmem ingest` reads the origins of the store, walks the directory, and
  adds a file by one AddMany. Both end at any file and are run again.
- `Chunking`: the chunkers are operators (folds over lines, a recursive function over
  offsets); the two actions choose a text or a conversation. What counts is which
  visible characters or lines end up in a chunk.
- `TagGraph`: `Visit` is one turn of the loop of `Traverse`, checked against shortest
  paths.
- `LongMemEval`: batches of chunks embedded beforehand, then questions, then workers
  that rank; `vectors` is the shared cache, read before the misses are embedded and
  written after.

## Runs

| run | question | bounds |
|---|---|---|
| `data_dir` | Is the entry store correct while processes take turns, whatever crashes and fails: one long-lived daemon (p1) or one-shot commands (p2), `MaxRunning = 1`? May `tagmem repair` run beside a serving daemon? What survives two writers of the knowledge graph? | 3 ids, 3 revisions, 2 contents, batches of 2 (beside a repair: of 1); graph: 2 workers, 1 triple, 2 facts |
| `repo_processes` | What holds with no restriction at all: any command, any fault, two processes at once? | 2 ids, 2 revisions, 1 content |
| `repo_two_adds` | Do ids stay unique across one-shot processes? No: counterexample. | 2 ids |
| `repo_masked_dirty` | Does a failed index write stay known? No: counterexample. | 2 ids |
| `migration_interrupted` | Does a start ever succeed over a part of the older store? It does: counterexample. | 2 entries |
| `json_one_writer` | Do the files keep their promises while each is changed by one worker at a time, two files at once, with stops anywhere? (`OneAtATimeSpec`) | 2 workers, knowledge graph and one diary, 2 triples, 2 days, 2 items per file |
| `json_two_writers` | Is nothing lost with two writers? No: counterexample. | 2 workers, 1 day |
| `embedder` | Are answers right, caches well formed, sessions returned, and do calls end? | 2 repositories, 2 texts, batches of 2, capacities 1, 1 session, micro-batches of 1 |
| `daemon` | Can the daemon be reached, does it close its backend last and stop, and are commands honest, while daemons are started, signalled and killed and calls time out? | 2 daemons, 2 starts, 2 connections, two commands: one of the command line and one of an MCP server, or two of an MCP server, `Overlapping = FALSE` |
| `workbench` | The nine components that share no state with another one. | below |
| `kept_corpus` | Is a kept corpus opened whole, wherever earlier builders ended? No: counterexample. | 1 builder that may fail |
| `cli_modes` | Do `tagmem add` and `tagmem search` do the same with a daemon and without? No: counterexample. | numbers 0 and 3 |

Bounds of `workbench`. The first state chooses a component, and the others stay as
they are, so that the state spaces add up instead of multiplying.

- Corpora: one run of two workers and two questions about one corpus, or two runs of
  one worker each (two keys exist, the runs ask for one); three directories, two
  starts of the daemon. Two workers of a run meet in `Ensure`, two runs in `Store`;
  the third directory is for the daemon after the restart.
- ToolRouting: texts that are empty, blank, padded or plain; numbers -1, 0, 3, one
  above `MaxSafe` and one below `-MaxSafe`: the sides of every comparison the code makes.
- CorpusDir: one builder after another, any of them stopped anywhere.
- Migration: complete; two entries tell some from all, and counts that agree from
  documents that agree.
- Ingest: a log with two sessions of one name and a short one between them, another
  log; limit 2; one ingest at a time beside one split.
- Chunking: texts up to 30 characters with up to two line breaks, with chunks of 16,
  overlap 4 and minimum 2 for 800, 100 and 50: the order of the sizes is the code's,
  and a text is up to two and a half chunks long. Conversations of up to four lines.
- Search: tables of three entries, limits 0 to 2, widening 2 for 4, two chunks of one
  document: nearer entries of another tag fill all candidates.
- TagGraph: all graphs on four tags, hops 2 (also as the default for 0) and 3, which
  is the longest path.
- LongMemEval: two workers, two questions, three sessions with a common chunk, a cache
  for two of four texts: a full cache takes no more, so that what one worker has embedded
  may or may not get in, depending on what another has put there since its look.

`json_one_writer` uses symmetry of workers and of triples; its properties are safety
properties that name no worker or triple. Capacity 1
with two texts evicts at every second put, so that one position of a batch may hit
and the next miss the same text; micro-batches of 1 make the sorted order matter.

Three ids and three commits are enough for an entry to be added, changed or
deleted, and for one more operation to act on stale knowledge of it; a batch of
two separates "all" from "some". Two contents tell an updated row from the old
one. In `daemon`, two connections let a new call overlap a handler that came late;
two commands of the MCP server let a decision outlive the daemon it was made for. The
first state chooses between these and one command of each client (`quota` in
`MCDaemonServer`), as it chooses in `data_dir` what happens to the files (`work` in
`MCDataDir`).

Two restrictions of `data_dir` are deliberate, and each is a hazard of its
own. Its daemon neither calls Update nor fails to index a
document, and nobody ingests: a failed index write followed by a successful one,
or by an ingest (which never calls Init and so never meets the dirty check), marks
the index ready (`repo_masked_dirty`); and Update changes the cached snapshot
before its transaction, so an Update that fails in the daemon is seen by later
operations. `SearchesSeeRows` shows that a daemon whose Updates do not fail may call it. The
repairs beside the daemon do not crash: a repair empties the index
without marking it dirty.

Deadlock is checked in every run but three: `daemon` stops when its bounded calls are
answered and its daemons gone, `workbench` when its walks, calls and
algorithms have ended, `cli_modes` after its one command.

### Properties

Entry store:

- `IsEntryStore`: every behaviour is one of `EntryStore` (refinement; the mapping
  is the rows and next_id themselves).
- `SearchSeesRows`: while the flag says ready, a process past Init finds exactly
  the rows, in the index on disk and in the collection it holds open.
- `CacheCoherent`: a snapshot loadLocked would trust is what SQLite holds.
- `MirrorHonest`: a mirror at the metadata's revision has the metadata's entries,
  at every step.
- `RepairHeals`: the last step of RebuildIndex, also when it fails, leaves index,
  mirror and rows equal and the flag ready.
- `BlobBeforeRow`, `RevisionsOrdered`, `IdsNeverReused`, `TypeOK`.
- `StartsSound`: a start never succeeds over a store.json it cannot read, also at a
  later start that finds store.db, and leaves an index of exactly the rows.
- `AnswerPasses`, `NeverShadowed`: whichever way an answer is found it passes the
  filters and the limit; a search whose nearest candidates have other tags is not
  empty if a token is found, and a corpus names as many documents as were asked for.

JSON files and embedder:

- `Readable`: whoever opens a file finds a whole snapshot, also after a stop
  anywhere in `save`. `IsLedger`: every behaviour is one of `Ledger` (refinement).
  `PastSettled`: a change dated some day does not alter what Query answers as of
  an earlier day.
- `IdsDistinct`: even with lost updates no readable file gives two facts one id.
- `RightVectors`: every position of an answer has the vector of its own text.
  `CachesWellFormed`, `SessionsKept`: order, map and bound of both caches; every
  session is in the pool or running.

Daemon:

- `ServingReachable`: the socket path leads to the daemon that serves.
  `ClosedAfterLast`: the backend is closed after the last handler.
  `OutcomeHonest`: a success is a stored entry, a command stores at most one, and one
  that failed before it sent its add stores none.
- `EveryDirOwned`, `SearchesOpen`: a corpus directory is in the cache under one key or
  in the hands of the handler that builds it, and is not removed under a search.
- `OneFlightPerKey`, `KnownIsHot`: a run asks for a corpus once at a time, and what it
  knows of the present daemon is true.
- `ToolsAgree`: a tool of the MCP server does the same through the daemon and without, but
  for the arguments the property names, for which it does not. `CommandsAgree`: a command
  does the same in both modes, always (finding 6).

Files and algorithms:

- `OpenedWhole`: a corpus that is opened has all its entries (finding 5).
  `WholeUnlessHalfRemoved`, what is left of it for builders that follow each other: only
  the removal of a complete corpus makes a meta file vouch for an incomplete one, and
  nothing but such a file makes a builder open one.
- `AddedOnce`, `SetAsideWhole`: every file is added once; a log is set aside only when
  each long session has a whole part, or a later one took its name.
- `TextKept`: nothing visible falls between two pieces of a long text, and no conversation
  is dropped as a whole for its form; what stands before its first exchange, single short
  exchanges and paragraphs, and segments without a keyword may be. `WalkComplete`: the walk
  reports each reachable tag once, at its distance. `CandidatesRight`: a question is compared with the vectors of the chunks
  it is ranked by, whatever workers and a full cache do.

### Fairness

- `LockReleased` (a holder of the lock lets go): weak fairness of `OperationStep`; a
  goroutine inside `withLock` is scheduled, and no call in it waits for another
  operation. Starting operations is not assumed fair.
- `Answered` (every call of the embedder ends): weak fairness of a call's own steps, the
  failure of a run among them, but not of failing to prepare, and strong fairness of
  `Checkout`: a Go channel serves its receivers in the order they came.
- `StopEnds` (a daemon that is told to stop returns): weak fairness of the steps of a
  daemon, of each handler and of each client's call; none of starts, signals, commands
  and deadlines. Clients are assumed fair because the only ones are those of this
  repository: they write their request right after dialling and close after the answer.
- `RunReturns` (a benchmark run ends, no worker waits for ever): weak fairness of each
  worker with the handler that serves it, and of each collector. The daemon may be
  stopped, killed and started as one likes; a build ends in one way or the other.

## Findings

1. `repo_two_adds`: two commands that have both passed Init take the same id and
   the later one overwrites the earlier entry (`store/repository.go:1026`).
   `TestRepositoryReloadsAfterExternalWrite` states the opposite but its reader
   never has a cached snapshot with a stamp. The same staleness exists between a
   daemon and any direct command, and between two ingests once a mirror exists.
2. `repo_masked_dirty`: `index_state` is set to ready by the next successful
   mutation (`store/repository.go:285`), against the consistency section of the
   SQLite design document.
3. `json_two_writers`: two handlers of the daemon changing the knowledge graph at
   once share one temporary file (`kg/store.go:169`) and no lock; one can rename
   the file the other has just emptied, after which every operation on it fails.
   The multi-client design document promises safe access for several clients and
   serialised writes.
4. `migration_interrupted`: the older store is looked for only when `store.db` does not
   exist (`store/sqlite_migration.go:12`), and it is created first. A first start that
   ends in between leaves an empty database, which the next start takes for the
   migrated one; a repair then overwrites `store.json` with nothing. The design
   document wants startup to fail loudly on a partial migration.
5. `kept_corpus`: a corpus directory is removed with its meta file like any other
   file in it (`bench/interface.go:108`, `:252`), in no order that the code fixes. A run
   that ends when the store is gone and the meta file is not leaves a corpus that the next
   run opens as cached, with the empty store `Init` makes. The test of the cache expects
   the entries in a corpus that is opened again.
6. `cli_modes`: `tagmem add --depth 0` (README, "Quick Usage") is stored at depth 1
   through a daemon and at 0 without one (`daemon/backend.go:151`); the design of the
   mode has the command print exactly what it did. `CommandsPartOnlyThere` lists all such
   arguments: a negative depth is refused without a daemon and becomes 1 with one;
   `tagmem search --limit 0` means no limit without and 5 with one; tags that are all
   blank; numbers beyond 2^53.

Limits of the properties that hold, found while modelling:

- With `Overlapping = TRUE`, `ServingReachable` is violated: of two daemons that start
  at the same time one can remove the socket the other has just bound, and a daemon
  that stops removes the file of its successor.
- `StopEnds` needs clients that write or close: `ReadRequest` has no deadline.
- A start whose chmod fails closes its socket and removes the file in one step (`Chmod`);
  between the two another daemon may bind, which matters only with `Overlapping = TRUE`.
- `AddedOnce` is violated by two ingests that overlap: each reads the origins once. An
  ingest that meets a part the splitter is still writing adds it as it is, and never
  again.
- `OpenedWhole` is violated without any failure if two workers, of one run or of two, need
  the same documents (`Builders = {"b1", "b2"}`, `Failing = {}`): they use one directory
  without a lock (`bench/longmemeval.go:219`). One reads the meta file that the other is
  writing in place, takes the corpus for damaged and removes it (`bench/interface.go:244`);
  the other opens it again meanwhile. `WholeUnlessHalfRemoved` is about one builder after
  another.
- `ToolsAgree` has exceptions: numbers beyond 2^53 either way, searches for a blank query
  or tag, tags that are all blank, dates and diary texts with blanks around them, and
  `diary_read` without a positive `last_n`; `Parted` in `ToolRouting.tla` lists them, and
  `ToolsAgree` says that the modes differ in each of these cases and in no other. Where
  the daemon takes its default for a number that is not positive anyway (`Replaced`), one
  far below zero makes no difference. No document promises more for the tools.
- LongMemEval: a question for the assistant is ranked by all chunks of a full text if
  they were embedded beforehand, by the first five if not; the error of the batch of
  questions is swallowed, after which similarities are 0.
- A killed daemon leaves the temporary directories of its corpora.

## Proofs

TLAPS checks the following for every value of the constants, under the assumptions
named in the modules. Each of these is a fact about the code's constants or names, or
says that the model values differ; TLC evaluates them in the runs of these modules.

### Entry store, without restriction (`RepositoryProofs`)

Assumed: `BoundsAssumption`, `SetsAssumption`, `NoneAssumption`, `BadRequestAssumption`
(the constants have the expected kinds, and `None` and `BadRequest` are not values of
another kind), `ProcsFinite`.

- `TypeCorrect`: `Spec => []TypeOK`. `TypeOK` is not inductive. AddMany puts its
  entries at `snap.nextId`, so ids stay in range only because of the bound checked
  when the operation began: `AddFits` carries it through every step at which
  requests are still waiting, for next_id, for the loaded snapshot and for the
  cached one that may be loaded. `UpdateHasContent` does the same for Update's
  request.
- `BlobsFirst`: `Spec => []BlobBeforeRow`. Strengthened with the snapshot of the
  running operation (`BlobInv`), from which every row, mirror and cached copy
  descends.
- `RevisionsInOrder`: `Spec => RevisionsOrdered`, from `mirrorRev <= metaRev`.

### Entry store with one writer (`RepositoryOneWriterProofs`)

The copies of the store agree only if one process at a time changes it, and only if a
long-lived process does not go on after certain errors; `OneWriter` says exactly this,
and findings 1 and 2 are what happens without it. Nobody ingests. A long-lived process
may crash, fail before its transactions or lose its mirror, but does not fail to index a
document, nor lose the transaction of an Update. A one-shot command may fail anywhere.
Two processes run together only if one of them is a `Careful` repair: `tagmem repair`
that is neither killed nor fails to index. `data_dir` checks
two instances of it; the theorems also cover a daemon that updates, and any number of
commands, repairs, ids and contents.

The invariant `OneWriterInv` has seven parts. `LockInv` and `ProcessInv` tie the step to
the operation, the process and what it may remember. `SnapInv` says at which steps the
snapshot of an operation is what SQLite holds, and otherwise what it will hold after the
commit (`AddUnderWay`, `ChangeReady`). `CacheInv`, `MirrorInv` and `IndexInv` say the
same of cached copies, of `store.json` and of the index, at every step: an index is like
the rows outside the entries that are being indexed (`todo`), and if it is not known to
be dirty then what it holds is right even if it is not all there.

- `SearchesSeeRows`, `CachesCoherent`, `MirrorsHonest`: the three invariants of the
  runs, for all constants under `OneWriter`.
- `RepairsHeal`: the last step of RebuildIndex finds index, mirror and rows alike.
- `ImplementsEntryStore`: `Spec => IsEntryStore`. Only `Commit` is a step of
  `EntryStore`: an AddMany of the contents that `snap` holds from next_id on
  (`CommitAdds`), or the Delete or Update asked for (`CommitChanges`). Every other step
  is a stutter (`OthersKeepRows`), although three of them write all rows again.
- `IdsStayNew`, `RowsChangeAsAsked`: no id is given out twice and next_id never goes
  back; rows change only by a commit, and only those it is about.

### JSON files (`JsonStoresProofs`)

Assumed: `JsonBounds`, `JsonSets` (finitely many workers and agents).

- `FactIdsDistinct`: `JsonSpec => []IdsDistinct` for any number of writers, that race and
  stop anywhere. `JsonInv` says of every inode that belongs to a file, by either of its
  names or by a worker's descriptor (`Owns`), that what can be read from it is a snapshot
  whose ids are its places; and that no inode belongs to two files.
- If changes of one file do not overlap (`OneAtATimeSpec`, which nothing in the code
  enforces; `json_two_writers` shows what happens otherwise): `FilesReadable`,
  `ImplementsLedger` (a change is its rename, any other step a stutter) and
  `PastStaysSettled`. `SoloInv` adds that a worker on its way is alone with its file and
  that the text it holds is the change applied to the present one (`InStep`).

### Embedder (`EmbedderProofs`)

Assumed: `EmbedderSizes` (capacities are naturals, 0 included; pool, micro-batch and
batch are positive), `FiniteRepos`, `NoneIsNoText`.

- `PutsAgree`: on a well-formed cache, inserting and then evicting equals evicting and
  then inserting. With `EvictThenPutType` it reduces both caches to one argument.
- `AnswersRight`: `Spec => []RightVectors`. The invariant `Inv` follows a call
  through its phases: a position holds its own vector or its text is among the
  misses (`Collecting`, `Computing`), every miss is computed or still in the
  sorted list (`Computing`), every position not filled has its miss still to be put
  (`Putting`); lookups are right because every cached vector is that of its key
  (`CachesFaithful`).
- `CachesStayWellFormed`, `SessionsStay`, `EmbedderTypeCorrect`: conjuncts of `Inv`; the
  second counts running calls with the cardinality theorems.

### Daemon and tools (`DaemonServerProofs`)

Assumed: `ClientKinds`, `NoSuchDaemon`, `BoundsAssumption`, `ConnsFinite`; `ToolNumbers`
(the default limits, at most 10, can be carried by a JSON number), `WordSaysSomething`.

- `OutcomesHonest`: `Spec => []OutcomeHonest`. Each add stands for one command,
  wherever it is: a command that has not sent its add (`Unsent`), an add that may
  still be handled although its client may have gone (`Pending`, counted with the
  cardinality theorems), a stored entry, a refusal. Their sum never exceeds the
  commands begun; successes reported or still to be read (`Praised`) never exceed the
  entries. `Linked` ties a client to its own connection. The steps of a daemon and
  most of a handler's are `Mild`: they send and store nothing.
- `BackendClosedLast`: `Spec => []ClosedAfterLast`, from `HandlersOwned`.
- `DaemonReachable`: `Overlapping = FALSE` implies `Spec => []ServingReachable`. By
  `Alone` at most one daemon is starting, stopping or serving, except that another one
  may look for a serving daemon, which it then finds.
- `DaemonTypeCorrect`: `Spec => []TypeOK`.
- `ToolsAlwaysAgree`: `ToolSpec => []ToolsAgree`, for all numbers. The run checks five;
  the proof (`AskedAgrees`) goes through tools and commands one by one and compares what
  reaches the stores, field by field, in both modes. It showed that the list of exceptions
  in an earlier form of `Parted` was too long for numbers far below zero.
- `CommandsPartAsListed`: `ToolSpec => []CommandsPartOnlyThere`, how far the commands are
  from `CommandsAgree`.

### Corpora (`CorporaProofs`)

Assumed: `CorporaConstants`. The invariant is `CorporaInv`.

- `DirectoriesOwned`, `SearchesFindTheirCorpus`: `EveryDirOwned` with
  `dirs \subseteq 1 .. made` (the next directory is new), and the stronger claim that
  what is searched is in the cache.
- `OneAsks`: a worker that asks, or whose call is lost but not yet returned, has its
  run's flight, and no other does (`FlightsAsked`).
- `KnowledgeHolds`: `KnownIsHot` with `known <= started`.

### Directories left by stopped runs (`DataDirProofs`)

Assumed: `LegacyAssumption`, `IngestConstants`, `PartsOfOneLog`,
`PartsAreNoLogs` (a log that is named like a part of another one is left out of the
model).

- `CorpusWholeUnlessHalfRemoved`: with one builder at a time, which may be stopped anywhere,
  `CorpusDirSpec => WholeUnlessHalfRemoved`. `CorpusDirInv` says what each step of a build
  needs: a builder that opens has read a whole meta file; one that builds has its store
  in the directory, and all of it before it writes the meta file.
- `StartsAreSound`: `MigrationSpec => []StartsSound`. The check of a start compares
  counts; that equal counts mean equal documents follows from `AllOrNone` (rows are none
  or all of the older entries, documents are among them) and `SameSize`. `ReadFirst` says
  that a damaged store.json stops every command before it reaches the index.
- `IngestAddsOnce`: with one importer, `IngestSpec => []AddedOnce`; what the walk has
  found and the store already has, it knows (`IngestInv`).
- `LogsSetAsideWhole`: `IngestSpec => []SetAsideWhole`, for any number of importers.
  `SplitInv` follows the split from part to part: each long session before the present
  one has its part, or that part is being written again, or a later session of its name
  has taken its place.

### Algorithms (`AlgorithmProofs`)

Assumed: `TagConstants` (finitely many tags), `SearchConstants`, `ChunkSizes` (the order
of the sizes in the code), `LongMemEvalConstants`.

What a recursive function computes is proved by induction over a set of naturals: `Least`
draws the least element of a set from the well-foundedness of `<`, `Induct` follows from
it, and the existence of each recursive function is shown before its equation is used.

- `WalksAreComplete`: the queue of Traverse is in order of distance, with at most one
  step between its ends (`QueueInv`); what is nearer than its head has been visited
  (`VisitedInv`); the edges reported are those of the tags taken off it (`EdgesInv`).
  That distances are those of shortest paths, and a tag at some distance has a neighbour
  one nearer, is proved from the definition of `WalkComplete`'s reference.
- `AnswersPass`, `NothingShadowed`: from `SearchInv`; an answer is found among the
  filtered rows and is not empty while one of them has a token.
- `TextIsKept`: for a text of any length with at most two line breaks, each piece
  ends more than the overlap after its start (`PieceEndIs`), so that the next one begins
  later, and by the overlap before that end; no piece as long as the overlap is dropped
  for having too little in it, if every such stretch has enough. For a conversation of any number of lines, sums over
  lines show that the modes and their fallbacks together keep something of what is long enough.
- `CandidatesAreRight`: `VectorsInv` says that the cache holds the vector of each of its
  texts and not too many (`Caches`), that what has been placed is right and complete
  (`PlacedInv`), and of each call of embedMany that what it has found, misses and has
  embedded adds up to its texts, in order (`CallsInv`), however many other calls fill
  the cache between its look and its write. `LoopRuns` is the induction for the loops.

### Only model-checked

Liveness under fairness is out of the prover's reach: `LockReleased`, `Answered`,
`StopEnds`, `RunReturns`. Every other property that a passing run checks is proved. The
properties of the six violated runs (`IdsNeverReused` and `SearchSeesRows` without
`OneWriter`, `NothingLost`, `StartsWhole`, `OpenedWhole`, `CommandsAgree`) do not
hold of the code.

## Not modelled

- Tagging, scoring and claims: heuristics over text and floating point. `Search` leaves
  open the order they give.
- Model inference and HTTP providers: they appear as failures of `Embedder` and as
  index faults of `Repository`.
- The other benchmarks (LoCoMo, ConvoMem, MemBench, false memories, performance) and
  all metrics: sequential evaluation in floating point, and printing. They use the
  corpora and chunkers that are modelled.
- Parsing of flags, rendering, path names, `.gitignore`, the text of JSON files an
  ingest reads, the MCP protocol (a library).
- FindBridges, Stats, Timeline and the counts: single passes that change nothing.
- Code nothing calls: `rebuildIndexFromSQLiteLocked`, `syncStoreToSQLiteLocked` and the
  rest of `store/sqlite_migration.go:144-333`, `searchFallback`.
- Characters cut in two by a chunk's end (`importer.go:250` cuts at bytes).
- Scripts, Docker files and assets.

## What would come next

- The composition of `DaemonServer` with `Repository`, in which an MCP server that works
  on the files beside a daemon meets the stale snapshots of finding 1.
- A weaker `OneWriter`: what is left of `SearchSeesRows` when a failed index write is
  followed by a start before the next mutation, as between one-shot commands.
- `LoCoMo`, `ConvoMem` and `MemBench` where they share corpora between workers.
