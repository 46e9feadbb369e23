# golance in TLA+

golance is a Go language server. It answers editor requests from two sources: a type-checking engine that
keeps the packages being edited (`internal/check`), and a facts index on disk, built by a subprocess, that
answers questions about the whole workspace (`internal/index`, `internal/store`, `internal/xref`).
`internal/server` connects them to the editor through `internal/rpc`.

This project models the parts of golance whose correctness depends on the order of events: which goroutine
runs when, what a timer, a save, a reload or a collection meets on its way, and what is left when one of them
fails or is killed. TLC checks the models on small instances; TLAPS proves the theorems below for every
instance.

## The system

| Component | State | Operations | Hard because |
|---|---|---|---|
| check engine, `internal/check` | per unit (directory + variant): cached package, debounce timer, cancel function, epoch, three generations; flights; focus; `retired`, `ctx`; `pendingWG` | `Get`, `GetPackage`, `SetFocus`, `Invalidate`, `InvalidateDependency`, timer callback, recheck, commit, `Retire`, `Stop`, `Wait` | request flights and background jobs of one unit run side by side and finish in any order; files are read outside every lock |
| index lifecycle, `server/indexer.go` | `s.idx` (atomic pointer), `idxMu`, `reindexWG`, `dirtyPkgs`, the shared or private database file | warm open, clone, seed, build, revalidate, repair, close-and-rebuild, drain | the pointer is read without the lock; a rebuild closes what detached goroutines hold |
| document sync, `documentsync.go`, `internal/overlay` | open documents and versions, `pendingOpens` | didOpen, didChange, didSave, didClose | a handler changes what the engine reads and tells it so in two steps; a document may open before there is a workspace |
| workspace reload, `workspace.go`, `lifecycle.go` | snapshot, engine, dependency cache, package source | `loadWorkspaceAsync`, `setWorkspace`, `revalidateGraph`, `revalidateWorkspace` | an old engine is retired while requests still use it; up to four loads overlap |
| watched files, `watch.go` | debounce timer, `running`, `rerun`, file fingerprints | `onEvent`, `fire`, `Stop` | an event during a pass must lead to one more pass |
| diagnostics, `diagnostics.go` | which files each package published for | publish, clear on close | the decision and the notification are two steps; publish races close and the end of a cold build |
| rpc, `internal/rpc`; `clientwatch.go`; `cmd/golance` | lifecycle state, cancel registry, per-document queues, worker pool, pending server requests | dispatch, cancel, notify, shutdown, exit, drain; watch of the client process | one answer per request, document order, no lost wakeup, a process that ends |
| indexer and reindex, `internal/index` | scheduler queues, key table, batches, a generation table per database | `Build`, `Reindex`, `Revalidate` | parallel workers over a dependency order; the generation gate and the write are two steps |
| store, `internal/store`; `casgc.go` | one bbolt database per worktree, content-addressed blobs shared by all of them | put, get, clone, mark, sweep | several processes share the blobs without a lock |
| dependency checker, `internal/depcheck`, `depexport` | two LRUs with pinned entries, singleflight, export store | resolve, evict, delete, persist | eviction during a nested resolution; package identity |
| import graph, `internal/graph` | cache file | load, save, compare | what the cache was saved for may be gone |
| the rest (`xref`, `langfeat`, `diff`, request handlers) | little or none | pure computation | |

How they interact: `didChange` writes the overlay and then calls `Engine.Invalidate`; `didSave` also starts a
detached `reindex`, which on success invalidates the dependency cache and calls `Engine.InvalidateDependency`
for the importers; watched-file events end in `revalidateGraph` or `revalidateWorkspace`, both of which end in
`revalidateIndex`; `revalidateIndex` repairs in place through the same `reindex`, or drops `s.idx`, waits for
`reindexWG`, closes the database and starts the indexer; the engine publishes through `OnResult`; an import of
a recheck is decoded from the facts index if it is a root package and resolved by the dependency checker if
not; a session and the indexer it starts collect the blobs nobody refers to.

What makes each modelled component correct:

* engine: what the client shows and what the cache holds is current once things are quiet, and becomes so; a
  request is answered, and never with text older than at its start; one background job per unit; `Wait` waits
  for exactly what is running;
* index lifecycle: no query and no write meets a closed database; the indexer has its file to itself; `idxMu` is
  always given back;
* session: a request is answered once, after the changes of its document sent before it; the process ends when
  its client does;
* indexing: a recorded pointer says what was really read; a repair pass heals whatever went before; a
  collection takes nothing a database refers to; a build ends;
* dependencies: a closure has one package per import path; pins balance; what is persisted for the whole
  machine stays; nested calls return;
* workspace: the graph and the index catch up with the disk, the decoded packages with the graph, the editor's
  diagnostics with its text; and work comes to rest.

`PROJECT.json` lists the hazards line by line, each with the property that would catch it.

## Modules

| Module | What it is |
|---|---|
| `CheckEngine` | `check.Engine`, its callers and its client: 24 variables, one action per critical section or read |
| `CheckEngineProofs`, `CheckEngineFreshness` | theorems: types and what every action does to the recheck records; jobs and the pending count; freshness of what is published, cached and answered |
| `IndexLifecycle` | `s.idx` and everything that installs, refreshes, drops, closes, rebuilds or writes through it |
| `IndexLifecycleProofs` | theorems: who may use, close or replace a handle; what a dropped reindex leaves to be done |
| `RpcService` | what the JSON-RPC server promises, without goroutines |
| `Rpc` | `internal/rpc`: read loop, queues, pool, contexts, drain |
| `Session` | `Rpc` inside a process with a client, signals and the client watch; implements `RpcService` |
| `SessionProofs` | theorems: the inductive invariant of the process, and that it implements `RpcService` |
| `UnitStore` | databases and shared blobs of a repository's worktrees, and their collector |
| `Indexing` | the writers over `UnitStore`: Build, Reindex, Revalidate and its repairs |
| `IndexingProofs` | theorems: keys, stats, pins, decode caches and repairs |
| `DepCheck` | the source-checking provider with its two LRUs |
| `DepExport` | the machine-wide export store over `DepCheck` |
| `DepExportProofs` | theorems: types; what is persisted and what a run answers; what a deletion reaches; pins; the identity of packages |
| `Diagnostics` | documents, rechecks and publications |
| `Workspace` | loads, installation, watched files, decode cache and index of a session, over `Diagnostics` |
| `WorkspaceProofs` | theorems: types and locks of `Diagnostics` and `Workspace`; the decode cache |
| `WorkspaceQuiet` | theorems: what a client at rest shows of open and of closed documents; the graph and the index of a workspace at rest |
| `MC...` | instances: symmetry, small graphs, and the scenarios (`Loads`) of each run |

A module that EXTENDS another composes it: `Session` with `Rpc`, `Indexing` with `UnitStore`, `DepExport` with
`DepCheck`, `Workspace` with `Diagnostics`. The composed module's `Next` interleaves the actions of both, and its
properties relate the two states. `Loads` is a set of scenarios; the initial state picks one, and its budget
bounds what the user, the disk and the faults may do. It bounds the environment only: no step of golance has
a budget.

### CheckEngine

Data is abstracted to readings. `content[k]` is the version of unit `k`'s files as the overlay shows them,
`dep[d]` the version of whatever directory `d`'s packages import; a checked package is the version it hashed,
the version it parsed and the version of the imports it was checked against. A `Reading` is `short` if it lacks a
file that could not be read; a short hash differs from a full one. The other variables are the
fields of `Engine` and `dirState` under their own names. `timer[k]` has three values, because an expired timer
whose callback has not yet reached `startJob` is neither nil nor stoppable. `work[r]` is a goroutine in
`runRecheck`, with a program counter that stops wherever the code takes a lock, reads a file or checks its
context; `kind` says whether a job (`fireRecheck`) or a flight (`runFlight`) runs it. `getter[g]` is a handler
inside `Get`. `older` is the order of the cache entries' `lastUsed`. `changedAt` and `gaveUp` are history: the
generation at the last change of a unit's inputs, and the units whose last job failed twice.

The environment: `Edit` and `DependencyChange` change what the engine will read; `Invalidate` and
`InvalidateDependency` follow as separate steps, as in `handleDidChange` and `reindex`. A request may be
canceled (`GetCanceled`), the owner may call `Retire` or `Stop`.

A read may fail in one of two ways, and which one depends on where it is. Listing the directory, finding a package
clause and `contentHash` end the recheck with an error (`ReadFails`, `GetFails`), after which a job is retried once.
`packageClauseName` drops a file it cannot read from the package, and `parseFiles` turns it into one more parse
error; the recheck then succeeds, is cached and published, and nobody retries it (`Skips`). After a loss at the parse
alone the entry is even cached under the hash of all the files, and `getUnit` goes on serving it until the next edit.
So `FreshWhenQuiet`, `CacheFreshWhenQuiet` and `ClientCatchesUp` say that what is left is of the current version of the files
and imports (`IsCurrent`), not that it has all of them.

Not distinguished: `readFile`'s memo is taken to be transparent, and a panic in a flight counts as a failure.
`Retire` and `Stop` set `retired` and take the lock in one step. Edits never bring earlier text back in the
checked instances (`Undo = FALSE`): with equal hashes for equal texts, "older" has no meaning for
`GetNeverStale`.

### IndexLifecycle

`disk[p]` is the version of package `p` on disk, `facts[f][p]` the version in database file `f` (`shared` or this
session's `private` one). `open` is the set of handles this process holds, `idx` the installed `indexState`.
`proc` holds the goroutines: the loader (`loadWorkspaceAsync`), the reloaders (`revalidateGraph`,
`revalidateWorkspace`) and the detached tasks of `rpc.Go`; `saver[p]` is the didSave handler of a package, with
its two reads of `s.idx`. The indexer subprocess is external here (`Indexing` opens it): it handles the packages
one at a time, may fail on one of them without failing as a whole, and may die at any point. Staleness is the
difference between `facts` and `disk`, and of two overlapping reindexes the newer version is taken to win.

### RpcService, Rpc, Session

`phase[r]` follows a request from the read loop through its barrier, the wait for a pool token and the handler
to the response; `ctx[r]` is its context (live, canceled, expired); `resp[r]` counts responses. A document's queue
holds its notifications and the no-ops that `join` pushes; `applied[d]` is what the drain goroutine has run.
`task[t]` is a goroutine of `Server.Go`, which may wait for the answer to a server-to-client request. `serve`
says how the read loop ended and whether `Serve` returned; `proc` is the process. `watchFindsClientGone` is the
tick of `watchClientProcess` that finds the pid gone; it makes the pending read fail, and `forceExit` is its backstop.

`Service == INSTANCE RpcService WITH ...` maps a request to unsent, open or answered by `phase` and `resp`, and the
changes applied to the length of `applied[d]` if that is a prefix of what was sent in order (-1, which is no
abstract state, otherwise). `ImplementsService` is the abstract specification as a property of `SessionSpec`.

### UnitStore, Indexing

A version stands for a package's text, a stat for one write of its files, a hash for the value it is computed
from; so a unit key is the package, its own version and the API of each import. `units[r]` are the pointers in
the database of worktree `r`, `blobs` the shared store with the age class the grace window distinguishes, `gc` the
collector at whichever shard it has reached. `file` and `holder` say what a database looks like when opened and
who holds its lock. `Build` keeps the scheduler's pending counts, up to `Parallelism` packages being checked, the
key table and a batch of up to `BatchSize` pointers; `killIndexer` may come anywhere and loses the batch. `call[c]`
is one `Reindex`, package by package over the reverse closure, with `tryCommit` and `PutUnit` as two steps.
`RevalidateStale` and `repairNext` are the revalidation pass. `decoded` is what queries have decoded.

A collection reads its own database and those the store lists, and only the indexer puts one on the list
(`PutCASDir`, whose failure is only logged). A database seeded from a sibling, cloned for a private session or emptied by
a session shares the store without being on it until an indexer of its root runs: `file[r].member` says which ones are
listed, scenarios start with either, and a registration may fail. `PinnedBlobsSurvive` is therefore about the blobs of
listed databases and of the collector's own, and `RepairHeals` about a listed one; without that condition TLC refutes
both. The comment on `PutCASDir` (`store/store.go:375`) says that the server calls it after every successful Open.

Two constants exclude cases the code does not handle, so that the properties say something about the rest: with
`TornReads = TRUE` the text that is parsed need not be the one that was hashed (`parseGoFiles`), because a file changed in
between or could not be read the second time; a blob of the wrong facts then stays under a right key, and TLC
refutes `RepairHeals`. With `ListingFails = TRUE` the listing itself may fail, is then treated as empty, and
`PinnedBlobsSurvive` fails. `keyTable.get` looks a record up at each use in the model and keeps it in the code, which only
lets more happen here.

### DepCheck, DepExport

A checked package is an instance, numbered in `inst` with the instances it refers to; two instances of one path
in one closure are what `go/types` would call different types. `lru[k]` has the order, the entry, the pins and
the pending deletions of each cache; `scope[x]` is a `closureScope` and `stack[x]` the nested `packageScoped` calls of
a goroutine, which stop before and after every singleflight. Packages decoded from export data have negative
numbers. The order of an LRU's list is the relation `newer`. `job[x]` is a call of `ExportData`: memo, store,
singleflight, check, persist, memoize.

`slips` is history. "stolen": the last waiter of a flight that put nothing released a birth pin nobody had taken,
at the expense of someone else's pin. "lost": a caller was handed a package that the pin it took does not hold,
because the entry was gone by then. Each is a finding. `ClosuresAreWhole` is stated for behaviours without either,
`PinsAreBalanced` for those in which no pin was stolen, and both for a provider that checks no bodies and decodes
nothing (`load.plain`), which is the one that produces export data. `DeletedIsRechecked` holds in all behaviours.
Decoding an import succeeds in the model and gives the same package for good: a blob that cannot be read, for which
`ImportFrom` returns an error and `go/types` makes up a package, and the resets of the decoded generation
(`depcheck/export.go`) are left out. Neither can happen to a plain provider.

`PersistedIsFinal` is about what other processes see: a blob that is in the store is not replaced by one of another
instance. It rests on the singleflight, on the second look under it and on the order of the steps before it; without
the second look (`leadExportBlind`) a caller that missed the store before the blob was there checks the package again.

### Diagnostics, Workspace

A document has a version, in the overlay or on disk; version 0 has no errors and each other one an error of
its own, so that showing the errors of old text is visible. `handler[f]` is the notification handler of a
document between its steps, `armed` and `recheck[<<e, u>>]` the path of a unit's recheck in engine `e` (`CheckEngine` has
the engine itself), `diagFiles` and `shown` what was decided and what the client saw. `publishDiagnostics` loads `s.idx` before it takes
`diagMu`; the model has the two in one step. The gate is the diagnostic
of an import that cannot be resolved while there is no index.

In `Workspace`, `thr` has the four goroutines that can load or revalidate (start-up, its background check, the
debouncer's pass, a module file's reload), each at the step it has reached: load, save the cache, set, drop what
changed from the decode cache, store, drain the pending opens, revalidate, repair or rebuild. `snap` is the
installed graph and `target` the one the package source answers from; they differ inside `setWorkspace`. `mail` is
what the client's watcher has seen and not delivered; events are delivered in batches of any size. `Kill` and
`Exit` end the process at any step and `handleInitialize` starts the next one on the cache file and the database
that are left.

`gaps` records, in the step where it happens, what keeps a change from reaching the graph or the index. Failures:

* `failed`: `go list` fails, and the load gives up;
* `unchecked`: the staleness of the index cannot be told, and nothing is done about it (`staleIndexPackages`);
* `unrepaired`: the reindex of a stale package that has all its files fails (`repairIndexPackagesLocked`);
* `unavailable`: a build leaves no index to open (`runIndexBuild`, `openIndexAfterBuild`);
* `unbuilt`: a rebuild leaves packages out, because they could not be checked or the indexer died. What the first
  build leaves out is found by the revalidation that follows it and is no gap.

What the code passes over without a failure:

* `unreported`: the client does not tell of a changed module file; the server asks for events of `**/*.go` only
  (`lifecycle.go:263`), and whether the client watches the others is up to it;
* `new package`: by design, see `needsGraphReload`;
* `trusted`: a cached graph that is neither shared nor stale, and not that of the disk;
* `dropped`: events before there is a workspace;
* `crossed`: two loads whose installations crossed;
* `misjudged`: an event judged by a graph about to be replaced.

`SettledIsCurrent` is about behaviours without one, and no entry is there for convenience: with any of the failures or
`unreported` left off the list TLC refutes it. A warm open or a save of the cache may fail too, and needs no exception.
The run `workspace_reload` is about the last two.
`unrechecked` are units whose recheck was lost with a retired engine, that were never asked for again after a
warm open, or an external test the engine did not know when its document was edited; `outOfOrder` are documents whose notification overtook a later decision.

## Runs

| Run | Instance | Shows |
|---|---|---|
| `engine_races` | 1 unit, 3 goroutines, 2 handlers, any 3 of 2 edits / 1 dependency change / 2 Gets / 1 failure / shutdown; 1.3 million states | `TypeOK`, `FreshWhenQuiet`, `CacheFreshWhenQuiet`, `OneLiveJob`, `WaitNeverEarly`, `GetNeverStale` |
| `engine_live` | both variants of 1 directory, 2 goroutines, 1 handler, any 2 events, fair; 288 000 states | `EveryGetReturns`, `ClientCatchesUp` |
| `engine_pending` | 1 unit, 2 goroutines, 2 edits | a finding |
| `index_safe` | 2 packages, 1 reloader, 2 tasks, any 2 of 2 saves / 1 external change / 1 failure / 1 self-heal; 1.2 million states | `TypeOK`, `ServedIndexIsOpen`, `ReindexHoldsOpenDB`, `OneOwnerPerFile`, `DroppedReindexIsMadeUpFor` |
| `index_live` | 1 package, 1 reloader, 1 task, any 2 events, fair; 125 000 states | `LockIsReleased` |
| `index_drain` | 2 packages, 1 task, 2 saves | a finding |
| `session` | 4 requests, 2 documents, 2 tasks, 1 pool token, 6 scenarios, fair; 52 000 states | `TypeOK`, `NothingLeftBehind`, `FinishedWorkIsDelivered`, `EveryRequestAnswered`, `EndedSessionExits`, `OrphanExits`, and the refinement `ImplementsService` |
| `indexing` | 2 packages, 2 worktrees, 3 calls, 3 versions of which 1 is broken, 10 scenarios, fair builds; 382 000 states | `TypeOK`, `StatFastPathIsSound`, `KeysAreCoherent`, `RepairHeals`, `DecodedIsCurrent`, `PinnedBlobsSurvive`, `BuildEnds` |
| `deps` | 4 import paths, caches of 1, 2 goroutines, 8 scenarios, fair; 64 000 states | `TypeOK`, `ClosuresAreWhole`, `PinsAreBalanced`, `DeletedIsRechecked`, `PersistedIsFinal`, `RunAnswersAgree`, `EveryCallReturns` |
| `deps_split` | the same, one request with bodies | a finding |
| `workspace` | 3 packages of 4 files, 3 documents, 4 goroutines, up to 3 engines, 17 scenarios, fair; 377 000 states | `TypeOK`, `SettledIsCurrent`, `DecodedIsFresh`, `QuietIsAccurate`, `WorkSettles` |
| `workspace_reload` | the same, one file removed and written again | a finding |

Why the bounds are enough. Engine: the generation gates, the epoch and the timer race all involve at most a
newest, an older and an oldest recheck of one unit: three goroutines give every order of the three. Three events
are an edit, something that lets a recheck overtake another (a second edit, a request, a dependency change), and
a failure or shutdown. Index lifecycle: two packages make "above the repair threshold" different from "stale", and
two tasks plus a reloader let a registered reindex, a late one and a rebuild meet. Session: one pool token and
two Background requests are enough for contention, two changes around a query for order; the scenarios split
the product of requests, tasks and faults. Indexing: the second package imports the first, and the first's tests
import the second, the smallest graph with a test cycle; two worktrees are the owner and the other of every
blob; three calls are two saves and a repair. Dependencies: a diamond with a skipping edge and an unrelated
package over caches of one entry, so that every closure is larger than its cache. Workspace: a package, its
importer and its external test; two changes let the second fall into every step the first one caused, and three
engines are one reused, one replaced and the replacement. Every property of a passing run has a mutant, a
plausible slip in the code it is about, that TLC finds within the same bounds.

`CHECK_DEADLOCK FALSE` is used where the bounded scenario may be used up: once nobody edits, saves, sends or asks
any more these systems have nothing to do. In the engine `SetFocus` is always possible. That work which remains is
done is what the liveness properties say.

Fairness. No fairness is assumed for anything the user, the disk, the faults or a signal do.

* `engine_live`: armed timers fire, goroutines keep running, a handler that has changed the overlay reaches its
  call into the engine (weak fairness each).
* `index_live`: the same for its goroutines and the subprocess, and strong fairness for what waits for `idxMu`,
  because a Go mutex hands itself to a waiter that has waited long enough.
* `session` (`SessionFair`): goroutines that can run do; a notification handler and an Interactive handler return by
  themselves, a Background handler only once its context is done; a deadline passes; a task returns once the
  session context is cancelled. Nothing is assumed of the drain timeout or the forced exit: the process has to
  end without them.
* `indexing`: the steps of a build, and of the collection it waits for.
* `deps`: each goroutine's own steps.
* `workspace`: some step of the system is taken while one is possible (`WF_vars(System)`), with no choice as to
  which; `WorkSettles` holds even under that, because nothing in the system feeds itself.

### Findings

* `engine_pending`: `startJob` (and `Retire`) stop a re-armed timer without balancing `pendingWG`, so `Wait` may
  never return.
* `index_drain`: `openIndexAfterBuild` drains the dirty set while holding `idxMu`, and the reindex it calls locks
  `idxMu` again: one save during a build blocks index maintenance for the rest of the session. `LockIsReleased`
  excludes it explicitly (`SelfBlocked`).
* `deps_split`: an entry of the full-body LRU pins its imports in that LRU only; a closure that meets it after an
  import was evicted from the other one sees two packages of one import path.
* `workspace_reload`: a file removed and written again while the reload for its removal is under way stays out
  of the import graph.

Four more have an instance that shows them, beside the regular runs (`tlc -config MCDepExport_stolen.cfg MCDepExport`
and so on); the passing runs leave out, or record and except, what leads to them:

* `depcheck/depcheck.go:689` (`MCDepExport_stolen.cfg`, `NoSplitIdentity`): `retireWaiterLocked` releases the birth pin of a path whether or not `put` gave one in this flight. The
  pin it takes may be another closure's, whose import can then be evicted; that closure goes on with a second
  instance of it.
* `depcheck/depcheck.go:680` (`MCDepExport_lost.cfg`, `ReturnedIsPinned`): `exitWaitAndPin` pins a path and not a package. A leader that found the package on its second look has no
  birth pin to keep it; it may be evicted before it is pinned, and the closure holds what the cache has not.
* `check/check.go:470` (`MCWorkspace_tests.cfg`, `EditIsRechecked`): an engine that replaces another has not resolved the external tests that are open, and an edit
  of one arms only the base unit of its directory: its diagnostics stay those of the old text until some request
  reaches `Get`.
* `server/indexer.go:947` (`MCWorkspace_gate.cfg`, `GateIsTemporary`): the recheck that follows the end of the first index build covers the directories of open files;
  a document closed during the build can keep showing an import that was only held back.

Other disagreements between code and comments met while modelling, which no run carries:

* `check/recheck.go:58`: files are read once for the hash and once for the parse, so the texts of a result need not
  be what its `contentHash` was computed from (`result.go:27` says they are). `CacheFreshWhenQuiet` shows that the
  recheck an edit arms repairs it.
* `check/check.go:637`: generations are handed out before the content is read, so they order rechecks and not
  content; the client can be taken back to older text for a while. `FreshWhenQuiet` shows that it does not stay.
* `server/documentsync.go:223`: a `drainDirty` that loaded the index before a rebuild dropped it can take a save
  recorded during the rebuild and then drop it, which the comment rules out (`coldSave` in
  `DroppedReindexIsMadeUpFor`).
* `index/generation.go`: "a write here never replaces a newer one", but the gate and the write are two steps
  (`NewerWriteIsKept` in `Indexing`, refuted). `RepairHeals` shows that the next revalidation repairs it.
* `index/unit.go`: a blob may hold the facts of a text other than the one it was keyed by, or lack a file that could
  not be read at the parse (`RepairHeals`, refuted with `TornReads`); nothing repairs this one, because the key is right.
* `check/recheck.go:342`: the same in the engine, for as long as the text stays as it is.
* `store/store.go:375`: `PutCASDir` is said to be called by the server after every successful Open; only the indexer
  calls it (`cmd/golance/run.go:347`).
* `server/documentsync.go`, `reindex`: when a reindex fails at one dependent, the packages it did write keep their
  old decoded form (`ReindexedIsRedecoded`, refuted; `DecodedIsCurrent` is what holds).
* `index/reindex.go:157`: when only the recorded stat has to be refreshed, `reindexOne` writes back the whole pointer
  it read and does not report the package as changed. If another call has replaced the pointer meanwhile and has
  the lower generation, the older pointer comes back and the decode caches are not told. The proof of
  `DecodedIsCurrent` met this: an earlier form of the property, without the exception `PutBack` records, held on the
  scenarios then checked and is false on the scenario `Back`.
* `server/clientwatch.go`: a signal cancels the context the watch runs under, so a process that was signalled and
  then loses its client with stdin held open has no watch left (the `rootDone` of `OrphanExits`).
* `server/lifecycle.go:160`: a warm open stores the index without rechecking files that were checked while there
  was none, although the gate's comment in `diagnostics.go` promises the recheck (`unrechecked`).
* `server/diagnostics.go:41`: "A file that is not open ... is never notified"; files with diagnostics are, open or
  not.

## Theorems

Each theorem holds for every value of the constants that satisfies the module's named assumptions. Those say
that the graph's nodes, orders and files are what the code gets from `go list` (an order of the packages in which
imports come first, no import of an external test package, finitely many packages and directories) and that
scenarios are made of numbers and sets; TLC evaluates them on every instance.

The argument has one shape throughout: an inductive invariant that contains the property or implies it, one lemma
per action, a lemma that splits `Next`, and a last step in temporal logic. Every invariant was checked by TLC on
the run's instance before it was proved. The `...Effect`, `...Type` and `...Keeps` lemmas state what each action does
field by field, so that the rest need not unfold record updates.

**CheckEngine** (`CheckEngineProofs`, `CheckEngineFreshness`)

* `TypeCorrect`: `TypeOK` alone is not inductive: a goroutine's unit is a real unit only while the goroutine is in
  use, and a handler's only while it is inside `Get`. `TypeInv` adds that (`InUse`). The counter `pending` needs the
  units to be finite, which follows from `IsFiniteSet(Dir)`.
* `OneLiveJobHolds`: a live job is registered (`LiveIsRegistered`). That survives `finish` only if a superseded job's
  epoch differs from the unit's (`EpochIsOwned`), and this survives `startJob` only if the registered slot is a job
  of that unit under that epoch (`RegisteredIsJob`) and a job that has not started has no epoch (`FiredIsFresh`).
* `WaitNeverEarlyHolds`: `pending` is at least the number of armed timers and busy rechecks (`WaitInv`). It is not
  equal to it, which is the finding of `engine_pending`.
* `FreshWhenQuietHolds`, `CacheFreshWhenQuietHolds`: `FreshInv` says that a generation later than the last change was
  read after the change, that what the cache and the client have is never newer than their gates, and that as
  long as a unit is out of date something that will bring it up to date is armed, running or due.
* `GetNeverStaleHolds`, for `~Undo`: with equal hashes for equal texts, an edit that brings earlier text back leaves
  "older" without a meaning.

**IndexLifecycle** (`IndexLifecycleProofs`)

* `TypeCorrect`, `ServedIndexIsOpenHolds`, `ReindexHoldsOpenDBHolds`, `OneOwnerPerFileHolds` from one invariant, `HandleInv`:
  `reindexWG` counts exactly the registered goroutines (`WGCounts`, which also keeps it from going negative), the steps
  that replace an index hold `idxMu` (`LockInv`), handles are numbered (`NumberedInv`), while a database is being
  replaced no index is served and from Close on nothing is open (`ReplacingInv`), and what is open is served or
  waiting to be closed (`OpenInv`).
* `DroppedReindexIsMadeUpForHolds`: a package that is stale in the served index, or will be in the one being built, is
  covered: by its save handler, by the dirty set, by a reindex that has not written yet or by a revalidation that
  has not decided yet (`CoverInv`).

**Session** (`SessionProofs`)

* `TypeCorrect`, `FinishedWorkIsDeliveredHolds`, `NothingLeftBehindHolds` from `SessionInv`: a document has one line of
  functions, from those that ran through the one running to the queue; a request has as many responses as its
  phase says; and `wg` counts the queues, requests and tasks that are open.
* `ServiceImplemented`: `SessionSpec => ImplementsService`. Every step of the process maps to one step of `RpcService` or
  to a stutter under the mapping in `Session`. `Applied` of the mapping is a prefix of what was sent because a
  document's line of functions is.

**Indexing** (`IndexingProofs`)

* `TypeCorrect`, `KeysAreCoherentHolds` from `IndexInv`: a build's pending counts agree with the states of its packages,
  and the key of a package being checked, pending in a batch or about to be written agrees with the run's table.
* `StatFastPathIsSoundHolds`, for `~TornReads`, from `StatInv`: a stat that any pointer, batch or call has recorded stands
  for one content, and a blob for its key.
* `PinnedBlobsSurviveHolds`, for `~ListingFails`, from `PinInv`: what is pinned is marked or in a listed database still to be
  marked, and nothing marked is a victim.
* `DecodedIsCurrentHolds`, for `~TornReads`, from `CacheInv`: what a cache holds differs from the database only for
  packages that some call in flight will invalidate.
* `RepairHealsHolds`, for `~TornReads` and `~ListingFails`, from `PassInv`: while a pass runs undisturbed, each package
  that can be built is healed, comes after a package the pass has still to reindex (`Due`), or is still to come in the
  running call (`ToCome`). `After` is the least set closed under "depends on", so a package that is not due depends
  on none that is; a call visits its packages in the package order (`Walk`), hence a clear package's dependencies
  before it, and so what it takes from the key table or the database is fresh (`KeysFresh`, `HandFresh`). That holds
  already when the pass takes its stale set: a buildable package outside of it would have a first one in the order
  whose recorded key is not the fresh one. What a fresh key names stays, since a collection removes nothing that a
  listed database points at. `OpenInv`: a held database is open, and generations are handed out in order.

Two assumptions on constants belong to it: a load starts a held database open (`open` and `acquire` are one step), and the
two marks of a key table are not API hashes.

`TornReads` and `ListingFails` are the two cases described under UnitStore and Indexing, in which the properties are
false; the instances exclude them as the theorems do.

**DepExport** (`DepExportProofs`)

* `RunAnswersAgreeHolds` from `ExportInv`: a caller of the provider keeps its call or its answer (`Answering`), a job about to
  memoize has a blob, and a job that is done has what was memoized for its path.
* `PersistedIsFinalHolds`: from `LeadInv`, with `ExportInv`: at most one goroutine leads the export of a path and nobody leads one
  that is down. A leader that went on to check has found the store without a blob, and only a leader puts one there.
* `TypeOKHolds` from `TypeInv`. That the waiter counts stay within the number of goroutines needs `FlightAt`: a path's
  count is the number of calls that joined its flight and have not retired, a flight has one leader, and what is
  being checked is not cached. That a call resolves only real imports needs the shape of the nested calls: each one
  is for an import of the one below it, which is later in the package order, so that no path appears twice. `LruOK`
  is kept by an eviction of any number of entries because what goes, `Gone`, is a least set: closed under "loses its
  last pin with a deletion pending".
* `DeletedIsRecheckedHolds` from `OldInv`: whatever was read from the source as it was before the change, cached or in a
  call still on its way, is excused. Its check was under way when `Delete` came by, `Delete` has not come by yet, or
  the deletion is pending on the last pin.
* `PinsAreBalancedHolds` from `PlainInv` and `PinInv`. In a plain provider the full-body cache is empty, all calls are for
  declarations and a scope has pinned exactly what it has got. As long as no pin was stolen, a path's pins are its
  cached importers, the scopes that hold it and its birth pin (`Balanced`). A put adds an importer and pins what it
  imports; an eviction removes importers and releases theirs (`Releases`); the rest moves a pin from one holder to
  another. At rest no scope and no birth pin is left.
* `ClosuresAreWholeHolds` from `WholeInv`: the cached packages are closed under what they refer to, what a scope holds is
  cached unless it failed, and what a call has collected comes from its scope. So two instances of one path in one
  closure would both be the cached one. The heart of it is that an eviction takes nothing a remaining entry refers
  to: of a path that goes while an importer stays, `PinInv` would count that importer among its pins, and what goes
  has none.

**Workspace** (`WorkspaceProofs`, which also covers `Diagnostics`)

* `TypeCorrect`: `WsInv` adds to the types what setWorkspaceMu and the debouncer's flag guard: the source's target and
  the installed snapshot differ only between `setWorkspace` and `storeWorkspace`, and an engine about to be stored
  exists. `StartInv` is needed for `loadWorkspaceAsync`, which starts the background check: it must be at rest then.
  The limit of the decode cache needs the two steps of an import to agree on it: an importer that has its blob has
  also left room for one more entry.
* `DecodedIsFreshHolds`: while a reload has retargeted the source and not dropped what changed, an entry is right for
  the target or for the snapshot before (`MadeFor`). The heart of it is `UnchangedClosure`: a package with no member of
  `changedExportSet` in its closure has the same files behind it in both snapshots. It needs that nothing imports an
  external test package, because `changedExportSet` passes over those.

**Workspace at rest** (`WorkspaceQuiet`)

* `QuietIsAccurateHolds` from `QuietInv`, which says of each document (`DocFine`) what is shown and what is still to come.
  An open one is either asked for (`AskedFor`: by its handler, by an armed recheck, or by a step of a load or a build
  that will arm it), or answered (`Answered`): what the engine found, tells or told last has the errors of the text it
  reads. What a closed one shows is nothing or the errors of what is on disk, and somebody is there to clear it: its
  package is credited with it (`diagFiles`), or a publication is on its way. `InOrder`: engines come one
  after another, and one that has been replaced is retired.
* `SettledIsCurrentHolds` from `LedgerInv`, which accounts for every difference between the workspace and the disk.
  `Snaps` are the snapshots that have read the disk and are or may come to be installed; `Standing` is the one that read
  last, which will stay unless an older one crosses it (the gap `crossed`). Either the disk will be read again
  (`Reloading`: a load, or a reload flag of the debouncer, of a callback or of a pass left behind), or the standing
  snapshot is `Listed`: each file it lists and the disk lacks will still be told as deleted, each file it lacks will be
  told as written and is not the text that `watchFP` remembers, and changed module files will be told. In the same way
  either a pass over the index is to come (`Revalidating`), or each package is `Entered` with the texts of now but for
  files that will be told, or `Awaited`: it cannot be indexed because a file is gone whose deletion will be told. The
  delicate step is the delivery of a batch. An event is passed over only when its fingerprint has the hash of the current
  text (`FirstWritten`), so nothing that is owed is lost (`BatchListed`, `BatchEntered`). A pass that ends last finds
  one snapshot only (`PassSettles`), and an index that is not ready means that a build is on its way (`Opening`).

Four definitions have the form these proofs need: `ClosureUnits` and `Closure` are least sets and not recursive
functions, nested calls are records built by named operators, the list of an LRU is the relation `newer`, with what a
release of pins evicts as a least set (`Gone`), and the handling of a batch of file events (`Acted`) is no fold: each
event is judged by the fingerprints that the events before it leave behind (`printsAfter`), and the batch is gone through
up to the first event that needs a reload.

### Model-checked only

* Liveness under fairness: `EveryGetReturns`, `ClientCatchesUp`, `LockIsReleased`, `EveryRequestAnswered`,
  `EndedSessionExits`, `OrphanExits`, `BuildEnds`, `EveryCallReturns`, `WorkSettles`. The prover does not reason about
  fairness or ENABLED.

## Not modelled

* `internal/xref`, `internal/langfeat`, `internal/diff`, the request handlers, `server/dirty.go`: computations over one
  checked package or one opened index, without state that outlives a request beside memo tables keyed by what
  they are computed from.
* Encodings: JSON-RPC headers and bodies, the unit, blob and postings formats, export data.
* `go list`, `go/types`, bbolt, the file system: external. Their results are inputs of the models.
* Wording, positions and severities of diagnostics; the progress relay; orphan and private-index cleanup; heap
  sampling and byte caps of caches (entry counts stand for them).

## Plan

Modelled as far as the list above, and every invariant of the passing runs has a theorem. What is left is liveness,
which stays with TLC (see "Model-checked only"), and the parts listed under "Not modelled", should one of them come to
keep state that outlives a request.
