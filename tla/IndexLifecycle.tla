-------------------------- MODULE IndexLifecycle --------------------------
(***************************************************************************)
(* internal/server: how the facts index is opened, revalidated, repaired,  *)
(* closed and rebuilt while saves and watched-file events keep arriving.   *)
(*                                                                         *)
(* s.idx is an atomic pointer; s.idxMu serialises buildIndex and           *)
(* revalidateIndex; reindexWG counts the detached reindexes registered     *)
(* against the open database; dirtyPkgs holds packages saved while there   *)
(* was no index.  A package is abstracted to the version of its files on   *)
(* disk, an index database to the version it holds of each package.  When  *)
(* two reindexes of one package overlap, the newer version is taken to     *)
(* win, which is what internal/index's generation table is there for.      *)
(***************************************************************************)
EXTENDS Integers, FiniteSets

CONSTANTS
    Pkg,                \* root packages of the workspace
    Loader,             \* the loadWorkspaceAsync goroutine
    Reloader,           \* goroutines running revalidateGraph/revalidateWorkspace
    Task,               \* detached goroutines started by rpc.Go for reindexing
    None,               \* nil
    RepairThreshold,    \* indexRepairThreshold
    SeededThreshold,    \* indexSeededRepairThreshold
    MaxSaves,           \* bound: saves
    MaxExternal,        \* bound: changes made outside the editor
    MaxFailures,        \* bound: failures of the indexer or of one package
    MaxHeals,           \* bound: opens of files whose package is stale
    MaxEvents           \* bound: all of these together

ASSUME IndexAssumption ==
    /\ Loader \notin Reloader \cup Task
    /\ Reloader \cap Task = {}
    /\ None \notin {Loader} \cup Reloader \cup Task
    /\ IsFiniteSet(Task)
    /\ {RepairThreshold, SeededThreshold} \subseteq Nat
    /\ {MaxSaves, MaxExternal, MaxFailures, MaxHeals, MaxEvents} \subseteq Nat

VARIABLES
    disk,       \* disk[p]: version of package p's files
    owed,       \* watched-file events whose reload has not started
    spent,      \* how much of each bound has been used
    exists,     \* which index database files exist
    facts,      \* facts[f][p]: version of p in database file f, -1 if absent
    fpStale,    \* files whose build fingerprint no longer matches
    lockedOut,  \* another session holds the shared database's lock
    private,    \* s.usePrivateIndex
    idx,        \* s.idx: the installed indexState, or None
    open,       \* database handles this process has open
    handles,    \* how many handles it has opened so far
    mu,         \* the goroutine holding s.idxMu, or None
    wg,         \* s.reindexWG
    dirty,      \* s.dirtyPkgs
    proc,       \* the loader, the reloaders and the detached goroutines
    saver,      \* saver[p]: the handler of a didSave in package p
    failed,     \* history: an indexer run or a reindex has failed
    coldSave    \* history: a save was recorded while there was no index

vars == <<disk, owed, spent, exists, facts, fpStale, lockedOut, private, idx,
          open, handles, mu, wg, dirty, proc, saver, failed, coldSave>>

Thread == {Loader} \cup Reloader
File == {"shared", "private"}

\* s.dbPath
dbPath == IF private THEN "private" ELSE "shared"

\* An indexState: the database handle, the file it is on, whether it was
\* seeded from a sibling checkout, and which resolver refresh made it.
IndexState == [db : Nat, file : File, seeded : BOOLEAN, refresh : Nat]

\* nil is no indexState.
ASSUME NoneAssumption == None \notin IndexState

\* What a goroutine is doing: its program counter, the packages still to
\* handle, the indexState it loaded, and whether it is in a cold build.
Activity ==
    [pc : {"idle", "warm", "lockBuild", "refresh", "cas", "lock", "decide",
           "repair", "wait", "spawn", "index", "open", "load", "take",
           "begin", "run", "unlock", "done"},
     todo : SUBSET Pkg, on : IndexState \cup {None}, cold : BOOLEAN]

Idle == [pc |-> "idle", todo |-> {}, on |-> None, cold |-> FALSE]

TypeOK ==
    /\ disk \in [Pkg -> Nat]
    /\ owed \in Nat
    /\ spent \in [saves : Nat, external : Nat, failures : Nat, heals : Nat]
    /\ exists \subseteq File
    /\ facts \in [File -> [Pkg -> Int]]
    /\ fpStale \subseteq File
    /\ lockedOut \in BOOLEAN
    /\ private \in BOOLEAN
    /\ idx \in IndexState \cup {None}
    /\ open \subseteq [db : Nat, file : File]
    /\ handles \in Nat
    /\ mu \in Thread \cup {None}
    /\ wg \in Nat
    /\ dirty \subseteq Pkg
    /\ proc \in [Thread \cup Task -> Activity]
    /\ saver \in [Pkg -> {"idle", "load", "mark", "reload"}]
    /\ failed \in BOOLEAN
    /\ coldSave \in BOOLEAN

\* Start of loadWorkspaceAsync's index half, right after setWorkspace: an index
\* from an earlier session may exist, may lag behind the files or have been
\* built by another toolchain, another session may hold its lock (or be about
\* to create it), and a shared graph cache may have started a reload already.
Init ==
    /\ disk = [p \in Pkg |-> 0]
    /\ owed \in {0, 1}
    /\ spent = [saves |-> 0, external |-> 0, failures |-> 0, heals |-> 0]
    /\ exists \in {{}, {"shared"}}
    /\ \E old \in [Pkg -> {-1, 0}] :
          facts = [f \in File |-> IF f \in exists THEN old
                                                  ELSE [p \in Pkg |-> -1]]
    /\ fpStale \in SUBSET exists
    /\ lockedOut \in BOOLEAN
    /\ private = FALSE
    /\ idx = None
    /\ open = {}
    /\ handles = 0
    /\ mu = None
    /\ wg = 0
    /\ dirty = {}
    /\ proc = [x \in Thread \cup Task |->
                 IF x = Loader THEN [Idle EXCEPT !.pc = "warm"] ELSE Idle]
    /\ saver = [p \in Pkg |-> "idle"]
    /\ failed = FALSE
    /\ coldSave = FALSE

files == <<exists, facts, fpStale, lockedOut, private>>
world == <<disk, owed, spent>>
served == <<idx, open, handles>>
history == <<failed, coldSave>>

\* A new handle on file f, installed in s.idx.
Install(f, seeded) ==
    /\ handles' = handles + 1
    /\ open' = open \cup {[db |-> handles + 1, file |-> f]}
    /\ idx' = [db |-> handles + 1, file |-> f, seeded |-> seeded, refresh |-> 0]

At(x, pc) == proc[x].pc = pc
Goto(x, pc) == proc' = [proc EXCEPT ![x].pc = pc]

\* Whether the bound on all outside events together leaves room for one more.
Room == spent.saves + spent.external + spent.failures + spent.heals < MaxEvents

\* Uses up one failure.
Fail ==
    /\ Room /\ spent.failures < MaxFailures
    /\ spent' = [spent EXCEPT !.failures = @ + 1]
    /\ UNCHANGED <<disk, owed, coldSave>>

\* Database file f now holds package p as it is on disk.
Refreshed(f, p) == [facts EXCEPT ![f][p] = disk[p]]

----------------------------------------------------------------------------
(* tryWarmOpen: reuse the database of an earlier session.  Its result is   *)
(* stored in s.idx without idxMu and without draining dirtyPkgs.           *)

tryWarmOpen ==
    /\ At(Loader, "warm")
    /\ "shared" \in exists /\ ~lockedOut
    /\ Install("shared", FALSE)
    /\ Goto(Loader, "lock")
    /\ UNCHANGED <<world, files, mu, wg, dirty, saver, history>>

\* The shared database is another session's: open a private copy of it.
cloneLockedSharedIndex ==
    /\ At(Loader, "warm")
    /\ "shared" \in exists /\ lockedOut
    /\ private' = TRUE
    /\ exists' = exists \cup {"private"}
    /\ facts' = [facts EXCEPT !["private"] = facts["shared"]]
    /\ fpStale' = IF "shared" \in fpStale THEN fpStale \cup {"private"} ELSE fpStale
    /\ Install("private", FALSE)
    /\ Goto(Loader, "lock")
    /\ UNCHANGED <<world, lockedOut, mu, wg, dirty, saver, history>>

\* No database yet: start from another checkout's.
trySeedFromSibling ==
    /\ At(Loader, "warm")
    /\ "shared" \notin exists /\ ~lockedOut
    /\ exists' = exists \cup {"shared"}
    /\ \E old \in [Pkg -> {-1, 0}] : facts' = [facts EXCEPT !["shared"] = old]
    /\ Install("shared", TRUE)
    /\ Goto(Loader, "lock")
    /\ UNCHANGED <<world, fpStale, lockedOut, private, mu, wg, dirty, saver,
                   history>>

\* Nothing usable: no database and no sibling, or one that does not open or
\* cannot be cloned.  A locked one still commits the session to its own file.
tryWarmOpenFails ==
    /\ At(Loader, "warm")
    /\ private' = (lockedOut /\ "shared" \in exists)
    /\ Goto(Loader, "lockBuild")
    /\ UNCHANGED <<world, exists, facts, fpStale, lockedOut, served, mu, wg,
                   dirty, saver, history>>

\* buildIndex, the cold start.
buildIndex ==
    /\ At(Loader, "lockBuild")
    /\ mu = None
    /\ mu' = Loader
    /\ proc' = [proc EXCEPT ![Loader].pc = "spawn", ![Loader].cold = TRUE]
    /\ UNCHANGED <<world, files, served, wg, dirty, saver, history>>

----------------------------------------------------------------------------
(* What a watched-file event leads to.  revalidateGraph swaps in a new     *)
(* snapshot (refreshIndexResolver carries the open database over) and then *)
(* revalidates the index; revalidateWorkspace only does the latter when no *)
(* file appeared or disappeared.                                           *)

revalidateGraph(t) ==
    /\ At(t, "idle")
    /\ owed > 0
    /\ owed' = owed - 1
    /\ Goto(t, "refresh")
    /\ UNCHANGED <<disk, spent, files, served, mu, wg, dirty, saver, history>>

\* graph.Load fails: no new snapshot, and no revalidation either.
revalidateGraphFails(t) ==
    /\ At(t, "idle")
    /\ owed > 0
    /\ owed' = owed - 1
    /\ Room /\ spent.failures < MaxFailures
    /\ spent' = [spent EXCEPT !.failures = @ + 1]
    /\ failed' = TRUE
    /\ UNCHANGED <<disk, files, served, mu, wg, dirty, proc, saver, coldSave>>

\* revalidateWorkspace without a reload: the snapshot stays as it is.
revalidateWorkspace(t) ==
    /\ At(t, "idle")
    /\ owed > 0
    /\ owed' = owed - 1
    /\ Goto(t, "lock")
    /\ UNCHANGED <<disk, spent, files, served, mu, wg, dirty, saver, history>>

\* setWorkspace loads s.idx for refreshIndexResolver.
refreshIndexResolverLoads(t) ==
    /\ At(t, "refresh")
    /\ proc' = [proc EXCEPT ![t].pc = "cas", ![t].on = idx]
    /\ UNCHANGED <<world, files, served, mu, wg, dirty, saver, history>>

\* Mutant: the refreshed indexState is stored without comparing.
refreshInstalls_Store(t) == proc[t].on # None

\* The compare-and-swap succeeds: s.idx is still the indexState loaded.
refreshInstalls(t) == proc[t].on # None /\ idx = proc[t].on

\* The fresh indexState has the same db and a new resolver, and is not seeded.
refreshIndexResolverSwaps(t) ==
    /\ At(t, "cas")
    /\ idx' = IF refreshInstalls(t)
              THEN [proc[t].on EXCEPT !.seeded = FALSE, !.refresh = @ + 1]
              ELSE idx
    /\ proc' = [proc EXCEPT ![t].pc = "lock", ![t].on = None]
    /\ UNCHANGED <<world, files, open, handles, mu, wg, dirty, saver, history>>

----------------------------------------------------------------------------
(* revalidateIndex, under idxMu from its first line to its last.           *)

Stale == IF idx = None THEN {} ELSE {p \in Pkg : facts[idx.file][p] # disk[p]}
wholeDBStale == idx # None /\ idx.file \in fpStale

\* chooseIndexRevalidateAction
Action ==
    LET threshold == IF idx # None /\ idx.seeded THEN SeededThreshold
                                                 ELSE RepairThreshold
    IN IF ~wholeDBStale /\ Stale = {} THEN "none"
       ELSE IF ~wholeDBStale /\ Cardinality(Stale) <= threshold THEN "repair"
       ELSE "rebuild"

revalidateIndexLocks(t) ==
    /\ At(t, "lock")
    /\ mu = None
    /\ mu' = t
    /\ Goto(t, "decide")
    /\ UNCHANGED <<world, files, served, wg, dirty, saver, history>>

\* Nothing is stale or there is no index; a check that fails counts as that.
revalidateIndexNone(t) ==
    /\ At(t, "decide")
    /\ \/ Action = "none" /\ UNCHANGED <<world, history>>
       \/ Action # "none" /\ Fail /\ failed' = TRUE
    /\ Goto(t, "unlock")
    /\ UNCHANGED <<files, served, mu, wg, dirty, saver>>

revalidateIndexRepairs(t) ==
    /\ At(t, "decide")
    /\ Action = "repair"
    /\ proc' = [proc EXCEPT ![t].pc = "repair", ![t].todo = Stale, ![t].on = idx]
    /\ UNCHANGED <<world, files, served, mu, wg, dirty, saver, history>>

\* s.idx.Store(nil): queries and saves see no index from here on.
revalidateIndexDropsIndex(t) ==
    /\ At(t, "decide")
    /\ Action = "rebuild"
    /\ idx' = None
    /\ proc' = [proc EXCEPT ![t].pc = "wait", ![t].on = idx]
    /\ UNCHANGED <<world, files, open, handles, mu, wg, dirty, saver, history>>

\* Mutant: the registered reindexes are not waited for.
reindexWGIsZero_Never == TRUE

reindexWGIsZero == wg = 0

\* Mutant: the old handle is left open.
ClosedAfterWait_None(t) == {}

\* The handle Close releases: the dropped indexState's.
ClosedAfterWait(t) == {[db |-> proc[t].on.db, file |-> proc[t].on.file]}

\* reindexWG.Wait and db.Close.
revalidateIndexCloses(t) ==
    /\ At(t, "wait")
    /\ reindexWGIsZero
    /\ open' = open \ ClosedAfterWait(t)
    /\ proc' = [proc EXCEPT ![t].pc = "spawn", ![t].on = None]
    /\ UNCHANGED <<world, files, idx, handles, mu, wg, dirty, saver, history>>

\* repairIndexPackagesLocked: reindex one stale package in place.  The lock is
\* held throughout and reindexWG is not involved.
repairIndexPackagesLocked(t, p) ==
    /\ At(t, "repair")
    /\ p \in proc[t].todo
    /\ proc' = [proc EXCEPT ![t].todo = @ \ {p},
                            ![t].pc = IF proc[t].todo = {p} THEN "unlock" ELSE @]
    /\ \/ /\ facts' = Refreshed(proc[t].on.file, p)
          /\ UNCHANGED <<world, history>>
       \/ /\ Fail
          /\ failed' = TRUE
          /\ UNCHANGED facts
    /\ UNCHANGED <<exists, fpStale, lockedOut, private, served, mu, wg, dirty,
                   saver>>

\* Mutant: a cold build is trusted as it is.
AfterUnlock_ColdDone(t) == IF t = Loader THEN "done" ELSE "idle"

\* The deferred Unlock of buildIndex or revalidateIndex.  loadWorkspaceAsync
\* revalidates once after either branch; a reload is over.
AfterUnlock(t) ==
    IF t = Loader THEN IF proc[t].cold THEN "lock" ELSE "done" ELSE "idle"

unlock(t) ==
    /\ At(t, "unlock")
    /\ mu' = None
    /\ proc' = [proc EXCEPT ![t] = [Idle EXCEPT !.pc = AfterUnlock(t)]]
    /\ UNCHANGED <<world, files, served, wg, dirty, saver, history>>

----------------------------------------------------------------------------
(* buildIndexLocked: the indexer subprocess, then openIndexAfterBuild.     *)

\* runIndexBuild cannot start the subprocess: the index stays unavailable.
runIndexBuildFails(t) ==
    /\ At(t, "spawn")
    /\ Fail
    /\ failed' = TRUE
    /\ Goto(t, "unlock")
    /\ UNCHANGED <<files, served, mu, wg, dirty, saver>>

\* The shared database turns out to be locked: switch and retry once.
buildIndexLockedRetries(t) ==
    /\ At(t, "spawn")
    /\ dbPath = "shared" /\ lockedOut
    /\ private' = TRUE
    /\ UNCHANGED <<world, exists, facts, fpStale, lockedOut, served, mu, wg,
                   dirty, proc, saver, history>>

runIndexBuild(t) ==
    /\ At(t, "spawn")
    /\ ~(dbPath = "shared" /\ lockedOut)
    /\ exists' = exists \cup {dbPath}
    /\ proc' = [proc EXCEPT ![t].pc = "index", ![t].todo = Pkg]
    /\ UNCHANGED <<world, facts, fpStale, lockedOut, private, served, mu, wg,
                   dirty, saver, history>>

\* The subprocess handles one package; a package that fails to check keeps
\* what the database had, and does not fail the build.
indexPackage(t, p) ==
    /\ At(t, "index")
    /\ p \in proc[t].todo
    /\ proc' = [proc EXCEPT ![t].todo = @ \ {p}]
    /\ \/ /\ facts' = Refreshed(dbPath, p)
          /\ UNCHANGED <<world, history>>
       \/ /\ Fail
          /\ failed' = (failed \/ ~proc[t].cold)
          /\ UNCHANGED facts
    /\ UNCHANGED <<exists, fpStale, lockedOut, private, served, mu, wg, dirty,
                   saver>>

\* It exits with success and has written the build fingerprint.
indexerExits(t) ==
    /\ At(t, "index")
    /\ proc[t].todo = {}
    /\ fpStale' = fpStale \ {dbPath}
    /\ Goto(t, "open")
    /\ UNCHANGED <<world, exists, facts, lockedOut, private, served, mu, wg,
                   dirty, saver, history>>

\* It exits with an error; what it has written stays.
indexerCrashes(t) ==
    /\ At(t, "index")
    /\ Fail
    /\ failed' = TRUE
    /\ Goto(t, "open")
    /\ UNCHANGED <<files, served, mu, wg, dirty, saver>>

\* openIndexAfterBuild installs the database, whole or not.
openIndexAfterBuild(t) ==
    /\ At(t, "open")
    /\ Install(dbPath, FALSE)
    /\ Goto(t, "load")
    /\ UNCHANGED <<world, files, mu, wg, dirty, saver, history>>

\* The database or the CAS directory does not open.
openIndexAfterBuildFails(t) ==
    /\ At(t, "open")
    /\ Fail
    /\ failed' = TRUE
    /\ Goto(t, "unlock")
    /\ UNCHANGED <<files, served, mu, wg, dirty, saver>>

----------------------------------------------------------------------------
(* drainDirty and reindexIfStillCurrent, run by a detached goroutine, and  *)
(* drainDirty also by openIndexAfterBuild on the goroutine holding idxMu.  *)

\* Where x continues once it has drained or reindexed everything.
Finished(x) == IF x \in Thread THEN "unlock" ELSE "idle"

\* What is left of x's activity once the packages in todo remain.
Remaining(x, todo, pc) ==
    IF todo # {} THEN [proc[x] EXCEPT !.todo = todo, !.pc = pc]
    ELSE [Idle EXCEPT !.pc = Finished(x), !.cold = proc[x].cold]

drainDirtyLoads(x) ==
    /\ At(x, "load")
    /\ proc' = [proc EXCEPT ![x] =
                  IF idx = None THEN Remaining(x, {}, "load")
                  ELSE [@ EXCEPT !.pc = "take", !.on = idx]]
    /\ UNCHANGED <<world, files, served, mu, wg, dirty, saver, history>>

takeDirty(x) ==
    /\ At(x, "take")
    /\ dirty' = {}
    /\ proc' = [proc EXCEPT ![x] = Remaining(x, dirty, "begin")]
    /\ UNCHANGED <<world, files, served, mu, wg, saver, history>>

\* beginReindex: the database x loaded is the one served now.
StillCurrent(x) == idx # None /\ idx.db = proc[x].on.db

\* Mutant: the reindex is not registered.
beginReindex_NoAdd(x) ==
    /\ At(x, "begin")
    /\ mu = None
    /\ StillCurrent(x)
    /\ Goto(x, "run")
    /\ UNCHANGED <<world, files, served, mu, wg, dirty, saver, history>>

\* beginReindex takes idxMu, whoever holds it.
beginReindex(x) ==
    /\ At(x, "begin")
    /\ mu = None
    /\ StillCurrent(x)
    /\ wg' = wg + 1
    /\ Goto(x, "run")
    /\ UNCHANGED <<world, files, served, mu, dirty, saver, history>>

\* Another database is served, or none: the package is dropped.
beginReindexDrops(x, p) ==
    /\ At(x, "begin")
    /\ mu = None
    /\ ~StillCurrent(x)
    /\ p \in proc[x].todo
    /\ proc' = [proc EXCEPT ![x] = Remaining(x, proc[x].todo \ {p}, "begin")]
    /\ UNCHANGED <<world, files, served, mu, wg, dirty, saver, history>>

\* Mutant: Done is skipped when the reindex fails.
ReindexDone_SuccessOnly(ok) == IF ok THEN wg - 1 ELSE wg

\* The deferred reindexWG.Done.
ReindexDone(ok) == wg - 1

reindex(x, p) ==
    /\ At(x, "run")
    /\ p \in proc[x].todo
    /\ proc' = [proc EXCEPT ![x] = Remaining(x, proc[x].todo \ {p}, "begin")]
    /\ \/ /\ facts' = Refreshed(proc[x].on.file, p)
          /\ wg' = ReindexDone(TRUE)
          /\ UNCHANGED <<world, history>>
       \/ /\ Fail
          /\ failed' = TRUE
          /\ wg' = ReindexDone(FALSE)
          /\ UNCHANGED facts
    /\ UNCHANGED <<exists, fpStale, lockedOut, private, served, mu, dirty, saver>>

----------------------------------------------------------------------------
(* Saves, changes made outside the editor, and files being opened.         *)

\* s.rpc.Go: a detached goroutine starts at pc.
Spawn(pc, todo, on) ==
    \E x \in Task :
        /\ At(x, "idle")
        /\ proc' = [proc EXCEPT ![x] =
                      [Idle EXCEPT !.pc = pc, !.todo = todo, !.on = on]]

Save(p) ==
    /\ saver[p] = "idle"
    /\ Room /\ spent.saves < MaxSaves
    /\ spent' = [spent EXCEPT !.saves = @ + 1]
    /\ disk' = [disk EXCEPT ![p] = @ + 1]
    /\ saver' = [saver EXCEPT ![p] = "load"]
    /\ UNCHANGED <<owed, files, served, mu, wg, dirty, proc, history>>

\* handleDidSave with an index: reindex in the background.
handleDidSaveReindexes(p) ==
    /\ saver[p] = "load"
    /\ idx # None
    /\ Spawn("begin", {p}, idx)
    /\ saver' = [saver EXCEPT ![p] = "idle"]
    /\ UNCHANGED <<world, files, served, mu, wg, dirty, history>>

handleDidSaveNoIndex(p) ==
    /\ saver[p] = "load"
    /\ idx = None
    /\ saver' = [saver EXCEPT ![p] = "mark"]
    /\ UNCHANGED <<world, files, served, mu, wg, dirty, proc, history>>

markDirty(p) ==
    /\ saver[p] = "mark"
    /\ dirty' = dirty \cup {p}
    /\ coldSave' = TRUE
    /\ saver' = [saver EXCEPT ![p] = "reload"]
    /\ UNCHANGED <<world, files, served, mu, wg, proc, failed>>

\* handleDidSave reads s.idx again, in case it was installed meanwhile.
handleDidSaveRereads(p) ==
    /\ saver[p] = "reload"
    /\ IF idx # None THEN Spawn("load", {}, None) ELSE UNCHANGED proc
    /\ saver' = [saver EXCEPT ![p] = "idle"]
    /\ UNCHANGED <<world, files, served, mu, wg, dirty, history>>

\* selfHealFactsIfStale, when a file of a changed package is opened.
selfHealFactsIfStale(p) ==
    /\ p \in Stale
    /\ Room /\ spent.heals < MaxHeals
    /\ spent' = [spent EXCEPT !.heals = @ + 1]
    /\ Spawn("begin", {p}, idx)
    /\ UNCHANGED <<disk, owed, files, served, mu, wg, dirty, saver, history>>

\* A checkout or a pull changes p; the watcher's reload is owed.
ExternalChange(p) ==
    /\ Room /\ spent.external < MaxExternal
    /\ spent' = [spent EXCEPT !.external = @ + 1]
    /\ disk' = [disk EXCEPT ![p] = @ + 1]
    /\ owed' = owed + 1
    /\ UNCHANGED <<files, served, mu, wg, dirty, proc, saver, history>>

----------------------------------------------------------------------------
Open ==
    \/ tryWarmOpen \/ cloneLockedSharedIndex \/ trySeedFromSibling
    \/ tryWarmOpenFails \/ buildIndex

Reload(t) ==
    \/ revalidateGraph(t) \/ revalidateGraphFails(t) \/ revalidateWorkspace(t)
    \/ refreshIndexResolverLoads(t) \/ refreshIndexResolverSwaps(t)

Revalidate(t) ==
    \/ revalidateIndexLocks(t) \/ revalidateIndexNone(t)
    \/ revalidateIndexRepairs(t) \/ revalidateIndexDropsIndex(t)
    \/ revalidateIndexCloses(t) \/ unlock(t)
    \/ \E p \in Pkg : repairIndexPackagesLocked(t, p)

Build(t) ==
    \/ runIndexBuildFails(t) \/ buildIndexLockedRetries(t) \/ runIndexBuild(t)
    \/ \E p \in Pkg : indexPackage(t, p)
    \/ indexerExits(t) \/ indexerCrashes(t)
    \/ openIndexAfterBuild(t) \/ openIndexAfterBuildFails(t)

Reindex(x) ==
    \/ drainDirtyLoads(x) \/ takeDirty(x) \/ beginReindex(x)
    \/ \E p \in Pkg : beginReindexDrops(x, p) \/ reindex(x, p)

handleDidSave(p) ==
    \/ handleDidSaveReindexes(p) \/ handleDidSaveNoIndex(p) \/ markDirty(p)
    \/ handleDidSaveRereads(p)

Next ==
    \/ Open
    \/ \E t \in Reloader : Reload(t)
    \/ \E t \in Thread : Revalidate(t) \/ Build(t)
    \/ \E x \in Thread \cup Task : Reindex(x)
    \/ \E p \in Pkg : Save(p) \/ handleDidSave(p) \/ selfHealFactsIfStale(p)
                              \/ ExternalChange(p)

Spec == Init /\ [][Next]_vars

(***************************************************************************)
(* Goroutines and the subprocess run.  Go's mutex does not starve a        *)
(* waiter, so whoever waits for idxMu gets it if it is released again and  *)
(* again.  Nobody has to save, open a file or change one.                  *)
(***************************************************************************)
Fairness ==
    /\ WF_vars(Open)
    /\ \A t \in Reloader : WF_vars(Reload(t))
    /\ \A t \in Thread : SF_vars(Revalidate(t)) /\ WF_vars(Build(t))
    /\ \A x \in Thread \cup Task : SF_vars(Reindex(x))
    /\ \A p \in Pkg : WF_vars(handleDidSave(p))

FairSpec == Spec /\ Fairness

----------------------------------------------------------------------------
(* Properties.                                                             *)

(***************************************************************************)
(* Queries never reach a closed database: a reload that refreshes the      *)
(* resolver of an indexState a rebuild has dropped and closed in the       *)
(* meantime does not bring that indexState back.                           *)
(***************************************************************************)
ServedIndexIsOpen == idx # None => [db |-> idx.db, file |-> idx.file] \in open

(***************************************************************************)
(* A reindex, detached or part of a repair, never writes to a database     *)
(* that has been closed: a rebuild closes only after reindexWG.Wait, and   *)
(* beginReindex registers nobody against a database already dropped.       *)
(***************************************************************************)
ReindexHoldsOpenDB ==
    \A x \in Thread \cup Task :
        proc[x].pc \in {"run", "repair"} =>
            [db |-> proc[x].on.db, file |-> proc[x].on.file] \in open

(***************************************************************************)
(* While an indexer subprocess is building a database file, this process   *)
(* has no handle on that file (bbolt's lock would keep the indexer out),   *)
(* and no second indexer is running.                                       *)
(***************************************************************************)
OneOwnerPerFile ==
    \A t \in Thread : At(t, "index") =>
        /\ \A h \in open : h.file # dbPath
        /\ \A u \in Thread \ {t} : ~At(u, "index")

\* No reload, reindex or save handler is running or owed.
Quiet ==
    /\ owed = 0
    /\ At(Loader, "done")
    /\ \A x \in Reloader \cup Task : At(x, "idle")
    /\ \A p \in Pkg : saver[p] = "idle"

FactsAreCurrent ==
    Quiet /\ idx # None /\ ~failed => \A p \in Pkg : facts[idx.file][p] = disk[p]

(***************************************************************************)
(* Once everything is quiet, the index holds every package as it is on     *)
(* disk: a save whose reindex was dropped because a rebuild had replaced   *)
(* its database, or a package the cold build could not check, is made up   *)
(* for by the rebuild or by the revalidation that follows.  Stated for     *)
(* sessions in which no save met a missing index and nothing failed for    *)
(* good.                                                                   *)
(***************************************************************************)
DroppedReindexIsMadeUpFor == ~coldSave => FactsAreCurrent

\* x waits for the idxMu it holds itself.
SelfBlocked(x) == At(x, "begin") /\ mu = x

(***************************************************************************)
(* openIndexAfterBuild's promise to reindex what was saved meanwhile can   *)
(* be kept: the goroutine that drains dirtyPkgs is able to take idxMu.     *)
(***************************************************************************)
DrainCanLock == \A x \in Thread \cup Task : ~SelfBlocked(x)

(***************************************************************************)
(* Whoever takes idxMu gives it back: reindexWG.Wait under the lock does   *)
(* not wait for a reindex that needs the lock, or for one that never       *)
(* reaches Done.  (DrainCanLock is about the one exception.)               *)
(***************************************************************************)
LockIsReleased ==
    \A t \in Thread : mu = t ~> mu # t \/ SelfBlocked(t)
============================================================================
