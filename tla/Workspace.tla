------------------------------ MODULE Workspace ------------------------------
(***************************************************************************)
(* The workspace of a session and how it follows the disk                  *)
(* (internal/server: lifecycle.go, workspace.go, watch.go, rootexport.go,  *)
(* rootimporter.go; internal/graph; internal/typecheck).  The import graph *)
(* is loaded at initialize, from a cache file when there is one, and again *)
(* when the client reports changed files; each load is installed by        *)
(* setWorkspace and followed by a revalidation of the facts index.  Loads  *)
(* run on up to four goroutines, and only installing is serialized.  Saves,*)
(* and the single reindexes that saving or opening a document starts, are  *)
(* IndexLifecycle's.                                                       *)
(***************************************************************************)
EXTENDS Diagnostics, SequencesExt

CONSTANTS
    File,        \* source files of workspace packages
    Pkg,         \* packages, external test packages included
    PkgOf,       \* file -> its package
    ForTest,     \* package -> the package it is the external test of, or None
    Imports,     \* package -> the packages it imports
    UnitDir,     \* check unit -> the package of its directory, or None
    Large,       \* files too large to fingerprint by content
    None,
    RepairThreshold,  \* stale packages up to which the index is repaired in place
    MaxDecoded,       \* decoded packages above which the decode cache is dropped
    MaxFired,         \* bound: debounce callbacks under way at once
    Loads             \* scenarios: what the client and the disk may do

Thread == {"init", "bg", "watch", "mod"}

\* An external test package cannot be imported.
ASSUME PackagesAssumption ==
    /\ PkgOf \in [File -> Pkg] /\ ForTest \in [Pkg -> Pkg \cup {None}] /\ Imports \in [Pkg -> SUBSET Pkg]
    /\ \A p \in Pkg : \A q \in Imports[p] : ForTest[q] = None
    /\ None \notin Pkg \cup Thread
    /\ File # {} /\ IsFiniteSet(Pkg) /\ MaxDecoded \in Nat
ASSUME LoadsAssumption ==
    Loads \subseteq [files : SUBSET File, cached : BOOLEAN, indexed : BOOLEAN, shared : BOOLEAN, starts : Nat,
                     writes : Nat, removes : Nat, mods : Nat, resends : Nat, fails : Nat, kills : Nat, stops : Nat,
                     opens : SUBSET Doc, edits : Nat, closes : Nat, imports : Nat]

VARIABLES
    disk,      \* file -> [exists, text, mtime]
    mod,       \* version of go.mod, go.sum, go.work and go.work.sum
    cacheFile, \* the saved import graph
    onDiskDB,  \* an index database exists
    unit,      \* package -> file versions its index entry was made from
    serving,   \* whether a server process runs
    mail,      \* file events the client has not delivered yet
    seen,      \* file -> fingerprint of its last event (watchFP)
    watch,     \* the debouncer
    thr,       \* goroutine -> where its load, installation or revalidation is
    wsMu,      \* the goroutine inside setWorkspace
    snap,      \* the installed snapshot (ws.snap)
    target,    \* the snapshot the package source answers from (graphSrc)
    decoded,   \* package -> what its decoded export data was made of
    imp,       \* an importer between reading a blob and decoding it
    reads,     \* history: how many times the graph was loaded
    gaps,      \* history: ways in which a change was passed over
    load       \* what is left of the scenario

diskVars == <<disk, mod, cacheFile, onDiskDB>>
watchVars == <<mail, seen, watch>>
wsVars == <<thr, wsMu, snap, target, decoded, imp, unit>>
vars == <<diagVars, diskVars, watchVars, wsVars, serving, reads, gaps, load>>

NoSnap == [files |-> {}, mod |-> 0, read |-> 0]
NoCache == [saved |-> FALSE, snap |-> NoSnap, digest |-> 0, touched |-> FALSE]
NoPrint == [mtime |-> -1, hash |-> -1]
Unhashed == -2
Resting == [at |-> "idle", snap |-> NoSnap, engine |-> NoEngine]
NoImport == [pkg |-> None, files |-> {}, overtaken |-> FALSE]
Undecoded == [done |-> FALSE, files |-> {}, late |-> FALSE]
QuietWatch == [timer |-> FALSE, reload |-> FALSE, fired |-> <<>>, running |-> FALSE, rerun |-> FALSE, rerunReload |-> FALSE]

-----------------------------------------------------------------------------
(* Snapshots.                                                              *)

\* graph.Load, as of one moment.
OnDiskNow == {f \in File : disk[f].exists}
GraphLoad(n) == [files |-> OnDiskNow, mod |-> mod, read |-> n]
Packages(s) == {PkgOf[f] : f \in s.files}
GoFiles(s, p) == {f \in s.files : PkgOf[f] = p}
DirOf(f) == IF ForTest[PkgOf[f]] = None THEN PkgOf[f] ELSE ForTest[PkgOf[f]]
packageDirs(s) == {DirOf(f) : f \in s.files}
isExternalTestOfRoot(s, p) == ForTest[p] # None /\ ForTest[p] \in Packages(s)
fileToPkg(s) == {f \in s.files : ForTest[PkgOf[f]] = None \/ isExternalTestOfRoot(s, PkgOf[f])}
\* depsKey: the packages outside the workspace, which the module files fix.
depsKey(s) == s.mod

\* ensureDepProvider: what was built for the dependencies still serves them.
SameDependencies(new) == engine # NoEngine /\ depsKey(new) = depsKey(snap)

\* p and every package of s that imports it, directly or not: the least set
\* that holds p and the importers of what it holds.
ClosureUnits(s, p) ==
    {x \in Pkg : \A up \in SUBSET Pkg :
        (p \in up /\ \A y \in Packages(s) : Imports[y] \cap up # {} => y \in up) => x \in up}
\* p and every package it imports, directly or not.
Closure(p) ==
    {x \in Pkg : \A down \in SUBSET Pkg : (p \in down /\ \A y \in down : Imports[y] \subseteq down) => x \in down}
ClosureFiles(s, p) == UNION {GoFiles(s, x) : x \in Closure(p)}

\* Mutant: only packages that came or went.
changedExportSetGone(old, new) ==
    LET gone == Packages(old) \ Packages(new)
        come == Packages(new) \ Packages(old)
    IN  (UNION {ClosureUnits(new, p) : p \in come}) \cup (UNION {ClosureUnits(old, p) : p \in gone})
\* Packages whose export data cannot be trusted after old is replaced by new.
changedExportSet(old, new) ==
    LET changed == {p \in Packages(old) \cup Packages(new) : ForTest[p] = None /\ GoFiles(old, p) # GoFiles(new, p)}
    IN  (UNION {ClosureUnits(new, p) : p \in changed \cap Packages(new)}) \cup
        (UNION {ClosureUnits(old, p) : p \in changed \cap Packages(old)})

\* Cache.Invalidate: the named packages, and every one that embeds one.
Invalidated(ps) == [q \in Pkg |-> IF Closure(q) \cap ps = {} THEN decoded[q] ELSE Undecoded]
\* reset: everything goes.
Discarded == [p \in Pkg |-> Undecoded]
\* depCacheHolder.importer: a cache that has grown too large starts over.
Fitting == IF Cardinality({p \in Pkg : decoded[p].done}) > MaxDecoded THEN Discarded ELSE decoded
\* A blob read before the invalidation is decoded after it.
Overtaken(ps) == IF imp.pkg # None /\ Closure(imp.pkg) \cap ps # {} THEN [imp EXCEPT !.overtaken = TRUE] ELSE imp

\* What an up-to-date index entry of p records; none can be made while a
\* listed file is missing.
Indexable(s, p) == \A f \in GoFiles(s, p) : disk[f].exists
Recorded(s, p) == {<<f, disk[f].text>> : f \in GoFiles(s, p)}
PackageChanged(s, p) == ~Indexable(s, p) \/ unit[p] # Recorded(s, p)

-----------------------------------------------------------------------------
(* The disk and the client.                                                *)

Post(kind, f) == mail' = IF serving = "up" THEN Append(mail, [kind |-> kind, file |-> f]) ELSE mail
Spend(what) == load[what] > 0 /\ load' = [load EXCEPT ![what] = @ - 1]
\* One of the failures the scenario has left happens, and leaves these ways open.
Fails(ways) == Spend("fails") /\ gaps' = gaps \cup ways
NoFailure == UNCHANGED <<gaps, load>>

\* A file is written or created; on a coarse clock its stamp may not move.
WriteFile(f, stamped) ==
    /\ Spend("writes")
    /\ disk[f].exists \/ stamped
    /\ disk' = [disk EXCEPT ![f] = [exists |-> TRUE, text |-> @.text + 1, mtime |-> IF stamped THEN @.text + 1 ELSE @.mtime]]
    /\ Post("written", f)
    /\ UNCHANGED <<diagVars, wsVars, mod, cacheFile, onDiskDB, seen, watch, serving, reads, gaps>>

RemoveFile(f) ==
    /\ Spend("removes") /\ disk[f].exists
    /\ disk' = [disk EXCEPT ![f].exists = FALSE]
    /\ Post("deleted", f)
    /\ UNCHANGED <<diagVars, wsVars, mod, cacheFile, onDiskDB, seen, watch, serving, reads, gaps>>

\* The server asks for events of Go files only; a client may watch the module
\* files all the same.
EditModule ==
    /\ Spend("mods")
    /\ mod' = 1 - mod
    /\ cacheFile' = [cacheFile EXCEPT !.touched = TRUE]
    /\ \/ Post("module", CHOOSE f \in File : TRUE) /\ UNCHANGED gaps
       \/ serving = "up" /\ gaps' = gaps \cup {"unreported"} /\ UNCHANGED mail
    /\ UNCHANGED <<diagVars, wsVars, disk, onDiskDB, seen, watch, serving, reads>>

\* A watcher that polls reports an unchanged file again.
Resend(f) ==
    /\ Spend("resends") /\ disk[f].exists /\ serving = "up"
    /\ Post("written", f)
    /\ UNCHANGED <<diagVars, wsVars, diskVars, seen, watch, serving, reads, gaps>>

ClientDoc ==
    /\ serving = "up"
    /\ \E f \in Doc :
         \/ /\ f \in load.opens /\ load' = [load EXCEPT !.opens = @ \ {f}]
            /\ handleDidOpen(f)
         \/ Spend("edits") /\ \E v \in {0, load.edits} : handleDidChange(f, v)
         \/ Spend("closes") /\ handleDidClose(f)
    /\ UNCHANGED <<diskVars, watchVars, wsVars, serving, reads, gaps>>

-----------------------------------------------------------------------------
(* Watched files.                                                          *)

\* watchFingerprints.changed: whether the event is acted on.
Fingerprint(f) == [mtime |-> disk[f].mtime, hash |-> IF f \in Large THEN Unhashed ELSE disk[f].text]
changed(prints, ev) ==
    LET f == ev.file
    IN  \/ ev.kind = "deleted" \/ ~disk[f].exists \/ prints[f] = NoPrint
        \/ prints[f].mtime # Fingerprint(f).mtime
        \/ prints[f].hash = Unhashed \/ Fingerprint(f).hash = Unhashed
        \/ prints[f].hash # Fingerprint(f).hash

needsGraphReload(s, ev) ==
    IF ev.file \in fileToPkg(s) THEN ev.kind = "deleted" ELSE DirOf(ev.file) \in packageDirs(s)

\* The event is taken for a change of a listed file, and a load that has read
\* the disk and is not installed yet does not list it as that.
Misjudged(ev) ==
    /\ ~needsGraphReload(snap, ev)
    /\ \E t \in Thread : /\ thr[t].at \in {"save", "set", "drop", "store"}
                         /\ needsGraphReload(thr[t].snap, ev) \/ ev.file \in fileToPkg(snap) \ fileToPkg(thr[t].snap)
NewPackage(ev) == ev.kind = "written" /\ ev.file \notin fileToPkg(snap) /\ DirOf(ev.file) \notin packageDirs(snap)

\* What is remembered once the events at is have been gone through.
printsAfter(batch, is) ==
    [f \in File |->
       LET told == {i \in is : batch[i].file = f /\ (batch[i].kind = "deleted" \/ disk[f].exists)}
       IN  CASE told = {} -> seen[f]
             [] \E i \in told : batch[i].kind = "deleted" /\ \A j \in told : j <= i -> NoPrint
             [] OTHER -> Fingerprint(f)]
\* A batch is gone through up to the first event that needs a reload.
Acted(batch) ==
    LET news    == {i \in DOMAIN batch : changed(printsAfter(batch, 1..(i - 1)), batch[i])}
        stops   == {i \in news : needsGraphReload(snap, batch[i])}
        reached == {i \in DOMAIN batch : \A j \in stops : i <= j}
        acted   == news \cap reached
    IN  [seen |-> printsAfter(batch, reached), saw |-> acted # {}, reload |-> stops # {},
         gaps |-> (IF \E i \in acted : Misjudged(batch[i]) THEN {"misjudged"} ELSE {})
                  \cup (IF \E i \in acted : NewPackage(batch[i]) THEN {"new package"} ELSE {})]

\* onEvent: the reload flag accumulates and the timer starts over.
onEvent(reload) == watch' = [watch EXCEPT !.timer = TRUE, !.reload = @ \/ reload]

\* handleDidChangeWatchedFiles.  Before there is a workspace nothing is done;
\* a module file reloads the graph at once on a goroutine of its own.  (The bound
\* here is one such goroutine at a time.)
handleDidChangeWatchedFiles(n) ==
    LET batch == SubSeq(mail, 1, n)
        module == \E i \in 1..n : batch[i].kind = "module"
    IN  /\ serving = "up"
        /\ mail' = SubSeq(mail, n + 1, Len(mail))
        /\ \/ /\ engine = NoEngine
              /\ gaps' = IF thr["init"].at \in {"read", "load"} \/ thr["bg"].at = "load" THEN gaps
                         ELSE gaps \cup {"dropped"}
              /\ UNCHANGED <<seen, watch, thr>>
           \/ /\ engine # NoEngine /\ module
              /\ thr["mod"].at = "idle"
              /\ thr' = [thr EXCEPT !["mod"].at = "load"]
              /\ UNCHANGED <<seen, watch, gaps>>
           \/ /\ engine # NoEngine /\ ~module
              /\ LET acted == Acted(batch)
                 IN  /\ seen' = acted.seen /\ gaps' = gaps \cup acted.gaps
                     /\ IF acted.saw THEN onEvent(acted.reload) ELSE UNCHANGED watch
              /\ UNCHANGED thr
        /\ UNCHANGED <<diagVars, diskVars, wsMu, snap, target, decoded, imp, unit, serving, reads, load>>

\* The timer goes off: fire takes the accumulated flag ...
fireTimer ==
    /\ watch.timer /\ Len(watch.fired) < MaxFired
    /\ watch' = [watch EXCEPT !.timer = FALSE, !.reload = FALSE, !.fired = Append(@, watch.reload)]
    /\ UNCHANGED <<diagVars, diskVars, mail, seen, wsVars, serving, reads, gaps, load>>

Pass(reload) == IF reload THEN "load" ELSE "index"
\* Mutant: a pass under way is taken to cover the batch.
fireDropping(i) ==
    LET reload == watch.fired[i]
    IN  /\ IF watch.running
           THEN watch' = [watch EXCEPT !.fired = RemoveAt(@, i)] /\ UNCHANGED thr
           ELSE /\ watch' = [watch EXCEPT !.fired = RemoveAt(@, i), !.running = TRUE]
                /\ thr' = [thr EXCEPT !["watch"].at = Pass(reload)]
        /\ UNCHANGED <<diagVars, diskVars, mail, seen, wsMu, snap, target, decoded, imp, unit, serving, reads, gaps, load>>
\* ... and starts a pass, or leaves one behind for the pass under way.
fire(i) ==
    LET reload == watch.fired[i]
    IN  /\ IF watch.running
           THEN /\ watch' = [watch EXCEPT !.fired = RemoveAt(@, i), !.rerun = TRUE, !.rerunReload = @ \/ reload]
                /\ UNCHANGED thr
           ELSE /\ watch' = [watch EXCEPT !.fired = RemoveAt(@, i), !.running = TRUE]
                /\ thr' = [thr EXCEPT !["watch"].at = Pass(reload)]
        /\ UNCHANGED <<diagVars, diskVars, mail, seen, wsMu, snap, target, decoded, imp, unit, serving, reads, gaps, load>>

\* Mutant: the note of a pass left behind is never taken down.
passDoneAgain ==
    /\ thr["watch"].at = "done"
    /\ IF watch.rerun
       THEN thr' = [thr EXCEPT !["watch"].at = Pass(watch.rerunReload)] /\ UNCHANGED watch
       ELSE /\ thr' = [thr EXCEPT !["watch"] = Resting]
            /\ watch' = [watch EXCEPT !.running = FALSE]
    /\ UNCHANGED <<diagVars, diskVars, mail, seen, wsMu, snap, target, decoded, imp, unit, serving, reads, gaps, load>>
\* Mutant: a pass ends as not running, whatever it leaves behind.
passDoneStopped ==
    /\ thr["watch"].at = "done"
    /\ thr' = [thr EXCEPT !["watch"] = IF watch.rerun THEN [@ EXCEPT !.at = Pass(watch.rerunReload)] ELSE Resting]
    /\ watch' = [watch EXCEPT !.rerun = FALSE, !.rerunReload = FALSE, !.running = FALSE]
    /\ UNCHANGED <<diagVars, diskVars, mail, seen, wsMu, snap, target, decoded, imp, unit, serving, reads, gaps, load>>
\* The end of a pass: the one left behind is next.
passDone ==
    /\ thr["watch"].at = "done"
    /\ IF watch.rerun
       THEN /\ thr' = [thr EXCEPT !["watch"].at = Pass(watch.rerunReload)]
            /\ watch' = [watch EXCEPT !.rerun = FALSE, !.rerunReload = FALSE]
       ELSE /\ thr' = [thr EXCEPT !["watch"] = Resting]
            /\ watch' = [watch EXCEPT !.running = FALSE]
    /\ UNCHANGED <<diagVars, diskVars, mail, seen, wsMu, snap, target, decoded, imp, unit, serving, reads, gaps, load>>

-----------------------------------------------------------------------------
(* Loading the graph.                                                      *)

Goto(t, at) == thr' = [thr EXCEPT ![t].at = at]
\* A goroutine has done its work; the debouncer's goes on to its next pass.
Finished(t) == IF t = "watch" THEN [thr[t] EXCEPT !.at = "done"] ELSE Resting

\* LoadCache: refused unless the module files are, by content, those the cache
\* was saved with.  It is trusted at once; a cache shared between worktrees, or
\* older than a module file (Stale), is revalidated in the background.
moduleContentDigest == mod
cacheHit == cacheFile.saved /\ cacheFile.digest = moduleContentDigest
Shared == load.shared
Stale == cacheFile.touched
loadWorkspaceAsync ==
    /\ thr["init"].at = "read"
    /\ IF cacheHit
       THEN /\ thr' = [thr EXCEPT !["init"].at = "set", !["init"].snap = cacheFile.snap,
                                  !["bg"].at = IF Shared \/ Stale THEN "load" ELSE "idle"]
            /\ gaps' = IF ~(Shared \/ Stale) /\ (cacheFile.snap.files # OnDiskNow \/ cacheFile.snap.mod # mod)
                       THEN gaps \cup {"trusted"} ELSE gaps
       ELSE Goto("init", "load") /\ UNCHANGED gaps
    /\ UNCHANGED <<diagVars, diskVars, watchVars, wsMu, snap, target, decoded, imp, unit, serving, reads, load>>

\* graph.Load: `go list`, which may fail; then the goroutine gives up.
Load(t) ==
    /\ thr[t].at = "load"
    /\ \/ /\ reads' = reads + 1
          /\ thr' = [thr EXCEPT ![t].at = "save", ![t].snap = GraphLoad(reads + 1)]
          /\ NoFailure
       \/ /\ Fails({"failed"})
          /\ thr' = [thr EXCEPT ![t] = Finished(t)]
          /\ UNCHANGED reads
    /\ UNCHANGED <<diagVars, diskVars, watchVars, wsMu, snap, target, decoded, imp, unit, serving>>

\* SaveCache: the module files are digested when the cache is written, not
\* when the graph was loaded.  A failure to write is only logged.
SaveCache(t) ==
    /\ thr[t].at = "save"
    /\ \/ cacheFile' = [saved |-> TRUE, snap |-> thr[t].snap, digest |-> moduleContentDigest, touched |-> FALSE] /\ NoFailure
       \/ Fails({}) /\ UNCHANGED cacheFile
    /\ Goto(t, "set")
    /\ UNCHANGED <<diagVars, disk, mod, onDiskDB, watchVars, wsMu, snap, target, decoded, imp, unit, serving, reads>>

-----------------------------------------------------------------------------
(* setWorkspace, under setWorkspaceMu.                                     *)

\* The graph source is retargeted.  With an unchanged dependency set the
\* engine and its caches are kept; otherwise a new engine and an empty cache
\* are built and the old engine is retired, before the workspace is stored.
setWorkspace(t) ==
    LET new == thr[t].snap
        reuse == SameDependencies(new)
    IN  /\ thr[t].at = "set" /\ wsMu = None
        /\ reuse \/ engine < MaxEngine
        /\ wsMu' = t /\ target' = new
        /\ thr' = [thr EXCEPT ![t].at = IF reuse THEN "drop" ELSE "store", ![t].engine = IF reuse THEN engine ELSE engine + 1]
        /\ IF reuse
           THEN UNCHANGED <<decoded, imp, retired, armed, recheck, unrechecked>>
           ELSE /\ decoded' = Discarded /\ imp' = NoImport
                /\ IF engine = NoEngine THEN UNCHANGED <<retired, armed, recheck, unrechecked>> ELSE Retire(engine)
        /\ UNCHANGED <<overlay, handler, engine, pendingOpens, known, idxReady, diagFiles, shown, latest, outOfOrder,
                       diskVars, watchVars, snap, unit, serving, reads, gaps, load>>

\* depCache.invalidate(changedExportSet(old.snap, snap)).
dropChanged(t) ==
    LET ps == changedExportSet(snap, thr[t].snap)
    IN  /\ thr[t].at = "drop"
        /\ decoded' = Invalidated(ps) /\ imp' = Overtaken(ps)
        /\ Goto(t, "store")
        /\ UNCHANGED <<diagVars, diskVars, watchVars, wsMu, snap, target, unit, serving, reads, gaps, load>>

storeWorkspace(t) ==
    /\ thr[t].at = "store"
    /\ snap' = thr[t].snap /\ engine' = thr[t].engine
    /\ gaps' = IF engine # NoEngine /\ thr[t].snap.read < snap.read THEN gaps \cup {"crossed"} ELSE gaps
    /\ Goto(t, "drain")
    /\ UNCHANGED <<overlay, handler, pendingOpens, known, armed, recheck, retired, idxReady, diagFiles, shown, histVars,
                   diskVars, watchVars, wsMu, target, decoded, imp, unit, serving, reads, load>>

drainOpens(t) ==
    /\ thr[t].at = "drain"
    /\ drainPendingOpens(engine)
    /\ wsMu' = None
    /\ Goto(t, IF t = "init" THEN "open" ELSE "index")
    /\ UNCHANGED <<overlay, handler, engine, recheck, retired, idxReady, diagFiles, shown, histVars,
                   diskVars, watchVars, snap, target, decoded, imp, unit, serving, reads, gaps, load>>

-----------------------------------------------------------------------------
(* The facts index, one pass at a time under idxMu.                        *)

idxMuFree(t) == \A x \in Thread \ {t} : thr[x].at \notin {"build", "rebuild", "recheck", "discard"}

\* tryWarmOpen, or else a build.
openIndex ==
    /\ thr["init"].at = "open"
    /\ \/ /\ onDiskDB /\ idxReady' = TRUE /\ Goto("init", "index")
          /\ unrechecked' = unrechecked \cup {u \in Unit : (\E e \in Engine : <<e, u>> \in known) /\ <<engine, u>> \notin armed}
          /\ NoFailure
       \/ /\ IF onDiskDB THEN Fails({}) ELSE NoFailure
          /\ Goto("init", "build") /\ UNCHANGED <<idxReady, unrechecked>>
    /\ UNCHANGED <<overlay, handler, engine, pendingOpens, known, armed, recheck, retired, diagFiles, shown, latest, outOfOrder,
                   diskVars, watchVars, wsMu, snap, target, decoded, imp, unit, serving, reads>>

\* staleIndexPackages: all that index.RevalidateStale finds wanting.
staleIndexPackages == {p \in Packages(snap) : idxReady /\ PackageChanged(snap, p)}
\* reindex: of the units in the directories of what changed, the engine
\* rechecks those it knows.
InvalidateDependency(ps) ==
    armed' = armed \cup {eu \in known : eu[1] = engine /\ UnitDir[eu[2]] \in ps}
Reindexed(ps) == [p \in Pkg |-> IF p \in ps /\ Indexable(snap, p) THEN Recorded(snap, p) ELSE unit[p]]

\* repairIndexPackagesLocked: each stale package is reindexed, with the
\* invalidation a reindex ends in.  One of a package that lacks a file fails, and
\* any other may: it is left at that, stale or (when what imports it failed) not.
repairIndexPackages(stale) ==
    \E failed, redone \in SUBSET stale :
      LET touched == UNION {ClosureUnits(snap, p) : p \in stale \ failed}
      IN  /\ {p \in stale : ~Indexable(snap, p)} \subseteq failed /\ stale \ failed \subseteq redone
          /\ IF \E p \in failed : Indexable(snap, p) THEN Fails({"unrepaired"}) ELSE NoFailure
          /\ unit' = Reindexed(redone)
          /\ decoded' = Invalidated(touched) /\ imp' = Overtaken(touched)
          /\ InvalidateDependency(touched)

\* revalidateIndex: nothing, a repair of the stale packages in place, or closing
\* the index for a rebuild.  When the staleness cannot be told, nothing is done.
revalidateIndex(t) ==
    LET stale == staleIndexPackages
    IN  /\ thr[t].at = "index" /\ idxMuFree(t)
        /\ \/ /\ IF stale = {} THEN NoFailure ELSE Fails({"unchecked"})
              /\ thr' = [thr EXCEPT ![t] = Finished(t)]
              /\ UNCHANGED <<unit, decoded, imp, armed, idxReady>>
           \/ /\ stale # {} /\ Cardinality(stale) <= RepairThreshold
              /\ repairIndexPackages(stale)
              /\ thr' = [thr EXCEPT ![t] = Finished(t)]
              /\ UNCHANGED idxReady
           \/ /\ stale # {} /\ Cardinality(stale) > RepairThreshold
              /\ idxReady' = FALSE
              /\ Goto(t, "rebuild") /\ NoFailure
              /\ UNCHANGED <<unit, decoded, imp, armed>>
        /\ UNCHANGED <<overlay, handler, engine, pendingOpens, known, recheck, retired, diagFiles, shown, histVars,
                       diskVars, watchVars, wsMu, snap, target, serving, reads>>

\* Where a build leaves its goroutine: with an index just opened, or without one.
AfterBuild(t, opened) ==
    CASE opened -> [thr[t] EXCEPT !.at = IF @ = "build" THEN "recheck" ELSE "discard", !.engine = engine]
      [] ~opened /\ thr[t].at = "build" -> [thr[t] EXCEPT !.at = "index"]
      [] OTHER -> Finished(t)

\* The indexer subprocess, then openIndexAfterBuild on the workspace it reads
\* before the index is stored.  The indexer may leave packages out, one that
\* cannot be checked or all that were left when it died, and what it built is
\* opened all the same; or there is nothing to open.  A first build's
\* omissions are left to the revalidation that follows it.
buildIndex(t) ==
    /\ thr[t].at \in {"build", "rebuild"} /\ (thr[t].at = "build" => idxMuFree(t))
    /\ \E built \in SUBSET Packages(snap), opened \in BOOLEAN :
         /\ IF opened /\ built = Packages(snap) THEN NoFailure
            ELSE Fails(IF ~opened THEN {"unavailable"} ELSE IF thr[t].at = "rebuild" THEN {"unbuilt"} ELSE {})
         /\ unit' = Reindexed(built)
         /\ idxReady' = opened /\ onDiskDB' = (onDiskDB \/ opened \/ built # {})
         /\ thr' = [thr EXCEPT ![t] = AfterBuild(t, opened)]
    /\ UNCHANGED <<overlay, handler, engine, pendingOpens, known, armed, recheck, retired, diagFiles, shown, histVars,
                   disk, mod, cacheFile, watchVars, wsMu, snap, target, decoded, imp, serving, reads>>

\* Open files are rechecked; after a rebuild the decode cache is discarded.
indexReady(t) ==
    /\ thr[t].at \in {"recheck", "discard"}
    /\ recheckOpenFilesAfterIndexReady(thr[t].engine)
    /\ IF thr[t].at = "discard"
       THEN /\ decoded' = Discarded /\ imp' = Overtaken(Pkg)
            /\ thr' = [thr EXCEPT ![t] = Finished(t)]
       ELSE Goto(t, "index") /\ UNCHANGED <<decoded, imp>>
    /\ UNCHANGED <<overlay, handler, engine, pendingOpens, known, recheck, retired, idxReady, diagFiles, shown, latest, outOfOrder,
                   diskVars, watchVars, wsMu, snap, target, unit, serving, reads, gaps, load>>

-----------------------------------------------------------------------------
(* Importing a workspace package from its index entry.                     *)

\* rootExportSource.blob: the entry is current for the package and for what it
\* imports.  depCacheHolder.importer drops a cache that has grown too large.
blob(q) ==
    /\ Spend("imports")
    /\ imp = NoImport /\ idxReady /\ engine # NoEngine
    /\ \A t \in Thread : ~(thr[t].at = "store" /\ thr[t].engine # engine)
    /\ ForTest[q] = None /\ q \in Packages(target)
    /\ \A p \in Closure(q) : p \in Packages(target) => ~PackageChanged(target, p)
    /\ imp' = [pkg |-> q, files |-> ClosureFiles(target, q), overtaken |-> FALSE]
    /\ decoded' = Fitting
    /\ UNCHANGED <<diagVars, diskVars, watchVars, thr, wsMu, snap, target, unit, serving, reads, gaps>>

\* ReadExport and Importer.resolve: an entry that is there is served as it is.
ReadExport(q, new) == IF decoded[q].done THEN decoded ELSE [decoded EXCEPT ![q] = new]
\* decodeExport, into whatever cache is current by then.
decodeExport ==
    /\ imp # NoImport
    /\ decoded' = ReadExport(imp.pkg, [done |-> TRUE, files |-> imp.files, late |-> imp.overtaken])
    /\ imp' = NoImport
    /\ UNCHANGED <<diagVars, diskVars, watchVars, thr, wsMu, snap, target, unit, serving, reads, gaps, load>>

-----------------------------------------------------------------------------
(* The life of the process.  What is on disk outlives it.                  *)

handleInitialize ==
    /\ serving = "down" /\ Spend("starts")
    /\ serving' = "up" /\ Goto("init", "read")
    /\ UNCHANGED <<diagVars, diskVars, watchVars, wsMu, snap, target, decoded, imp, unit, reads, gaps>>

\* Everything in memory is gone, and so is what the client showed.
Gone ==
    /\ serving' = "down" /\ mail' = <<>> /\ seen' = [f \in File |-> NoPrint] /\ watch' = QuietWatch
    /\ thr' = [t \in Thread |-> Resting] /\ wsMu' = None /\ snap' = NoSnap /\ target' = NoSnap
    /\ decoded' = Discarded /\ imp' = NoImport
    /\ overlay' = [f \in Doc |-> Closed] /\ handler' = [f \in Doc |-> Idle]
    /\ engine' = NoEngine /\ pendingOpens' = {} /\ known' = {} /\ armed' = {} /\ retired' = {}
    /\ recheck' = [eu \in Engine \X Unit |-> NoRecheck]
    /\ idxReady' = FALSE /\ diagFiles' = [u \in Unit |-> {}] /\ shown' = [f \in Doc |-> Unseen]
    /\ latest' = [f \in Doc |-> NoEngine] /\ outOfOrder' = {} /\ unrechecked' = {}
    /\ gaps' = {}
    /\ UNCHANGED <<diskVars, unit, reads>>
Kill == serving # "down" /\ Spend("kills") /\ Gone

\* Stop: the debounce timer first, then the pass under way is waited for.
StopWatch ==
    /\ serving = "up" /\ Spend("stops")
    /\ serving' = "stopping"
    /\ watch' = [watch EXCEPT !.timer = FALSE]
    /\ UNCHANGED <<diagVars, diskVars, mail, seen, wsVars, reads, gaps>>
Exit == serving = "stopping" /\ ~watch.running /\ Gone /\ UNCHANGED load

-----------------------------------------------------------------------------
Init ==
    /\ load \in Loads
    /\ DiagInit
    /\ disk = [f \in File |-> [exists |-> f \in load.files, text |-> 0, mtime |-> 0]]
    /\ mod = 0 /\ onDiskDB = load.indexed
    /\ cacheFile = IF load.cached THEN [saved |-> TRUE, snap |-> GraphLoad(0), digest |-> mod, touched |-> FALSE] ELSE NoCache
    /\ unit = [p \in Pkg |-> IF load.indexed THEN {<<f, 0>> : f \in {x \in load.files : PkgOf[x] = p}} ELSE {}]
    /\ serving = "down" /\ mail = <<>> /\ seen = [f \in File |-> NoPrint] /\ watch = QuietWatch
    /\ thr = [t \in Thread |-> Resting] /\ wsMu = None /\ snap = NoSnap /\ target = NoSnap
    /\ decoded = [p \in Pkg |-> Undecoded] /\ imp = NoImport
    /\ reads = 0 /\ gaps = {}

Client ==
    \/ \E f \in File, stamped \in BOOLEAN : WriteFile(f, stamped)
    \/ \E f \in File : RemoveFile(f) \/ Resend(f)
    \/ EditModule \/ ClientDoc \/ Kill \/ StopWatch
    \/ \E q \in Pkg : blob(q)

ThreadStep(t) ==
    \/ Load(t) \/ SaveCache(t) \/ setWorkspace(t) \/ dropChanged(t) \/ storeWorkspace(t) \/ drainOpens(t)
    \/ revalidateIndex(t) \/ buildIndex(t) \/ indexReady(t)
InitStep == loadWorkspaceAsync \/ openIndex
Deliver == \E n \in 1..Len(mail) : handleDidChangeWatchedFiles(n)
Fire == \E i \in 1..Len(watch.fired) : fire(i)
Publish ==
    /\ (\E f \in Doc : DocStep(f)) \/ (\E e \in Engine, u \in Unit : UnitStep(e, u))
    /\ UNCHANGED <<diskVars, watchVars, wsVars, serving, reads, gaps, load>>

System ==
    \/ handleInitialize \/ Exit \/ Deliver \/ fireTimer \/ Fire \/ passDone \/ InitStep
    \/ (\E t \in Thread : ThreadStep(t)) \/ decodeExport \/ Publish
Next == Client \/ System
Spec == Init /\ [][Next]_vars
\* Work that can be done is done: the runtime goes on running some goroutine
\* that is ready, timers go off, and the client delivers what its watcher saw.
\* Which of them goes first is left open, and nothing makes the client or the
\* disk do anything.
FairSpec == Spec /\ WF_vars(System)

-----------------------------------------------------------------------------
\* Types, and what the locks and flags of the goroutines imply: only the
\* holder of setWorkspaceMu is inside setWorkspace, and the debouncer's
\* goroutine works exactly while it is marked running.
TypeOK ==
    /\ DiagTypeOK
    /\ disk \in [File -> [exists : BOOLEAN, text : Nat, mtime : Nat]] /\ mod \in {0, 1}
    /\ serving \in {"down", "up", "stopping"}
    /\ \A i \in DOMAIN mail : mail[i] \in [kind : {"written", "deleted", "module"}, file : File]
    /\ \A t \in Thread : thr[t].at \in {"idle", "read", "load", "save", "set", "drop", "store", "drain", "open", "index",
                                        "build", "rebuild", "recheck", "discard", "done"}
    /\ \A t \in Thread : thr[t].at \in {"drop", "store", "drain"} <=> wsMu = t
    /\ watch.running <=> thr["watch"].at # "idle"
    /\ watch.rerun => watch.running
    /\ Cardinality({p \in Pkg : decoded[p].done}) <= MaxDecoded + 1

WorkQuiet == \A t \in Thread : thr[t].at = "idle"
Settled == serving = "up" /\ WorkQuiet /\ mail = <<>> /\ ~watch.timer /\ watch.fired = <<>>
Current ==
    /\ snap.files = OnDiskNow /\ snap.mod = mod
    /\ \A p \in Packages(snap) : ~PackageChanged(snap, p)

\* Once nothing is left to do, the installed import graph is that of the disk
\* and every index entry was made from the current file contents, however the
\* writes, removals and module changes fell between the steps of the debouncer
\* and of the loads.  Excepted are the failures and crossings recorded in
\* gaps, each by the step in which it happens.
SettledIsCurrent == (Settled /\ engine # NoEngine /\ gaps = {}) => Current

\* The decode cache never holds export data made from another file set than
\* the one the package source answers from, for a package or anything it
\* imports, except while a reload has retargeted the source and not yet
\* dropped what changed, and except for a blob read before such a drop and
\* decoded after it.
DecodedIsFresh ==
    (\A t \in Thread : thr[t].at # "drop") =>
        \A q \in Pkg : (decoded[q].done /\ ~decoded[q].late) => decoded[q].files = ClosureFiles(target, q)

\* What a client shows once nothing is left to do.  An open document of the
\* workspace shows the errors of its current text: none unpublished, stale, or
\* hidden behind an import that could not be resolved while the index was cold.
\* A closed one shows nothing, or the errors of its saved text, with or without
\* an import the gate held back.  Excepted are units whose recheck was lost with
\* its engine or never asked for, and documents whose last publication overtook
\* the decision it was made on.
QuietIsAccurate ==
    (DiagQuiet /\ Settled /\ engine # NoEngine) =>
        \A f \in Doc \ (Outside \cup outOfOrder) :
            UnitOf[f] \notin unrechecked =>
                IF f \in Open THEN idxReady => shown[f] = ErrorsIn(ReadFile(f))
                ELSE shown[f] = Unseen \/ shown[f] \ {Gate} \in {{}, ErrorsIn(OnDisk[f])}

\* Work comes to rest: whatever was reported, opened or edited, the loads, the
\* debounced passes and the publications it causes come to an end, and a
\* process asked to stop stops.
WorkSettles == []<>((Settled /\ DiagQuiet) \/ (serving = "down" /\ load.starts = 0))

\* "keeps the workspace current when files change outside the editor": no
\* order of events and reloads may leave the graph behind the disk for good.
KeepsCurrent == (Settled /\ engine # NoEngine /\ gaps \subseteq {"misjudged", "crossed"}) => Current

\* handleDidChange "schedules a debounced recheck of its package": an edit of a
\* document that is not waiting to be opened, handled by the installed engine,
\* arms a recheck of the unit the document belongs to.
EditIsRechecked ==
    [][\A f \in Doc \ pendingOpens :
        (armChanged(f) /\ handler[f].engine = engine /\ engine \notin retired) => <<engine, UnitOf[f]>> \in armed']_vars

\* The gate is "routine and temporary": once the index is ready and nothing is
\* left to do, no document shows an import that was held back for want of one.
GateIsTemporary == (DiagQuiet /\ Settled /\ idxReady) => \A f \in Doc \ outOfOrder : Gate \notin shown[f]
=============================================================================
