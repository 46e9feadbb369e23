------------------------------ MODULE Indexing ------------------------------
(***************************************************************************)
(* The writers of the index (internal/index): Build, the indexer           *)
(* subprocess's parallel pass over the workspace; Reindex, the calls a     *)
(* session runs after a save, several at a time; and the revalidation pass *)
(* that finds and repairs what is out of date.  All three resolve a        *)
(* package with processUnit.  Live is the root of the running session; its *)
(* editor may hold unsaved text.                                           *)
(***************************************************************************)
EXTENDS UnitStore

CONSTANTS
    Live,         \* the root whose session runs Reindex and Revalidate
    Calls,        \* Reindex calls that can be in flight together
    Repair,       \* the call the revalidation pass uses for its repairs
    Parallelism,  \* Options.Parallelism
    BatchSize,    \* Options.BatchSize
    TornReads,    \* whether the parse may see other files than the hash did
    Loads         \* what the environment may do: a set of budgets and starts

ASSUME CallsAssumption == Repair \in Calls
ASSUME LimitsAssumption == Parallelism >= 1 /\ BatchSize >= 1
ASSUME LiveAssumption == Live \in Roots

\* A behaviour starts from what earlier processes of golance left behind.
ASSUME LoadsAssumption == \A l \in Loads :
    /\ l.disk \in Disks /\ l.units \in [Roots -> Databases] /\ IsCAS(l.blobs)
    /\ l.file \in [Roots -> [state : {"absent", "current", "stale", "corrupt"}, fp : BOOLEAN, member : BOOLEAN]]
    /\ l.holder \in [Roots -> {"none", "session", "indexer"}] /\ l.stamp \in BOOLEAN
    /\ StatsAgree(l.disk, l.units, l.blobs)
    /\ ~TornReads => FactsAgree(l.units, l.blobs)
    /\ \A r \in Roots : l.holder[r] # "none" => l.file[r].state = "current"

VARIABLES
    text,    \* package -> unsaved editor text in Live, or NotOpen
    build,   \* root -> the Build run of its indexer subprocess
    call,    \* Reindex call -> its progress
    decoded, \* the session's decode caches: api, package -> the API they hold or
             \* Unset; skipped, packages changed but not reported, is history
    gens,    \* [next, done]: the genTable of Live's database; wrote is history
    repair,  \* the revalidation pass: [pc, todo, clean]
    budget   \* how much of each kind of event is left

idxVars == <<text, build, call, decoded, gens, repair, budget>>
vars == <<storeVars, idxVars>>

NotOpen == 0          \* no editor buffer: the disk is read
Unset  == "unset"    \* keyTable: not touched by this run
Failed == "failed"   \* keyTable: attempted by this run and not resolved
ASSUME MarksAssumption == {Unset, Failed} \cap Apis = {}
NoKeys == [p \in Pkgs |-> Unset]
NoDecodes == [api |-> NoKeys, skipped |-> {}]
AnyVersion == CHOOSE v \in Versions : TRUE

Spend(what) == budget[what] > 0 /\ budget' = [budget EXCEPT ![what] = @ - 1]
\* One of the writes the environment may still make: [where, root, pkg, ver].
SpendEdit(where, r, p, v) ==
    LET e == [where |-> where, root |-> r, pkg |-> p, ver |-> v]
    IN  e \in budget.edits /\ budget' = [budget EXCEPT !.edits = @ \ {e}]
Disturbed == [repair EXCEPT !.clean = FALSE]

ReadFile(p) == IF text[p] = NotOpen THEN disk[Live][p].ver ELSE text[p]

-----------------------------------------------------------------------------
(* Resolving one package *)

\* Mutant: a dependency that failed in this run is looked up in the database.
keyGetStale(keys, r, d) ==
    CASE keys[d] \notin {Unset, Failed} -> keys[d]
      [] IsPointer(units[r][d]) -> units[r][d].api
      [] OTHER -> Failed

\* keyTable.get: this run's own result, a failure of this run, or else what
\* the database says.  The code keeps a record it has looked up; here it is
\* looked up at each use, which only lets more happen.
keyGet(keys, r, d) ==
    CASE keys[d] # Unset -> keys[d]
      [] keys[d] = Unset /\ IsPointer(units[r][d]) -> units[r][d].api
      [] OTHER -> Failed

\* directDepExports
directDepExports(keys, r, p) == [d \in directDepImports(p) |-> keyGet(keys, r, d)]

\* The on-disk stat may stand in for the content only when the reader reads
\* the disk.
filesStatMatch(r, p, trustStat) ==
    LET old == units[r][p]
    IN  trustStat /\ IsPointer(old) /\ old.files # NoStat /\ old.files = disk[r][p].stat

\* The first half of processUnit: hash, key, and the two ways out that need
\* no type check.  A package that needs one leaves with kind "check".
processUnit(r, p, ver, trustStat, keys) ==
    LET old    == units[r][p]
        deps   == directDepExports(keys, r, p)
        statOK == filesStatMatch(r, p, trustStat)
        own    == IF statOK THEN old.own ELSE ver
        key    == UnitKey(p, own, deps)
        failed == \E d \in DOMAIN deps : deps[d] = Failed
        same   == IsPointer(old) /\ key = old.key
        res    == [kind |-> "fail", key |-> NoKey, own |-> own, unit |-> NoUnit, api |-> Failed]
    IN  CASE failed -> res
          [] ~failed /\ Has(key) /\ same ->                       \* unchangedOutcome
               [res EXCEPT !.kind = "same", !.key = key, !.api = old.api,
                  !.unit = IF statOK \/ ~trustStat THEN NoUnit
                           ELSE [old EXCEPT !.files = disk[r][p].stat]]
          [] ~failed /\ Has(key) /\ ~same ->                      \* casHitOutcome
               [res EXCEPT !.kind = "hit", !.key = key, !.api = Api[blobs[key].facts],
                  !.unit = [key |-> key, own |-> own, api |-> Api[blobs[key].facts],
                            files |-> blobs[key].files]]
          [] ~failed /\ ~Has(key) -> [res EXCEPT !.kind = "check", !.key = key]

\* Mutant: the disk's stat is recorded whatever the text was read from.
checkAndStoreOutcomeStat(r, p, ver, trustStat, key, own) ==
    [kind |-> IF ver \in Broken THEN "fail" ELSE "checked", key |-> key, own |-> own,
     api |-> IF ver \in Broken THEN Failed ELSE Api[ver],
     unit |-> IF ver \in Broken THEN NoUnit
              ELSE [key |-> key, own |-> own, api |-> Api[ver], files |-> disk[r][p].stat]]

\* What parseGoFiles returns for files that hold ver: a file that can no
\* longer be read is left out, and the package is that of another text.
parseGoFiles(ver) == IF TornReads THEN Versions ELSE {ver}

\* The second half: parse, check and store under the key computed before;
\* ver is what was parsed.
checkAndStoreOutcome(r, p, ver, trustStat, key, own) ==
    LET stat == IF trustStat THEN disk[r][p].stat ELSE NoStat
    IN  [kind |-> IF ver \in Broken THEN "fail" ELSE "checked", key |-> key, own |-> own,
         api |-> IF ver \in Broken THEN Failed ELSE Api[ver],
         unit |-> IF ver \in Broken THEN NoUnit
                  ELSE [key |-> key, own |-> own, api |-> Api[ver], files |-> stat]]

StoreBlob(r, p, ver, trustStat, key) ==
    IF ver \in Broken THEN UNCHANGED blobs
    ELSE Put(key, ver, IF trustStat THEN disk[r][p].stat ELSE NoStat)

-----------------------------------------------------------------------------
(* Build: every package once, in dependency order, at most Parallelism at  *)
(* a time; results are committed in batches, the fingerprint last.         *)

Dependents(p) == {q \in Pkgs : p \in directDepImports(q)}
EmptyBatch == [p \in {} |-> NoUnit]
BuildIdle == [pc |-> "idle", st |-> [p \in Pkgs |-> "done"], pend |-> [p \in Pkgs |-> 0],
              keys |-> NoKeys, key |-> [p \in Pkgs |-> NoKey], own |-> [p \in Pkgs |-> AnyVersion],
              batch |-> EmptyBatch, canceled |-> FALSE, fatal |-> FALSE, recreated |-> FALSE]

\* newScheduler: a package is ready when no dependency is unfinished.
newScheduler(r) ==
    LET pend == [p \in Pkgs |-> Cardinality(directDepImports(p))]
    IN  [BuildIdle EXCEPT !.pc = "run", !.pend = pend, !.recreated = Discarded(r),
           !.st = [p \in Pkgs |-> IF pend[p] = 0 THEN "ready" ELSE "wait"]]

Build(r) ==
    /\ build[r].pc = "idle" /\ Spend("builds")
    /\ \E registers \in BOOLEAN : Open(r, "indexer", registers)
    /\ build' = [build EXCEPT ![r] = newScheduler(r)]
    /\ repair' = Disturbed
    /\ UNCHANGED <<disk, blobs, stamp, text, call, decoded, gens>>

\* Mutant: every package is counted down, dependent or not.
finishAll(b, p) ==
    LET pend == [q \in Pkgs |-> b.pend[q] - 1]
    IN  [b EXCEPT !.pend = pend,
                  !.st = [q \in Pkgs |-> IF q = p THEN "done"
                                         ELSE IF pend[q] = 0 THEN "ready" ELSE b.st[q]]]

\* scheduler.finish
finish(b, p) ==
    LET pend == [q \in Pkgs |-> IF q \in Dependents(p) THEN b.pend[q] - 1 ELSE b.pend[q]]
    IN  [b EXCEPT !.pend = pend,
                  !.st = [q \in Pkgs |-> IF q = p THEN "done"
                                         ELSE IF q \in Dependents(p) /\ pend[q] = 0 THEN "ready"
                                         ELSE b.st[q]]]

\* buildResults.record and the job's deferred finish: the key table learns
\* the result, a full batch is committed, or lost as a whole.
recordJob(r, p, res) ==
    LET b     == [build[r] EXCEPT !.keys[p] = res.api]
        batch == IF res.unit = NoUnit THEN b.batch
                 ELSE [q \in DOMAIN b.batch \cup {p} |-> IF q = p THEN res.unit ELSE b.batch[q]]
        full  == Cardinality(DOMAIN batch) >= BatchSize
    IN  /\ build' = [build EXCEPT ![r] = finish([b EXCEPT !.batch = IF full THEN EmptyBatch ELSE batch], p)]
        /\ \/ full /\ PutUnitsBatch(r, batch) /\ UNCHANGED budget
           \/ full /\ Spend("faults") /\ UNCHANGED <<units, gc>>
           \/ ~full /\ UNCHANGED <<units, gc, budget>>

\* runBuildJob, up to the point where a type check is needed.
runBuildJob(r, p) ==
    LET b == build[r]
        res == processUnit(r, p, disk[r][p].ver, TRUE, b.keys)
    IN  /\ b.pc = "run" /\ b.st[p] = "ready" /\ ~b.canceled
        /\ Cardinality({q \in Pkgs : b.st[q] = "check"}) < Parallelism
        /\ IF res.kind = "check"
           THEN /\ build' = [build EXCEPT ![r].st[p] = "check", ![r].key[p] = res.key, ![r].own[p] = res.own]
                /\ UNCHANGED <<units, gc, budget>>
           ELSE recordJob(r, p, res)
        /\ UNCHANGED <<disk, blobs, file, holder, stamp, text, call, decoded, gens, repair>>

finishBuildJob(r, p) ==
    LET b == build[r]
    IN  /\ b.pc = "run" /\ b.st[p] = "check"
        /\ \E ver \in parseGoFiles(disk[r][p].ver) :
             /\ StoreBlob(r, p, ver, TRUE, b.key[p])
             /\ recordJob(r, p, checkAndStoreOutcome(r, p, ver, TRUE, b.key[p], b.own[p]))
        /\ UNCHANGED <<disk, file, holder, stamp, text, call, decoded, gens, repair>>

\* A cancelled context fails every job that has not got its slot yet.
cancelBuild(r) ==
    /\ build[r].pc = "run" /\ ~build[r].canceled /\ Spend("kills")
    /\ build' = [build EXCEPT ![r].canceled = TRUE]
    /\ UNCHANGED <<storeVars, text, call, decoded, gens, repair>>

recordFatal(r, p) ==
    /\ build[r].pc = "run" /\ build[r].canceled /\ build[r].st[p] = "ready"
    /\ build' = [build EXCEPT ![r] = [finish(build[r], p) EXCEPT !.fatal = TRUE]]
    /\ UNCHANGED <<storeVars, text, call, decoded, gens, repair, budget>>

\* The ready channel closes after the last job: flush, then the fingerprint
\* unless a job was refused by the cancellation, then the collector.
endBuild(r) ==
    LET b == build[r]
    IN  /\ b.pc = "run" /\ \A p \in Pkgs : b.st[p] = "done"
        /\ \/ PutUnitsBatch(r, b.batch) /\ UNCHANGED budget
           \/ DOMAIN b.batch # {} /\ Spend("faults") /\ UNCHANGED <<units, gc>>
        /\ file' = [file EXCEPT ![r].fp = @ \/ ~b.fatal]
        /\ build' = [build EXCEPT ![r] = [BuildIdle EXCEPT !.pc = IF b.fatal THEN "close" ELSE "gc",
                                                          !.recreated = b.recreated]]
        /\ UNCHANGED <<disk, blobs, holder, stamp, text, call, decoded, gens, repair>>

collectAfterBuild(r) ==
    /\ build[r].pc = "gc" /\ RunCASGC(r, build[r].recreated)
    /\ build' = [build EXCEPT ![r].pc = "close"]
    /\ UNCHANGED <<text, call, decoded, gens, repair, budget>>

exitIndexer(r) ==
    /\ build[r].pc = "close" /\ (gc.pc = "idle" \/ gc.root # r)
    /\ Close(r)
    /\ build' = [build EXCEPT ![r] = BuildIdle]
    /\ UNCHANGED <<disk, blobs, units, file, stamp, gc, text, call, decoded, gens, repair, budget>>

\* The subprocess dies where it stands: committed batches stay, the rest is
\* gone, and so is a collection it was running.
killIndexer(r) ==
    /\ build[r].pc # "idle" /\ Spend("kills")
    /\ Close(r)
    /\ build' = [build EXCEPT ![r] = BuildIdle]
    /\ gc' = IF gc.pc # "idle" /\ gc.root = r THEN GCIdle ELSE gc
    /\ UNCHANGED <<disk, blobs, units, file, stamp, text, call, decoded, gens, repair>>

BuildStep(r) == \/ \E p \in Pkgs : runBuildJob(r, p) \/ finishBuildJob(r, p) \/ recordFatal(r, p)
                \/ endBuild(r) \/ collectAfterBuild(r) \/ exitIndexer(r)

-----------------------------------------------------------------------------
(* The session of Live: it opens the database and runs Reindex calls.      *)

CallIdle == [pc |-> "idle", gen |-> 0, first |-> Order[1], todo |-> <<>>, keys |-> NoKeys,
             key |-> NoKey, own |-> AnyVersion, unit |-> NoUnit, err |-> FALSE, changed |-> {}]
InFlight == {c \in Calls : call[c].pc # "idle"}
IdleCalls == Calls \ (InFlight \cup {Repair})

openSession ==
    /\ build[Live].pc = "idle" /\ Open(Live, "session", FALSE)
    /\ gens' = [next |-> 0, done |-> [p \in Pkgs |-> 0], wrote |-> [p \in Pkgs |-> 0]]
    /\ decoded' = NoDecodes
    /\ repair' = Disturbed
    /\ UNCHANGED <<disk, blobs, stamp, text, build, call, budget>>

closeSession ==
    /\ holder[Live] = "session" /\ InFlight = {} /\ gc.pc = "idle" /\ budget.builds > 0
    /\ Close(Live)
    /\ repair' = [pc |-> "idle", todo |-> {}, clean |-> FALSE]
    /\ UNCHANGED <<disk, blobs, units, file, stamp, gc, text, build, call, decoded, gens, budget>>

\* runStartupCASGC
runStartupCASGC ==
    /\ holder[Live] = "session" /\ Spend("gcs") /\ RunCASGC(Live, FALSE)
    /\ repair' = Disturbed
    /\ UNCHANGED <<text, build, call, decoded, gens>>

\* The reverse-dependency closure of p, in the snapshot's order.
ClosureUnits(p) ==
    {q \in Pkgs : \A S \in SUBSET Pkgs :
        (p \in S /\ \A x \in Pkgs : (Imports[x] \cup TestImports[x]) \cap S # {} => x \in S) => q \in S}
InOrder(S) ==
    LET f[i \in 0..Len(Order)] ==
          IF i = 0 THEN <<>> ELSE IF Order[i] \in S THEN Append(f[i - 1], Order[i]) ELSE f[i - 1]
    IN  f[Len(Order)]
orderedReverseClosure(p) == InOrder(ClosureUnits(p) \ {p})

Start(c, p) ==
    /\ holder[Live] = "session" /\ call[c].pc = "idle"
    /\ gens' = [gens EXCEPT !.next = @ + 1]
    /\ call' = [call EXCEPT ![c] = [CallIdle EXCEPT !.pc = "resolve", !.gen = gens.next + 1, !.first = p,
                                                    !.todo = <<p>> \o orderedReverseClosure(p)]]

Reindex(c, p) ==
    /\ Spend("reindexes") /\ Start(c, p)
    /\ repair' = Disturbed
    /\ UNCHANGED <<storeVars, text, build, decoded>>

\* A call moves to the next package of its closure, or ends.
Next1(cl) == [cl EXCEPT !.todo = Tail(@), !.key = NoKey, !.unit = NoUnit,
                        !.pc = IF Len(cl.todo) > 1 THEN "resolve" ELSE "end"]
\* An error ends the call at the changed package, and only skips a hop.
Abort(cl) == [cl EXCEPT !.pc = "end", !.err = TRUE, !.key = NoKey, !.unit = NoUnit]
AfterError(cl) == IF Head(cl.todo) = cl.first THEN Abort(cl) ELSE Next1([cl EXCEPT !.err = TRUE])

\* What reindexOne does with a result: nothing to write, or the gate.
afterResolve(cl, res) ==
    LET c2 == [cl EXCEPT !.keys[Head(cl.todo)] = res.api,
                         !.changed = IF res.kind \in {"hit", "checked"} THEN @ \cup {Head(cl.todo)} ELSE @]
        ok == res.kind \notin {"fail", "check"}
    IN  CASE res.kind = "fail"  -> AfterError(c2)
          [] res.kind = "check" -> [cl EXCEPT !.pc = "check", !.key = res.key, !.own = res.own]
          [] ok /\ res.unit = NoUnit -> Next1(c2)
          [] ok /\ res.unit # NoUnit -> [c2 EXCEPT !.pc = "gate", !.unit = res.unit]

\* The changed package is read through the overlay, its dependents from disk.
ReadBy(c) == IF Head(call[c].todo) = call[c].first THEN ReadFile(Head(call[c].todo))
             ELSE disk[Live][Head(call[c].todo)].ver
TrustStat(c) == Head(call[c].todo) # call[c].first

reindexOne(c) ==
    /\ call[c].pc = "resolve"
    /\ call' = [call EXCEPT ![c] = afterResolve(@, processUnit(Live, Head(@.todo), ReadBy(c), TrustStat(c), @.keys))]
    /\ UNCHANGED <<storeVars, text, build, decoded, gens, repair, budget>>

reindexCheck(c) ==
    LET p == Head(call[c].todo)
    IN  /\ call[c].pc = "check"
        /\ \E ver \in parseGoFiles(ReadBy(c)) :
             /\ StoreBlob(Live, p, ver, TrustStat(c), call[c].key)
             /\ call' = [call EXCEPT ![c] = afterResolve(@,
                           checkAndStoreOutcome(Live, p, ver, TrustStat(c), @.key, @.own))]
        /\ UNCHANGED <<disk, units, file, holder, stamp, gc, text, build, decoded, gens, repair, budget>>

\* genTable.tryCommit: a call older than the last one through is refused.
tryCommit(c) ==
    LET p == Head(call[c].todo)
        ok == call[c].gen >= gens.done[p]
    IN  /\ call[c].pc = "gate"
        /\ gens' = IF ok THEN [gens EXCEPT !.done[p] = call[c].gen] ELSE gens
        /\ call' = [call EXCEPT ![c] = IF ok THEN [@ EXCEPT !.pc = "put"] ELSE Next1(@)]
        /\ UNCHANGED <<storeVars, text, build, repair, budget, decoded>>

\* History: a refresh of the recorded stat, which is not reported as a change,
\* puts back a pointer that another call has replaced since it was read.
PutBack(c) ==
    {p \in {Head(call[c].todo)} \ call[c].changed :
        IsPointer(units[Live][p]) /\ units[Live][p].api # call[c].unit.api}

\* The write itself, after the gate's lock is released.  A failed write
\* ends the call; a failed refresh of the recorded stat is let go.
PutUnit(c) ==
    /\ call[c].pc = "put"
    /\ \/ /\ PutUnitsBatch(Live, [p \in {Head(call[c].todo)} |-> call[c].unit])
          /\ call' = [call EXCEPT ![c] = Next1(@)]
          /\ gens' = [gens EXCEPT !.wrote[Head(call[c].todo)] = call[c].gen]
          /\ decoded' = [decoded EXCEPT !.skipped = @ \cup PutBack(c)]
          /\ UNCHANGED <<budget, repair>>
       \/ /\ Spend("faults")
          /\ call' = [call EXCEPT ![c] = IF Head(@.todo) \in @.changed THEN Abort(@) ELSE Next1(@)]
          /\ repair' = Disturbed
          /\ UNCHANGED <<units, gc, gens, decoded>>
    /\ UNCHANGED <<disk, blobs, file, holder, stamp, text, build>>

\* What the end of a call drops from the decode caches: nothing when the call
\* reports an error, however much of it was written.
Invalidate(cl, changed) ==
    IF cl.err THEN [decoded EXCEPT !.skipped = @ \cup cl.changed]
    ELSE [api |-> [p \in Pkgs |-> IF p \in changed THEN Unset ELSE decoded.api[p]],
          skipped |-> decoded.skipped \ changed]

\* Mutant: only the saved package is dropped from the caches.
reindexFirstOnly(c) ==
    /\ call[c].pc = "end"
    /\ decoded' = Invalidate(call[c], {call[c].first})
    /\ call' = [call EXCEPT ![c] = CallIdle]
    /\ UNCHANGED <<storeVars, text, build, gens, repair, budget>>

\* The server's end of the call.
reindex(c) ==
    /\ call[c].pc = "end"
    /\ decoded' = Invalidate(call[c], IF call[c].changed = {} THEN {call[c].first} ELSE call[c].changed)
    /\ call' = [call EXCEPT ![c] = CallIdle]
    /\ UNCHANGED <<storeVars, text, build, gens, repair, budget>>

\* A query or a recheck imports p and decodes its export data.
decode(p) ==
    /\ holder[Live] = "session" /\ decoded.api[p] = Unset /\ Spend("decodes")
    /\ IsPointer(units[Live][p]) /\ Has(units[Live][p].key)
    /\ decoded' = [decoded EXCEPT !.api[p] = Api[blobs[units[Live][p].key].facts]]
    /\ UNCHANGED <<storeVars, text, build, call, gens, repair>>

-----------------------------------------------------------------------------
(* Revalidation: find the stale packages, reindex each in turn.            *)

\* Mutant: a pointer whose key is right is trusted to have its blob.
packageChangedUnchecked(p) ==
    LET old  == units[Live][p]
        own  == IF filesStatMatch(Live, p, TRUE) THEN old.own ELSE disk[Live][p].ver
        deps == directDepExports(NoKeys, Live, p)
    IN  \/ ~IsPointer(old)
        \/ \E d \in DOMAIN deps : deps[d] = Failed
        \/ UnitKey(p, own, deps) # old.key

\* packageChanged, against the disk and without writing anything.
packageChanged(p) ==
    LET old  == units[Live][p]
        own  == IF filesStatMatch(Live, p, TRUE) THEN old.own ELSE disk[Live][p].ver
        deps == directDepExports(NoKeys, Live, p)
    IN  \/ ~IsPointer(old)
        \/ \E d \in DOMAIN deps : deps[d] = Failed
        \/ UnitKey(p, own, deps) # old.key
        \/ ~Has(old.key)

\* RevalidateStale; without a fingerprint only a full Build will do, and a
\* record that does not decode fails the pass.
RevalidateStale ==
    /\ holder[Live] = "session" /\ repair.pc # "run" /\ call[Repair].pc = "idle"
    /\ file[Live].fp /\ ~Unreadable(units[Live])
    /\ Spend("passes")
    /\ repair' = [pc |-> "run", todo |-> {p \in Pkgs : packageChanged(p)},
                  clean |-> /\ InFlight = {} /\ gc.pc = "idle" /\ file[Live].member
                            /\ \A p \in Pkgs : ReadFile(p) = disk[Live][p].ver]
    /\ UNCHANGED <<storeVars, text, build, call, decoded, gens>>

repairNext(p) ==
    /\ repair.pc = "run" /\ p \in repair.todo /\ Start(Repair, p)
    /\ repair' = [repair EXCEPT !.todo = @ \ {p}]
    /\ UNCHANGED <<storeVars, text, build, budget, decoded>>

repairDone ==
    /\ repair.pc = "run" /\ repair.todo = {} /\ call[Repair].pc = "idle"
    /\ repair' = [repair EXCEPT !.pc = "done"]
    /\ UNCHANGED <<storeVars, text, build, call, decoded, gens, budget>>

-----------------------------------------------------------------------------
(* Everyone else: the user's editor and the tools that write files.        *)

Reading(r, p) == \/ build[r].st[p] = "check"
                 \/ r = Live /\ \E c \in InFlight : call[c].pc = "check" /\ Head(call[c].todo) = p

editDisk(r, p, v) ==
    /\ SpendEdit("disk", r, p, v) /\ disk[r][p].ver # v /\ (TornReads \/ ~Reading(r, p))
    /\ disk[r][p].stat[2] < MaxWrites
    /\ disk' = [disk EXCEPT ![r][p] = [ver |-> v, stat |-> <<r, @.stat[2] + 1>>]]
    /\ repair' = Disturbed
    /\ UNCHANGED <<blobs, units, file, holder, stamp, gc, text, build, call, decoded, gens>>

didChange(p, v) ==
    /\ SpendEdit("text", Live, p, v) /\ text[p] # v /\ (TornReads \/ ~Reading(Live, p))
    /\ text' = [text EXCEPT ![p] = v]
    /\ repair' = Disturbed
    /\ UNCHANGED <<storeVars, build, call, decoded, gens>>

didSave(p) ==
    /\ text[p] \notin {NotOpen, disk[Live][p].ver} /\ (TornReads \/ ~Reading(Live, p))
    /\ disk[Live][p].stat[2] < MaxWrites
    /\ disk' = [disk EXCEPT ![Live][p] = [ver |-> text[p], stat |-> <<Live, @.stat[2] + 1>>]]
    /\ repair' = Disturbed
    /\ UNCHANGED <<blobs, units, file, holder, stamp, gc, text, build, call, decoded, gens, budget>>

-----------------------------------------------------------------------------
Init ==
    /\ \E l \in Loads :
         /\ disk = l.disk /\ blobs = l.blobs /\ units = l.units /\ file = l.file
         /\ holder = l.holder /\ stamp = l.stamp /\ budget = l.budget
    /\ gc = GCIdle
    /\ text = [p \in Pkgs |-> NotOpen]
    /\ build = [r \in Roots |-> BuildIdle]
    /\ call = [c \in Calls |-> CallIdle]
    /\ decoded = NoDecodes
    /\ gens = [next |-> 0, done |-> [p \in Pkgs |-> 0], wrote |-> [p \in Pkgs |-> 0]]
    /\ repair = [pc |-> "idle", todo |-> {}, clean |-> FALSE]

CallStep(c) == reindexOne(c) \/ reindexCheck(c) \/ tryCommit(c) \/ PutUnit(c) \/ reindex(c)

Next ==
    \/ GCStep /\ UNCHANGED idxVars
    \/ \E r \in Roots : Build(r) \/ BuildStep(r) \/ cancelBuild(r) \/ killIndexer(r)
    \/ openSession \/ closeSession \/ runStartupCASGC
    \/ \E c \in Calls : CallStep(c)
    \/ \E p \in Pkgs : IdleCalls # {} /\ Reindex(CHOOSE c \in IdleCalls : TRUE, p)
    \/ \E p \in Pkgs : decode(p)
    \/ RevalidateStale \/ repairDone \/ \E p \in Pkgs : repairNext(p)
    \/ \E r \in Roots, p \in Pkgs, v \in Versions : editDisk(r, p, v)
    \/ \E p \in Pkgs, v \in Versions : didChange(p, v)
    \/ \E p \in Pkgs : didSave(p)

\* Goroutines of a running process are scheduled: the jobs of a Build, and a
\* collection, which the indexer waits for before it exits.
Fairness == /\ \A r \in Roots : WF_vars(BuildStep(r))
            /\ WF_vars(GCStep /\ UNCHANGED idxVars)

Spec == Init /\ [][Next]_vars /\ Fairness

-----------------------------------------------------------------------------
CallType == [pc : {"idle", "resolve", "check", "gate", "put", "end"}, gen : Nat, first : Pkgs, todo : Seq(Pkgs),
             keys : [Pkgs -> Apis \cup {Unset, Failed}], key : Keys \cup {NoKey}, own : Versions,
             unit : UnitPointer \cup {NoUnit}, err : BOOLEAN, changed : SUBSET Pkgs]

TypeOK ==
    /\ StoreTypeOK
    /\ text \in [Pkgs -> Versions \cup {NotOpen}]
    /\ \A c \in Calls : call[c] \in CallType
    /\ \A r \in Roots : /\ build[r].pc \in {"idle", "run", "gc", "close"}
                        /\ build[r].pend \in [Pkgs -> Nat]
                        /\ build[r].st \in [Pkgs -> {"wait", "ready", "check", "done"}]
    /\ decoded.api \in [Pkgs -> Apis \cup {Unset}] /\ decoded.skipped \subseteq Pkgs
    /\ gens.next \in Nat /\ gens.done \in [Pkgs -> Nat]
    /\ repair.pc \in {"idle", "run", "done"} /\ repair.todo \subseteq Pkgs

\* The stat fast path is sound: whenever a package's recorded stat is the
\* one its files have now, the recorded content is what the files hold.
\* Build and Revalidate skip reading a file on the strength of this, although
\* Reindex may have read an editor's text and a CAS hit takes its stat from
\* whoever wrote the blob.
StatFastPathIsSound ==
    \A r \in Roots, p \in Pkgs :
        LET u == units[r][p]
        IN  (IsPointer(u) /\ u.files # NoStat /\ u.files = disk[r][p].stat) => u.own = disk[r][p].ver

\* A unit key is never computed from a dependency that the same run failed
\* to resolve, nor from another API than the one the run found for it
\* (keyTable: "a persisted unit key never mixes current and stale dependency
\* state").
Coherent(keys, k) == \A d \in DOMAIN k.deps : keys[d] \in {Unset, k.deps[d]}
KeysAreCoherent ==
    /\ \A c \in InFlight : /\ call[c].key # NoKey => Coherent(call[c].keys, call[c].key)
                           /\ call[c].unit # NoUnit => Coherent(call[c].keys, call[c].unit.key)
    /\ \A r \in Roots : \A p \in DOMAIN build[r].batch : Coherent(build[r].keys, build[r].batch[p].key)

\* A revalidation pass that nothing disturbed, in a database the CAS lists,
\* leaves every buildable package with a pointer to a blob that exists and
\* was made from what is on disk now, whatever crashes, lost batches, swept
\* blobs, recreated databases and racing reindexes went before.
Buildable(p) == \A q \in Pkgs : p \in ClosureUnits(q) => disk[Live][q].ver \notin Broken
FreshKey(p) == UnitKey(p, disk[Live][p].ver, [d \in directDepImports(p) |-> Api[disk[Live][d].ver]])
RepairHeals ==
    (repair.pc = "done" /\ repair.clean) =>
        \A p \in Pkgs : Buildable(p) =>
            /\ IsPointer(units[Live][p]) /\ units[Live][p].key = FreshKey(p)
            /\ Has(FreshKey(p)) /\ blobs[FreshKey(p)].facts = disk[Live][p].ver

\* A Build that was started ends: its scheduler hands out every package, a
\* cancelled run drains, and the collector it runs at the end terminates.
BuildEnds == \A r \in Roots : (build[r].pc # "idle") ~> (build[r].pc = "idle")

\* When no call is in flight, the decode caches of the session hold for every
\* package the API its index entry records, except for packages changed by a
\* call that reported an error, or by a refresh that put an older entry back:
\* a save, a repair and a query may interleave in any way.
StaleDecodes == {p \in Pkgs : /\ holder[Live] = "session" /\ InFlight = {}
                              /\ decoded.api[p] # Unset /\ IsPointer(units[Live][p])
                              /\ decoded.api[p] # units[Live][p].api}
DecodedIsCurrent == StaleDecodes \subseteq decoded.skipped

\* "re-decodes freshly written export data instead of reusing a
\* *types.Package decoded from what was on disk before this save"
\* (documentsync.go, reindex): no exception for a call that failed at some
\* dependent.
ReindexedIsRedecoded == StaleDecodes = {}

\* "a write here never replaces a newer one" (generation.go): the generation
\* of the last write of a package never goes down.
NewerWriteIsKept ==
    [][\A p \in Pkgs : gens'.next # 0 => gens'.wrote[p] >= gens.wrote[p]]_gens
=============================================================================
