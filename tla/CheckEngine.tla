---------------------------- MODULE CheckEngine ----------------------------
(***************************************************************************)
(* internal/check.Engine: the on-demand type checker behind every language *)
(* request.  It caches one checked package per unit (a directory plus a    *)
(* variant), runs two kinds of recheck against the same unit without       *)
(* letting either cancel the other (request-driven flights and debounced   *)
(* background jobs), and orders what they cache and publish by generation. *)
(*                                                                         *)
(* The data is abstracted to versions.  content[k] is the version of unit  *)
(* k's own files, dep[d] the version of everything a package in directory  *)
(* d imports; a checked package remembers the version it hashed, the       *)
(* version it parsed and the version it type-checked against.              *)
(***************************************************************************)
EXTENDS Integers, FiniteSets

CONSTANTS
    Dir,            \* package directories
    ExtDir,         \* the directories that also hold an external _test package
    Slot,           \* goroutines that can run a recheck at the same time
    Getter,         \* request handlers that can be inside Get at the same time
    None,           \* the nil of focus, cache, cancel, flights and results
    MaxLRU,         \* Options.MaxLRU
    Undo,           \* whether an edit may bring earlier text back
    Shutdown,       \* which of "Retire" and "Stop" the owner may call
    MaxEdits,       \* bound: edits of open files
    MaxDepChanges,  \* bound: dependency changes
    MaxGets,        \* bound: calls of Get
    MaxFaults,      \* bound: file or directory reads that fail
    MaxEvents       \* bound: all of these, Retire and Stop together

ASSUME EngineAssumption ==
    /\ IsFiniteSet(Dir)
    /\ ExtDir \subseteq Dir
    /\ None \notin Dir \cup Slot
    /\ MaxLRU \in Nat \ {0}
    /\ Undo \in BOOLEAN
    /\ Shutdown \subseteq {"Retire", "Stop"}
    /\ {MaxEdits, MaxDepChanges, MaxGets, MaxFaults, MaxEvents} \subseteq Nat

VARIABLES
    \* The world outside the engine: the overlay, the index, the handlers.
    content,    \* content[k]: version of unit k's own files
    dep,        \* dep[d]: version of what directory d's packages import
    owed,       \* directories edited whose handler has yet to call Invalidate
    owedDep,    \* directories whose reindex has yet to call InvalidateDependency
    spent,      \* how much of each bound has been used
    \* Engine fields, guarded by e.mu unless said otherwise.
    known,      \* the domain of e.dirs
    focus,      \* e.focus
    cache,      \* e.cache: unit -> checked package, or None
    older,      \* lastUsed as an order: <<j, k>> says j was used before k
    timer,      \* dirState.timer: "nil", "armed", or "fired" (non-nil, expired)
    cancelOf,   \* dirState.cancel: the slot whose context it cancels, or None
    epoch,      \* dirState.epoch
    gen,        \* dirState.gen
    doneGen,    \* dirState.doneGen
    pubGen,     \* dirState.pubGen (guarded by pubMu)
    flight,     \* e.flights: the slot running the unit's current flight, or None
    retired,    \* e.retired (atomic)
    stopped,    \* e.ctx is canceled
    pending,    \* the counter of e.pendingWG
    \* Goroutines and the client.
    work,       \* work[r]: the recheck running in slot r
    getter,     \* getter[g]: the Get call of handler g
    published,  \* what the client last received through OnResult, per unit
    \* History.
    changedAt,  \* gen[k] when unit k's inputs last changed
    gaveUp      \* units whose latest job failed twice

world == <<content, dep, owed, owedDep, spent>>
jobs == <<timer, cancelOf, epoch>>
gens == <<gen, doneGen, pubGen>>
store == <<cache, older>>
life == <<retired, stopped>>
client == <<getter, published>>
history == <<changedAt, gaveUp>>
vars == <<content, dep, owed, owedDep, spent, known, focus, cache, older,
          timer, cancelOf, epoch, gen, doneGen, pubGen, flight, retired,
          stopped, pending, work, getter, published, changedAt, gaveUp>>

Unit == [dir : Dir, variant : {"base"}] \cup [dir : ExtDir, variant : {"ext"}]
UnitsOf(d) == {k \in Unit : k.dir = d}

(***************************************************************************)
(* What one reading of a unit's files returned: which version of them, and *)
(* whether it is short of some file that could not be read.  The readers   *)
(* skip such a file and go on.                                             *)
(***************************************************************************)
Reading == [version : Nat, short : BOOLEAN]
NoReading == [version |-> 0, short |-> FALSE]

Pkg == [hash : Reading, text : Reading, dep : Nat]
Result == [text : Reading, dep : Nat]

\* A published result is told from the absence of one.
ASSUME NoneAssumption == None \notin Result

WorkPc == {"idle", "fired", "begin", "hash", "parse", "check", "cache",
           "retired", "publish", "finish", "closed"}

WorkState ==
    [kind : {"idle", "job", "flight"}, key : Unit \cup {None}, pc : WorkPc,
     want : Reading, gen : Nat, hash : Reading, text : Reading, dep : Nat,
     canceled : BOOLEAN, epoch : Nat, retried : BOOLEAN, ok : BOOLEAN]

IdleWork ==
    [kind |-> "idle", key |-> None, pc |-> "idle", want |-> NoReading,
     gen |-> 0, hash |-> NoReading, text |-> NoReading, dep |-> 0,
     canceled |-> FALSE, epoch |-> 0, retried |-> FALSE, ok |-> FALSE]

GetterPc == {"idle", "hash", "lookup", "flight", "wait", "done"}

GetterState ==
    [pc : GetterPc, key : Unit \cup {None}, since : Nat, hash : Reading,
     on : Slot \cup {None}, pkg : Pkg \cup {None}]

IdleGetter ==
    [pc |-> "idle", key |-> None, since |-> 0, hash |-> NoReading,
     on |-> None, pkg |-> None]

WorldTypeOK ==
    /\ content \in [Unit -> Nat]
    /\ dep \in [Dir -> Nat]
    /\ owed \subseteq Dir
    /\ owedDep \subseteq Dir
    /\ spent \in [edits : Nat, deps : Nat, gets : Nat, faults : Nat, stops : Nat]
    /\ changedAt \in [Unit -> Nat]
    /\ gaveUp \subseteq Unit

CacheTypeOK ==
    /\ known \subseteq Unit
    /\ focus \in Dir \cup {None}
    /\ cache \in [Unit -> Pkg \cup {None}]
    /\ older \subseteq Unit \X Unit
    /\ published \in [Unit -> Result \cup {None}]

ScheduleTypeOK ==
    /\ timer \in [Unit -> {"nil", "armed", "fired"}]
    /\ cancelOf \in [Unit -> Slot \cup {None}]
    /\ flight \in [Unit -> Slot \cup {None}]
    /\ {epoch, gen, doneGen, pubGen} \subseteq [Unit -> Nat]
    /\ pending \in Int

LifeTypeOK == retired \in BOOLEAN /\ stopped \in BOOLEAN

TypeOK ==
    /\ WorldTypeOK
    /\ CacheTypeOK
    /\ ScheduleTypeOK
    /\ LifeTypeOK
    /\ work \in [Slot -> WorkState]
    /\ getter \in [Getter -> GetterState]

\* New: an engine that has resolved, cached and scheduled nothing.
Init ==
    /\ content = [k \in Unit |-> 0]
    /\ dep = [d \in Dir |-> 0]
    /\ owed = {}
    /\ owedDep = {}
    /\ spent = [edits |-> 0, deps |-> 0, gets |-> 0, faults |-> 0, stops |-> 0]
    /\ known = {}
    /\ focus = None
    /\ cache = [k \in Unit |-> None]
    /\ older = {}
    /\ timer = [k \in Unit |-> "nil"]
    /\ cancelOf = [k \in Unit |-> None]
    /\ epoch = [k \in Unit |-> 0]
    /\ gen = [k \in Unit |-> 0]
    /\ doneGen = [k \in Unit |-> 0]
    /\ pubGen = [k \in Unit |-> 0]
    /\ flight = [k \in Unit |-> None]
    /\ retired = FALSE
    /\ stopped = FALSE
    /\ pending = 0
    /\ work = [r \in Slot |-> IdleWork]
    /\ getter = [g \in Getter |-> IdleGetter]
    /\ published = [k \in Unit |-> None]
    /\ changedAt = [k \in Unit |-> 0]
    /\ gaveUp = {}

----------------------------------------------------------------------------
\* Whether the bound on all outside events together leaves room for one more.
Room ==
    spent.edits + spent.deps + spent.gets + spent.faults + spent.stops < MaxEvents

(* The world.  A handler first changes what the engine will read and then  *)
(* tells it so; the two are separate steps, and anything may run between.  *)

\* handleDidChange: the overlay takes the edit; Invalidate is now owed.
Edit(k) ==
    /\ Room /\ spent.edits < MaxEdits
    /\ \E t \in 0 .. MaxEdits :
          /\ IF Undo THEN t # content[k] ELSE t = content[k] + 1
          /\ content' = [content EXCEPT ![k] = t]
    /\ owed' = owed \cup {k.dir}
    /\ changedAt' = [changedAt EXCEPT ![k] = gen[k]]
    /\ spent' = [spent EXCEPT !.edits = @ + 1]
    /\ UNCHANGED <<dep, owedDep, known, focus, store, jobs, gens, flight, life,
                   pending, work, client, gaveUp>>

\* Server.reindex: index.Reindex and depCache.invalidate have changed what d's
\* packages import; InvalidateDependency is now owed.
DependencyChange(d) ==
    /\ Room /\ spent.deps < MaxDepChanges
    /\ dep' = [dep EXCEPT ![d] = @ + 1]
    /\ owedDep' = owedDep \cup {d}
    /\ changedAt' = [k \in Unit |-> IF k.dir = d THEN gen[k] ELSE changedAt[k]]
    /\ spent' = [spent EXCEPT !.deps = @ + 1]
    /\ UNCHANGED <<content, owed, known, focus, store, jobs, gens, flight, life,
                   pending, work, client, gaveUp>>

----------------------------------------------------------------------------
(* Scheduling: Invalidate, InvalidateDependency, SetFocus.                 *)

\* Mutant: a timer that has already expired is balanced a second time.
StopReturnsTrue_Always(k) == timer[k] # "nil"

\* time.Timer.Stop reports true only for a timer that has not expired.
StopReturnsTrue(k) == timer[k] = "armed"

\* armDebounceLocked for every unit of K: one Add per timer started, one Done
\* per timer superseded before it fired.
armDebounceLocked(K) ==
    /\ timer' = [k \in Unit |-> IF k \in K THEN "armed" ELSE timer[k]]
    /\ pending' = pending + Cardinality(K)
                          - Cardinality({k \in K : StopReturnsTrue(k)})

unitKnownLocked(k) == k \in known \/ cache[k] # None

\* The base unit always, the external test unit only once it is known.
InvalidateKeys(d) ==
    {k \in UnitsOf(d) : k.variant = "base" \/ unitKnownLocked(k)}

Invalidate(d) ==
    /\ d \in owed
    /\ owed' = owed \ {d}
    /\ armDebounceLocked(InvalidateKeys(d))
    /\ UNCHANGED <<content, dep, owedDep, spent, known, focus, store, cancelOf,
                   epoch, gens, flight, life, work, client, history>>

InvalidateDependencyKeys(d) == {k \in UnitsOf(d) : unitKnownLocked(k)}

InvalidateDependency(d) ==
    /\ d \in owedDep
    /\ owedDep' = owedDep \ {d}
    /\ cache' = [k \in Unit |->
                   IF k \in InvalidateDependencyKeys(d) THEN None ELSE cache[k]]
    /\ armDebounceLocked(InvalidateDependencyKeys(d))
    /\ UNCHANGED <<content, dep, owed, spent, known, focus, older, cancelOf,
                   epoch, gens, flight, life, work, client, history>>

\* Mutant: the focused unit is recorded instead of its directory.
SetFocus_Unit(k) ==
    /\ focus' = k
    /\ known' = known \cup {k}
    /\ UNCHANGED <<world, store, jobs, gens, flight, life, pending, work,
                   client, history>>

SetFocus(k) ==
    /\ focus' = k.dir
    /\ known' = known \cup {k}
    /\ UNCHANGED <<world, store, jobs, gens, flight, life, pending, work,
                   client, history>>

----------------------------------------------------------------------------
(* The debounced background job: fireRecheck and startJob.                 *)

\* The runtime fires k's timer: its callback is a goroutine that has not yet
\* reached startJob, and st.timer still points at the expired timer.
TimerFires(k, r) ==
    /\ timer[k] = "armed"
    /\ work[r].kind = "idle"
    /\ timer' = [timer EXCEPT ![k] = "fired"]
    /\ work' = [work EXCEPT ![r] =
                  [IdleWork EXCEPT !.kind = "job", !.key = k, !.pc = "fired"]]
    /\ UNCHANGED <<world, known, focus, store, cancelOf, epoch, gens, flight,
                   life, pending, client, history>>

\* startJob on a stopped engine: a context that is already canceled, nothing
\* registered, and a finish that does nothing.
startJobStopped(r) ==
    /\ work[r].pc = "fired"
    /\ stopped
    /\ work' = [work EXCEPT ![r].pc = "begin", ![r].canceled = TRUE]
    /\ UNCHANGED <<world, known, focus, store, jobs, gens, flight, life,
                   pending, client, history>>

\* The job startJob cancels: the one registered for the same unit.
Superseded(r) == {cancelOf[work[r].key]} \ {None}

\* startJob: drop the pending timer, cancel the job running for this unit and
\* register this one under a new epoch.
startJob(r) ==
    LET k == work[r].key IN
    /\ work[r].pc = "fired"
    /\ ~stopped
    /\ timer' = [timer EXCEPT ![k] = "nil"]
    /\ epoch' = [epoch EXCEPT ![k] = @ + 1]
    /\ cancelOf' = [cancelOf EXCEPT ![k] = r]
    /\ work' = [s \in Slot |->
                  IF s = r
                  THEN [work[r] EXCEPT !.pc = "begin", !.epoch = epoch[k] + 1]
                  ELSE [work[s] EXCEPT !.canceled =
                          @ \/ s \in Superseded(r)]]
    /\ gaveUp' = gaveUp \ {k}
    /\ UNCHANGED <<world, known, focus, store, gens, flight, life, pending,
                   client, changedAt>>

Failed(r) == ~work[r].ok /\ ~work[r].canceled

\* Mutant: a failed attempt is never retried.
MayRetry_Never(r) == FALSE

\* One more attempt, after a failure that is not a cancellation.
MayRetry(r) == Failed(r) /\ ~work[r].retried

\* fireRecheck's second and last call of runRecheck.
fireRecheckRetry(r) ==
    /\ work[r].kind = "job"
    /\ work[r].pc = "finish"
    /\ MayRetry(r)
    /\ work' = [work EXCEPT ![r].pc = "begin", ![r].retried = TRUE]
    /\ UNCHANGED <<world, known, focus, store, jobs, gens, flight, life,
                   pending, client, history>>

\* Mutant: finish clears whatever cancel is registered.
finishClears_Always(r) == TRUE

\* finish clears the registered cancel only if it is still this job's.
finishClears(r) == epoch[work[r].key] = work[r].epoch

\* The deferred finish and pendingWG.Done of fireRecheck.
fireRecheckReturns(r) ==
    LET k == work[r].key IN
    /\ work[r].kind = "job"
    /\ work[r].pc = "finish"
    /\ ~MayRetry(r)
    /\ cancelOf' = [cancelOf EXCEPT ![k] = IF finishClears(r) THEN None ELSE @]
    /\ pending' = pending - 1
    /\ work' = [work EXCEPT ![r] = IdleWork]
    /\ gaveUp' = IF Failed(r) /\ work[r].retried THEN gaveUp \cup {k}
                                                 ELSE gaveUp
    /\ UNCHANGED <<world, known, focus, store, timer, epoch, gens, flight, life,
                   client, changedAt>>

----------------------------------------------------------------------------
(* runRecheck, the body both kinds of recheck share.  The context is       *)
(* checked right after each of the long steps, so a step ends in "finish"  *)
(* when the recheck was canceled before or while it ran.                   *)

\* A flight runs on e.ctx, a job on the context startJob registered.
Canceled(r) == IF work[r].kind = "flight" THEN stopped ELSE work[r].canceled

NextPc(r, pc) == IF Canceled(r) THEN "finish" ELSE pc

\* Look the unit up in e.dirs, or resolve and record it; then take a
\* generation, before any content is read.
nextGen(r) ==
    LET k == work[r].key IN
    /\ work[r].pc = "begin"
    /\ known' = known \cup {k}
    /\ IF Canceled(r)
       THEN /\ work' = [work EXCEPT ![r].pc = "finish"]
            /\ UNCHANGED gen
       ELSE /\ gen' = [gen EXCEPT ![k] = @ + 1]
            /\ work' = [work EXCEPT ![r].pc = "hash", ![r].gen = gen[k] + 1]
    /\ UNCHANGED <<world, focus, store, jobs, doneGen, pubGen, flight, life,
                   pending, client, history>>

MayFail == Room /\ spent.faults < MaxFaults

\* The reads that end the recheck with an error: the directory listing of
\* resolvePackage or resolveFiles, no package clause to go by, contentHash.
ReadFails(r) ==
    /\ \/ work[r].pc = "begin" /\ work[r].key \notin known
       \/ work[r].pc = "hash"
    /\ MayFail
    /\ spent' = [spent EXCEPT !.faults = @ + 1]
    /\ work' = [work EXCEPT ![r].pc = "finish"]
    /\ UNCHANGED <<content, dep, owed, owedDep, known, focus, store, jobs, gens,
                   flight, life, pending, client, history>>

\* The reads that go on without a file they cannot read; skipping is a fault.
Skips(short) ==
    /\ short => MayFail
    /\ spent' = IF short THEN [spent EXCEPT !.faults = @ + 1] ELSE spent

\* resolveFiles, whose packageClauseName silently drops a file it cannot read,
\* and contentHash of the files that are left.
contentHash(r) ==
    /\ work[r].pc = "hash"
    /\ \E short \in BOOLEAN :
          /\ Skips(short)
          /\ work' = [work EXCEPT
                        ![r].pc = NextPc(r, "parse"),
                        ![r].hash = [version |-> content[work[r].key],
                                     short |-> short]]
    /\ UNCHANGED <<content, dep, owed, owedDep, known, focus, store, jobs, gens,
                   flight, life, pending, client, history>>

\* parseFiles reads the listed files again, through the overlay.  One it cannot
\* read becomes a parse error, and the recheck goes on without it.
parseFiles(r) ==
    /\ work[r].pc = "parse"
    /\ \E short \in BOOLEAN :
          /\ Skips(short)
          /\ work' = [work EXCEPT
                        ![r].pc = NextPc(r, "check"),
                        ![r].text = [version |-> content[work[r].key],
                                     short |-> short \/ work[r].hash.short]]
    /\ UNCHANGED <<content, dep, owed, owedDep, known, focus, store, jobs, gens,
                   flight, life, pending, client, history>>

\* newImporter and CheckPackage: the imports are whatever they are now.
CheckPackage(r) ==
    /\ work[r].pc = "check"
    /\ work' = [work EXCEPT ![r].pc = NextPc(r, "cache"),
                            ![r].dep = dep[work[r].key.dir]]
    /\ UNCHANGED <<world, known, focus, store, jobs, gens, flight, life,
                   pending, client, history>>

PkgOf(r) == [hash |-> work[r].hash, text |-> work[r].text, dep |-> work[r].dep]

----------------------------------------------------------------------------
(* commit: the cache write, the retirement check, the publish.             *)

Cached == {k \in Unit : cache[k] # None}

\* lastUsed = time.Now(): k becomes the most recently used unit.
Touch(k) == {p \in older : p[1] # k} \cup {<<j, k>> : j \in Unit \ {k}}

Evictable == {k \in Cached : k.dir # focus}

\* evictLocked: the least recently used unit outside the focused directory.
Victims == {k \in Evictable : \A j \in Evictable \ {k} : <<j, k>> \notin older}

MustEvict(k) == cache[k] = None /\ Cardinality(Cached) >= MaxLRU

\* What commitCache for unit k may evict: nothing, or one victim if any.
Evictions(k) == IF MustEvict(k) /\ Victims # {} THEN {{v} : v \in Victims}
                                                ELSE {{}}

\* Mutant: a result is cached in the order rechecks complete.
CacheIsNewer_Off(r) == FALSE

\* A recheck that started later has already committed.
CacheIsNewer(r) == work[r].gen < doneGen[work[r].key]

commitCacheDropped(r) ==
    /\ work[r].pc = "cache"
    /\ CacheIsNewer(r)
    /\ work' = [work EXCEPT ![r].pc = "finish", ![r].ok = TRUE]
    /\ UNCHANGED <<world, known, focus, store, jobs, gens, flight, life,
                   pending, client, history>>

commitCache(r) ==
    LET k == work[r].key IN
    /\ work[r].pc = "cache"
    /\ ~CacheIsNewer(r)
    /\ doneGen' = [doneGen EXCEPT ![k] = work[r].gen]
    /\ \E evicted \in Evictions(k) :
          cache' = [j \in Unit |-> IF j = k THEN PkgOf(r)
                                   ELSE IF j \in evicted THEN None
                                   ELSE cache[j]]
    /\ older' = Touch(k)
    /\ work' = [work EXCEPT ![r].pc = "retired"]
    /\ UNCHANGED <<world, known, focus, jobs, gen, pubGen, flight, life,
                   pending, client, history>>

\* commit loads e.retired after the cache write and before the publish.
commitRetired(r) ==
    /\ work[r].pc = "retired"
    /\ work' = [work EXCEPT ![r].pc = IF retired THEN "finish" ELSE "publish",
                            ![r].ok = TRUE]
    /\ UNCHANGED <<world, known, focus, store, jobs, gens, flight, life,
                   pending, client, history>>

\* Mutant: results reach the client in the order they are computed.
PublishIsNewer_Off(r) == FALSE

PublishIsNewer(r) == work[r].gen < pubGen[work[r].key]

\* commitPublish under pubMu: drop an overtaken result or call OnResult.
commitPublish(r) ==
    LET k == work[r].key IN
    /\ work[r].pc = "publish"
    /\ IF PublishIsNewer(r)
       THEN UNCHANGED <<pubGen, published>>
       ELSE /\ pubGen' = [pubGen EXCEPT ![k] = work[r].gen]
            /\ published' = [published EXCEPT ![k] =
                               [text |-> work[r].text, dep |-> work[r].dep]]
    /\ work' = [work EXCEPT ![r].pc = "finish"]
    /\ UNCHANGED <<world, known, focus, store, jobs, gen, doneGen, flight, life,
                   pending, getter, history>>

----------------------------------------------------------------------------
(* Get and GetPackage: getUnit, getOrStartFlight, runFlight.               *)

GetStarts(g, k) ==
    /\ getter[g].pc = "idle"
    /\ Room /\ spent.gets < MaxGets
    /\ spent' = [spent EXCEPT !.gets = @ + 1]
    /\ known' = known \cup {k}
    /\ getter' = [getter EXCEPT ![g] =
                    [IdleGetter EXCEPT !.pc = "hash", !.key = k,
                                       !.since = content[k]]]
    /\ UNCHANGED <<content, dep, owed, owedDep, focus, store, jobs, gens, flight,
                   life, pending, work, published, history>>

\* resolveFiles and contentHash, outside e.mu.
GetHashes(g) ==
    /\ getter[g].pc = "hash"
    /\ \E short \in BOOLEAN :
          /\ Skips(short)
          /\ getter' = [getter EXCEPT
                          ![g].pc = "lookup",
                          ![g].hash = [version |-> content[getter[g].key],
                                       short |-> short]]
    /\ UNCHANGED <<content, dep, owed, owedDep, known, focus, store, jobs, gens,
                   flight, life, pending, work, published, history>>

GetFails(g) ==
    /\ getter[g].pc = "hash"
    /\ MayFail
    /\ spent' = [spent EXCEPT !.faults = @ + 1]
    /\ getter' = [getter EXCEPT ![g].pc = "done"]
    /\ UNCHANGED <<content, dep, owed, owedDep, known, focus, store, jobs, gens,
                   flight, life, pending, work, published, history>>

CacheHit(g) ==
    LET k == getter[g].key IN
    cache[k] # None /\ cache[k].hash = getter[g].hash

\* The cache probe under e.mu.
GetLooksUp(g) ==
    LET k == getter[g].key IN
    /\ getter[g].pc = "lookup"
    /\ IF CacheHit(g)
       THEN /\ older' = Touch(k)
            /\ getter' = [getter EXCEPT ![g].pc = "done", ![g].pkg = cache[k]]
       ELSE /\ getter' = [getter EXCEPT ![g].pc = "flight"]
            /\ UNCHANGED older
    /\ UNCHANGED <<world, known, focus, cache, jobs, gens, flight, life,
                   pending, work, published, history>>

\* Mutant: any flight of the unit is joined, whatever it was started for.
Joinable_AnyHash(g) == {flight[getter[g].key]} \ {None}

\* The flight getOrStartFlight joins, if there is one.
Joinable(g) ==
    {r \in {flight[getter[g].key]} \ {None} : work[r].want = getter[g].hash}

ResultOf(r) == IF work[r].ok THEN PkgOf(r) ELSE None

\* Join: a flight whose done channel is already closed answers at once.
getOrStartFlightJoin(g) ==
    /\ getter[g].pc = "flight"
    /\ \E r \in Joinable(g) :
          getter' = [getter EXCEPT
                       ![g] = IF work[r].pc = "closed"
                              THEN [@ EXCEPT !.pc = "done", !.pkg = ResultOf(r)]
                              ELSE [@ EXCEPT !.pc = "wait", !.on = r]]
    /\ UNCHANGED <<world, known, focus, store, jobs, gens, flight, life,
                   pending, work, published, history>>

\* Start: replace the unit's entry in e.flights, count it, spawn runFlight.
getOrStartFlightStart(g, r) ==
    LET k == getter[g].key IN
    /\ getter[g].pc = "flight"
    /\ Joinable(g) = {}
    /\ work[r].kind = "idle"
    /\ flight' = [flight EXCEPT ![k] = r]
    /\ pending' = pending + 1
    /\ work' = [work EXCEPT ![r] =
                  [IdleWork EXCEPT !.kind = "flight", !.key = k,
                                   !.pc = "begin", !.want = getter[g].hash]]
    /\ getter' = [getter EXCEPT ![g].pc = "wait", ![g].on = r]
    /\ UNCHANGED <<world, known, focus, store, jobs, gens, life, published,
                   history>>

\* The request's own context is canceled: stop waiting, leave the flight be.
GetCanceled(g) ==
    /\ getter[g].pc = "wait"
    /\ getter' = [getter EXCEPT ![g] = IdleGetter]
    /\ UNCHANGED <<world, known, focus, store, jobs, gens, flight, life,
                   pending, work, published, history>>

GetReturns(g) ==
    /\ getter[g].pc = "done"
    /\ getter' = [getter EXCEPT ![g] = IdleGetter]
    /\ UNCHANGED <<world, known, focus, store, jobs, gens, flight, life,
                   pending, work, published, history>>

\* Mutant: done is closed only after a recheck that succeeded.
Waiters_OkOnly(r) ==
    {g \in Getter : work[r].ok /\ getter[g].pc = "wait" /\ getter[g].on = r}

\* The Get calls blocked on flight r's done channel.
Waiters(r) == {g \in Getter : getter[g].pc = "wait" /\ getter[g].on = r}

\* runFlight closes done: every waiter has its answer.
runFlightCloses(r) ==
    /\ work[r].kind = "flight"
    /\ work[r].pc = "finish"
    /\ work' = [work EXCEPT ![r].pc = "closed"]
    /\ getter' = [g \in Getter |->
                    IF g \in Waiters(r)
                    THEN [getter[g] EXCEPT !.pc = "done", !.on = None,
                                           !.pkg = ResultOf(r)]
                    ELSE getter[g]]
    /\ UNCHANGED <<world, known, focus, store, jobs, gens, flight, life,
                   pending, published, history>>

RemovesEntry(r) == flight[work[r].key] = r

\* runFlight's second deferred half: leave e.flights, then pendingWG.Done.
runFlightReturns(r) ==
    LET k == work[r].key IN
    /\ work[r].kind = "flight"
    /\ work[r].pc = "closed"
    /\ flight' = [flight EXCEPT ![k] = IF RemovesEntry(r) THEN None ELSE @]
    /\ pending' = pending - 1
    /\ work' = [work EXCEPT ![r] = IdleWork]
    /\ UNCHANGED <<world, known, focus, store, jobs, gens, life, client,
                   history>>

----------------------------------------------------------------------------
(* Retire and Stop.                                                        *)

CancelJobs ==
    work' = [r \in Slot |->
               [work[r] EXCEPT !.canceled =
                  @ \/ \E k \in Unit : cancelOf[k] = r]]

\* Retire: flights keep running, everything else is told to end.
Retire ==
    /\ Room /\ "Retire" \in Shutdown
    /\ ~retired
    /\ retired' = TRUE
    /\ timer' = [k \in Unit |-> "nil"]
    /\ CancelJobs
    /\ spent' = [spent EXCEPT !.stops = @ + 1]
    /\ UNCHANGED <<content, dep, owed, owedDep, known, focus, store, cancelOf, epoch, gens, flight,
                   stopped, pending, client, history>>

\* Stop: e.ctx is canceled too, and the timers it stops are balanced.
Stop ==
    /\ Room /\ "Stop" \in Shutdown
    /\ ~stopped
    /\ retired' = TRUE
    /\ stopped' = TRUE
    /\ pending' = pending - Cardinality({k \in Unit : StopReturnsTrue(k)})
    /\ timer' = [k \in Unit |-> "nil"]
    /\ CancelJobs
    /\ spent' = [spent EXCEPT !.stops = @ + 1]
    /\ UNCHANGED <<content, dep, owed, owedDep, known, focus, store, cancelOf, epoch, gens, flight,
                   client, history>>

----------------------------------------------------------------------------
Recheck(r) ==
    \/ nextGen(r) \/ ReadFails(r) \/ contentHash(r) \/ parseFiles(r)
    \/ CheckPackage(r) \/ commitCacheDropped(r) \/ commitCache(r)
    \/ commitRetired(r) \/ commitPublish(r)

Job(r) ==
    \/ startJobStopped(r) \/ startJob(r)
    \/ fireRecheckRetry(r) \/ fireRecheckReturns(r)

Flight(r) == runFlightCloses(r) \/ runFlightReturns(r)

Get(g) ==
    \/ GetHashes(g) \/ GetFails(g) \/ GetLooksUp(g)
    \/ getOrStartFlightJoin(g)
    \/ \E r \in Slot : getOrStartFlightStart(g, r)
    \/ GetReturns(g)

Next ==
    \/ \E k \in Unit : Edit(k) \/ SetFocus(k) \/ \E r \in Slot : TimerFires(k, r)
    \/ \E d \in Dir : DependencyChange(d) \/ Invalidate(d)
                                          \/ InvalidateDependency(d)
    \/ \E r \in Slot : Job(r) \/ Recheck(r) \/ Flight(r)
    \/ \E g \in Getter : Get(g) \/ GetCanceled(g)
                                \/ \E k \in Unit : GetStarts(g, k)
    \/ Retire
    \/ Stop

Spec == Init /\ [][Next]_vars

(***************************************************************************)
(* Timers fire, goroutines run, and a handler that has changed the overlay *)
(* or the index reaches its call into the engine.  Nobody has to edit,     *)
(* ask, cancel, fail or shut down.                                         *)
(***************************************************************************)
Fairness ==
    /\ \A k \in Unit : WF_vars(\E r \in Slot : TimerFires(k, r))
    /\ \A d \in Dir : WF_vars(Invalidate(d)) /\ WF_vars(InvalidateDependency(d))
    /\ \A r \in Slot : WF_vars(Job(r) \/ Recheck(r) \/ Flight(r))
    /\ \A g \in Getter : WF_vars(Get(g))

FairSpec == Spec /\ Fairness

----------------------------------------------------------------------------
(* Properties.                                                             *)

Running(k) == {r \in Slot : work[r].key = k}

\* Nothing is scheduled, running or about to be scheduled for unit k.
Quiet(k) ==
    /\ k.dir \notin owed \cup owedDep
    /\ timer[k] # "armed"
    /\ Running(k) = {}

\* A result that read unit k's current files and checked them against its
\* current imports.  A file that could not be read may be missing from it.
IsCurrent(result, k) ==
    result.text.version = content[k] /\ result.dep = dep[k.dir]

Shown(k) == published[k] # None /\ IsCurrent(published[k], k)

\* The client has been shown unit k, or has edited a file of a base package.
Due(k) == published[k] # None \/ (k.variant = "base" /\ content[k] > 0)

(***************************************************************************)
(* Once a unit is quiet, the diagnostics the client shows for it were made *)
(* from the current version of its files and imports, whatever mix of      *)
(* requests, debounce timers, cancellations and failed reads led there:    *)
(* the last job armed by Invalidate or InvalidateDependency is never lost  *)
(* to the two generation gates, to supersession, or to one read that fails *)
(* the recheck.  A read that only loses a file does not fail it: what is   *)
(* shown is then of the current version, less that file, and nothing reads *)
(* it again before the next change.                                        *)
(***************************************************************************)
FreshWhenQuiet ==
    \A k \in Unit \ gaveUp : Quiet(k) /\ ~retired /\ Due(k) => Shown(k)

(***************************************************************************)
(* The cache entry a quiet unit is left with was parsed from the current   *)
(* version of its files, less any that could not be read, and checked      *)
(* against its current imports.  getUnit compares only a unit's own        *)
(* content hash, so an entry checked against old imports would be served   *)
(* forever.  An entry that lost a file to parseFiles alone carries the     *)
(* hash of all its files, and is served likewise.                          *)
(***************************************************************************)
CacheFreshWhenQuiet ==
    \A k \in Unit \ gaveUp :
        Quiet(k) /\ ~retired /\ cache[k] # None => IsCurrent(cache[k], k)

(***************************************************************************)
(* Get never answers with files older than those that were current when    *)
(* it was called, whether it hit the cache, joined a flight another        *)
(* request had started, or started its own, and although the flight's      *)
(* commit may have lost to a newer one.  Stated for texts that do not      *)
(* repeat.                                                                 *)
(***************************************************************************)
GetNeverStale ==
    \A g \in Getter :
        getter[g].pc = "done" /\ getter[g].pkg # None =>
            getter[g].pkg.text.version >= getter[g].since

(***************************************************************************)
(* At most one background job per unit is past startJob and not canceled:  *)
(* a newer job always finds the older one's cancel function registered,    *)
(* because finish never clears a cancel that is not its own.               *)
(***************************************************************************)
OneLiveJob ==
    \A r, s \in Slot :
        /\ work[r].kind = "job" /\ work[s].kind = "job"
        /\ work[r].key = work[s].key
        /\ "fired" \notin {work[r].pc, work[s].pc}
        /\ ~work[r].canceled /\ ~work[s].canceled
        => r = s

Outstanding ==
    Cardinality({k \in Unit : timer[k] = "armed"})
    + Cardinality({r \in Slot : work[r].kind # "idle"})

(***************************************************************************)
(* pendingWG never counts less than the rechecks that are armed or         *)
(* running, so Wait cannot return while one could still touch a file, and  *)
(* the counter never goes negative (which panics).                         *)
(***************************************************************************)
WaitNeverEarly == pending >= Outstanding

(***************************************************************************)
(* Wait's other half, as pendingWG's comment states it: the counter counts *)
(* nothing but rechecks that are armed or started and not yet resolved, so *)
(* Wait returns once they are.                                             *)
(***************************************************************************)
PendingIsExact == pending = Outstanding

\* Every Get returns, although flights are shared, replaced and detached.
EveryGetReturns ==
    \A g \in Getter : getter[g].pc # "idle" ~> getter[g].pc \in {"idle", "done"}

(***************************************************************************)
(* Edits and dependency changes reach the client: once they stop, what it  *)
(* shows for every unit due becomes current and stays so, less a file that *)
(* the last recheck could not read, unless a job has failed twice or the   *)
(* engine has been retired.                                                *)
(***************************************************************************)
ClientCatchesUp ==
    <>[](retired \/ \A k \in Unit \ gaveUp : Due(k) => Shown(k))
============================================================================
