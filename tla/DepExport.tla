------------------------------ MODULE DepExport ------------------------------
(***************************************************************************)
(* Export data of dependencies (internal/depexport): a machine-wide store  *)
(* of encoded packages in front of a source-checking provider.  A package  *)
(* under GOROOT or the module cache is persisted under its identity alone, *)
(* so what is persisted once is served to every repository afterwards.     *)
(***************************************************************************)
EXTENDS DepCheck

CONSTANT Immutable   \* paths whose directory never changes

VARIABLES
    cas,      \* path -> what is persisted for it, or NoBlob
    memo,     \* path -> the answer this run has settled on, or NoBlob
    eflight,  \* path -> whether a singleflight call is running
    job       \* goroutine -> its ExportData call

exportVars == <<cas, memo, eflight, job>>
vars == <<depVars, exportVars>>

\* A blob encodes one checked package with everything it refers to.
NoBlob == [id |-> None, complete |-> FALSE, whole |-> TRUE]
BadBlob == [id |-> Err, complete |-> FALSE, whole |-> TRUE]
JobIdle == [pc |-> "idle", path |-> Order[1], blob |-> NoBlob]
Answered(j, pc, b) == [j EXCEPT !.pc = pc, !.blob = b]

ExportData(x, p) ==
    /\ job[x].pc = "idle" /\ ~Running(x) /\ load.exports[p] > 0
    /\ load' = [load EXCEPT !.exports[p] = @ - 1]
    /\ job' = [job EXCEPT ![x] = [JobIdle EXCEPT !.pc = "ask", !.path = p]]
    /\ UNCHANGED <<lru, waiters, flight, inst, scope, stack, ret, canceled, birth, slips, cas, memo, eflight>>

\* The run's memo, then the persisted store, then the slow path.
resolve(x) ==
    LET p == job[x].path
    IN  /\ job[x].pc = "ask"
        /\ job' = [job EXCEPT ![x] =
             IF load.memo /\ memo[p] # NoBlob THEN Answered(@, "done", memo[p])
             ELSE IF cas[p] # NoBlob THEN Answered(@, "memo", cas[p])
             ELSE [@ EXCEPT !.pc = "do"]]
        /\ UNCHANGED <<depVars, cas, memo, eflight>>

joinExport(x) ==
    LET p == job[x].path
    IN  /\ job[x].pc = "do"
        /\ eflight' = [eflight EXCEPT ![p] = TRUE]
        /\ job' = [job EXCEPT ![x].pc = IF eflight[p] THEN "wait" ELSE "lead"]
        /\ UNCHANGED <<depVars, cas, memo>>

EndExport(x, b) ==
    /\ eflight' = [eflight EXCEPT ![job[x].path] = FALSE]
    /\ job' = [y \in Procs |-> IF y = x \/ (job[y].pc = "wait" /\ job[y].path = job[x].path)
                               THEN Answered(job[y], "memo", b) ELSE job[y]]

\* Mutant: the store is not asked again.
leadExportBlind(x) ==
    LET p == job[x].path
    IN  /\ job[x].pc = "lead"
        /\ job' = [job EXCEPT ![x].pc = "check"]
        /\ stack' = [stack EXCEPT ![x] = <<Frame(p, "decl", FALSE)>>]
        /\ scope' = [scope EXCEPT ![x] = NoScope]
        /\ ret' = [ret EXCEPT ![x] = None]
        /\ canceled' = canceled \ {x}
        /\ UNCHANGED <<lru, waiters, flight, inst, birth, slips, load, cas, memo, eflight>>

\* checkAndPersist: the store once more, then a check by the provider ...
leadExport(x) ==
    LET p == job[x].path
    IN  /\ job[x].pc = "lead"
        /\ IF cas[p] # NoBlob
           THEN EndExport(x, cas[p]) /\ UNCHANGED <<stack, scope, ret, canceled>>
           ELSE /\ job' = [job EXCEPT ![x].pc = "check"]
                /\ stack' = [stack EXCEPT ![x] = <<Frame(p, "decl", FALSE)>>]
                /\ scope' = [scope EXCEPT ![x] = NoScope]
                /\ ret' = [ret EXCEPT ![x] = None]
                /\ canceled' = canceled \ {x}
                /\ UNCHANGED eflight
        /\ UNCHANGED <<lru, waiters, flight, inst, birth, slips, load, cas, memo>>

BlobOf(i) == [id |-> i, complete |-> ~inst[i].failed, whole |-> OneIdentity(Reach(i))]

\* ... whose result is encoded unless it refers to two packages of one
\* path, and persisted if it is complete and its directory immutable.
persist(x) ==
    LET b == BlobOf(ret[x])
    IN  /\ job[x].pc = "check" /\ ~Running(x)
        /\ IF ret[x] = Err \/ ~b.whole
           THEN EndExport(x, BadBlob) /\ UNCHANGED cas
           ELSE /\ EndExport(x, b)
                /\ cas' = IF b.complete /\ job[x].path \in Immutable
                          THEN [cas EXCEPT ![job[x].path] = b] ELSE cas
        /\ UNCHANGED <<depVars, memo>>

\* Mutant: a late answer replaces the one already given out.
memoizeLast(x) ==
    LET j == job[x]
        keep == load.memo /\ j.blob # BadBlob
    IN  /\ j.pc = "memo"
        /\ memo' = IF keep THEN [memo EXCEPT ![j.path] = j.blob] ELSE memo
        /\ job' = [job EXCEPT ![x].pc = "done"]
        /\ UNCHANGED <<depVars, cas, eflight>>

\* The first answer for a path is the run's answer; a failure is not kept.
memoize(x) ==
    LET j == job[x]
        keep == load.memo /\ j.blob # BadBlob
        b == IF keep /\ memo[j.path] # NoBlob THEN memo[j.path] ELSE j.blob
    IN  /\ j.pc = "memo"
        /\ memo' = IF keep THEN [memo EXCEPT ![j.path] = b] ELSE memo
        /\ job' = [job EXCEPT ![x] = Answered(@, "done", b)]
        /\ UNCHANGED <<depVars, cas, eflight>>

takeAnswer(x) ==
    /\ job[x].pc = "done"
    /\ job' = [job EXCEPT ![x] = JobIdle]
    /\ UNCHANGED <<depVars, cas, memo, eflight>>

-----------------------------------------------------------------------------
Init ==
    /\ DepInit
    /\ cas = [p \in Paths |-> NoBlob]
    /\ memo = [p \in Paths |-> NoBlob]
    /\ eflight = [p \in Paths |-> FALSE]
    /\ job = [x \in Procs |-> JobIdle]

ExportStep(x) ==
    \/ resolve(x) \/ joinExport(x) \/ leadExport(x) \/ persist(x) \/ memoize(x) \/ takeAnswer(x)

Next ==
    \/ \E x \in Procs :
         \/ ExportStep(x)
         \/ CallStep(x) /\ UNCHANGED exportVars
         \/ cancel(x) /\ job[x].pc = "idle" /\ UNCHANGED exportVars
         \/ \E p \in Paths : ExportData(x, p)
         \/ \E p \in Paths, k \in Kinds : job[x].pc = "idle" /\ Package(x, p, k) /\ UNCHANGED exportVars
    \/ \E p \in Paths : (edit(p) \/ Delete(p)) /\ UNCHANGED exportVars

\* A goroutine that is not blocked is scheduled.
Fairness == \A x \in Procs : WF_vars(ExportStep(x) \/ (CallStep(x) /\ UNCHANGED exportVars))

Spec == Init /\ [][Next]_vars /\ Fairness

-----------------------------------------------------------------------------
Quiet == \A x \in Procs : ~Running(x)
Ids == Err..Len(inst)

\* A cache's list has each cached path in one place and nothing else.
ListOK(l) ==
    /\ l.newer \in [Paths -> SUBSET Cached(l)] /\ \A p \in Paths \ Cached(l) : l.newer[p] = {}
    /\ \A p, q \in Cached(l) : /\ p # q => (q \in l.newer[p] <=> p \notin l.newer[q])
                               /\ p \notin l.newer[p] /\ (q \in l.newer[p] => l.newer[q] \subseteq l.newer[p])

TypeOK ==
    /\ \A k \in Kinds : /\ ListOK(lru[k])
                        /\ lru[k].id \in [Paths -> 0..Len(inst)] /\ lru[k].pins \in [Paths -> Nat]
                        /\ lru[k].pending \subseteq {p \in Paths : lru[k].pins[p] > 0}
                        /\ waiters[k] \in [Paths -> 0..Cardinality(Procs)]
    /\ \A x \in Procs : /\ scope[x].got \in [Paths -> Ids] /\ ret[x] \in Ids
                        /\ job[x].pc \in {"idle", "ask", "do", "wait", "lead", "check", "memo", "done"}
    /\ \A i \in DOMAIN inst : inst[i].path \in Paths /\ inst[i].ids \subseteq Ids

\* A package whose every import resolved refers to one package per import
\* path, for every interleaving of closures over caches smaller than any of
\* them, as long as no pin was stolen and no package handed out unpinned: the
\* provider that produces export data never mixes two generations of one.
ClosuresAreWhole ==
    (slips = {} /\ load.plain) => \A i \in DOMAIN inst : inst[i].failed \/ OneIdentity(inst[i].ids)

\* "this call will never itself see two different generations of the same
\* import path as a result, and neither will any OTHER closure reusing what
\* this one cached" (depcheck.go, Package).
NoSplitIdentity == \A i \in DOMAIN inst : OneIdentity(inst[i].ids)

\* What a caller gets is what its own pin keeps alive, "so the entry is never
\* left unpinned between" the leader's put and the caller's pin (depcheck.go,
\* exitWaitAndPin).
ReturnedIsPinned == "lost" \notin slips

\* When no call is running, a cached package is pinned exactly once by each
\* cached package of the same cache that imports it: nothing stays pinned for
\* ever, and nothing a cached package embeds can be evicted.
PinsAreBalanced ==
    (Quiet /\ "stolen" \notin slips /\ load.plain) =>
        \A p \in Paths : lru.decl.pins[p] = Cardinality({q \in Paths : lru.decl.id[q] # None /\ p \in Imports[q]})

\* Once Delete has returned, a cached package was checked from the new source,
\* or waits for its last pin to go, or its check was under way when Delete came
\* by.
DeletedIsRechecked ==
    \A k \in Kinds : \A p \in Paths \ load.deletes :
        (lru[k].id[p] # None /\ inst[lru[k].id[p]].old)
            => p \in lru[k].pending \/ inst[lru[k].id[p]].raced

\* A process never replaces what it has persisted for a path: of two callers
\* that both missed the store, the later one serves the earlier one's blob,
\* although the provider has evicted that package meanwhile and would check
\* another instance (Put renames over what is there).
PersistedIsFinal == [][\A p \in Paths : cas[p] # NoBlob => cas'[p] = cas[p]]_vars

\* Within one indexing run all answers for a path are the same bytes, however
\* the provider's cache churns between the callers.
RunAnswersAgree ==
    \A x \in Procs : (load.memo /\ job[x].pc = "done" /\ job[x].blob # BadBlob) => job[x].blob = memo[job[x].path]

\* Every call returns: nested singleflight calls of different closures never
\* wait for each other in a circle.
EveryCallReturns == \A x \in Procs : (Running(x) \/ job[x].pc # "idle") ~> (~Running(x) /\ job[x].pc = "idle")
=============================================================================
