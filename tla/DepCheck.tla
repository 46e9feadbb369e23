------------------------------ MODULE DepCheck ------------------------------
(***************************************************************************)
(* The source-checking provider of dependency packages                     *)
(* (internal/depcheck): two LRU caches, declarations only ("decl") and     *)
(* with function bodies ("full"), singleflight per import path, and the    *)
(* pins that keep one *types.Package per import path alive for as long as  *)
(* a closure being resolved, or a cached package, embeds it.               *)
(*                                                                         *)
(* A checked package is an instance: its identity is its index in inst.    *)
(* Negative numbers are the packages decoded from export data, which live  *)
(* in a generation of their own (depcheck/export.go).                      *)
(***************************************************************************)
EXTENDS Integers, FiniteSets, Sequences, SequencesExt, FiniteSetsExt

CONSTANTS
    Procs,         \* goroutines that call the provider
    Paths,         \* import paths of dependency packages
    Order,         \* the same as a sequence, importers first
    Imports,       \* import path -> the paths it imports
    Cap,           \* cache -> its target capacity
    Loads          \* which requests may be made

Kinds == {"decl", "full"}
ASSUME OrderAssumption == Order \in Seq(Paths) /\ Paths = ToSet(Order)
ASSUME ImportsAssumption == Imports \in [Paths -> SUBSET Paths]
ASSUME ImportsGoForward == \A i, j \in DOMAIN Order : Order[j] \in Imports[Order[i]] => i < j
ASSUME ProcsAssumption == IsFiniteSet(Procs)
ASSUME LoadsAssumption ==
    Loads \subseteq [req : [Kinds -> [Paths -> Nat]], exports : [Paths -> Nat], bad : SUBSET Paths, cancels : Nat,
                     edits : SUBSET Paths, deletes : SUBSET Paths, decode : BOOLEAN, memo : BOOLEAN, plain : BOOLEAN]
\* A plain provider checks no bodies and decodes nothing.
ASSUME PlainAssumption == \A l \in Loads : l.plain => ~l.decode /\ \A p \in Paths : l.req["full"][p] = 0

VARIABLES
    lru,       \* kind -> its cache: path -> the cached paths used more recently
               \* ("newer", the list), its package, its pins, the deletes put off
    waiters,   \* kind -> path -> callers registered around its singleflight
    flight,    \* kind -> path -> whether a singleflight call is running
    inst,      \* the packages checked so far
    scope,     \* goroutine -> the closureScope of its call
    stack,     \* goroutine -> its nested packageScoped calls, innermost last
    ret,       \* goroutine -> what its last call returned
    canceled,  \* goroutines whose context is cancelled
    birth,     \* history: kind -> path -> a birth pin is outstanding
    slips,     \* history: "stolen", a pin was released that nobody had taken;
               \* "lost", a package was given out that the caller's pin does not hold
    load       \* the requests left, the paths that do not resolve ("bad"), the
               \* cancellations and edits left, the deletes due, and whether
               \* imports are decoded from export data

depVars == <<lru, waiters, flight, inst, scope, stack, ret, canceled, birth, slips, load>>

None == 0                   \* no instance
Err  == -1 - Len(Order)     \* an error result
Zero == [p \in Paths |-> 0]
Pos(p) == CHOOSE i \in DOMAIN Order : Order[i] = p
Decoded(p) == -Pos(p)

\* Everything p's package refers to, itself included.
DepClosure(p) ==
    {q \in Paths : \A S \in SUBSET Paths : (p \in S /\ \A r \in S : Imports[r] \subseteq S) => q \in S}

\* The instances reachable from instance i.
Reach(i) == IF i < 0 THEN {Decoded(q) : q \in DepClosure(Order[-i])} ELSE inst[i].ids
PathOf(i) == IF i < 0 THEN Order[-i] ELSE inst[i].path
OneIdentity(ids) == \A x, y \in ids : PathOf(x) = PathOf(y) => x = y

-----------------------------------------------------------------------------
(* lruCache *)

EmptyLRU == [newer |-> [p \in Paths |-> {}], id |-> Zero, pins |-> Zero, pending |-> {}]
Cached(l) == {p \in Paths : l.id[p] # None}

\* get: a hit becomes the most recently used.
Touch(l, p) ==
    [l EXCEPT !.newer = [q \in Paths |-> IF q # p /\ l.id[q] # None THEN @[q] \cup {p} ELSE {}]]
pin(l, p) == [l EXCEPT !.pins[p] = @ + 1]
pinAll(l, ps) == [l EXCEPT !.pins = [p \in Paths |-> IF p \in ps THEN @[p] + 1 ELSE @[p]]]

\* Mutant: an evicted entry keeps its place in the list.
removeEntryKeeps(l, p) == [l EXCEPT !.id[p] = None]

\* The list without the entries gone.
Shortened(newer, gone) == [p \in Paths |-> IF p \in gone THEN {} ELSE newer[p] \ gone]
removeEntry(l, p) == [l EXCEPT !.id[p] = None, !.newer = Shortened(@, {p})]

\* unpin n[p] times each path: a path whose last pin goes applies its pending
\* delete, which releases its own imports in turn.
Releases(l, n, p, gone) == n[p] + Cardinality({q \in gone : l.id[q] # None /\ p \in Imports[q]})
Freed(l, n, gone) ==
    {p \in l.pending : LET r == Releases(l, n, p, gone) IN r > 0 /\ r >= l.pins[p]}
Gone(l, n) == {p \in l.pending : \A G \in SUBSET l.pending : Freed(l, n, G) \subseteq G => p \in G}
unpinAll(l, n) ==
    LET gone == Gone(l, n)
    IN  [newer |-> Shortened(l.newer, gone),
         id |-> [p \in Paths |-> IF p \in gone THEN None ELSE l.id[p]],
         pins |-> [p \in Paths |-> LET left == l.pins[p] - Releases(l, n, p, gone)
                                   IN IF left > 0 THEN left ELSE 0],
         pending |-> l.pending \ gone]

Once(ps) == [p \in Paths |-> IF p \in ps THEN 1 ELSE 0]
removeElement(l, p) == unpinAll(removeEntry(l, p), Once(Imports[p]))

\* The least recently used of some entries.
Oldest(l, ps) == CHOOSE p \in ps : ps \ {p} \subseteq l.newer[p]

\* Mutant: pins are ignored.
evictOldestPinned(l) == IF Cached(l) = {} THEN l ELSE removeElement(l, Oldest(l, Cached(l)))

\* The least recently used entry that nothing pins, if there is one.
evictOldest(l) ==
    LET free == {p \in Cached(l) : l.pins[p] = 0}
    IN  IF free = {} THEN l ELSE removeElement(l, Oldest(l, free))

\* put: make room, insert, and pin the entry's own direct imports.
lruPut(k, l, p, i) ==
    LET room == IF l.id[p] # None THEN unpinAll(l, Once(Imports[p]))
                ELSE IF Cardinality(Cached(l)) >= Cap[k] THEN evictOldest(l) ELSE l
    IN  pinAll(Touch([room EXCEPT !.id[p] = i], p), Imports[p])

\* Mutant: a pinned entry is left alone.
lruDeleteSkips(l, p) == IF l.pins[p] = 0 /\ l.id[p] # None THEN removeElement(l, p) ELSE l

\* delete, deferred while the entry is pinned.
lruDelete(l, p) ==
    IF l.pins[p] > 0 THEN [l EXCEPT !.pending = @ \cup {p}]
    ELSE IF l.id[p] # None THEN removeElement(l, p) ELSE l

-----------------------------------------------------------------------------
(* A call: packageScoped and packageWithBodiesScoped, nested by imports.   *)

NoScope == [got |-> Zero, via |-> [p \in Paths |-> "none"], holder |-> Zero]
Frame(p, k, isImport) == [path |-> p, kind |-> k, pc |-> "ask", todo |-> {}, ids |-> {},
                          failed |-> FALSE, old |-> FALSE, raced |-> FALSE, res |-> None, import |-> isImport]
Running(x) == stack[x] # <<>>
Top(x) == Last(stack[x])
SetTop(x, f) == [stack EXCEPT ![x] = Front(@) \o <<f>>]
At(x, pc) == Running(x) /\ Top(x).pc = pc
\* The call of frame f has its result.
Ended(f, pc, res) == [f EXCEPT !.pc = pc, !.res = res]

\* Package and PackageWithBodies.
Package(x, p, k) ==
    /\ ~Running(x) /\ load.req[k][p] > 0
    /\ load' = [load EXCEPT !.req[k][p] = @ - 1]
    /\ stack' = [stack EXCEPT ![x] = <<Frame(p, k, FALSE)>>]
    /\ scope' = [scope EXCEPT ![x] = NoScope]
    /\ canceled' = canceled \ {x}
    /\ ret' = [ret EXCEPT ![x] = None]
    /\ UNCHANGED <<lru, waiters, flight, inst, birth, slips>>

\* The import p of frame f resolved to the instances ids, degraded or not.
Imported(f, p, ids, degraded) ==
    [f EXCEPT !.todo = @ \ {p}, !.ids = @ \cup ids, !.failed = @ \/ degraded]

\* closureScope.placeholderFor: what stands for p in the rest of the closure.
placeholderFor(sc, p, i) == [sc EXCEPT !.holder[p] = i]

\* The innermost call of x returns res, with sc as its scope: the importer
\* takes the instance, or shares the closure's placeholder for a path that
\* cannot be resolved; the outermost call is left to close the scope.
Return(x, res, sc) ==
    LET f == Top(x)
        g == stack[x][Len(stack[x]) - 1]
        below == SubSeq(stack[x], 1, Len(stack[x]) - 2)
        ph == Len(inst) + 1
    IN  \/ /\ Len(stack[x]) = 1
           /\ stack' = SetTop(x, Ended(f, "close", res))
           /\ scope' = [scope EXCEPT ![x] = sc] /\ UNCHANGED inst
        \/ /\ Len(stack[x]) > 1 /\ res # Err
           /\ stack' = [stack EXCEPT ![x] = Append(below,
                          Imported(g, f.path, Reach(res), res > 0 /\ inst[res].failed))]
           /\ scope' = [scope EXCEPT ![x] = sc] /\ UNCHANGED inst
        \/ /\ Len(stack[x]) > 1 /\ res = Err /\ x \in canceled
           /\ stack' = [stack EXCEPT ![x] = Append(below, [g EXCEPT !.todo = {}])]
           /\ scope' = [scope EXCEPT ![x] = sc] /\ UNCHANGED inst
        \/ /\ Len(stack[x]) > 1 /\ res = Err /\ x \notin canceled
           /\ inst' = Append(inst, [path |-> f.path, ids |-> {ph}, failed |-> TRUE, old |-> FALSE, raced |-> FALSE])
           /\ scope' = [scope EXCEPT ![x] = placeholderFor(sc, f.path, ph)]
           /\ stack' = [stack EXCEPT ![x] = Append(below, Imported(g, f.path, {ph}, TRUE))]

\* closureScope.put: the first instance of a path stays.
ScopePut(x, p, i, k) ==
    IF scope[x].got[p] # None THEN scope[x]
    ELSE [scope[x] EXCEPT !.got[p] = i, !.via[p] = k]

\* A lookup that hits pins the entry and records it in the scope at once.
PinHit(x, k) ==
    LET p == Top(x).path
    IN  /\ lru' = [lru EXCEPT ![k] = pin(Touch(@, p), p)]
        /\ Return(x, lru[k].id[p], ScopePut(x, p, lru[k].id[p], k))

\* The scope, the context, then tryPinFull.
ask(x) ==
    LET p == Top(x).path
    IN  /\ At(x, "ask")
        /\ \/ scope[x].got[p] # None /\ Return(x, scope[x].got[p], scope[x]) /\ UNCHANGED lru
           \/ scope[x].got[p] = None /\ x \in canceled /\ Return(x, Err, scope[x]) /\ UNCHANGED lru
           \/ scope[x].got[p] = None /\ x \notin canceled /\ lru.full.id[p] # None /\ PinHit(x, "full")
           \/ /\ scope[x].got[p] = None /\ x \notin canceled /\ lru.full.id[p] = None
              /\ stack' = SetTop(x, [Top(x) EXCEPT !.pc = IF Top(x).kind = "full" THEN "enter" ELSE "pin"])
              /\ UNCHANGED <<lru, scope, inst>>
        /\ UNCHANGED <<waiters, flight, ret, canceled, birth, slips, load>>

\* tryPin; an import may then be decoded from export data instead.  Decoding
\* succeeds, and one package stands for a path for good: a blob that cannot be
\* read, for which go/types makes up a package of its own, and the resets of the
\* decoded generation (export.go, resetLocked) are left out; neither can happen
\* to a plain provider.
tryPin(x) ==
    LET p == Top(x).path
    IN  /\ At(x, "pin")
        /\ \/ lru.decl.id[p] # None /\ PinHit(x, "decl")
           \/ /\ lru.decl.id[p] = None /\ load.decode /\ Top(x).import
              /\ Return(x, Decoded(p), scope[x]) /\ UNCHANGED lru
           \/ /\ lru.decl.id[p] = None /\ ~(load.decode /\ Top(x).import)
              /\ stack' = SetTop(x, [Top(x) EXCEPT !.pc = "enter"])
              /\ UNCHANGED <<lru, scope, inst>>
        /\ UNCHANGED <<waiters, flight, ret, canceled, birth, slips, load>>

enterWait(x) ==
    /\ At(x, "enter")
    /\ waiters' = [waiters EXCEPT ![Top(x).kind][Top(x).path] = @ + 1]
    /\ stack' = SetTop(x, [Top(x) EXCEPT !.pc = "do"])
    /\ UNCHANGED <<lru, flight, inst, scope, ret, canceled, birth, slips, load>>

\* singleflight: the first caller of a path leads, the others wait for it.
join(x) ==
    LET k == Top(x).kind
        p == Top(x).path
    IN  /\ At(x, "do")
        /\ flight' = [flight EXCEPT ![k][p] = TRUE]
        /\ stack' = SetTop(x, [Top(x) EXCEPT !.pc = IF flight[k][p] THEN "wait" ELSE "lead"])
        /\ UNCHANGED <<lru, waiters, inst, scope, ret, canceled, birth, slips, load>>

\* Mutant: only the leader gets the result.
EndFlightAlone(x, res) ==
    LET f == Top(x)
    IN  /\ flight' = [flight EXCEPT ![f.kind][f.path] = FALSE]
        /\ stack' = SetTop(x, Ended(f, "exit", res))

\* The leader's result goes to everyone collapsed onto the call.
EndFlight(x, res) ==
    LET f == Top(x)
        Gets(y) == y = x \/ (At(y, "wait") /\ Top(y).kind = f.kind /\ Top(y).path = f.path)
    IN  /\ flight' = [flight EXCEPT ![f.kind][f.path] = FALSE]
        /\ stack' = [y \in Procs |-> IF Gets(y) THEN Front(stack[y]) \o <<Ended(Top(y), "exit", res)>>
                                     ELSE stack[y]]

\* The leader looks once more, then parses; or fails.
lead(x) ==
    LET f == Top(x)
        hit == CHOOSE k \in {"full", "decl", "none"} :
                 \/ k = "full" /\ lru.full.id[f.path] # None
                 \/ k = "decl" /\ f.kind = "decl" /\ lru.full.id[f.path] = None /\ lru.decl.id[f.path] # None
                 \/ k = "none" /\ lru.full.id[f.path] = None /\ (f.kind = "full" \/ lru.decl.id[f.path] = None)
    IN  /\ At(x, "lead")
        /\ \/ hit # "none" /\ EndFlight(x, lru[hit].id[f.path]) /\ lru' = [lru EXCEPT ![hit] = Touch(@, f.path)]
           \/ hit = "none" /\ (x \in canceled \/ f.path \in load.bad) /\ EndFlight(x, Err) /\ UNCHANGED lru
           \/ /\ hit = "none" /\ x \notin canceled /\ f.path \notin load.bad
              /\ stack' = SetTop(x, [f EXCEPT !.pc = "check", !.todo = Imports[f.path]])
              /\ UNCHANGED <<lru, flight>>
        /\ UNCHANGED <<waiters, inst, scope, ret, canceled, birth, slips, load>>

\* go/types asks for one import: the closure's placeholder if the path has
\* failed in it before, else a nested call.
ImportFrom(x, d) ==
    /\ At(x, "check") /\ d \in Top(x).todo
    /\ stack' = [stack EXCEPT ![x] =
         IF x \in canceled THEN Front(@) \o <<[Top(x) EXCEPT !.todo = {}]>>
         ELSE IF scope[x].holder[d] # None
              THEN Front(@) \o <<Imported(Top(x), d, {scope[x].holder[d]}, TRUE)>>
              ELSE Append(@, Frame(d, "decl", TRUE))]
    /\ UNCHANGED <<lru, waiters, flight, inst, scope, ret, canceled, birth, slips, load>>

\* Mutant: a fresh entry is not protected until its callers have pinned it.
finishCheckUnpinned(x) ==
    LET f  == Top(x)
        id == Len(inst) + 1
    IN  /\ At(x, "check") /\ f.todo = {}
        /\ IF x \in canceled THEN EndFlight(x, Err) /\ UNCHANGED <<lru, inst, birth>>
           ELSE /\ inst' = Append(inst, [path |-> f.path, ids |-> f.ids \cup {id}, failed |-> f.failed,
                                         old |-> f.old, raced |-> f.raced])
                /\ EndFlight(x, id)
                /\ IF f.failed THEN UNCHANGED <<lru, birth>>
                   ELSE /\ lru' = [lru EXCEPT ![f.kind] = lruPut(f.kind, @, f.path, id)]
                        /\ birth' = [birth EXCEPT ![f.kind][f.path] = TRUE]
        /\ UNCHANGED <<waiters, scope, ret, canceled, slips, load>>

\* The end of check, then put or putFull: a package that carries a
\* placeholder is handed out but never cached; a fresh entry is born pinned.
finishCheck(x) ==
    LET f  == Top(x)
        id == Len(inst) + 1
    IN  /\ At(x, "check") /\ f.todo = {}
        /\ IF x \in canceled THEN EndFlight(x, Err) /\ UNCHANGED <<lru, inst, birth>>
           ELSE /\ inst' = Append(inst, [path |-> f.path, ids |-> f.ids \cup {id}, failed |-> f.failed,
                                         old |-> f.old, raced |-> f.raced])
                /\ EndFlight(x, id)
                /\ IF f.failed THEN UNCHANGED <<lru, birth>>
                   ELSE /\ lru' = [lru EXCEPT ![f.kind] = pin(lruPut(f.kind, @, f.path, id), f.path)]
                        /\ birth' = [birth EXCEPT ![f.kind][f.path] = TRUE]
        /\ UNCHANGED <<waiters, scope, ret, canceled, slips, load>>

\* exitWaitAndPin, or exitWait after an error: the last registered caller
\* releases the birth pin, whether there is one or not.
exitWait(x) ==
    LET f == Top(x)
        last == waiters[f.kind][f.path] = 1
        pinned == IF f.res = Err THEN lru[f.kind] ELSE pin(lru[f.kind], f.path)
    IN  /\ At(x, "exit")
        /\ waiters' = [waiters EXCEPT ![f.kind][f.path] = @ - 1]
        /\ lru' = [lru EXCEPT ![f.kind] = IF last THEN unpinAll(pinned, Once({f.path})) ELSE pinned]
        /\ birth' = IF last THEN [birth EXCEPT ![f.kind][f.path] = FALSE] ELSE birth
        /\ slips' = slips \cup {s \in {"stolen", "lost"} :
                      \/ s = "stolen" /\ last /\ ~birth[f.kind][f.path] /\ pinned.pins[f.path] > 0
                      \/ s = "lost" /\ f.res > 0 /\ ~inst[f.res].failed /\ pinned.id[f.path] # f.res}
        /\ Return(x, f.res, IF f.res = Err THEN scope[x] ELSE ScopePut(x, f.path, f.res, f.kind))
        /\ UNCHANGED <<flight, ret, canceled, load>>

\* closureScope.close, then the call returns.
closeScope(x) ==
    /\ At(x, "close")
    /\ lru' = [k \in Kinds |-> unpinAll(lru[k], Once({p \in Paths : scope[x].via[p] = k}))]
    /\ ret' = [ret EXCEPT ![x] = Top(x).res]
    /\ stack' = [stack EXCEPT ![x] = <<>>]
    /\ scope' = [scope EXCEPT ![x] = NoScope]
    /\ UNCHANGED <<waiters, flight, inst, canceled, birth, slips, load>>

-----------------------------------------------------------------------------
(* The callers' contexts, and the workspace packages that change.          *)

cancel(x) ==
    /\ Running(x) /\ x \notin canceled /\ load.cancels > 0
    /\ canceled' = canceled \cup {x}
    /\ load' = [load EXCEPT !.cancels = @ - 1]
    /\ UNCHANGED <<lru, waiters, flight, inst, scope, stack, ret, birth, slips>>

\* p's source changes: every check of it so far has seen the old text.
edit(p) ==
    /\ p \in load.edits
    /\ load' = [load EXCEPT !.edits = @ \ {p}, !.deletes = @ \cup {p}]
    /\ inst' = [i \in DOMAIN inst |-> [inst[i] EXCEPT !.old = @ \/ inst[i].path = p]]
    /\ stack' = [x \in Procs |-> [n \in DOMAIN stack[x] |->
                    [stack[x][n] EXCEPT !.old = @ \/ (stack[x][n].path = p /\ stack[x][n].pc = "check")]]]
    /\ UNCHANGED <<lru, waiters, flight, scope, ret, canceled, birth, slips>>

\* Provider.Delete, after the reindex of p.
Delete(p) ==
    /\ p \in load.deletes
    /\ load' = [load EXCEPT !.deletes = @ \ {p}]
    /\ lru' = [k \in Kinds |-> lruDelete(lru[k], p)]
    /\ stack' = [x \in Procs |-> [n \in DOMAIN stack[x] |->
                    [stack[x][n] EXCEPT !.raced = @ \/ stack[x][n].old]]]
    /\ UNCHANGED <<waiters, flight, inst, scope, ret, canceled, birth, slips>>

-----------------------------------------------------------------------------
DepInit ==
    /\ load \in Loads
    /\ lru = [k \in Kinds |-> EmptyLRU]
    /\ waiters = [k \in Kinds |-> Zero]
    /\ flight = [k \in Kinds |-> [p \in Paths |-> FALSE]]
    /\ inst = <<>>
    /\ scope = [x \in Procs |-> NoScope]
    /\ stack = [x \in Procs |-> <<>>]
    /\ ret = [x \in Procs |-> None]
    /\ canceled = {}
    /\ birth = [k \in Kinds |-> [p \in Paths |-> FALSE]]
    /\ slips = {}

CallStep(x) ==
    \/ ask(x) \/ tryPin(x) \/ enterWait(x) \/ join(x) \/ lead(x)
    \/ \E d \in Paths : ImportFrom(x, d)
    \/ finishCheck(x) \/ exitWait(x) \/ closeScope(x)
=============================================================================
