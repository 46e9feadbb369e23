----------------------- MODULE IndexLifecycleProofs -----------------------
(***************************************************************************)
(* The safety theorems of IndexLifecycle, for any packages, reloads and    *)
(* detached goroutines, any thresholds and any bounds.                     *)
(***************************************************************************)
EXTENDS IndexLifecycle, FiniteSetTheorems, TLAPS

----------------------------------------------------------------------------
(* The inductive invariant.                                                *)

\* The detached goroutines registered with reindexWG.
Running == {x \in Task : At(x, "run")}

\* reindexWG counts them.
WGCounts == wg = Cardinality(Running)

\* Where buildIndex and revalidateIndex are under idxMu.  beginReindex takes
\* idxMu too, so a goroutine that drains under it never gets to "run".
Locked == {"decide", "repair", "wait", "spawn", "index", "open", "load",
           "take", "begin", "unlock"}

\* Where an old database is being replaced: no index is served.
Replacing == {"wait", "spawn", "index", "open"}

\* The handle an indexState is served from.
HandleOf(s) == [db |-> s.db, file |-> s.file]

\* idxMu excludes, and each goroutine is where its code can take it.
LockInv ==
    /\ \A t \in Thread :
          /\ proc[t].pc # "run"
          /\ proc[t].pc \in Locked => mu = t
    /\ \A t \in Reloader : proc[t].pc \notin {"warm", "lockBuild"}
    /\ \A x \in Task : proc[x].pc \in {"idle", "load", "take", "begin", "run"}

\* Until the loader has tried to open an index, nobody has one.
WarmInv ==
    proc[Loader].pc \in {"warm", "lockBuild"} =>
        /\ idx = None /\ open = {}
        /\ \A t \in Reloader : proc[t].pc \notin Replacing \cup {"repair"}

\* Who uses an indexState has loaded one.
LoadedInv ==
    \A x \in Thread \cup Task :
        proc[x].pc \in {"repair", "wait", "take", "begin", "run"} =>
            proc[x].on # None

\* Handles are numbered, so an indexState of the handle being served is on the
\* same file, whenever it was loaded.
NumberedInv ==
    /\ idx # None => idx.db <= handles
    /\ \A x \in Thread \cup Task : proc[x].on # None =>
          /\ proc[x].on.db <= handles
          /\ idx # None /\ idx.db = proc[x].on.db => idx.file = proc[x].on.file

\* While a database is being replaced no index is served, and from Close on
\* nothing is open.
ReplacingInv ==
    \A t \in Thread :
        /\ proc[t].pc \in Replacing => idx = None
        /\ proc[t].pc \in Replacing \ {"wait"} => open = {}
        /\ proc[t].pc = "wait" => open \subseteq {HandleOf(proc[t].on)}
        /\ proc[t].pc = "repair" =>
              idx # None /\ HandleOf(idx) = HandleOf(proc[t].on)

\* What is open is served, or is waiting to be closed.
OpenInv ==
    \A h \in open :
        \/ idx # None /\ h = HandleOf(idx)
        \/ \E t \in Thread : proc[t].pc = "wait" /\ h = HandleOf(proc[t].on)

\* A registered reindex is on an open database.
RunInv == \A x \in Task : proc[x].pc = "run" => HandleOf(proc[x].on) \in open

(***************************************************************************)
(* Which handles are open, and who may use or replace them.                *)
(***************************************************************************)
HandleInv ==
    /\ WGCounts /\ LockInv /\ WarmInv
    /\ LoadedInv /\ NumberedInv /\ ReplacingInv /\ OpenInv /\ RunInv
    /\ ServedIndexIsOpen

\* Somebody will still look at package p: its save handler has not read s.idx,
\* or a revalidation of everything has not made its decision.
Covered(p) ==
    \/ saver[p] \in {"load", "mark"}
    \/ owed > 0
    \/ \E t \in Thread : proc[t].pc \in {"refresh", "cas", "lock", "decide"}
    \/ proc[Loader].pc \in {"warm", "lockBuild"}
    \/ proc[Loader].cold

\* A package that is stale in the served index is covered, or a reindex against
\* that very database or a repair still has it to do.
ServedCovered ==
    idx # None => \A p \in Pkg :
        \/ facts[idx.file][p] = disk[p]
        \/ Covered(p)
        \/ \E x \in Task : /\ proc[x].pc \in {"begin", "run"}
                           /\ p \in proc[x].todo
                           /\ proc[x].on.db = idx.db
        \/ \E t \in Thread : proc[t].pc = "repair" /\ p \in proc[t].todo

\* No index is served only before the first one or while one is being built,
\* and a package the indexer is done with is current or covered.
BuiltCovered ==
    idx = None =>
        \/ proc[Loader].pc \in {"warm", "lockBuild"}
        \/ \E t \in Thread :
              /\ proc[t].pc \in Replacing
              /\ proc[t].pc \in {"index", "open"} =>
                    \A p \in Pkg : \/ p \in proc[t].todo /\ proc[t].pc = "index"
                                   \/ facts[dbPath][p] = disk[p]
                                   \/ Covered(p)

CoverInv == ~failed /\ ~coldSave => ServedCovered /\ BuiltCovered
----------------------------------------------------------------------------
(* Steps of one goroutine.                                                 *)

\* Goroutine x is now at pc with this activity; the others are where they were.
Moved(x, pc, todo, on, cold) ==
    proc' = [proc EXCEPT ![x] =
               [pc |-> pc, todo |-> todo, on |-> on, cold |-> cold]]

PC == {"idle", "warm", "lockBuild", "refresh", "cas", "lock", "decide",
       "repair", "wait", "spawn", "index", "open", "load", "take",
       "begin", "run", "unlock", "done"}

\* What Moved says of each goroutine.
LEMMA MovedFields ==
    ASSUME TypeOK, NEW x \in Thread \cup Task, NEW pc, NEW todo, NEW on, NEW cold,
           Moved(x, pc, todo, on, cold)
    PROVE  /\ proc'[x].pc = pc /\ proc'[x].todo = todo
           /\ proc'[x].on = on /\ proc'[x].cold = cold
           /\ \A y \in Thread \cup Task : y # x => proc'[y] = proc[y]
BY DEF TypeOK, Moved

(* An activity has its four fields and no others, so updates of some of    *)
(* them give the record with those changed.                                *)

\* An update of pc.
LEMMA UpdPc ==
    ASSUME NEW a \in Activity, NEW pc
    PROVE  [a EXCEPT !.pc = pc] =
              [pc |-> pc, todo |-> a.todo, on |-> a.on, cold |-> a.cold]
BY DEF Activity

\* An update of todo.
LEMMA UpdTodo ==
    ASSUME NEW a \in Activity, NEW todo
    PROVE  [a EXCEPT !.todo = todo] =
              [pc |-> a.pc, todo |-> todo, on |-> a.on, cold |-> a.cold]
BY DEF Activity

\* An update of pc, on.
LEMMA UpdPcOn ==
    ASSUME NEW a \in Activity, NEW pc, NEW on
    PROVE  [a EXCEPT !.pc = pc, !.on = on] =
              [pc |-> pc, todo |-> a.todo, on |-> on, cold |-> a.cold]
<1>1. [a EXCEPT !.pc = pc, !.on = on] =
         [[a EXCEPT !.pc = pc] EXCEPT !.on = on]
  OBVIOUS
<1>2. [[pc |-> pc, todo |-> a.todo, on |-> a.on, cold |-> a.cold]
         EXCEPT !.on = on] =
         [pc |-> pc, todo |-> a.todo, on |-> on, cold |-> a.cold]
  OBVIOUS
<1> QED
  BY <1>1, <1>2, UpdPc

\* An update of pc, cold.
LEMMA UpdPcCold ==
    ASSUME NEW a \in Activity, NEW pc, NEW cold
    PROVE  [a EXCEPT !.pc = pc, !.cold = cold] =
              [pc |-> pc, todo |-> a.todo, on |-> a.on, cold |-> cold]
<1>1. [a EXCEPT !.pc = pc, !.cold = cold] =
         [[a EXCEPT !.pc = pc] EXCEPT !.cold = cold]
  OBVIOUS
<1>2. [[pc |-> pc, todo |-> a.todo, on |-> a.on, cold |-> a.cold]
         EXCEPT !.cold = cold] =
         [pc |-> pc, todo |-> a.todo, on |-> a.on, cold |-> cold]
  OBVIOUS
<1> QED
  BY <1>1, <1>2, UpdPc

\* An update of pc, todo.
LEMMA UpdPcTodo ==
    ASSUME NEW a \in Activity, NEW pc, NEW todo
    PROVE  [a EXCEPT !.pc = pc, !.todo = todo] =
              [pc |-> pc, todo |-> todo, on |-> a.on, cold |-> a.cold]
<1>1. [a EXCEPT !.pc = pc, !.todo = todo] =
         [[a EXCEPT !.pc = pc] EXCEPT !.todo = todo]
  OBVIOUS
<1>2. [[pc |-> pc, todo |-> a.todo, on |-> a.on, cold |-> a.cold]
         EXCEPT !.todo = todo] =
         [pc |-> pc, todo |-> todo, on |-> a.on, cold |-> a.cold]
  OBVIOUS
<1> QED
  BY <1>1, <1>2, UpdPc

\* An update of todo, pc.
LEMMA UpdTodoPc ==
    ASSUME NEW a \in Activity, NEW todo, NEW pc
    PROVE  [a EXCEPT !.todo = todo, !.pc = pc] =
              [pc |-> pc, todo |-> todo, on |-> a.on, cold |-> a.cold]
<1>1. [a EXCEPT !.todo = todo, !.pc = pc] =
         [[a EXCEPT !.todo = todo] EXCEPT !.pc = pc]
  OBVIOUS
<1>2. [[pc |-> a.pc, todo |-> todo, on |-> a.on, cold |-> a.cold]
         EXCEPT !.pc = pc] =
         [pc |-> pc, todo |-> todo, on |-> a.on, cold |-> a.cold]
  OBVIOUS
<1> QED
  BY <1>1, <1>2, UpdTodo

\* An update of pc, todo, on.
LEMMA UpdPcTodoOn ==
    ASSUME NEW a \in Activity, NEW pc, NEW todo, NEW on
    PROVE  [a EXCEPT !.pc = pc, !.todo = todo, !.on = on] =
              [pc |-> pc, todo |-> todo, on |-> on, cold |-> a.cold]
<1>1. [a EXCEPT !.pc = pc, !.todo = todo, !.on = on] =
         [[[a EXCEPT !.pc = pc] EXCEPT !.todo = todo] EXCEPT !.on = on]
  OBVIOUS
<1>2. [[pc |-> pc, todo |-> a.todo, on |-> a.on, cold |-> a.cold]
         EXCEPT !.todo = todo] =
         [pc |-> pc, todo |-> todo, on |-> a.on, cold |-> a.cold]
  OBVIOUS
<1>3. [[pc |-> pc, todo |-> todo, on |-> a.on, cold |-> a.cold]
         EXCEPT !.on = on] =
         [pc |-> pc, todo |-> todo, on |-> on, cold |-> a.cold]
  OBVIOUS
<1> QED
  BY <1>1, <1>2, <1>3, UpdPc

\* Goto changes the program counter and nothing else.
LEMMA GotoMoves ==
    ASSUME TypeOK, NEW x \in Thread \cup Task, NEW pc, Goto(x, pc)
    PROVE  Moved(x, pc, proc[x].todo, proc[x].on, proc[x].cold)
<1>1. proc[x] \in Activity
  BY DEF TypeOK
<1>2. proc' = [proc EXCEPT ![x] = [proc[x] EXCEPT !.pc = pc]]
  BY DEF Goto
<1> QED
  BY <1>1, <1>2, UpdPc DEF Moved

\* The fields of an activity have their types.
LEMMA FieldTypes ==
    ASSUME TypeOK, NEW x \in Thread \cup Task
    PROVE  /\ proc[x].pc \in PC /\ proc[x].todo \in SUBSET Pkg
           /\ proc[x].on \in IndexState \cup {None} /\ proc[x].cold \in BOOLEAN
BY DEF TypeOK, Activity, PC

(***************************************************************************)
(* A step to pc, with indexState on, that only moves goroutine x and       *)
(* perhaps idxMu, and neither starts nor ends a reindex, a repair, or the  *)
(* replacement of a database.                                              *)
(***************************************************************************)
Plain(x, pc, on) ==
    /\ UNCHANGED <<idx, open, handles, wg>>
    /\ mu' = mu \/ mu \in {None, x}
    /\ x \in Thread /\ pc \in Locked => mu' = x
    /\ x \in Task => pc \in {"idle", "load", "take", "begin"}
    /\ pc = "lockBuild" => x = Loader /\ proc[x].pc = "warm"
    /\ pc \notin {"run", "wait", "warm"}
    /\ proc[x].pc \notin {"run", "wait"}
    /\ pc \in Replacing => proc[x].pc \in Replacing
    /\ pc = "repair" => proc[x].pc = "repair" /\ on = proc[x].on
    /\ pc \in {"take", "begin"} => on # None
    /\ on \in {None, idx, proc[x].on}

\* Such a step keeps HandleInv.
LEMMA PlainMove ==
    ASSUME TypeOK, HandleInv,
           NEW x \in Thread \cup Task, NEW pc, NEW todo, NEW on, NEW cold,
           Moved(x, pc, todo, on, cold), Plain(x, pc, on)
    PROVE  HandleInv'
<1> USE DEF HandleInv, Plain
<1>1. /\ proc'[x].pc = pc /\ proc'[x].on = on
      /\ \A y \in Thread \cup Task : y # x => proc'[y] = proc[y]
  BY MovedFields
<1>a. \A t \in Thread : t # None /\ t \notin Task
  BY IndexAssumption DEF Thread
<1>2. WGCounts'
  <2>1. Running' = Running
    BY <1>1 DEF Running, At
  <2> QED
    BY <2>1 DEF WGCounts
<1>3. LockInv'
  <2>1. ASSUME NEW t \in Thread
        PROVE  proc'[t].pc # "run" /\ (proc'[t].pc \in Locked => mu' = t)
    BY <1>1, <1>a DEF LockInv
  <2>2. ASSUME NEW t \in Reloader
        PROVE  proc'[t].pc \notin {"warm", "lockBuild"}
    BY <1>1 DEF LockInv, Thread
  <2>3. ASSUME NEW y \in Task
        PROVE  proc'[y].pc \in {"idle", "load", "take", "begin", "run"}
    BY <1>1 DEF LockInv
  <2> QED
    BY <2>1, <2>2, <2>3 DEF LockInv
<1>4. WarmInv'
  BY <1>1, <1>a DEF WarmInv, LockInv, Thread, Replacing
<1>5. LoadedInv'
  BY <1>1 DEF LoadedInv, Replacing
<1>6. NumberedInv'
  BY <1>1 DEF NumberedInv
<1>7. ReplacingInv'
  <2> SUFFICES ASSUME NEW t \in Thread
               PROVE  /\ proc'[t].pc \in Replacing => idx = None
                      /\ proc'[t].pc \in Replacing \ {"wait"} => open = {}
                      /\ proc'[t].pc = "wait" => open \subseteq {HandleOf(proc'[t].on)}
                      /\ proc'[t].pc = "repair" =>
                            idx # None /\ HandleOf(idx) = HandleOf(proc'[t].on)
    BY DEF ReplacingInv, HandleOf
  <2> QED
    BY <1>1 DEF ReplacingInv, Replacing
<1>8. OpenInv'
  BY <1>1 DEF OpenInv, HandleOf
<1>9. RunInv'
  BY <1>1 DEF RunInv, HandleOf
<1>10. ServedIndexIsOpen'
  BY DEF ServedIndexIsOpen
<1> QED
  BY <1>2, <1>3, <1>4, <1>5, <1>6, <1>7, <1>8, <1>9, <1>10
\* The idle activity, and where it can be taken to.
LEMMA IdleFields ==
    Idle \in Activity /\ Idle.pc = "idle" /\ Idle.todo = {} /\ Idle.on = None
BY DEF Idle, Activity

\* An idle activity with another program counter and cold flag.
LEMMA IdleUpdates ==
    ASSUME NEW pc, NEW cold
    PROVE  [Idle EXCEPT !.pc = pc, !.cold = cold] =
              [pc |-> pc, todo |-> {}, on |-> None, cold |-> cold]
<1>1. [Idle EXCEPT !.pc = pc, !.cold = cold] =
         [[Idle EXCEPT !.pc = pc] EXCEPT !.cold = cold]
  OBVIOUS
<1>2. [Idle EXCEPT !.pc = pc] =
         [pc |-> pc, todo |-> {}, on |-> None, cold |-> Idle.cold]
  BY IdleFields, UpdPc
<1>3. [[pc |-> pc, todo |-> {}, on |-> None, cold |-> Idle.cold] EXCEPT !.cold = cold]
         = [pc |-> pc, todo |-> {}, on |-> None, cold |-> cold]
  OBVIOUS
<1> QED
  BY <1>1, <1>2, <1>3

\* One more failure is counted, and nothing else happens outside.
LEMMA FailType ==
    ASSUME TypeOK, Fail
    PROVE  /\ spent' \in [saves : Nat, external : Nat, failures : Nat, heals : Nat]
           /\ UNCHANGED <<disk, owed, coldSave>>
BY DEF TypeOK, Fail

\* A reindexed package has the version on disk, the others keep theirs.
LEMMA RefreshedFacts ==
    ASSUME TypeOK, NEW f \in File, NEW p \in Pkg
    PROVE  /\ Refreshed(f, p) \in [File -> [Pkg -> Int]]
           /\ \A g \in File, q \in Pkg :
                Refreshed(f, p)[g][q] =
                   IF g = f /\ q = p THEN disk[p] ELSE facts[g][q]
BY DEF TypeOK, Refreshed

\* The file s.dbPath names.
LEMMA dbPathIsFile == ASSUME TypeOK PROVE dbPath \in File
BY DEF dbPath, File

\* x goes on with what is left to do, or is finished.
LEMMA RemainingMoves ==
    ASSUME TypeOK, NEW x \in Thread \cup Task, NEW todo, NEW pc,
           proc' = [proc EXCEPT ![x] = Remaining(x, todo, pc)]
    PROVE  /\ todo # {} => Moved(x, pc, todo, proc[x].on, proc[x].cold)
           /\ todo = {} => Moved(x, Finished(x), {}, None, proc[x].cold)
<1>1. proc[x] \in Activity
  BY DEF TypeOK
<1>2. CASE todo # {}
  BY <1>1, <1>2, UpdTodoPc DEF Remaining, Moved
<1>3. CASE todo = {}
  <2>1. [Idle EXCEPT !.pc = Finished(x), !.cold = proc[x].cold] =
           [pc |-> Finished(x), todo |-> {}, on |-> None, cold |-> proc[x].cold]
    BY IdleUpdates
  <2>2. Remaining(x, todo, pc) = [Idle EXCEPT !.pc = Finished(x), !.cold = proc[x].cold]
    BY <1>3 DEF Remaining
  <2> QED
    BY <1>3, <2>1, <2>2 DEF Moved
<1> QED
  BY <1>2, <1>3

\* A detached goroutine starts.
LEMMA SpawnMoves ==
    ASSUME TypeOK, NEW pc, NEW todo, NEW on, Spawn(pc, todo, on)
    PROVE  \E x \in Task : At(x, "idle") /\ Moved(x, pc, todo, on, Idle.cold)
<1>1. [Idle EXCEPT !.pc = pc, !.todo = todo, !.on = on] =
         [pc |-> pc, todo |-> todo, on |-> on, cold |-> Idle.cold]
  BY IdleFields, UpdPcTodoOn
<1> QED
  BY <1>1 DEF Spawn, Moved

\* A step that touches no goroutine, no handle and neither idxMu nor reindexWG.
LEMMA HandleFrame ==
    ASSUME HandleInv, UNCHANGED <<idx, open, handles, mu, wg, proc>>
    PROVE  HandleInv'
BY DEF HandleInv, WGCounts, Running, At, LockInv, WarmInv, LoadedInv, NumberedInv,
       ReplacingInv, OpenInv, RunInv, ServedIndexIsOpen, HandleOf

\* The actions that set several fields of a goroutine.
LEMMA refreshIndexResolverLoadsMoves ==
    ASSUME TypeOK, NEW t \in Reloader, refreshIndexResolverLoads(t)
    PROVE  Moved(t, "cas", proc[t].todo, idx, proc[t].cold)
<1>1. proc[t] \in Activity
  BY DEF TypeOK, Thread
<1>2. proc' = [proc EXCEPT ![t] =
                 [proc[t] EXCEPT !.pc = "cas", !.on = idx]]
  BY DEF refreshIndexResolverLoads
<1> QED
  BY <1>1, <1>2, UpdPcOn DEF Moved

\* Where repairIndexPackagesLocked takes its goroutine.
LEMMA repairIndexPackagesLockedMoves ==
    ASSUME TypeOK, NEW t \in Thread, NEW p \in Pkg, repairIndexPackagesLocked(t, p)
    PROVE  Moved(t, IF proc[t].todo = {p} THEN "unlock" ELSE "repair",
              proc[t].todo \ {p}, proc[t].on, proc[t].cold)
<1>1. proc[t] \in Activity
  BY DEF TypeOK, Thread
<1>2. proc' = [proc EXCEPT ![t] =
                 [proc[t] EXCEPT !.todo = proc[t].todo \ {p},
                    !.pc = IF proc[t].todo = {p} THEN "unlock" ELSE "repair"]]
  BY DEF repairIndexPackagesLocked, At
<1> QED
  BY <1>1, <1>2, UpdTodoPc DEF Moved

\* Where runIndexBuild takes its goroutine.
LEMMA runIndexBuildMoves ==
    ASSUME TypeOK, NEW t \in Thread, runIndexBuild(t)
    PROVE  Moved(t, "index", Pkg, proc[t].on, proc[t].cold)
<1>1. proc[t] \in Activity
  BY DEF TypeOK, Thread
<1>2. proc' = [proc EXCEPT ![t] =
                 [proc[t] EXCEPT !.pc = "index", !.todo = Pkg]]
  BY DEF runIndexBuild
<1> QED
  BY <1>1, <1>2, UpdPcTodo DEF Moved

\* Where indexPackage takes its goroutine.
LEMMA indexPackageMoves ==
    ASSUME TypeOK, NEW t \in Thread, NEW p \in Pkg, indexPackage(t, p)
    PROVE  Moved(t, "index", proc[t].todo \ {p}, proc[t].on, proc[t].cold)
<1>1. proc[t] \in Activity
  BY DEF TypeOK, Thread
<1>2. proc' = [proc EXCEPT ![t] =
                 [proc[t] EXCEPT !.todo = proc[t].todo \ {p}]]
  BY DEF indexPackage
<1> QED
  BY <1>1, <1>2, UpdTodo DEF Moved, indexPackage, At

\* Where refreshIndexResolverSwaps takes its goroutine.
LEMMA refreshIndexResolverSwapsMoves ==
    ASSUME TypeOK, NEW t \in Reloader, refreshIndexResolverSwaps(t)
    PROVE  Moved(t, "lock", proc[t].todo, None, proc[t].cold)
<1>1. proc[t] \in Activity
  BY DEF TypeOK, Thread
<1>2. proc' = [proc EXCEPT ![t] =
                 [proc[t] EXCEPT !.pc = "lock", !.on = None]]
  BY DEF refreshIndexResolverSwaps
<1> QED
  BY <1>1, <1>2, UpdPcOn DEF Moved

\* Where revalidateIndexRepairs takes its goroutine.
LEMMA revalidateIndexRepairsMoves ==
    ASSUME TypeOK, NEW t \in Thread, revalidateIndexRepairs(t)
    PROVE  Moved(t, "repair", Stale, idx, proc[t].cold)
<1>1. proc[t] \in Activity
  BY DEF TypeOK, Thread
<1>2. proc' = [proc EXCEPT ![t] =
                 [proc[t] EXCEPT !.pc = "repair", !.todo = Stale, !.on = idx]]
  BY DEF revalidateIndexRepairs
<1> QED
  BY <1>1, <1>2, UpdPcTodoOn DEF Moved

\* Where revalidateIndexDropsIndex takes its goroutine.
LEMMA revalidateIndexDropsIndexMoves ==
    ASSUME TypeOK, NEW t \in Thread, revalidateIndexDropsIndex(t)
    PROVE  Moved(t, "wait", proc[t].todo, idx, proc[t].cold)
<1>1. proc[t] \in Activity
  BY DEF TypeOK, Thread
<1>2. proc' = [proc EXCEPT ![t] =
                 [proc[t] EXCEPT !.pc = "wait", !.on = idx]]
  BY DEF revalidateIndexDropsIndex
<1> QED
  BY <1>1, <1>2, UpdPcOn DEF Moved

\* Where revalidateIndexCloses takes its goroutine.
LEMMA revalidateIndexClosesMoves ==
    ASSUME TypeOK, NEW t \in Thread, revalidateIndexCloses(t)
    PROVE  Moved(t, "spawn", proc[t].todo, None, proc[t].cold)
<1>1. proc[t] \in Activity
  BY DEF TypeOK, Thread
<1>2. proc' = [proc EXCEPT ![t] =
                 [proc[t] EXCEPT !.pc = "spawn", !.on = None]]
  BY DEF revalidateIndexCloses
<1> QED
  BY <1>1, <1>2, UpdPcOn DEF Moved

\* unlock leaves an idle activity at AfterUnlock.
LEMMA unlockMoves ==
    ASSUME TypeOK, NEW t \in Thread, unlock(t)
    PROVE  Moved(t, AfterUnlock(t), {}, None, Idle.cold)
<1>1. [Idle EXCEPT !.pc = AfterUnlock(t)] =
         [pc |-> AfterUnlock(t), todo |-> {}, on |-> None, cold |-> Idle.cold]
  BY IdleFields, UpdPc
<1> QED
  BY <1>1 DEF unlock, Moved

\* buildIndex sets cold.
LEMMA buildIndexMoves ==
    ASSUME TypeOK, buildIndex
    PROVE  /\ proc'[Loader].pc = "spawn" /\ proc'[Loader].on = proc[Loader].on
           /\ proc'[Loader].cold
           /\ \A y \in Thread \cup Task : y # Loader => proc'[y] = proc[y]
           /\ proc' \in [Thread \cup Task -> Activity]
<1> DEFINE a == [proc[Loader] EXCEPT !.pc = "spawn"]
           b == [a EXCEPT !.cold = TRUE]
<1>1. a \in Activity /\ a.pc = "spawn" /\ a.on = proc[Loader].on
  BY ZenonT(40) DEF TypeOK, Activity, Thread
<1>2. proc' = [proc EXCEPT ![Loader] = b]
  BY DEF buildIndex
<1> HIDE DEF a
<1>3. b \in Activity /\ b.pc = a.pc /\ b.on = a.on /\ b.cold
  BY <1>1 DEF Activity
<1> HIDE DEF b
<1> QED
  BY <1>1, <1>2, <1>3 DEF TypeOK, Thread

----------------------------------------------------------------------------
(* TypeOK and HandleInv, action by action: the steps that are plain.       *)

\* Without a usable index the loader goes on to buildIndex.
LEMMA tryWarmOpenFailsSafe ==
    ASSUME TypeOK, HandleInv,
           tryWarmOpenFails
    PROVE  TypeOK' /\ HandleInv'
<1>1. Loader \in Thread \cup Task
  BY DEF Thread
<1>2. Moved(Loader, "lockBuild", proc[Loader].todo, proc[Loader].on, proc[Loader].cold)
  BY <1>1, GotoMoves DEF tryWarmOpenFails
<1>3. proc' \in [Thread \cup Task -> Activity]
  BY <1>1, <1>2, FieldTypes DEF Moved, Activity, PC, TypeOK
<1>4. TypeOK'
  BY <1>3, IndexAssumption DEF TypeOK, tryWarmOpenFails, served, world, history
<1>5. Plain(Loader, "lockBuild", proc[Loader].on)
  BY <1>1, IndexAssumption
     DEF Plain, tryWarmOpenFails, At, served, Locked, Replacing, Thread
<1>6. HandleInv'
  BY <1>1, <1>2, <1>5, PlainMove
<1> QED
  BY <1>4, <1>6

\* A reload starts with a new snapshot.
LEMMA revalidateGraphSafe ==
    ASSUME TypeOK, HandleInv, NEW t \in Reloader,
           revalidateGraph(t)
    PROVE  TypeOK' /\ HandleInv'
<1>1. t \in Thread \cup Task
  BY DEF Thread
<1>2. Moved(t, "refresh", proc[t].todo, proc[t].on, proc[t].cold)
  BY <1>1, GotoMoves DEF revalidateGraph
<1>3. proc' \in [Thread \cup Task -> Activity]
  BY <1>1, <1>2, FieldTypes DEF Moved, Activity, PC, TypeOK
<1>4. TypeOK'
  BY <1>3, IndexAssumption DEF TypeOK, revalidateGraph, files, served, history
<1>5. Plain(t, "refresh", proc[t].on)
  BY <1>1, IndexAssumption
     DEF Plain, revalidateGraph, At, served, Locked, Replacing, Thread
<1>6. HandleInv'
  BY <1>1, <1>2, <1>5, PlainMove
<1> QED
  BY <1>4, <1>6

\* A reload without a new snapshot goes straight to the index.
LEMMA revalidateWorkspaceSafe ==
    ASSUME TypeOK, HandleInv, NEW t \in Reloader,
           revalidateWorkspace(t)
    PROVE  TypeOK' /\ HandleInv'
<1>1. t \in Thread \cup Task
  BY DEF Thread
<1>2. Moved(t, "lock", proc[t].todo, proc[t].on, proc[t].cold)
  BY <1>1, GotoMoves DEF revalidateWorkspace
<1>3. proc' \in [Thread \cup Task -> Activity]
  BY <1>1, <1>2, FieldTypes DEF Moved, Activity, PC, TypeOK
<1>4. TypeOK'
  BY <1>3, IndexAssumption DEF TypeOK, revalidateWorkspace, files, served, history
<1>5. Plain(t, "lock", proc[t].on)
  BY <1>1, IndexAssumption
     DEF Plain, revalidateWorkspace, At, served, Locked, Replacing, Thread
<1>6. HandleInv'
  BY <1>1, <1>2, <1>5, PlainMove
<1> QED
  BY <1>4, <1>6

\* The indexState loaded for the swap is the served one.
LEMMA refreshIndexResolverLoadsSafe ==
    ASSUME TypeOK, HandleInv, NEW t \in Reloader,
           refreshIndexResolverLoads(t)
    PROVE  TypeOK' /\ HandleInv'
<1>1. t \in Thread \cup Task
  BY DEF Thread
<1>2. Moved(t, "cas", proc[t].todo, idx, proc[t].cold)
  BY refreshIndexResolverLoadsMoves
<1>3. proc' \in [Thread \cup Task -> Activity]
  BY <1>1, <1>2, FieldTypes DEF Moved, Activity, PC, TypeOK
<1>4. TypeOK'
  BY <1>3, IndexAssumption
     DEF TypeOK, refreshIndexResolverLoads, world, files, served, history
<1>5. Plain(t, "cas", idx)
  BY <1>1, IndexAssumption
     DEF Plain, refreshIndexResolverLoads, At, served, Locked, Replacing, Thread
<1>6. HandleInv'
  BY <1>1, <1>2, <1>5, PlainMove
<1> QED
  BY <1>4, <1>6

\* idxMu is taken only when nobody holds it.
LEMMA revalidateIndexLocksSafe ==
    ASSUME TypeOK, HandleInv, NEW t \in Thread,
           revalidateIndexLocks(t)
    PROVE  TypeOK' /\ HandleInv'
<1>1. t \in Thread \cup Task
  BY DEF Thread
<1>2. Moved(t, "decide", proc[t].todo, proc[t].on, proc[t].cold)
  BY <1>1, GotoMoves DEF revalidateIndexLocks
<1>3. proc' \in [Thread \cup Task -> Activity]
  BY <1>1, <1>2, FieldTypes DEF Moved, Activity, PC, TypeOK
<1>4. TypeOK'
  BY <1>3, IndexAssumption
     DEF TypeOK, revalidateIndexLocks, world, files, served, history
<1>5. Plain(t, "decide", proc[t].on)
  BY <1>1, IndexAssumption
     DEF Plain, revalidateIndexLocks, At, served, Locked, Replacing, Thread
<1>6. HandleInv'
  BY <1>1, <1>2, <1>5, PlainMove
<1> QED
  BY <1>4, <1>6

\* Nothing to revalidate, or the check failed.
LEMMA revalidateIndexNoneSafe ==
    ASSUME TypeOK, HandleInv, NEW t \in Thread,
           revalidateIndexNone(t)
    PROVE  TypeOK' /\ HandleInv'
<1>1. t \in Thread \cup Task
  BY DEF Thread
<1>2. Moved(t, "unlock", proc[t].todo, proc[t].on, proc[t].cold)
  BY <1>1, GotoMoves DEF revalidateIndexNone
<1>3. proc' \in [Thread \cup Task -> Activity]
  BY <1>1, <1>2, FieldTypes DEF Moved, Activity, PC, TypeOK
<1>4. TypeOK'
  BY <1>3, IndexAssumption, FailType
     DEF TypeOK, revalidateIndexNone, world, files, served, history
<1>5. Plain(t, "unlock", proc[t].on)
  BY <1>1, IndexAssumption
     DEF Plain, revalidateIndexNone, At, served, Locked, Replacing, Thread, HandleInv, LockInv
<1>6. HandleInv'
  BY <1>1, <1>2, <1>5, PlainMove
<1> QED
  BY <1>4, <1>6

\* A repair goes on against the database it started on.
LEMMA repairIndexPackagesLockedSafe ==
    ASSUME TypeOK, HandleInv, NEW t \in Thread, NEW p \in Pkg,
           repairIndexPackagesLocked(t, p)
    PROVE  TypeOK' /\ HandleInv'
<1>1. t \in Thread \cup Task
  BY DEF Thread
<1>2. Moved(t, IF proc[t].todo = {p} THEN "unlock" ELSE "repair",
              proc[t].todo \ {p}, proc[t].on, proc[t].cold)
  BY repairIndexPackagesLockedMoves
<1>3. proc' \in [Thread \cup Task -> Activity]
  BY <1>1, <1>2, FieldTypes DEF Moved, Activity, PC, TypeOK
<1>4. Refreshed(proc[t].on.file, p) \in [File -> [Pkg -> Int]]
  BY <1>1, FieldTypes, RefreshedFacts DEF HandleInv, LoadedInv, IndexState,
     repairIndexPackagesLocked, At
<1>5. TypeOK'
  BY <1>3, <1>4, IndexAssumption, FailType
     DEF TypeOK, repairIndexPackagesLocked, world, served, history
<1>6. Plain(t, IF proc[t].todo = {p} THEN "unlock" ELSE "repair", proc[t].on)
  BY <1>1, IndexAssumption
     DEF Plain, repairIndexPackagesLocked, At, served, Locked, Replacing, Thread, HandleInv, LockInv
<1>7. HandleInv'
  BY <1>1, <1>2, <1>6, PlainMove
<1> QED
  BY <1>5, <1>7

\* The deferred Unlock leaves no replacement or repair behind.
LEMMA unlockSafe ==
    ASSUME TypeOK, HandleInv, NEW t \in Thread,
           unlock(t)
    PROVE  TypeOK' /\ HandleInv'
<1>1. t \in Thread \cup Task
  BY DEF Thread
<1>2. Moved(t, AfterUnlock(t), {}, None, Idle.cold)
  BY unlockMoves
<1>3. proc' \in [Thread \cup Task -> Activity]
  BY <1>1, <1>2, FieldTypes DEF Moved, Activity, PC, TypeOK, AfterUnlock, Idle
<1>4. TypeOK'
  BY <1>3, IndexAssumption DEF TypeOK, unlock, world, files, served, history
<1>5. Plain(t, AfterUnlock(t), None)
  BY <1>1, IndexAssumption
     DEF Plain, unlock, At, served, Locked, Replacing, Thread, HandleInv, LockInv, AfterUnlock
<1>6. HandleInv'
  BY <1>1, <1>2, <1>5, PlainMove
<1> QED
  BY <1>4, <1>6

\* The indexer cannot be started: no index, and none open.
LEMMA runIndexBuildFailsSafe ==
    ASSUME TypeOK, HandleInv, NEW t \in Thread,
           runIndexBuildFails(t)
    PROVE  TypeOK' /\ HandleInv'
<1>1. t \in Thread \cup Task
  BY DEF Thread
<1>2. Moved(t, "unlock", proc[t].todo, proc[t].on, proc[t].cold)
  BY <1>1, GotoMoves DEF runIndexBuildFails
<1>3. proc' \in [Thread \cup Task -> Activity]
  BY <1>1, <1>2, FieldTypes DEF Moved, Activity, PC, TypeOK
<1>4. TypeOK'
  BY <1>3, IndexAssumption, FailType
     DEF TypeOK, runIndexBuildFails, world, files, served, history
<1>5. Plain(t, "unlock", proc[t].on)
  BY <1>1, IndexAssumption
     DEF Plain, runIndexBuildFails, At, served, Locked, Replacing, Thread, HandleInv, LockInv
<1>6. HandleInv'
  BY <1>1, <1>2, <1>5, PlainMove
<1> QED
  BY <1>4, <1>6

\* The indexer is done; the database is not open yet.
LEMMA indexerExitsSafe ==
    ASSUME TypeOK, HandleInv, NEW t \in Thread,
           indexerExits(t)
    PROVE  TypeOK' /\ HandleInv'
<1>1. t \in Thread \cup Task
  BY DEF Thread
<1>2. Moved(t, "open", proc[t].todo, proc[t].on, proc[t].cold)
  BY <1>1, GotoMoves DEF indexerExits
<1>3. proc' \in [Thread \cup Task -> Activity]
  BY <1>1, <1>2, FieldTypes DEF Moved, Activity, PC, TypeOK
<1>4. TypeOK'
  BY <1>3, IndexAssumption, FailType
     DEF TypeOK, indexerExits, world, files, served, history
<1>5. Plain(t, "open", proc[t].on)
  BY <1>1, IndexAssumption
     DEF Plain, indexerExits, At, served, Locked, Replacing, Thread, HandleInv, LockInv
<1>6. HandleInv'
  BY <1>1, <1>2, <1>5, PlainMove
<1> QED
  BY <1>4, <1>6

\* The same when it ends with an error.
LEMMA indexerCrashesSafe ==
    ASSUME TypeOK, HandleInv, NEW t \in Thread,
           indexerCrashes(t)
    PROVE  TypeOK' /\ HandleInv'
<1>1. t \in Thread \cup Task
  BY DEF Thread
<1>2. Moved(t, "open", proc[t].todo, proc[t].on, proc[t].cold)
  BY <1>1, GotoMoves DEF indexerCrashes
<1>3. proc' \in [Thread \cup Task -> Activity]
  BY <1>1, <1>2, FieldTypes DEF Moved, Activity, PC, TypeOK
<1>4. TypeOK'
  BY <1>3, IndexAssumption, FailType
     DEF TypeOK, indexerCrashes, world, files, served, history
<1>5. Plain(t, "open", proc[t].on)
  BY <1>1, IndexAssumption
     DEF Plain, indexerCrashes, At, served, Locked, Replacing, Thread, HandleInv, LockInv
<1>6. HandleInv'
  BY <1>1, <1>2, <1>5, PlainMove
<1> QED
  BY <1>4, <1>6

\* The database does not open: no index.
LEMMA openIndexAfterBuildFailsSafe ==
    ASSUME TypeOK, HandleInv, NEW t \in Thread,
           openIndexAfterBuildFails(t)
    PROVE  TypeOK' /\ HandleInv'
<1>1. t \in Thread \cup Task
  BY DEF Thread
<1>2. Moved(t, "unlock", proc[t].todo, proc[t].on, proc[t].cold)
  BY <1>1, GotoMoves DEF openIndexAfterBuildFails
<1>3. proc' \in [Thread \cup Task -> Activity]
  BY <1>1, <1>2, FieldTypes DEF Moved, Activity, PC, TypeOK
<1>4. TypeOK'
  BY <1>3, IndexAssumption, FailType
     DEF TypeOK, openIndexAfterBuildFails, world, files, served, history
<1>5. Plain(t, "unlock", proc[t].on)
  BY <1>1, IndexAssumption
     DEF Plain, openIndexAfterBuildFails, At, served, Locked, Replacing, Thread, HandleInv, LockInv
<1>6. HandleInv'
  BY <1>1, <1>2, <1>5, PlainMove
<1> QED
  BY <1>4, <1>6

\* The indexer starts while nothing is open.
LEMMA runIndexBuildSafe ==
    ASSUME TypeOK, HandleInv, NEW t \in Thread,
           runIndexBuild(t)
    PROVE  TypeOK' /\ HandleInv'
<1>1. t \in Thread \cup Task
  BY DEF Thread
<1>2. Moved(t, "index", Pkg, proc[t].on, proc[t].cold)
  BY runIndexBuildMoves
<1>3. proc' \in [Thread \cup Task -> Activity]
  BY <1>1, <1>2, FieldTypes DEF Moved, Activity, PC, TypeOK
<1>4. TypeOK'
  BY <1>3, IndexAssumption
     DEF TypeOK, runIndexBuild, world, served, history, dbPath, File
<1>5. Plain(t, "index", proc[t].on)
  BY <1>1, IndexAssumption
     DEF Plain, runIndexBuild, At, served, Locked, Replacing, Thread, HandleInv, LockInv
<1>6. HandleInv'
  BY <1>1, <1>2, <1>5, PlainMove
<1> QED
  BY <1>4, <1>6

\* The indexer handles one package.
LEMMA indexPackageSafe ==
    ASSUME TypeOK, HandleInv, NEW t \in Thread, NEW p \in Pkg,
           indexPackage(t, p)
    PROVE  TypeOK' /\ HandleInv'
<1>1. t \in Thread \cup Task
  BY DEF Thread
<1>2. Moved(t, "index", proc[t].todo \ {p}, proc[t].on, proc[t].cold)
  BY indexPackageMoves
<1>3. proc' \in [Thread \cup Task -> Activity]
  BY <1>1, <1>2, FieldTypes DEF Moved, Activity, PC, TypeOK
<1>4. Refreshed(dbPath, p) \in [File -> [Pkg -> Int]]
  BY RefreshedFacts, dbPathIsFile
<1>5. TypeOK'
  BY <1>3, <1>4, IndexAssumption, FailType
     DEF TypeOK, indexPackage, world, served, history
<1>6. Plain(t, "index", proc[t].on)
  BY <1>1, IndexAssumption
     DEF Plain, indexPackage, At, served, Locked, Replacing, Thread, HandleInv, LockInv
<1>7. HandleInv'
  BY <1>1, <1>2, <1>6, PlainMove
<1> QED
  BY <1>5, <1>7

----------------------------------------------------------------------------
(* Draining and reindexing.                                                *)

\* drainDirty takes the served indexState, or ends without one.
LEMMA drainDirtyLoadsSafe ==
    ASSUME TypeOK, HandleInv, NEW x \in Thread \cup Task, drainDirtyLoads(x)
    PROVE  TypeOK' /\ HandleInv'
<1>1. CASE idx = None
  <2>1. Moved(x, Finished(x), {}, None, proc[x].cold)
    BY <1>1, RemainingMoves DEF drainDirtyLoads
  <2>2. proc' \in [Thread \cup Task -> Activity]
    BY <2>1, FieldTypes DEF Moved, Activity, Finished, TypeOK
  <2>3. Plain(x, Finished(x), None)
    BY IndexAssumption DEF Plain, drainDirtyLoads, At, served, Finished, Locked,
       Replacing, Thread, HandleInv, LockInv
  <2>4. TypeOK'
    BY <2>2 DEF TypeOK, drainDirtyLoads, world, files, served, history
  <2> QED
    BY <2>1, <2>3, <2>4, PlainMove
<1>2. CASE idx # None
  <2>1. Moved(x, "take", proc[x].todo, idx, proc[x].cold)
    <3>1. proc[x] \in Activity
      BY DEF TypeOK
    <3>2. proc' = [proc EXCEPT ![x] = [proc[x] EXCEPT !.pc = "take", !.on = idx]]
      BY <1>2 DEF drainDirtyLoads
    <3> QED
      BY <3>1, <3>2, UpdPcOn DEF Moved
  <2>2. proc' \in [Thread \cup Task -> Activity]
    BY <2>1, FieldTypes DEF Moved, Activity, TypeOK
  <2>3. Plain(x, "take", idx)
    BY <1>2, IndexAssumption DEF Plain, drainDirtyLoads, At, served, Locked,
       Replacing, Thread, HandleInv, LockInv
  <2>4. TypeOK'
    BY <2>2 DEF TypeOK, drainDirtyLoads, world, files, served, history
  <2> QED
    BY <2>1, <2>3, <2>4, PlainMove
<1> QED
  BY <1>1, <1>2

\* Where Remaining takes a goroutine that has not been registered.
LEMMA RemainingSafe ==
    ASSUME TypeOK, HandleInv, NEW x \in Thread \cup Task, NEW todo \in SUBSET Pkg,
           proc' = [proc EXCEPT ![x] = Remaining(x, todo, "begin")],
           UNCHANGED <<idx, open, handles, mu, wg>>,
           proc[x].pc \in {"take", "begin"}
    PROVE  HandleInv' /\ proc' \in [Thread \cup Task -> Activity]
<1>0. x \in Thread => mu = x
  BY DEF HandleInv, LockInv, Locked
<1>1. CASE todo = {}
  <2>1. Moved(x, Finished(x), {}, None, proc[x].cold)
    BY <1>1, RemainingMoves
  <2>2. proc' \in [Thread \cup Task -> Activity]
    BY <2>1, FieldTypes DEF Moved, Activity, Finished, TypeOK
  <2>3. Plain(x, Finished(x), None)
    BY <1>0, IndexAssumption DEF Plain, Finished, Locked, Replacing, Thread
  <2> QED
    BY <2>1, <2>2, <2>3, PlainMove
<1>2. CASE todo # {}
  <2>1. Moved(x, "begin", todo, proc[x].on, proc[x].cold)
    BY <1>2, RemainingMoves
  <2>2. proc' \in [Thread \cup Task -> Activity]
    BY <2>1, FieldTypes DEF Moved, Activity, TypeOK
  <2>3. Plain(x, "begin", proc[x].on)
    BY <1>0, IndexAssumption
       DEF Plain, Locked, Replacing, Thread, HandleInv, LoadedInv
  <2> QED
    BY <2>1, <2>2, <2>3, PlainMove
<1> QED
  BY <1>1, <1>2

\* drainDirty takes all of dirtyPkgs.
LEMMA takeDirtySafe ==
    ASSUME TypeOK, HandleInv, NEW x \in Thread \cup Task, takeDirty(x)
    PROVE  TypeOK' /\ HandleInv'
<1>1. HandleInv' /\ proc' \in [Thread \cup Task -> Activity]
  BY RemainingSafe DEF TypeOK, takeDirty, served, At
<1>2. TypeOK'
  BY <1>1 DEF TypeOK, takeDirty, world, files, served, history
<1> QED
  BY <1>1, <1>2

\* A package of a database no longer served is dropped.
LEMMA beginReindexDropsSafe ==
    ASSUME TypeOK, HandleInv, NEW x \in Thread \cup Task, NEW p \in Pkg,
           beginReindexDrops(x, p)
    PROVE  TypeOK' /\ HandleInv'
<1>1. proc[x].todo \ {p} \in SUBSET Pkg
  BY FieldTypes
<1>2. HandleInv' /\ proc' \in [Thread \cup Task -> Activity]
  BY <1>1, RemainingSafe DEF beginReindexDrops, served, At
<1>3. TypeOK'
  BY <1>2 DEF TypeOK, beginReindexDrops, world, files, served, history
<1> QED
  BY <1>2, <1>3

\* beginReindex registers a detached goroutine against the served database.
LEMMA beginReindexSafe ==
    ASSUME TypeOK, HandleInv, NEW x \in Thread \cup Task, beginReindex(x)
    PROVE  TypeOK' /\ HandleInv'
<1> USE DEF HandleInv
<1>1. x \in Task /\ proc[x].pc = "begin" /\ mu = None /\ x \notin Thread
  BY IndexAssumption DEF beginReindex, At, LockInv, Locked, Thread
<1>2. Moved(x, "run", proc[x].todo, proc[x].on, proc[x].cold)
  BY GotoMoves DEF beginReindex
<1>3. /\ proc'[x].pc = "run" /\ proc'[x].on = proc[x].on
      /\ \A y \in Thread \cup Task : y # x => proc'[y] = proc[y]
  BY <1>2, MovedFields
<1>4. proc' \in [Thread \cup Task -> Activity]
  BY <1>2, FieldTypes DEF Moved, Activity, PC, TypeOK
<1>5. TypeOK'
  BY <1>4 DEF TypeOK, beginReindex, world, files, served, history
<1>6. UNCHANGED <<idx, open, handles, mu>> /\ idx # None /\ idx.db = proc[x].on.db
  BY DEF beginReindex, served, StillCurrent
<1>7. WGCounts'
  <2>1. Running' = Running \cup {x} /\ x \notin Running
    BY <1>1, <1>3 DEF Running, At
  <2>2. IsFiniteSet(Running)
    BY IndexAssumption, FS_Subset DEF Running
  <2> QED
    BY <2>1, <2>2, FS_AddElement DEF WGCounts, beginReindex
<1>8. LockInv'
  BY <1>1, <1>3, <1>6 DEF LockInv, Thread
<1>9. WarmInv'
  BY <1>1, <1>3, <1>6 DEF WarmInv, Thread
<1>10. LoadedInv'
  BY <1>1, <1>3 DEF LoadedInv
<1>11. NumberedInv'
  BY <1>3, <1>6 DEF NumberedInv
<1>12. ReplacingInv'
  BY <1>1, <1>3, <1>6 DEF ReplacingInv, HandleOf
<1>13. OpenInv'
  BY <1>1, <1>3, <1>6 DEF OpenInv, HandleOf
<1>14. RunInv'
  <2>1. HandleOf(proc[x].on) = HandleOf(idx)
    BY <1>1, <1>6 DEF NumberedInv, LoadedInv, HandleOf
  <2>2. HandleOf(idx) \in open
    BY <1>6 DEF ServedIndexIsOpen, HandleOf
  <2> QED
    BY <1>3, <1>6, <2>1, <2>2 DEF RunInv, HandleOf
<1>15. ServedIndexIsOpen'
  BY <1>6 DEF ServedIndexIsOpen
<1> QED
  BY <1>5, <1>7, <1>8, <1>9, <1>10, <1>11, <1>12, <1>13, <1>14, <1>15

\* reindex ends with the deferred reindexWG.Done.
LEMMA reindexSafe ==
    ASSUME TypeOK, HandleInv, NEW x \in Thread \cup Task, NEW p \in Pkg, reindex(x, p)
    PROVE  TypeOK' /\ HandleInv'
<1> USE DEF HandleInv
<1>1. x \in Task /\ proc[x].pc = "run" /\ x \notin Thread
  BY IndexAssumption DEF reindex, At, LockInv, Thread
<1>2. PICK pc \in {"begin", "idle"}, todo \in SUBSET Pkg, on \in {proc[x].on, None} :
        /\ Moved(x, pc, todo, on, proc[x].cold)
        /\ pc = "begin" => on = proc[x].on
  <2>1. proc[x].todo \ {p} \in SUBSET Pkg /\ Finished(x) = "idle"
    BY <1>1, FieldTypes DEF Finished
  <2> QED
    BY <2>1, RemainingMoves DEF reindex
<1>3. /\ proc'[x].pc = pc /\ proc'[x].on = on
      /\ \A y \in Thread \cup Task : y # x => proc'[y] = proc[y]
  BY <1>2, MovedFields
<1>4. proc' \in [Thread \cup Task -> Activity]
  BY <1>2, FieldTypes DEF Moved, Activity, PC, TypeOK
<1>5. /\ UNCHANGED <<idx, open, handles, mu>> /\ wg' = wg - 1
      /\ UNCHANGED <<exists, fpStale, lockedOut, private, dirty, saver>>
      /\ \/ facts' = Refreshed(proc[x].on.file, p) /\ UNCHANGED <<world, history>>
         \/ UNCHANGED facts /\ Fail /\ failed' = TRUE
  BY DEF reindex, served, ReindexDone
<1>6. WGCounts' /\ wg' \in Nat
  <2>1. Running' = Running \ {x} /\ x \in Running
    BY <1>1, <1>3, <1>2 DEF Running, At
  <2>2. IsFiniteSet(Running)
    BY IndexAssumption, FS_Subset DEF Running
  <2>3. IsFiniteSet(Running \ {x}) /\ Cardinality(Running \ {x}) = Cardinality(Running) - 1
    BY <2>1, <2>2, FS_RemoveElement
  <2>4. Cardinality(Running \ {x}) \in Nat
    BY <2>3, FS_CardinalityType
  <2> QED
    BY <1>5, <2>1, <2>3, <2>4 DEF WGCounts
<1>7. TypeOK'
  <2>1. Refreshed(proc[x].on.file, p) \in [File -> [Pkg -> Int]]
    BY <1>1, FieldTypes, RefreshedFacts DEF LoadedInv, IndexState
  <2>2. /\ disk' \in [Pkg -> Nat] /\ owed' \in Nat
        /\ spent' \in [saves : Nat, external : Nat, failures : Nat, heals : Nat]
        /\ failed' \in BOOLEAN /\ coldSave' \in BOOLEAN
    BY <1>5, FailType DEF TypeOK, world, history
  <2> QED
    BY <1>4, <1>5, <1>6, <2>1, <2>2 DEF TypeOK
<1>8. LockInv'
  BY <1>1, <1>2, <1>3, <1>5 DEF LockInv, Thread
<1>9. WarmInv'
  BY <1>1, <1>3, <1>5 DEF WarmInv, Thread
<1>10. LoadedInv'
  BY <1>1, <1>2, <1>3 DEF LoadedInv
<1>11. NumberedInv'
  BY <1>2, <1>3, <1>5 DEF NumberedInv
<1>12. ReplacingInv'
  BY <1>1, <1>3, <1>5 DEF ReplacingInv, HandleOf
<1>13. OpenInv'
  BY <1>1, <1>3, <1>5 DEF OpenInv, HandleOf
<1>14. RunInv'
  BY <1>2, <1>3, <1>5 DEF RunInv, HandleOf
<1>15. ServedIndexIsOpen'
  BY <1>5 DEF ServedIndexIsOpen
<1> QED
  BY <1>6, <1>7, <1>8, <1>9, <1>10, <1>11, <1>12, <1>13, <1>14, <1>15

----------------------------------------------------------------------------
(* Saves, changes outside the editor and files being opened.               *)

\* A detached goroutine starts with the indexState that is served, or with none.
LEMMA SpawnSafe ==
    ASSUME TypeOK, HandleInv, NEW pc \in {"begin", "load"}, NEW todo \in SUBSET Pkg,
           NEW on \in {idx, None}, pc = "begin" => on # None, Spawn(pc, todo, on),
           UNCHANGED <<idx, open, handles, mu, wg>>
    PROVE  HandleInv' /\ proc' \in [Thread \cup Task -> Activity]
<1>1. PICK x \in Task : At(x, "idle") /\ Moved(x, pc, todo, on, Idle.cold)
  BY SpawnMoves
<1>2. proc' \in [Thread \cup Task -> Activity]
  BY <1>1, IdleFields DEF Moved, Activity, TypeOK
<1>3. Plain(x, pc, on)
  BY <1>1, IndexAssumption DEF Plain, At, Replacing, Thread
<1> QED
  BY <1>1, <1>2, <1>3, PlainMove

\* A save starts a reindex against the served database.
LEMMA handleDidSaveReindexesSafe ==
    ASSUME TypeOK, HandleInv, NEW p \in Pkg, handleDidSaveReindexes(p)
    PROVE  TypeOK' /\ HandleInv'
<1>1. HandleInv' /\ proc' \in [Thread \cup Task -> Activity]
  BY SpawnSafe DEF handleDidSaveReindexes, served
<1>2. TypeOK'
  BY <1>1 DEF TypeOK, handleDidSaveReindexes, world, files, served, history
<1> QED
  BY <1>1, <1>2

\* A save that met no index starts a drain if there is one now.
LEMMA handleDidSaveRereadsSafe ==
    ASSUME TypeOK, HandleInv, NEW p \in Pkg, handleDidSaveRereads(p)
    PROVE  TypeOK' /\ HandleInv'
<1>1. HandleInv' /\ proc' \in [Thread \cup Task -> Activity]
  <2>1. CASE idx # None
    BY <2>1, SpawnSafe DEF handleDidSaveRereads, served
  <2>2. CASE idx = None
    BY <2>2, HandleFrame DEF handleDidSaveRereads, served, TypeOK
  <2> QED
    BY <2>1, <2>2
<1>2. TypeOK'
  BY <1>1 DEF TypeOK, handleDidSaveRereads, world, files, served, history
<1> QED
  BY <1>1, <1>2

\* Opening a stale file starts a reindex of its package.
LEMMA selfHealFactsIfStaleSafe ==
    ASSUME TypeOK, HandleInv, NEW p \in Pkg, selfHealFactsIfStale(p)
    PROVE  TypeOK' /\ HandleInv'
<1>1. HandleInv' /\ proc' \in [Thread \cup Task -> Activity]
  BY SpawnSafe DEF selfHealFactsIfStale, served, Stale
<1>2. TypeOK'
  BY <1>1 DEF TypeOK, selfHealFactsIfStale, files, served, history
<1> QED
  BY <1>1, <1>2

\* The other steps of handleDidSave, a save and a change outside the editor.
LEMMA OutsideSafe ==
    ASSUME TypeOK, HandleInv, NEW p \in Pkg,
           \/ Save(p) \/ handleDidSaveNoIndex(p) \/ markDirty(p) \/ ExternalChange(p)
    PROVE  TypeOK' /\ HandleInv'
<1>1. HandleInv'
  BY HandleFrame DEF Save, handleDidSaveNoIndex, markDirty, ExternalChange, served
<1>2. CASE Save(p)
  BY <1>1, <1>2 DEF TypeOK, Save, files, served, history
<1>3. CASE handleDidSaveNoIndex(p)
  BY <1>1, <1>3 DEF TypeOK, handleDidSaveNoIndex, world, files, served, history
<1>4. CASE markDirty(p)
  BY <1>1, <1>4 DEF TypeOK, markDirty, world, files, served
<1>5. CASE ExternalChange(p)
  BY <1>1, <1>5 DEF TypeOK, ExternalChange, files, served, history
<1> QED
  BY <1>2, <1>3, <1>4, <1>5

\* A reload that fails to load the graph changes no goroutine.
LEMMA revalidateGraphFailsSafe ==
    ASSUME TypeOK, HandleInv, NEW t \in Reloader, revalidateGraphFails(t)
    PROVE  TypeOK' /\ HandleInv'
<1>1. HandleInv'
  BY HandleFrame DEF revalidateGraphFails, served
<1>2. TypeOK'
  BY DEF TypeOK, revalidateGraphFails, files, served
<1> QED
  BY <1>1, <1>2

\* Switching to the private database happens while nothing is open.
LEMMA buildIndexLockedRetriesSafe ==
    ASSUME TypeOK, HandleInv, NEW t \in Thread, buildIndexLockedRetries(t)
    PROVE  TypeOK' /\ HandleInv'
<1>1. HandleInv'
  BY HandleFrame DEF buildIndexLockedRetries, served
<1>2. TypeOK'
  BY DEF TypeOK, buildIndexLockedRetries, world, served, history
<1> QED
  BY <1>1, <1>2

----------------------------------------------------------------------------
(* Opening, refreshing, dropping and closing the index.                    *)

\* A new handle is installed by a goroutine that found nothing open and that
\* no other goroutine is replacing or repairing an index against.
LEMMA InstallSafe ==
    ASSUME TypeOK, HandleInv, NEW x \in Thread, NEW f \in File, NEW seeded \in BOOLEAN,
           NEW pc \in {"lock", "load"}, idx = None, open = {},
           proc[x].pc # "wait",
           \A t \in Thread \ {x} : proc[t].pc \notin Replacing \cup {"repair"},
           pc = "load" => mu = x, UNCHANGED <<mu, wg>>,
           x # Loader => proc[Loader].pc \notin {"warm", "lockBuild"},
           Install(f, seeded), Goto(x, pc)
    PROVE  /\ HandleInv'
           /\ idx' \in IndexState
           /\ open' \subseteq [db : Nat, file : File] /\ handles' \in Nat
           /\ proc' \in [Thread \cup Task -> Activity]
<1> USE DEF HandleInv
<1>1. Moved(x, pc, proc[x].todo, proc[x].on, proc[x].cold)
  BY GotoMoves DEF Thread
<1>2. /\ proc'[x].pc = pc /\ proc'[x].on = proc[x].on
      /\ \A y \in Thread \cup Task : y # x => proc'[y] = proc[y]
  BY <1>1, MovedFields
<1>3. proc' \in [Thread \cup Task -> Activity]
  BY <1>1, FieldTypes DEF Moved, Activity, PC, TypeOK
<1>4. /\ handles' = handles + 1 /\ handles \in Nat
      /\ idx' = [db |-> handles + 1, file |-> f, seeded |-> seeded, refresh |-> 0]
      /\ open' = {HandleOf(idx')}
  BY DEF Install, TypeOK, HandleOf
<1>5. idx' \in IndexState /\ idx'.db = handles + 1
  BY <1>4 DEF IndexState
<1>6. \A t \in Thread : t # None /\ t \notin Task
  BY IndexAssumption DEF Thread
<1>7. WGCounts'
  <2>1. Running' = Running
    BY <1>2, <1>6 DEF Running, At
  <2> QED
    BY <2>1 DEF WGCounts
<1>8. LockInv'
  BY <1>2, <1>6 DEF LockInv, Locked, Thread
<1>9. WarmInv'
  BY <1>2, <1>6 DEF WarmInv, Thread
<1>10. LoadedInv'
  BY <1>2 DEF LoadedInv
<1>11. NumberedInv'
  <2>1. ASSUME NEW y \in Thread \cup Task, proc[y].on # None
        PROVE  proc[y].on.db \in Nat /\ proc[y].on.db <= handles
    BY <2>1, FieldTypes DEF NumberedInv, IndexState
  <2> QED
    BY <1>2, <1>4, <1>5, <2>1 DEF NumberedInv
<1>12. ReplacingInv'
  BY <1>2 DEF ReplacingInv, Replacing
<1>13. OpenInv'
  BY <1>4, <1>5, NoneAssumption DEF OpenInv, HandleOf
<1>14. RunInv'
  BY <1>2, <1>6 DEF RunInv, HandleOf
<1>15. ServedIndexIsOpen'
  BY <1>4 DEF ServedIndexIsOpen, HandleOf
<1>16. open' \subseteq [db : Nat, file : File] /\ handles' \in Nat
  BY <1>4 DEF HandleOf
<1> QED
  BY <1>3, <1>5, <1>7, <1>8, <1>9, <1>10, <1>11, <1>12, <1>13, <1>14, <1>15, <1>16

\* The three ways tryWarmOpen installs an index.
LEMMA WarmOpenSafe ==
    ASSUME TypeOK, HandleInv,
           tryWarmOpen \/ cloneLockedSharedIndex \/ trySeedFromSibling
    PROVE  TypeOK' /\ HandleInv'
<1>1. /\ Loader \in Thread /\ proc[Loader].pc = "warm"
      /\ Thread \ {Loader} \subseteq Reloader
  BY DEF tryWarmOpen, cloneLockedSharedIndex, trySeedFromSibling, At, Thread
<1>2. /\ idx = None /\ open = {}
      /\ \A t \in Thread \ {Loader} : proc[t].pc \notin Replacing \cup {"repair"}
  BY <1>1 DEF HandleInv, WarmInv
<1>3. PICK f \in File, seeded \in BOOLEAN : Install(f, seeded) /\ Goto(Loader, "lock")
  BY DEF tryWarmOpen, cloneLockedSharedIndex, trySeedFromSibling, File
<1>4. UNCHANGED <<mu, wg, disk, owed, spent, dirty, saver, failed, coldSave>>
  BY DEF tryWarmOpen, cloneLockedSharedIndex, trySeedFromSibling, world, history
<1>5. /\ HandleInv' /\ idx' \in IndexState
      /\ open' \subseteq [db : Nat, file : File] /\ handles' \in Nat
      /\ proc' \in [Thread \cup Task -> Activity]
  BY <1>1, <1>2, <1>3, <1>4, InstallSafe
<1>6. /\ exists' \subseteq File /\ facts' \in [File -> [Pkg -> Int]]
      /\ fpStale' \subseteq File /\ lockedOut' \in BOOLEAN /\ private' \in BOOLEAN
  <2>1. CASE tryWarmOpen
    BY <2>1 DEF TypeOK, tryWarmOpen, files
  <2>2. CASE cloneLockedSharedIndex
    BY <2>2 DEF TypeOK, cloneLockedSharedIndex, File
  <2>3. CASE trySeedFromSibling
    BY <2>3 DEF TypeOK, trySeedFromSibling, File
  <2> QED
    BY <2>1, <2>2, <2>3
<1> QED
  BY <1>4, <1>5, <1>6 DEF TypeOK

\* The rebuilt database is the only handle.
LEMMA openIndexAfterBuildSafe ==
    ASSUME TypeOK, HandleInv, NEW t \in Thread, openIndexAfterBuild(t)
    PROVE  TypeOK' /\ HandleInv'
<1>1. proc[t].pc = "open" /\ mu = t /\ idx = None /\ open = {}
  BY DEF openIndexAfterBuild, At, HandleInv, LockInv, Locked, ReplacingInv, Replacing
<1>2. \A u \in Thread \ {t} : proc[u].pc \notin Replacing \cup {"repair"}
  BY <1>1 DEF HandleInv, LockInv, Locked, Replacing
<1>3. t # Loader => proc[Loader].pc \notin {"warm", "lockBuild"}
  BY <1>1 DEF HandleInv, WarmInv, Thread, Replacing
<1>4. /\ dbPath \in File /\ Install(dbPath, FALSE) /\ Goto(t, "load")
      /\ UNCHANGED <<mu, wg>>
  BY dbPathIsFile DEF openIndexAfterBuild
<1>5. /\ HandleInv' /\ idx' \in IndexState
      /\ open' \subseteq [db : Nat, file : File] /\ handles' \in Nat
      /\ proc' \in [Thread \cup Task -> Activity]
  BY <1>1, <1>2, <1>3, <1>4, InstallSafe
<1> QED
  BY <1>5 DEF TypeOK, openIndexAfterBuild, world, files, history

\* buildIndex starts where nothing is open.
LEMMA buildIndexSafe ==
    ASSUME TypeOK, HandleInv, buildIndex
    PROVE  TypeOK' /\ HandleInv'
<1> USE DEF HandleInv
<1>1. /\ Loader \in Thread /\ proc[Loader].pc = "lockBuild" /\ mu = None
      /\ idx = None /\ open = {} /\ mu' = Loader
      /\ UNCHANGED <<idx, open, handles, wg>>
  BY DEF buildIndex, At, WarmInv, Thread, served
<1>2. /\ proc'[Loader].pc = "spawn" /\ proc'[Loader].on = proc[Loader].on
      /\ \A y \in Thread \cup Task : y # Loader => proc'[y] = proc[y]
      /\ proc' \in [Thread \cup Task -> Activity]
  BY buildIndexMoves
<1>3. \A t \in Thread : t # None /\ t \notin Task
  BY IndexAssumption DEF Thread
<1>4. TypeOK'
  BY <1>1, <1>2 DEF TypeOK, buildIndex, world, files, history
<1>5. WGCounts'
  <2>1. Running' = Running
    BY <1>1, <1>2, <1>3 DEF Running, At
  <2> QED
    BY <1>1, <2>1 DEF WGCounts
<1>6. \A t \in Thread \ {Loader} : proc[t].pc \notin Locked
  BY <1>1, <1>3 DEF LockInv
<1>7. LockInv'
  BY <1>1, <1>2, <1>3, <1>6 DEF LockInv, Thread
<1>8. WarmInv'
  BY <1>2 DEF WarmInv
<1>9. LoadedInv' /\ NumberedInv'
  BY <1>1, <1>2 DEF LoadedInv, NumberedInv
<1>10. ReplacingInv'
  BY <1>1, <1>2, <1>6 DEF ReplacingInv, Replacing, Locked
<1>11. OpenInv' /\ RunInv' /\ ServedIndexIsOpen'
  BY <1>1, <1>2, <1>3 DEF OpenInv, RunInv, ServedIndexIsOpen, HandleOf
<1> QED
  BY <1>4, <1>5, <1>7, <1>8, <1>9, <1>10, <1>11

\* The compare-and-swap installs nothing but the served database again.
LEMMA SwapServesSame ==
    ASSUME TypeOK, NEW t \in Reloader, refreshIndexResolverSwaps(t)
    PROVE  /\ idx' \in IndexState \cup {None}
           /\ idx' = None <=> idx = None
           /\ idx # None => idx'.db = idx.db /\ idx'.file = idx.file
<1>1. CASE refreshInstalls(t)
  <2>1. /\ idx # None /\ idx \in IndexState
        /\ idx' = [idx EXCEPT !.seeded = FALSE, !.refresh = @ + 1]
    BY <1>1 DEF refreshIndexResolverSwaps, refreshInstalls, TypeOK
  <2> DEFINE s == [idx EXCEPT !.seeded = FALSE]
  <2>3. s \in IndexState /\ s.db = idx.db /\ s.file = idx.file
    BY <2>1 DEF IndexState
  <2>4. idx' = [s EXCEPT !.refresh = s.refresh + 1]
    BY <2>1
  <2> HIDE DEF s
  <2>2. idx' \in IndexState /\ idx'.db = idx.db /\ idx'.file = idx.file
    BY <2>3, <2>4 DEF IndexState
  <2> QED
    BY <2>1, <2>2, NoneAssumption
<1>2. CASE ~refreshInstalls(t)
  BY <1>2 DEF refreshIndexResolverSwaps, TypeOK
<1> QED
  BY <1>1, <1>2

\* The swap changes neither what is open nor who may use it.
LEMMA refreshIndexResolverSwapsSafe ==
    ASSUME TypeOK, HandleInv, NEW t \in Reloader, refreshIndexResolverSwaps(t)
    PROVE  TypeOK' /\ HandleInv'
<1> USE DEF HandleInv
<1>1. /\ t \in Thread /\ proc[t].pc = "cas"
      /\ UNCHANGED <<open, handles, mu, wg>>
  BY DEF refreshIndexResolverSwaps, At, Thread
<1>2. Moved(t, "lock", proc[t].todo, None, proc[t].cold)
  BY refreshIndexResolverSwapsMoves
<1>3. /\ proc'[t].pc = "lock" /\ proc'[t].on = None
      /\ \A y \in Thread \cup Task : y # t => proc'[y] = proc[y]
  BY <1>1, <1>2, MovedFields
<1>4. proc' \in [Thread \cup Task -> Activity]
  BY <1>1, <1>2, FieldTypes DEF Moved, Activity, PC, TypeOK
<1>5. /\ idx' \in IndexState \cup {None}
      /\ idx' = None <=> idx = None
      /\ idx # None => idx'.db = idx.db /\ idx'.file = idx.file
  BY SwapServesSame
<1>6. TypeOK'
  BY <1>1, <1>4, <1>5 DEF TypeOK, refreshIndexResolverSwaps, world, files, history
<1>7. WGCounts'
  <2>1. Running' = Running
    BY <1>1, <1>3 DEF Running, At
  <2> QED
    BY <1>1, <2>1 DEF WGCounts
<1>8. LockInv'
  BY <1>1, <1>3, IndexAssumption DEF LockInv, Thread, Locked
<1>9. WarmInv'
  BY <1>1, <1>3, <1>5, IndexAssumption DEF WarmInv, Thread, Replacing
<1>10. LoadedInv'
  BY <1>3 DEF LoadedInv
<1>11. NumberedInv'
  BY <1>1, <1>3, <1>5 DEF NumberedInv
<1>12. ReplacingInv'
  <2>1. idx # None => HandleOf(idx') = HandleOf(idx)
    BY <1>5 DEF HandleOf
  <2>2. ASSUME NEW u \in Thread
        PROVE  /\ proc'[u].pc \in Replacing => idx' = None
               /\ proc'[u].pc \in Replacing \ {"wait"} => open = {}
               /\ proc'[u].pc = "wait" => open \subseteq {HandleOf(proc'[u].on)}
               /\ proc'[u].pc = "repair" =>
                     idx' # None /\ HandleOf(idx') = HandleOf(proc'[u].on)
    BY <1>3, <1>5, <2>1 DEF ReplacingInv, Replacing
  <2> QED
    BY <1>1, <2>2 DEF ReplacingInv, HandleOf
<1>13. OpenInv'
  BY <1>1, <1>3, <1>5 DEF OpenInv, HandleOf
<1>14. RunInv'
  BY <1>1, <1>3 DEF RunInv, HandleOf
<1>15. ServedIndexIsOpen'
  BY <1>1, <1>5 DEF ServedIndexIsOpen
<1> QED
  BY <1>6, <1>7, <1>8, <1>9, <1>10, <1>11, <1>12, <1>13, <1>14, <1>15

\* What is stale is a set of packages, and there is some only in an index.
LEMMA StaleFacts ==
    /\ Stale \in SUBSET Pkg
    /\ Action # "none" => idx # None
BY DEF Stale, Action, wholeDBStale

\* A repair starts on the served database.
LEMMA revalidateIndexRepairsSafe ==
    ASSUME TypeOK, HandleInv, NEW t \in Thread, revalidateIndexRepairs(t)
    PROVE  TypeOK' /\ HandleInv'
<1> USE DEF HandleInv
<1>1. /\ proc[t].pc = "decide" /\ mu = t /\ idx # None
      /\ UNCHANGED <<idx, open, handles, mu, wg>>
  BY StaleFacts DEF revalidateIndexRepairs, At, LockInv, Locked, served
<1>2. Moved(t, "repair", Stale, idx, proc[t].cold)
  BY revalidateIndexRepairsMoves
<1>3. /\ proc'[t].pc = "repair" /\ proc'[t].on = idx
      /\ \A y \in Thread \cup Task : y # t => proc'[y] = proc[y]
  BY <1>2, MovedFields
<1>4. proc' \in [Thread \cup Task -> Activity]
  BY <1>2, StaleFacts, FieldTypes DEF Moved, Activity, PC, TypeOK
<1>5. TypeOK'
  BY <1>1, <1>4 DEF TypeOK, revalidateIndexRepairs, world, files, history
<1>6. \A u \in Thread : u # None /\ u \notin Task
  BY IndexAssumption DEF Thread
<1>7. WGCounts'
  <2>1. Running' = Running
    BY <1>3, <1>6 DEF Running, At
  <2> QED
    BY <1>1, <2>1 DEF WGCounts
<1>8. LockInv'
  BY <1>1, <1>3, <1>6 DEF LockInv, Thread, Locked
<1>9. WarmInv'
  BY <1>1, <1>3 DEF WarmInv, Thread
<1>10. LoadedInv' /\ NumberedInv'
  BY <1>1, <1>3 DEF LoadedInv, NumberedInv
<1>11. ReplacingInv'
  BY <1>1, <1>3 DEF ReplacingInv, Replacing, HandleOf
<1>12. OpenInv' /\ ServedIndexIsOpen'
  BY <1>1, <1>3 DEF OpenInv, ServedIndexIsOpen, HandleOf
<1>13. RunInv'
  BY <1>1, <1>3, <1>6 DEF RunInv, HandleOf
<1> QED
  BY <1>5, <1>7, <1>8, <1>9, <1>10, <1>11, <1>12, <1>13

\* The dropped index is the only one open.
LEMMA revalidateIndexDropsIndexSafe ==
    ASSUME TypeOK, HandleInv, NEW t \in Thread, revalidateIndexDropsIndex(t)
    PROVE  TypeOK' /\ HandleInv'
<1> USE DEF HandleInv
<1>1. /\ proc[t].pc = "decide" /\ mu = t /\ idx # None /\ idx' = None
      /\ UNCHANGED <<open, handles, mu, wg>>
  BY StaleFacts DEF revalidateIndexDropsIndex, At, LockInv, Locked
<1>2. Moved(t, "wait", proc[t].todo, idx, proc[t].cold)
  BY revalidateIndexDropsIndexMoves
<1>3. /\ proc'[t].pc = "wait" /\ proc'[t].on = idx
      /\ \A y \in Thread \cup Task : y # t => proc'[y] = proc[y]
  BY <1>2, MovedFields
<1>4. proc' \in [Thread \cup Task -> Activity]
  BY <1>2, FieldTypes DEF Moved, Activity, PC, TypeOK
<1>5. TypeOK'
  BY <1>1, <1>4 DEF TypeOK, revalidateIndexDropsIndex, world, files, history
<1>6. \A u \in Thread : u # None /\ u \notin Task
  BY IndexAssumption DEF Thread
<1>7. \A u \in Thread \ {t} : proc[u].pc \notin Locked
  BY <1>1 DEF LockInv
<1>8. \A h \in open : h = HandleOf(idx)
  BY <1>1, <1>7 DEF OpenInv, Locked
<1>9. WGCounts'
  <2>1. Running' = Running
    BY <1>3, <1>6 DEF Running, At
  <2> QED
    BY <1>1, <2>1 DEF WGCounts
<1>10. LockInv'
  BY <1>1, <1>3, <1>6 DEF LockInv, Thread, Locked
<1>11. WarmInv'
  BY <1>1, <1>3 DEF WarmInv, Thread
<1>12. LoadedInv' /\ NumberedInv'
  BY <1>1, <1>3 DEF LoadedInv, NumberedInv
<1>13. ReplacingInv'
  BY <1>1, <1>3, <1>7, <1>8 DEF ReplacingInv, Replacing, Locked, HandleOf
<1>14. OpenInv' /\ ServedIndexIsOpen'
  BY <1>1, <1>3, <1>8 DEF OpenInv, ServedIndexIsOpen, HandleOf
<1>15. RunInv'
  BY <1>1, <1>3, <1>6 DEF RunInv, HandleOf
<1> QED
  BY <1>5, <1>9, <1>10, <1>11, <1>12, <1>13, <1>14, <1>15

\* Close comes after Wait: no reindex is registered any more.
LEMMA revalidateIndexClosesSafe ==
    ASSUME TypeOK, HandleInv, NEW t \in Thread, revalidateIndexCloses(t)
    PROVE  TypeOK' /\ HandleInv'
<1> USE DEF HandleInv
<1>1. /\ proc[t].pc = "wait" /\ mu = t /\ idx = None /\ wg = 0
      /\ open \subseteq {HandleOf(proc[t].on)}
      /\ UNCHANGED <<idx, handles, mu, wg>>
  BY DEF revalidateIndexCloses, At, LockInv, Locked, ReplacingInv, Replacing,
         reindexWGIsZero
<1>2. open' = {}
  BY <1>1 DEF revalidateIndexCloses, ClosedAfterWait, HandleOf
<1>3. Running = {}
  <2>1. IsFiniteSet(Running)
    BY IndexAssumption, FS_Subset DEF Running
  <2> QED
    BY <1>1, <2>1, FS_EmptySet DEF WGCounts
<1>4. Moved(t, "spawn", proc[t].todo, None, proc[t].cold)
  BY revalidateIndexClosesMoves
<1>5. /\ proc'[t].pc = "spawn" /\ proc'[t].on = None
      /\ \A y \in Thread \cup Task : y # t => proc'[y] = proc[y]
  BY <1>4, MovedFields
<1>6. proc' \in [Thread \cup Task -> Activity]
  BY <1>4, FieldTypes DEF Moved, Activity, PC, TypeOK
<1>7. TypeOK'
  BY <1>1, <1>2, <1>6 DEF TypeOK, revalidateIndexCloses, world, files, history
<1>8. \A u \in Thread : u # None /\ u \notin Task
  BY IndexAssumption DEF Thread
<1>9. \A u \in Thread \ {t} : proc[u].pc \notin Locked
  BY <1>1 DEF LockInv
<1>10. WGCounts' /\ RunInv'
  <2>1. Running' = Running
    BY <1>5, <1>8 DEF Running, At
  <2>2. WGCounts'
    BY <1>1, <2>1 DEF WGCounts
  <2>3. RunInv'
    BY <1>3, <2>1 DEF RunInv, Running, At
  <2> QED
    BY <2>2, <2>3
<1>11. LockInv'
  BY <1>1, <1>5, <1>8 DEF LockInv, Thread, Locked
<1>12. WarmInv'
  BY <1>1, <1>5, <1>8, <1>9 DEF WarmInv, Thread, Replacing, Locked
<1>13. LoadedInv' /\ NumberedInv'
  BY <1>1, <1>5 DEF LoadedInv, NumberedInv
<1>14. ReplacingInv'
  BY <1>1, <1>2, <1>5, <1>9 DEF ReplacingInv, Replacing, Locked, HandleOf
<1>15. OpenInv' /\ ServedIndexIsOpen'
  BY <1>1, <1>2 DEF OpenInv, ServedIndexIsOpen, HandleOf
<1> QED
  BY <1>7, <1>10, <1>11, <1>12, <1>13, <1>14, <1>15

----------------------------------------------------------------------------
(* The invariant holds throughout.                                         *)

\* Before anything is opened the invariant holds.
LEMMA SafeInit == Init => TypeOK /\ HandleInv
<1> SUFFICES ASSUME Init PROVE TypeOK /\ HandleInv
  OBVIOUS
<1>1. proc \in [Thread \cup Task -> Activity]
  <2>1. [Idle EXCEPT !.pc = "warm"] \in Activity
    BY IdleFields DEF Activity
  <2> QED
    BY <2>1, IdleFields DEF Init
<1>2. \A x \in Thread \cup Task :
        /\ proc[x].pc = IF x = Loader THEN "warm" ELSE "idle"
        /\ proc[x].on = None
  BY IdleFields DEF Init, Activity
<1>3. Loader \in Thread /\ Loader \notin Task /\ Loader \notin Reloader
      /\ Reloader \subseteq Thread
  BY IndexAssumption DEF Thread
<1>4. facts \in [File -> [Pkg -> Int]]
  BY DEF Init
<1>5. exists \subseteq File /\ fpStale \subseteq File
  BY DEF Init, File
<1>6. TypeOK
  <2>1. /\ disk \in [Pkg -> Nat] /\ owed \in Nat
        /\ saver \in [Pkg -> {"idle", "load", "mark", "reload"}]
    BY DEF Init
  <2>2. spent \in [saves : Nat, external : Nat, failures : Nat, heals : Nat]
    BY DEF Init
  <2>3. /\ lockedOut \in BOOLEAN /\ private \in BOOLEAN /\ idx \in IndexState \cup {None}
        /\ open \subseteq [db : Nat, file : File] /\ handles \in Nat
        /\ mu \in Thread \cup {None} /\ wg \in Nat /\ dirty \subseteq Pkg
        /\ failed \in BOOLEAN /\ coldSave \in BOOLEAN
    BY DEF Init
  <2> QED
    BY <1>1, <1>4, <1>5, <2>1, <2>2, <2>3 DEF TypeOK
<1>7. WGCounts
  <2>1. Running = {}
    BY <1>2, <1>3 DEF Running, At
  <2> QED
    BY <2>1, FS_EmptySet DEF WGCounts, Init
<1>8. LockInv
  BY <1>2, <1>3 DEF LockInv, Locked, Thread
<1>9. idx = None /\ open = {}
  BY DEF Init
<1>10. WarmInv
  BY <1>2, <1>3, <1>9 DEF WarmInv, Replacing
<1>11. LoadedInv /\ NumberedInv
  BY <1>2, <1>9 DEF LoadedInv, NumberedInv
<1>12. ReplacingInv
  BY <1>2, <1>9 DEF ReplacingInv, Replacing
<1>13. OpenInv /\ RunInv /\ ServedIndexIsOpen
  BY <1>2, <1>3, <1>9 DEF OpenInv, RunInv, ServedIndexIsOpen
<1> QED
  BY <1>6, <1>7, <1>8, <1>10, <1>11, <1>12, <1>13 DEF HandleInv

\* Every step keeps it.
LEMMA SafeNext == TypeOK /\ HandleInv /\ [Next]_vars => TypeOK' /\ HandleInv'
<1> SUFFICES ASSUME TypeOK, HandleInv, [Next]_vars PROVE TypeOK' /\ HandleInv'
  OBVIOUS
<1>1. CASE Open
  BY <1>1, WarmOpenSafe, tryWarmOpenFailsSafe, buildIndexSafe DEF Open
<1>2. ASSUME NEW t \in Reloader, Reload(t) PROVE TypeOK' /\ HandleInv'
  BY <1>2, revalidateGraphSafe, revalidateGraphFailsSafe, revalidateWorkspaceSafe,
     refreshIndexResolverLoadsSafe, refreshIndexResolverSwapsSafe DEF Reload
<1>3. ASSUME NEW t \in Thread, Revalidate(t) PROVE TypeOK' /\ HandleInv'
  BY <1>3, revalidateIndexLocksSafe, revalidateIndexNoneSafe,
     revalidateIndexRepairsSafe, revalidateIndexDropsIndexSafe,
     revalidateIndexClosesSafe, unlockSafe, repairIndexPackagesLockedSafe
     DEF Revalidate
<1>4. ASSUME NEW t \in Thread, Build(t) PROVE TypeOK' /\ HandleInv'
  BY <1>4, runIndexBuildFailsSafe, buildIndexLockedRetriesSafe, runIndexBuildSafe,
     indexPackageSafe, indexerExitsSafe, indexerCrashesSafe,
     openIndexAfterBuildSafe, openIndexAfterBuildFailsSafe DEF Build
<1>5. ASSUME NEW x \in Thread \cup Task, Reindex(x) PROVE TypeOK' /\ HandleInv'
  BY <1>5, drainDirtyLoadsSafe, takeDirtySafe, beginReindexSafe,
     beginReindexDropsSafe, reindexSafe DEF Reindex
<1>6. ASSUME NEW p \in Pkg,
             \/ Save(p) \/ handleDidSave(p) \/ selfHealFactsIfStale(p)
             \/ ExternalChange(p)
      PROVE  TypeOK' /\ HandleInv'
  BY <1>6, OutsideSafe, handleDidSaveReindexesSafe, handleDidSaveRereadsSafe,
     selfHealFactsIfStaleSafe DEF handleDidSave
<1>7. CASE UNCHANGED vars
  BY <1>7, HandleFrame DEF vars, TypeOK
<1> QED
  BY <1>1, <1>2, <1>3, <1>4, <1>5, <1>6, <1>7 DEF Next

\* Handles, idxMu and reindexWG agree in every reachable state.
THEOREM IndexSafe == Spec => [](TypeOK /\ HandleInv)
BY SafeInit, SafeNext, PTL DEF Spec

\* Every reachable state is well typed: in particular reindexWG never goes
\* below zero, because it counts the goroutines between beginReindex and Done.
THEOREM TypeCorrect == Spec => []TypeOK
BY IndexSafe, PTL

\* Queries never reach a database that revalidateIndex has closed.
THEOREM ServedIndexIsOpenHolds == Spec => []ServedIndexIsOpen
<1>1. TypeOK /\ HandleInv => ServedIndexIsOpen
  BY DEF HandleInv
<1> QED
  BY <1>1, IndexSafe, PTL

\* No reindex and no repair writes to a closed database.
THEOREM ReindexHoldsOpenDBHolds == Spec => []ReindexHoldsOpenDB
<1>1. TypeOK /\ HandleInv => ReindexHoldsOpenDB
  <2> SUFFICES ASSUME HandleInv, NEW x \in Thread \cup Task,
                      proc[x].pc \in {"run", "repair"}
               PROVE  HandleOf(proc[x].on) \in open
    BY DEF ReindexHoldsOpenDB, HandleOf
  <2>1. CASE x \in Task
    BY <2>1 DEF HandleInv, LockInv, RunInv
  <2>2. CASE x \in Thread
    <3>1. idx # None /\ HandleOf(idx) = HandleOf(proc[x].on)
      BY <2>2 DEF HandleInv, LockInv, ReplacingInv
    <3> QED
      BY <3>1 DEF HandleInv, ServedIndexIsOpen, HandleOf
  <2> QED
    BY <2>1, <2>2
<1> QED
  BY <1>1, IndexSafe, PTL

\* While an indexer subprocess builds a database file nobody here has a handle
\* on that file, and there is one such subprocess.
THEOREM OneOwnerPerFileHolds == Spec => []OneOwnerPerFile
<1>1. TypeOK /\ HandleInv => OneOwnerPerFile
  BY DEF HandleInv, OneOwnerPerFile, At, ReplacingInv, Replacing, LockInv, Locked
<1> QED
  BY <1>1, IndexSafe, PTL

----------------------------------------------------------------------------
(* Stale packages stay covered.                                            *)

\* A thread that has yet to decide what is stale.
Undecided == {"refresh", "cas", "lock", "decide"}

\* Covered in terms of what a step changes.
CoverKept ==
    /\ owed > 0 => owed' > 0
    /\ \A p \in Pkg : saver[p] \in {"load", "mark"} => saver'[p] \in {"load", "mark"}
    /\ \A t \in Thread : proc[t].pc \in Undecided => proc'[t].pc \in Undecided
    /\ proc[Loader].pc \in {"warm", "lockBuild"} =>
          proc'[Loader].pc \in {"warm", "lockBuild"}
    /\ proc[Loader].cold => proc'[Loader].cold

\* A package stays covered in such a step.
LEMMA CoveredKept ==
    ASSUME CoverKept
    PROVE  \A p \in Pkg : Covered(p) => Covered(p)'
BY DEF CoverKept, Covered, Undecided, Thread

(***************************************************************************)
(* A step of goroutine x that changes no file, no version and no s.idx,    *)
(* and gives up no package it still has to do.                             *)
(***************************************************************************)
KeepsWork(x, pc, todo, on, cold) ==
    /\ UNCHANGED <<disk, owed, facts, private, idx, failed, coldSave>>
    /\ \A p \in Pkg : saver[p] \in {"load", "mark"} => saver'[p] \in {"load", "mark"}
    /\ x \in Thread /\ proc[x].pc \in Undecided => pc \in Undecided
    /\ x = Loader /\ proc[x].pc \in {"warm", "lockBuild"} =>
          pc \in {"warm", "lockBuild"}
    /\ x = Loader /\ proc[x].cold => cold
    /\ x \in Thread => proc[x].pc # "repair"
    /\ x \in Thread /\ proc[x].pc \in Replacing => proc[x].pc = "wait" /\ pc = "spawn"
    /\ x \in Task /\ proc[x].pc \in {"begin", "run"} /\ idx # None
          /\ proc[x].on.db = idx.db =>
              pc \in {"begin", "run"} /\ todo = proc[x].todo /\ on = proc[x].on

\* Such a step keeps every stale package covered.
LEMMA WorkCovered ==
    ASSUME TypeOK, CoverInv, NEW x \in Thread \cup Task,
           NEW pc, NEW todo, NEW on, NEW cold,
           Moved(x, pc, todo, on, cold), KeepsWork(x, pc, todo, on, cold)
    PROVE  CoverInv'
<1> SUFFICES ASSUME ~failed, ~coldSave PROVE ServedCovered' /\ BuiltCovered'
  BY DEF CoverInv, KeepsWork
<1>1. /\ proc'[x].pc = pc /\ proc'[x].todo = todo
      /\ proc'[x].on = on /\ proc'[x].cold = cold
      /\ \A y \in Thread \cup Task : y # x => proc'[y] = proc[y]
  BY MovedFields
<1>2. CoverKept
  BY <1>1 DEF CoverKept, KeepsWork, Thread
<1>3. \A p \in Pkg : Covered(p) => Covered(p)'
  BY <1>2, CoveredKept
<1>4. ServedCovered /\ BuiltCovered
  BY DEF CoverInv
<1>5. ServedCovered'
  <2> SUFFICES ASSUME idx # None, NEW p \in Pkg, facts[idx.file][p] # disk[p],
                      ~Covered(p)
               PROVE  \/ \E y \in Task : /\ proc'[y].pc \in {"begin", "run"}
                                         /\ p \in proc'[y].todo
                                         /\ proc'[y].on.db = idx.db
                      \/ \E t \in Thread : proc'[t].pc = "repair" /\ p \in proc'[t].todo
    BY <1>3 DEF ServedCovered, KeepsWork
  <2>1. \/ \E y \in Task : /\ proc[y].pc \in {"begin", "run"}
                           /\ p \in proc[y].todo
                           /\ proc[y].on.db = idx.db
        \/ \E t \in Thread : proc[t].pc = "repair" /\ p \in proc[t].todo
    BY <1>4 DEF ServedCovered
  <2> QED
    BY <1>1, <2>1 DEF KeepsWork
<1>6. BuiltCovered'
  <2> SUFFICES ASSUME idx = None, proc'[Loader].pc \notin {"warm", "lockBuild"}
               PROVE  \E t \in Thread :
                        /\ proc'[t].pc \in Replacing
                        /\ proc'[t].pc \in {"index", "open"} =>
                             \A p \in Pkg : \/ p \in proc'[t].todo /\ proc'[t].pc = "index"
                                            \/ facts[dbPath][p] = disk[p]
                                            \/ Covered(p)'
    BY DEF BuiltCovered, KeepsWork, dbPath
  <2>1. PICK t \in Thread :
          /\ proc[t].pc \in Replacing
          /\ proc[t].pc \in {"index", "open"} =>
               \A p \in Pkg : \/ p \in proc[t].todo /\ proc[t].pc = "index"
                              \/ facts[dbPath][p] = disk[p]
                              \/ Covered(p)
    BY <1>2, <1>4 DEF BuiltCovered, CoverKept
  <2>2. CASE t = x
    BY <1>1, <2>1, <2>2 DEF KeepsWork, Replacing
  <2>3. CASE t # x
    BY <1>1, <1>3, <2>1, <2>3
  <2> QED
    BY <2>2, <2>3
<1> QED
  BY <1>5, <1>6

\* The steps that only move a goroutine.
LEMMA PlainCovered ==
    ASSUME TypeOK, HandleInv, CoverInv,
           \/ \E t \in Reloader : refreshIndexResolverLoads(t)
           \/ \E t \in Thread : revalidateIndexLocks(t) \/ revalidateIndexCloses(t)
           \/ \E x \in Thread \cup Task : drainDirtyLoads(x) \/ takeDirty(x)
                                          \/ beginReindex(x)
           \/ \E x \in Thread \cup Task, p \in Pkg : beginReindexDrops(x, p)
    PROVE  CoverInv'
<1>0. \A x \in Thread \cup Task : x \in Thread => x \notin Task
  BY IndexAssumption DEF Thread
<1> USE DEF KeepsWork, At, world, files, served, history, Undecided, Replacing
<1>1. ASSUME NEW t \in Reloader, refreshIndexResolverLoads(t) PROVE CoverInv'
  <2>1. Moved(t, "cas", proc[t].todo, idx, proc[t].cold) /\ t \in Thread \cup Task
    BY <1>1, refreshIndexResolverLoadsMoves DEF Thread
  <2>2. KeepsWork(t, "cas", proc[t].todo, idx, proc[t].cold)
    BY <1>0, <1>1, <2>1 DEF refreshIndexResolverLoads, Thread
  <2> QED
    BY <2>1, <2>2, WorkCovered
<1>2. ASSUME NEW t \in Thread, revalidateIndexLocks(t) PROVE CoverInv'
  <2>1. Moved(t, "decide", proc[t].todo, proc[t].on, proc[t].cold)
    BY <1>2, GotoMoves DEF revalidateIndexLocks
  <2>2. KeepsWork(t, "decide", proc[t].todo, proc[t].on, proc[t].cold)
    BY <1>0, <1>2, <2>1 DEF revalidateIndexLocks
  <2> QED
    BY <2>1, <2>2, WorkCovered
<1>3. ASSUME NEW t \in Thread, revalidateIndexCloses(t) PROVE CoverInv'
  <2>1. Moved(t, "spawn", proc[t].todo, None, proc[t].cold)
    BY <1>3, revalidateIndexClosesMoves
  <2>2. KeepsWork(t, "spawn", proc[t].todo, None, proc[t].cold)
    BY <1>0, <1>3, <2>1 DEF revalidateIndexCloses
  <2> QED
    BY <2>1, <2>2, WorkCovered
<1>4. ASSUME NEW x \in Thread \cup Task, drainDirtyLoads(x) PROVE CoverInv'
  <2>1. CASE idx = None
    <3>1. Moved(x, Finished(x), {}, None, proc[x].cold)
      BY <1>4, <2>1, RemainingMoves DEF drainDirtyLoads
    <3>2. KeepsWork(x, Finished(x), {}, None, proc[x].cold)
      BY <1>4 DEF drainDirtyLoads
    <3> QED
      BY <3>1, <3>2, WorkCovered
  <2>2. CASE idx # None
    <3>1. Moved(x, "take", proc[x].todo, idx, proc[x].cold)
      <4>1. proc[x] \in Activity
        BY DEF TypeOK
      <4>2. proc' = [proc EXCEPT ![x] = [proc[x] EXCEPT !.pc = "take", !.on = idx]]
        BY <1>4, <2>2 DEF drainDirtyLoads
      <4> QED
        BY <4>1, <4>2, UpdPcOn DEF Moved
    <3>2. KeepsWork(x, "take", proc[x].todo, idx, proc[x].cold)
      BY <1>4 DEF drainDirtyLoads
    <3> QED
      BY <3>1, <3>2, WorkCovered
  <2> QED
    BY <2>1, <2>2
<1>5. ASSUME NEW x \in Thread \cup Task, takeDirty(x) PROVE CoverInv'
  <2>1. /\ dirty # {} => Moved(x, "begin", dirty, proc[x].on, proc[x].cold)
        /\ dirty = {} => Moved(x, Finished(x), {}, None, proc[x].cold)
    BY <1>5, RemainingMoves DEF takeDirty
  <2>2. /\ KeepsWork(x, "begin", dirty, proc[x].on, proc[x].cold)
        /\ KeepsWork(x, Finished(x), {}, None, proc[x].cold)
    BY <1>5 DEF takeDirty
  <2>3. CASE dirty # {}
    BY <2>1, <2>2, <2>3, WorkCovered
  <2>4. CASE dirty = {}
    BY <2>1, <2>2, <2>4, WorkCovered
  <2> QED
    BY <2>3, <2>4
<1>6. ASSUME NEW x \in Thread \cup Task, beginReindex(x) PROVE CoverInv'
  <2>1. Moved(x, "run", proc[x].todo, proc[x].on, proc[x].cold)
    BY <1>6, GotoMoves DEF beginReindex
  <2>2. KeepsWork(x, "run", proc[x].todo, proc[x].on, proc[x].cold)
    BY <1>6 DEF beginReindex
  <2> QED
    BY <2>1, <2>2, WorkCovered
<1>7. ASSUME NEW x \in Thread \cup Task, NEW p \in Pkg, beginReindexDrops(x, p)
      PROVE CoverInv'
  <2> DEFINE todo == proc[x].todo \ {p}
  <2>1. /\ todo # {} => Moved(x, "begin", todo, proc[x].on, proc[x].cold)
        /\ todo = {} => Moved(x, Finished(x), {}, None, proc[x].cold)
    BY <1>7, RemainingMoves DEF beginReindexDrops
  <2>2. /\ KeepsWork(x, "begin", todo, proc[x].on, proc[x].cold)
        /\ KeepsWork(x, Finished(x), {}, None, proc[x].cold)
    BY <1>7 DEF beginReindexDrops, StillCurrent
  <2> HIDE DEF todo
  <2>3. CASE todo # {}
    BY <2>1, <2>2, <2>3, WorkCovered
  <2>4. CASE todo = {}
    BY <2>1, <2>2, <2>4, WorkCovered
  <2> QED
    BY <2>3, <2>4
<1> QED
  BY <1>1, <1>2, <1>3, <1>4, <1>5, <1>6, <1>7

\* Nobody has looked at the index tryWarmOpen leaves, so all of it is covered.
LEMMA OpenCovered ==
    ASSUME TypeOK, HandleInv, CoverInv, Open
    PROVE  CoverInv'
<1>1. Loader \in Thread /\ Loader \in Thread \cup Task
  BY DEF Thread
<1>2. CASE tryWarmOpen \/ cloneLockedSharedIndex \/ trySeedFromSibling
  <2>1. proc'[Loader].pc = "lock"
    <3>1. Goto(Loader, "lock")
      BY <1>2 DEF tryWarmOpen, cloneLockedSharedIndex, trySeedFromSibling
    <3> QED
      BY <1>1, <3>1, GotoMoves, MovedFields
  <2>2. idx' # None
    <3>1. \E f \in File, seeded \in BOOLEAN : Install(f, seeded)
      BY <1>2 DEF tryWarmOpen, cloneLockedSharedIndex, trySeedFromSibling, File
    <3>2. idx' \in IndexState
      BY <3>1 DEF Install, IndexState, TypeOK
    <3> QED
      BY <3>2, NoneAssumption
  <2>3. \A p \in Pkg : Covered(p)'
    BY <1>1, <2>1 DEF Covered
  <2> QED
    BY <2>2, <2>3 DEF CoverInv, ServedCovered, BuiltCovered
<1>3. CASE tryWarmOpenFails
  <2>1. proc'[Loader].pc = "lockBuild"
    BY <1>1, <1>3, GotoMoves, MovedFields DEF tryWarmOpenFails
  <2>2. idx' = None
    BY <1>3 DEF tryWarmOpenFails, served, HandleInv, WarmInv, At
  <2> QED
    BY <2>1, <2>2 DEF CoverInv, ServedCovered, BuiltCovered
<1>4. CASE buildIndex
  <2>1. proc'[Loader].pc = "spawn"
    BY <1>4, buildIndexMoves
  <2>2. idx' = None
    BY <1>4 DEF buildIndex, served, HandleInv, WarmInv, At
  <2> QED
    BY <1>1, <2>1, <2>2 DEF CoverInv, ServedCovered, BuiltCovered, Replacing
<1> QED
  BY <1>2, <1>3, <1>4 DEF Open

\* Only the loader does a cold build, and it is not done after one.
ColdInv == \A t \in Thread : proc[t].cold => t = Loader /\ proc[t].pc # "done"

\* No step makes a reload cold or ends the loader after a cold build.
LEMMA ColdNext ==
    ASSUME TypeOK, ColdInv, [Next]_vars
    PROVE  ColdInv'
<1> DEFINE G(t) == proc'[t].cold => t = Loader /\ proc'[t].pc # "done"
<1> SUFFICES ASSUME NEW t \in Thread PROVE G(t)
  BY DEF ColdInv
<1>0. /\ t \notin Task /\ proc[t] \in Activity /\ t \in DOMAIN proc
      /\ proc[t].cold => t = Loader /\ proc[t].pc # "done"
  BY IndexAssumption DEF Thread, TypeOK, ColdInv
<1>8. ASSUME NEW x \in Thread \cup Task, NEW pc, NEW todo, NEW on, NEW cold,
             Moved(x, pc, todo, on, cold),
             x = t => (cold => t = Loader /\ pc # "done")
      PROVE  G(t)
  BY <1>0, <1>8, MovedFields
<1>9. ASSUME NEW x \in Thread \cup Task, NEW pc, pc # "done", Goto(x, pc)
      PROVE  G(t)
  BY <1>0, <1>8, <1>9, GotoMoves
<1>10. ASSUME NEW x \in Thread \cup Task, NEW todo,
              \/ proc' = [proc EXCEPT ![x] = Remaining(x, todo, "begin")]
              \/ proc' = [proc EXCEPT ![x] = Remaining(x, {}, "load")]
       PROVE  G(t)
  <2>1. Finished(x) # "done"
    BY DEF Finished
  <2>2. \E pc, td, on : Moved(x, pc, td, on, proc[x].cold) /\ pc # "done"
    BY <1>10, <2>1, RemainingMoves
  <2> QED
    BY <1>0, <1>8, <2>2
<1>1. CASE Open
  <2>1. CASE \/ tryWarmOpen \/ cloneLockedSharedIndex \/ trySeedFromSibling
             \/ tryWarmOpenFails
    BY <1>9, <2>1 DEF tryWarmOpen, cloneLockedSharedIndex, trySeedFromSibling,
       tryWarmOpenFails, Thread
  <2>2. CASE buildIndex
    BY <1>0, <2>2, buildIndexMoves
  <2> QED
    BY <1>1, <2>1, <2>2 DEF Open
<1>2. ASSUME NEW u \in Reloader, Reload(u) PROVE G(t)
  <2>1. CASE revalidateGraph(u) \/ revalidateWorkspace(u)
    BY <1>9, <2>1 DEF revalidateGraph, revalidateWorkspace, Thread
  <2>2. CASE revalidateGraphFails(u)
    BY <1>0, <2>2 DEF revalidateGraphFails
  <2>3. CASE refreshIndexResolverLoads(u)
    BY <1>0, <1>8, <2>3, refreshIndexResolverLoadsMoves DEF Thread
  <2>4. CASE refreshIndexResolverSwaps(u)
    BY <1>0, <1>8, <2>4, refreshIndexResolverSwapsMoves DEF Thread
  <2> QED
    BY <1>2, <2>1, <2>2, <2>3, <2>4 DEF Reload
<1>3. ASSUME NEW u \in Thread, Revalidate(u) PROVE G(t)
  <2>1. CASE revalidateIndexLocks(u) \/ revalidateIndexNone(u)
    BY <1>9, <2>1 DEF revalidateIndexLocks, revalidateIndexNone
  <2>2. CASE revalidateIndexRepairs(u)
    BY <1>0, <1>8, <2>2, revalidateIndexRepairsMoves
  <2>3. CASE revalidateIndexDropsIndex(u)
    BY <1>0, <1>8, <2>3, revalidateIndexDropsIndexMoves
  <2>4. CASE revalidateIndexCloses(u)
    BY <1>0, <1>8, <2>4, revalidateIndexClosesMoves
  <2>5. CASE unlock(u)
    <3>1. ~Idle.cold
      BY DEF Idle
    <3> QED
      BY <1>8, <2>5, <3>1, unlockMoves
  <2>6. ASSUME NEW p \in Pkg, repairIndexPackagesLocked(u, p) PROVE G(t)
    <3> DEFINE pc == IF proc[u].todo = {p} THEN "unlock" ELSE "repair"
    <3>1. Moved(u, pc, proc[u].todo \ {p}, proc[u].on, proc[u].cold) /\ pc # "done"
      BY <2>6, repairIndexPackagesLockedMoves
    <3> HIDE DEF pc
    <3> QED
      BY <1>0, <1>8, <3>1
  <2> QED
    BY <1>3, <2>1, <2>2, <2>3, <2>4, <2>5, <2>6 DEF Revalidate
<1>4. ASSUME NEW u \in Thread, Build(u) PROVE G(t)
  <2>1. CASE \/ runIndexBuildFails(u) \/ indexerExits(u) \/ indexerCrashes(u)
             \/ openIndexAfterBuild(u) \/ openIndexAfterBuildFails(u)
    BY <1>9, <2>1 DEF runIndexBuildFails, indexerExits, indexerCrashes,
       openIndexAfterBuild, openIndexAfterBuildFails
  <2>2. CASE buildIndexLockedRetries(u)
    BY <1>0, <2>2 DEF buildIndexLockedRetries
  <2>3. CASE runIndexBuild(u)
    BY <1>0, <1>8, <2>3, runIndexBuildMoves
  <2>4. ASSUME NEW p \in Pkg, indexPackage(u, p) PROVE G(t)
    <3>1. Moved(u, "index", proc[u].todo \ {p}, proc[u].on, proc[u].cold)
      BY <2>4, indexPackageMoves
    <3> QED
      BY <1>0, <1>8, <3>1
  <2> QED
    BY <1>4, <2>1, <2>2, <2>3, <2>4 DEF Build
<1>5. ASSUME NEW x \in Thread \cup Task, Reindex(x) PROVE G(t)
  <2>1. CASE drainDirtyLoads(x) /\ idx = None
    BY <1>10, <2>1 DEF drainDirtyLoads
  <2>2. CASE drainDirtyLoads(x) /\ idx # None
    BY <1>0, <2>2 DEF drainDirtyLoads, Activity
  <2>3. CASE takeDirty(x)
    BY <1>10, <2>3 DEF takeDirty
  <2>4. CASE beginReindex(x)
    BY <1>9, <2>4 DEF beginReindex
  <2>5. ASSUME NEW p \in Pkg, beginReindexDrops(x, p) \/ reindex(x, p)
        PROVE  G(t)
    BY <1>10, <2>5 DEF beginReindexDrops, reindex
  <2> QED
    BY <1>5, <2>1, <2>2, <2>3, <2>4, <2>5 DEF Reindex
<1>6. ASSUME NEW p \in Pkg,
             \/ Save(p) \/ handleDidSave(p) \/ selfHealFactsIfStale(p)
             \/ ExternalChange(p)
      PROVE  G(t)
  BY <1>0, <1>6 DEF Save, handleDidSave, handleDidSaveReindexes, handleDidSaveNoIndex,
     markDirty, handleDidSaveRereads, selfHealFactsIfStale, ExternalChange, Spawn
<1>7. CASE UNCHANGED vars
  BY <1>0, <1>7 DEF vars
<1> QED
  BY <1>1, <1>2, <1>3, <1>4, <1>5, <1>6, <1>7 DEF Next

\* If everything is covered, nothing more is needed of a served index, and of
\* a missing one only that it is still being built.
LEMMA AllCovered ==
    ASSUME CoverInv, UNCHANGED <<failed, coldSave>>,
           \A p \in Pkg : Covered(p)', idx' = None => idx = None,
           proc[Loader].pc \in {"warm", "lockBuild"} =>
              proc'[Loader].pc \in {"warm", "lockBuild"},
           \A t \in Thread : proc[t].pc \in Replacing => proc'[t].pc \in Replacing
    PROVE  CoverInv'
BY DEF CoverInv, ServedCovered, BuiltCovered

\* A step that moves no goroutine and changes no version.
LEMMA CoverFrame ==
    ASSUME CoverInv, UNCHANGED <<failed, coldSave, disk, facts, private, idx, proc>>,
           CoverKept
    PROVE  CoverInv'
<1>1. \A p \in Pkg : Covered(p) => Covered(p)'
  BY CoveredKept
<1>2. ServedCovered => ServedCovered'
  BY <1>1 DEF ServedCovered
<1>3. BuiltCovered => BuiltCovered'
  BY <1>1 DEF BuiltCovered, dbPath
<1> QED
  BY <1>2, <1>3 DEF CoverInv

\* A reload on its way to idxMu covers everything.
LEMMA ReloadCovered ==
    ASSUME TypeOK, HandleInv, CoverInv, NEW t \in Reloader, Reload(t)
    PROVE  CoverInv'
<1>0. t \in Thread /\ t # Loader /\ Loader \in Thread /\ t \in Thread \cup Task
  BY IndexAssumption DEF Thread
<1>1. CASE revalidateGraphFails(t)
  BY <1>1 DEF revalidateGraphFails, CoverInv
<1>2. CASE refreshIndexResolverLoads(t)
  BY <1>2, PlainCovered
<1>3. ASSUME NEW pc \in {"refresh", "lock"}, NEW todo, NEW on, NEW cold,
             Moved(t, pc, todo, on, cold), UNCHANGED <<failed, coldSave>>,
             idx' = None => idx = None, proc[t].pc \notin Replacing
      PROVE  CoverInv'
  <2>1. /\ proc'[t].pc = pc
        /\ \A y \in Thread \cup Task : y # t => proc'[y] = proc[y]
    BY <1>0, <1>3, MovedFields
  <2>2. \A p \in Pkg : Covered(p)'
    BY <1>0, <2>1 DEF Covered
  <2> QED
    BY <1>0, <1>3, <2>1, <2>2, AllCovered
<1>4. CASE revalidateGraph(t)
  <2>1. Moved(t, "refresh", proc[t].todo, proc[t].on, proc[t].cold)
    BY <1>0, <1>4, GotoMoves DEF revalidateGraph
  <2> QED
    BY <1>3, <1>4, <2>1 DEF revalidateGraph, At, served, history, Replacing
<1>5. CASE revalidateWorkspace(t)
  <2>1. Moved(t, "lock", proc[t].todo, proc[t].on, proc[t].cold)
    BY <1>0, <1>5, GotoMoves DEF revalidateWorkspace
  <2> QED
    BY <1>3, <1>5, <2>1 DEF revalidateWorkspace, At, served, history, Replacing
<1>6. CASE refreshIndexResolverSwaps(t)
  <2>1. Moved(t, "lock", proc[t].todo, None, proc[t].cold)
    BY <1>6, refreshIndexResolverSwapsMoves
  <2>2. idx' = None => idx = None
    BY <1>6, SwapServesSame
  <2> QED
    BY <1>3, <1>6, <2>1, <2>2 DEF refreshIndexResolverSwaps, At, history, Replacing
<1> QED
  BY <1>1, <1>2, <1>4, <1>5, <1>6 DEF Reload

\* A decision leaves nothing uncovered: what it leaves alone is current.
LEMMA DecideCovered ==
    ASSUME TypeOK, HandleInv, CoverInv, NEW t \in Thread,
           \/ revalidateIndexNone(t) \/ revalidateIndexRepairs(t)
           \/ revalidateIndexDropsIndex(t)
    PROVE  CoverInv'
<1>0. proc[t].pc = "decide" /\ mu = t
  BY DEF revalidateIndexNone, revalidateIndexRepairs, revalidateIndexDropsIndex, At,
         HandleInv, LockInv, Locked
<1>1. CASE revalidateIndexNone(t) /\ Action # "none"
  BY <1>1 DEF revalidateIndexNone, CoverInv
<1>2. CASE revalidateIndexNone(t) /\ Action = "none"
  <2>1. /\ UNCHANGED <<disk, facts, idx, failed, coldSave>>
        /\ Stale = {}
    BY <1>2 DEF revalidateIndexNone, files, served, world, history, Fail, Action
  <2>2. idx # None => \A p \in Pkg : facts[idx.file][p] = disk[p]
    BY <2>1 DEF Stale
  <2>3. \A y \in Thread \cup Task : y # t => proc'[y] = proc[y]
    BY <1>2, GotoMoves, MovedFields DEF revalidateIndexNone
  <2>4. \A u \in Thread : proc[u].pc \notin Replacing
    BY <1>0 DEF HandleInv, LockInv, Locked, Replacing
  <2>5. ServedCovered'
    BY <2>1, <2>2 DEF ServedCovered
  <2>6. BuiltCovered => BuiltCovered'
    BY <1>0, <2>1, <2>3, <2>4 DEF BuiltCovered, Thread
  <2> QED
    BY <2>1, <2>5, <2>6 DEF CoverInv
<1>3. CASE revalidateIndexRepairs(t)
  <2>1. proc'[t].pc = "repair" /\ proc'[t].todo = Stale
    BY <1>3, revalidateIndexRepairsMoves, MovedFields
  <2>2. idx # None /\ UNCHANGED <<disk, facts, idx>>
    BY <1>3, StaleFacts DEF revalidateIndexRepairs, world, files, served
  <2>3. ServedCovered'
    BY <2>1, <2>2 DEF ServedCovered, Stale
  <2>4. BuiltCovered'
    BY <2>2 DEF BuiltCovered
  <2> QED
    BY <2>3, <2>4 DEF CoverInv
<1>4. CASE revalidateIndexDropsIndex(t)
  <2>1. proc'[t].pc = "wait"
    BY <1>4, revalidateIndexDropsIndexMoves, MovedFields
  <2>2. idx' = None
    BY <1>4 DEF revalidateIndexDropsIndex
  <2> QED
    BY <2>1, <2>2 DEF CoverInv, ServedCovered, BuiltCovered, Replacing
<1> QED
  BY <1>1, <1>2, <1>3, <1>4

\* After a cold build the loader revalidates; otherwise nothing was left.
LEMMA unlockCovered ==
    ASSUME TypeOK, HandleInv, CoverInv, ColdInv, NEW t \in Thread, unlock(t)
    PROVE  CoverInv'
<1>0. proc[t].pc = "unlock" /\ Loader \in Thread
  BY DEF unlock, At, Thread
<1>1. Moved(t, AfterUnlock(t), {}, None, Idle.cold)
  BY unlockMoves
<1>2. /\ proc'[t].pc = AfterUnlock(t)
      /\ \A y \in Thread \cup Task : y # t => proc'[y] = proc[y]
  BY <1>1, MovedFields
<1>3. CASE t = Loader /\ proc[t].cold
  <2>1. \A p \in Pkg : Covered(p)'
    BY <1>0, <1>2, <1>3 DEF Covered, AfterUnlock
  <2> QED
    BY <1>0, <1>2, <1>3, <2>1, AllCovered DEF unlock, served, history, Replacing
<1>4. CASE ~(t = Loader /\ proc[t].cold)
  <2>1. KeepsWork(t, AfterUnlock(t), {}, None, Idle.cold)
    BY <1>0, <1>4, IndexAssumption
       DEF KeepsWork, unlock, world, files, served, history,
       Undecided, Replacing, Thread
  <2> QED
    BY <1>1, <2>1, WorkCovered
<1> QED
  BY <1>3, <1>4

\* A repaired package is current, the others are still to do.
LEMMA repairIndexPackagesLockedCovered ==
    ASSUME TypeOK, HandleInv, CoverInv, NEW t \in Thread, NEW p \in Pkg,
           repairIndexPackagesLocked(t, p)
    PROVE  CoverInv'
<1>1. CASE failed'
  BY <1>1 DEF CoverInv
<1>2. CASE ~failed'
  <2>1. facts' = Refreshed(proc[t].on.file, p) /\ UNCHANGED <<disk, owed, failed, coldSave>>
    BY <1>2 DEF repairIndexPackagesLocked, world, history
  <2>2. proc[t].pc = "repair" /\ UNCHANGED <<idx, saver>>
    BY DEF repairIndexPackagesLocked, At, served
  <2>3. /\ idx # None /\ idx \in IndexState /\ idx.file \in File
        /\ proc[t].on.file = idx.file
    BY <2>2 DEF HandleInv, ReplacingInv, HandleOf, TypeOK, IndexState
  <2>4. /\ proc'[t].pc = IF proc[t].todo = {p} THEN "unlock" ELSE "repair"
        /\ proc'[t].todo = proc[t].todo \ {p}
        /\ proc'[t].cold = proc[t].cold
        /\ \A y \in Thread \cup Task : y # t => proc'[y] = proc[y]
    <3>1. Moved(t, IF proc[t].todo = {p} THEN "unlock" ELSE "repair",
                proc[t].todo \ {p}, proc[t].on, proc[t].cold)
      BY repairIndexPackagesLockedMoves
    <3> QED
      BY <3>1, MovedFields
  <2>5. \A q \in Pkg : facts'[idx.file][q] =
                          IF q = p THEN disk[p] ELSE facts[idx.file][q]
    BY <2>1, <2>3, RefreshedFacts
  <2>6. t \notin Task /\ Loader \in Thread
    BY IndexAssumption DEF Thread
  <2>7. CoverKept
    BY <2>1, <2>2, <2>4, <2>6 DEF CoverKept, Undecided
  <2>8. \A q \in Pkg : Covered(q) => Covered(q)'
    BY <2>7, CoveredKept
  <2>9. ServedCovered => ServedCovered'
    <3> SUFFICES ASSUME ServedCovered, NEW q \in Pkg, q # p,
                        facts[idx.file][q] # disk[q], ~Covered(q)
                 PROVE  \/ \E x \in Task : /\ proc'[x].pc \in {"begin", "run"}
                                           /\ q \in proc'[x].todo
                                           /\ proc'[x].on.db = idx.db
                        \/ \E u \in Thread : proc'[u].pc = "repair" /\ q \in proc'[u].todo
      BY <2>1, <2>2, <2>3, <2>5, <2>8 DEF ServedCovered
    <3>1. \/ \E x \in Task : /\ proc[x].pc \in {"begin", "run"}
                             /\ q \in proc[x].todo
                             /\ proc[x].on.db = idx.db
          \/ \E u \in Thread : proc[u].pc = "repair" /\ q \in proc[u].todo
      BY <2>3 DEF ServedCovered
    <3> QED
      BY <2>4, <2>6, <3>1
  <2>10. BuiltCovered'
    BY <2>2, <2>3 DEF BuiltCovered
  <2> QED
    BY <2>1, <2>9, <2>10 DEF CoverInv
<1> QED
  BY <1>1, <1>2

\* Whoever replaces the index holds idxMu, so BuiltCovered is about that thread.
LEMMA BuilderCovered ==
    ASSUME TypeOK, HandleInv, BuiltCovered, NEW t \in Thread,
           proc[t].pc \in {"index", "open"}
    PROVE  /\ idx = None
           /\ \A p \in Pkg : \/ p \in proc[t].todo /\ proc[t].pc = "index"
                             \/ facts[dbPath][p] = disk[p]
                             \/ Covered(p)
<1>1. idx = None /\ mu = t
  BY DEF HandleInv, ReplacingInv, Replacing, LockInv, Locked
<1>2. proc[Loader].pc \notin {"warm", "lockBuild"}
  BY DEF HandleInv, WarmInv, Replacing, Thread
<1>3. PICK u \in Thread :
        /\ proc[u].pc \in Replacing
        /\ proc[u].pc \in {"index", "open"} =>
              \A p \in Pkg : \/ p \in proc[u].todo /\ proc[u].pc = "index"
                             \/ facts[dbPath][p] = disk[p]
                             \/ Covered(p)
  BY <1>1, <1>2 DEF BuiltCovered
<1>4. u = t
  BY <1>1, <1>3 DEF HandleInv, LockInv, Locked, Replacing
<1> QED
  BY <1>1, <1>3, <1>4

\* The indexer and openIndexAfterBuild.
LEMMA BuildCovered ==
    ASSUME TypeOK, HandleInv, CoverInv, ColdInv, NEW t \in Thread, Build(t)
    PROVE  CoverInv'
<1>0. t \notin Task /\ Loader \in Thread
  BY IndexAssumption DEF Thread
<1>1. CASE \/ runIndexBuildFails(t) \/ indexerCrashes(t)
           \/ openIndexAfterBuildFails(t)
  BY <1>1 DEF runIndexBuildFails, indexerCrashes, openIndexAfterBuildFails, CoverInv
<1>2. CASE buildIndexLockedRetries(t)
  <2>1. proc'[t].pc = "spawn" /\ idx' = None
    BY <1>2
       DEF buildIndexLockedRetries, At, served, HandleInv, ReplacingInv, Replacing
  <2> QED
    BY <2>1 DEF CoverInv, ServedCovered, BuiltCovered, Replacing
<1>3. CASE runIndexBuild(t)
  <2>1. proc'[t].pc = "index" /\ proc'[t].todo = Pkg
    BY <1>3, runIndexBuildMoves, MovedFields
  <2>2. idx' = None
    BY <1>3 DEF runIndexBuild, At, served, HandleInv, ReplacingInv, Replacing
  <2> QED
    BY <2>1, <2>2 DEF CoverInv, ServedCovered, BuiltCovered, Replacing
<1>4. ASSUME NEW p \in Pkg, indexPackage(t, p) PROVE CoverInv'
  <2>0. /\ proc[t].pc = "index" /\ UNCHANGED <<private, idx, saver>>
        /\ idx = None /\ dbPath' = dbPath
    BY <1>4 DEF indexPackage, At, served, HandleInv, ReplacingInv, Replacing, dbPath
  <2>1. /\ proc'[t].pc = "index" /\ proc'[t].todo = proc[t].todo \ {p}
        /\ proc'[t].cold = proc[t].cold
        /\ \A y \in Thread \cup Task : y # t => proc'[y] = proc[y]
    <3>1. Moved(t, "index", proc[t].todo \ {p}, proc[t].on, proc[t].cold)
      BY <1>4, indexPackageMoves
    <3> QED
      BY <3>1, MovedFields
  <2>2. CASE failed'
    BY <2>2 DEF CoverInv
  <2>3. CASE ~failed'
    <3>1. /\ ~failed /\ UNCHANGED <<disk, owed, coldSave>>
          /\ \/ facts' = Refreshed(dbPath, p)
             \/ facts' = facts /\ proc[t].cold
      <4>1. CASE facts' = Refreshed(dbPath, p) /\ UNCHANGED <<world, history>>
        BY <2>3, <4>1 DEF world, history
      <4>2. CASE /\ Fail /\ UNCHANGED facts
                 /\ failed' = (failed \/ ~proc[t].cold)
        <5>1. ~failed /\ proc[t].cold
          BY <2>3, <4>2
        <5> QED
          BY <4>2, <5>1, FailType
      <4> QED
        BY <1>4, <4>1, <4>2 DEF indexPackage
    <3>2. CoverKept
      BY <1>0, <2>0, <2>1, <3>1 DEF CoverKept, Undecided
    <3>3. \A q \in Pkg : Covered(q) => Covered(q)'
      BY <3>2, CoveredKept
    <3>4. ASSUME NEW q \in Pkg, BuiltCovered
          PROVE  \/ q \in proc'[t].todo
                 \/ facts'[dbPath][q] = disk[q]
                 \/ Covered(q)'
      <4>1. \/ q \in proc[t].todo \/ facts[dbPath][q] = disk[q] \/ Covered(q)
        BY <2>0, <3>4, BuilderCovered
      <4>2. CASE facts' = Refreshed(dbPath, p)
        <5>1. facts'[dbPath][q] = IF q = p THEN disk[p] ELSE facts[dbPath][q]
          BY <4>2, RefreshedFacts, dbPathIsFile
        <5> QED
          BY <2>1, <3>3, <4>1, <5>1
      <4>3. CASE facts' = facts /\ proc[t].cold
        <5>1. t = Loader
          BY <4>3 DEF ColdInv, Thread
        <5>2. Covered(q)'
          BY <2>1, <4>3, <5>1 DEF Covered
        <5> QED
          BY <5>2
      <4> QED
        BY <3>1, <4>2, <4>3
    <3>5. BuiltCovered => BuiltCovered'
      BY <2>0, <2>1, <3>1, <3>4 DEF BuiltCovered, Replacing
    <3>6. ServedCovered'
      BY <2>0 DEF ServedCovered
    <3> QED
      BY <3>1, <3>5, <3>6 DEF CoverInv
  <2> QED
    BY <2>2, <2>3
<1>5. CASE indexerExits(t)
  <2>0. /\ proc[t].pc = "index" /\ proc[t].todo = {} /\ idx = None
        /\ UNCHANGED <<disk, owed, facts, private, idx, saver, failed, coldSave>>
        /\ dbPath' = dbPath
    BY <1>5 DEF indexerExits, At, served, world, history, HandleInv, ReplacingInv,
       Replacing, dbPath
  <2>1. /\ proc'[t].pc = "open" /\ proc'[t].cold = proc[t].cold
        /\ \A y \in Thread \cup Task : y # t => proc'[y] = proc[y]
    BY <1>5, GotoMoves, MovedFields DEF indexerExits
  <2>2. CoverKept
    BY <1>0, <2>0, <2>1 DEF CoverKept, Undecided
  <2>3. \A q \in Pkg : Covered(q) => Covered(q)'
    BY <2>2, CoveredKept
  <2>4. BuiltCovered => \A q \in Pkg : facts[dbPath][q] = disk[q] \/ Covered(q)'
    BY <2>0, <2>3, BuilderCovered
  <2>5. BuiltCovered => BuiltCovered'
    BY <2>0, <2>1, <2>4 DEF BuiltCovered, Replacing
  <2>6. ServedCovered'
    BY <2>0 DEF ServedCovered
  <2> QED
    BY <2>0, <2>5, <2>6 DEF CoverInv
<1>6. CASE openIndexAfterBuild(t)
  <2>0. /\ proc[t].pc = "open"
        /\ UNCHANGED <<disk, owed, facts, saver, failed, coldSave>>
        /\ Install(dbPath, FALSE)
    BY <1>6 DEF openIndexAfterBuild, At, world, files, history
  <2>1. /\ proc'[t].pc = "load" /\ proc'[t].cold = proc[t].cold
        /\ \A y \in Thread \cup Task : y # t => proc'[y] = proc[y]
    BY <1>6, GotoMoves, MovedFields DEF openIndexAfterBuild
  <2>2. CoverKept
    BY <1>0, <2>0, <2>1 DEF CoverKept, Undecided
  <2>3. \A q \in Pkg : Covered(q) => Covered(q)'
    BY <2>2, CoveredKept
  <2>4. idx' # None /\ idx'.file = dbPath
    <3>1. idx' \in IndexState /\ idx'.file = dbPath
      BY <2>0, dbPathIsFile DEF Install, IndexState, TypeOK
    <3> QED
      BY <3>1, NoneAssumption
  <2>5. BuiltCovered => \A q \in Pkg : facts[dbPath][q] = disk[q] \/ Covered(q)'
    BY <2>0, <2>3, BuilderCovered
  <2>6. BuiltCovered => ServedCovered'
    BY <2>0, <2>4, <2>5 DEF ServedCovered
  <2>7. BuiltCovered'
    BY <2>4 DEF BuiltCovered
  <2> QED
    BY <2>0, <2>6, <2>7 DEF CoverInv
<1> QED
  BY <1>1, <1>2, <1>3, <1>4, <1>5, <1>6 DEF Build

\* A reindexed package is current; the ones left are still to do.
LEMMA reindexCovered ==
    ASSUME TypeOK, HandleInv, CoverInv, NEW x \in Thread \cup Task, NEW p \in Pkg,
           reindex(x, p)
    PROVE  CoverInv'
<1>1. CASE failed'
  BY <1>1 DEF CoverInv
<1>2. CASE ~failed'
  <2>1. facts' = Refreshed(proc[x].on.file, p) /\ UNCHANGED <<disk, owed, failed, coldSave>>
    BY <1>2 DEF reindex, world, history
  <2>2. /\ x \in Task /\ x \notin Thread /\ proc[x].pc = "run"
        /\ UNCHANGED <<idx, private, saver>> /\ dbPath' = dbPath
    BY IndexAssumption DEF reindex, At, served, HandleInv, LockInv, Thread, dbPath
  <2>3. proc[x].on # None /\ proc[x].on \in IndexState /\ proc[x].on.file \in File
    BY <2>2, FieldTypes DEF HandleInv, LoadedInv, IndexState
  <2>4. /\ proc[x].todo \ {p} # {} =>
              /\ proc'[x].pc = "begin" /\ proc'[x].todo = proc[x].todo \ {p}
              /\ proc'[x].on = proc[x].on
        /\ \A y \in Thread \cup Task : y # x => proc'[y] = proc[y]
    <3> DEFINE todo == proc[x].todo \ {p}
    <3>1. /\ todo # {} => Moved(x, "begin", todo, proc[x].on, proc[x].cold)
          /\ todo = {} => Moved(x, Finished(x), {}, None, proc[x].cold)
      BY RemainingMoves DEF reindex
    <3> HIDE DEF todo
    <3>2. /\ todo # {} =>
                proc'[x].pc = "begin" /\ proc'[x].todo = todo /\ proc'[x].on = proc[x].on
          /\ \A y \in Thread \cup Task : y # x => proc'[y] = proc[y]
      <4>1. CASE todo # {}
        BY <3>1, <4>1, MovedFields
      <4>2. CASE todo = {}
        BY <3>1, <4>2, MovedFields
      <4> QED
        BY <4>1, <4>2
    <3> QED
      BY <3>2 DEF todo
  <2>5. \A f \in File, q \in Pkg : facts'[f][q] =
           IF f = proc[x].on.file /\ q = p THEN disk[p] ELSE facts[f][q]
    BY <2>1, <2>3, RefreshedFacts
  <2>6. Loader \in Thread
    BY DEF Thread
  <2>7. CoverKept
    BY <2>1, <2>2, <2>4, <2>6 DEF CoverKept
  <2>8. \A q \in Pkg : Covered(q) => Covered(q)'
    BY <2>7, CoveredKept
  <2>9. ServedCovered => ServedCovered'
    <3> SUFFICES ASSUME ServedCovered, idx # None, NEW q \in Pkg,
                        facts'[idx.file][q] # disk[q], ~Covered(q)
                 PROVE  \/ \E y \in Task : /\ proc'[y].pc \in {"begin", "run"}
                                           /\ q \in proc'[y].todo
                                           /\ proc'[y].on.db = idx.db
                        \/ \E t \in Thread : proc'[t].pc = "repair" /\ q \in proc'[t].todo
      BY <2>1, <2>2, <2>8 DEF ServedCovered
    <3>0. idx.file \in File
      BY DEF TypeOK, IndexState
    <3>1. facts[idx.file][q] # disk[q] /\ ~(idx.file = proc[x].on.file /\ q = p)
      BY <2>5, <3>0
    <3>2. \/ \E y \in Task : /\ proc[y].pc \in {"begin", "run"}
                             /\ q \in proc[y].todo
                             /\ proc[y].on.db = idx.db
          \/ \E t \in Thread : proc[t].pc = "repair" /\ q \in proc[t].todo
      BY <3>1 DEF ServedCovered
    <3>3. proc[x].on.db = idx.db => idx.file = proc[x].on.file
      BY <2>3 DEF HandleInv, NumberedInv
    <3>4. ASSUME NEW y \in Task, proc[y].pc \in {"begin", "run"},
                 q \in proc[y].todo, proc[y].on.db = idx.db
          PROVE  /\ proc'[y].pc \in {"begin", "run"}
                 /\ q \in proc'[y].todo
                 /\ proc'[y].on.db = idx.db
      <4>1. CASE y = x
        BY <2>4, <3>1, <3>3, <3>4, <4>1
      <4>2. CASE y # x
        BY <2>4, <3>4, <4>2
      <4> QED
        BY <4>1, <4>2
    <3> QED
      BY <2>2, <2>4, <3>2, <3>4
  <2>10. BuiltCovered => BuiltCovered'
    <3> SUFFICES ASSUME BuiltCovered, idx = None,
                        proc[Loader].pc \notin {"warm", "lockBuild"}
                 PROVE  \E t \in Thread :
                          /\ proc'[t].pc \in Replacing
                          /\ proc'[t].pc \in {"index", "open"} =>
                               \A q \in Pkg : \/ q \in proc'[t].todo /\ proc'[t].pc = "index"
                                              \/ facts'[dbPath][q] = disk[q]
                                              \/ Covered(q)'
      BY <2>1, <2>2, <2>4, <2>6 DEF BuiltCovered
    <3>1. PICK t \in Thread :
            /\ proc[t].pc \in Replacing
            /\ proc[t].pc \in {"index", "open"} =>
                 \A q \in Pkg : \/ q \in proc[t].todo /\ proc[t].pc = "index"
                                \/ facts[dbPath][q] = disk[q]
                                \/ Covered(q)
      BY DEF BuiltCovered
    <3>2. proc'[t] = proc[t]
      BY <2>2, <2>4
    <3>3. \A q \in Pkg : facts[dbPath][q] = disk[q] => facts'[dbPath][q] = disk[q]
      BY <2>5, dbPathIsFile
    <3> QED
      BY <2>8, <3>1, <3>2, <3>3
  <2> QED
    BY <2>1, <2>9, <2>10 DEF CoverInv
<1> QED
  BY <1>1, <1>2

\* A save is covered by its handler until the handler has started a reindex
\* against the served database.
LEMMA SaveCovered ==
    ASSUME TypeOK, HandleInv, CoverInv, NEW p \in Pkg, Save(p) \/ handleDidSave(p)
    PROVE  CoverInv'
<1>1. CASE Save(p)
  <2>1. /\ UNCHANGED <<owed, facts, private, idx, proc, failed, coldSave>>
        /\ dbPath' = dbPath
    BY <1>1 DEF Save, files, served, history, dbPath
  <2>2. /\ saver'[p] = "load"
        /\ \A q \in Pkg : q # p => saver'[q] = saver[q] /\ disk'[q] = disk[q]
    BY <1>1 DEF Save, TypeOK
  <2>3. CoverKept
    BY <2>1, <2>2 DEF CoverKept
  <2>4. Covered(p)' /\ \A q \in Pkg : Covered(q) => Covered(q)'
    BY <2>2, <2>3, CoveredKept DEF Covered
  <2>5. ServedCovered => ServedCovered'
    BY <2>1, <2>2, <2>4 DEF ServedCovered
  <2>6. BuiltCovered => BuiltCovered'
    BY <2>1, <2>2, <2>4 DEF BuiltCovered
  <2> QED
    BY <2>1, <2>5, <2>6 DEF CoverInv
<1>2. CASE handleDidSaveReindexes(p)
  <2>1. /\ idx # None
        /\ UNCHANGED <<disk, owed, facts, private, idx, failed, coldSave>>
        /\ \A q \in Pkg : q # p => saver'[q] = saver[q]
    BY <1>2 DEF handleDidSaveReindexes, world, files, served, history, TypeOK
  <2>2. PICK x \in Task : At(x, "idle") /\ Moved(x, "begin", {p}, idx, Idle.cold)
    BY <1>2, SpawnMoves DEF handleDidSaveReindexes
  <2>3. /\ proc'[x].pc = "begin" /\ proc'[x].todo = {p} /\ proc'[x].on = idx
        /\ \A y \in Thread \cup Task : y # x => proc'[y] = proc[y]
    BY <2>2, MovedFields
  <2>4. x \notin Thread /\ Loader \in Thread /\ proc[x].pc = "idle"
    BY <2>2, IndexAssumption DEF Thread, At
  <2>5. \A t \in Thread : proc'[t] = proc[t]
    BY <2>3, <2>4
  <2>6. \A q \in Pkg : q # p /\ Covered(q) => Covered(q)'
    BY <2>1, <2>4, <2>5 DEF Covered
  <2>7. ServedCovered => ServedCovered'
    <3> SUFFICES ASSUME ServedCovered, NEW q \in Pkg, q # p,
                        facts[idx.file][q] # disk[q], ~Covered(q)
                 PROVE  \/ \E y \in Task : /\ proc'[y].pc \in {"begin", "run"}
                                           /\ q \in proc'[y].todo
                                           /\ proc'[y].on.db = idx.db
                        \/ \E t \in Thread : proc'[t].pc = "repair" /\ q \in proc'[t].todo
      BY <2>1, <2>3, <2>6 DEF ServedCovered
    <3>1. \/ \E y \in Task : /\ proc[y].pc \in {"begin", "run"}
                             /\ q \in proc[y].todo
                             /\ proc[y].on.db = idx.db
          \/ \E t \in Thread : proc[t].pc = "repair" /\ q \in proc[t].todo
      BY <2>1 DEF ServedCovered
    <3> QED
      BY <2>3, <2>4, <2>5, <3>1
  <2>8. BuiltCovered'
    BY <2>1 DEF BuiltCovered
  <2> QED
    BY <2>1, <2>7, <2>8 DEF CoverInv
<1>3. CASE handleDidSaveNoIndex(p)
  <2>1. CoverKept
    BY <1>3 DEF CoverKept, handleDidSaveNoIndex, world, TypeOK
  <2> QED
    BY <1>3, <2>1, CoverFrame DEF handleDidSaveNoIndex, world, files, served, history
<1>4. CASE markDirty(p)
  BY <1>4 DEF markDirty, CoverInv
<1>5. CASE handleDidSaveRereads(p)
  <2>1. \A q \in Pkg : saver[q] \in {"load", "mark"} => saver'[q] \in {"load", "mark"}
    BY <1>5 DEF handleDidSaveRereads, TypeOK
  <2>2. CASE idx = None
    <3>1. CoverKept
      BY <1>5, <2>1, <2>2 DEF CoverKept, handleDidSaveRereads, world
    <3> QED
      BY <1>5, <2>2, <3>1, CoverFrame
         DEF handleDidSaveRereads, world, files, served, history
  <2>3. CASE idx # None
    <3>1. PICK x \in Task : At(x, "idle") /\ Moved(x, "load", {}, None, Idle.cold)
      BY <1>5, <2>3, SpawnMoves DEF handleDidSaveRereads
    <3>2. KeepsWork(x, "load", {}, None, Idle.cold)
      BY <1>5, <2>1, <3>1, IndexAssumption DEF KeepsWork, handleDidSaveRereads, At,
         world, files, served, history, Undecided, Replacing, Thread
    <3> QED
      BY <3>1, <3>2, WorkCovered
  <2> QED
    BY <2>2, <2>3
<1> QED
  BY <1>1, <1>2, <1>3, <1>4, <1>5 DEF handleDidSave

\* Another reindex of a stale package takes nothing away.
LEMMA selfHealFactsIfStaleCovered ==
    ASSUME TypeOK, HandleInv, CoverInv, NEW p \in Pkg, selfHealFactsIfStale(p)
    PROVE  CoverInv'
<1>1. PICK x \in Task : At(x, "idle") /\ Moved(x, "begin", {p}, idx, Idle.cold)
  BY SpawnMoves DEF selfHealFactsIfStale
<1>2. KeepsWork(x, "begin", {p}, idx, Idle.cold)
  BY <1>1, IndexAssumption DEF KeepsWork, selfHealFactsIfStale, At,
     files, served, history, Undecided, Replacing, Thread
<1> QED
  BY <1>1, <1>2, WorkCovered

\* A change outside the editor owes a revalidation of everything.
LEMMA ExternalChangeCovered ==
    ASSUME TypeOK, CoverInv, NEW p \in Pkg, ExternalChange(p)
    PROVE  CoverInv'
<1>1. owed' > 0 /\ UNCHANGED <<idx, proc, failed, coldSave>>
  BY DEF ExternalChange, TypeOK, served, history
<1>2. \A q \in Pkg : Covered(q)'
  BY <1>1 DEF Covered
<1> QED
  BY <1>1, <1>2, AllCovered

\* Nothing is served yet and the loader has not started.
LEMMA CoverInit == Init => CoverInv /\ ColdInv
<1> SUFFICES ASSUME Init PROVE CoverInv /\ ColdInv
  OBVIOUS
<1>1. idx = None /\ proc[Loader].pc = "warm"
  BY IdleFields DEF Init, Thread, Activity
<1>2. ~Idle.cold
  BY DEF Idle
<1>3. ColdInv
  BY <1>2, IndexAssumption DEF Init, ColdInv, Thread
<1> QED
  BY <1>1, <1>3 DEF CoverInv, ServedCovered, BuiltCovered

\* Every step keeps stale packages covered.
LEMMA CoverNext ==
    TypeOK /\ HandleInv /\ CoverInv /\ ColdInv /\ [Next]_vars => CoverInv' /\ ColdInv'
<1> SUFFICES ASSUME TypeOK, HandleInv, CoverInv, ColdInv, [Next]_vars
             PROVE  CoverInv'
  BY ColdNext
<1>1. CASE Open
  BY <1>1, OpenCovered
<1>2. ASSUME NEW t \in Reloader, Reload(t) PROVE CoverInv'
  BY <1>2, ReloadCovered
<1>3. ASSUME NEW t \in Thread, Revalidate(t) PROVE CoverInv'
  BY <1>3, PlainCovered, DecideCovered, unlockCovered,
     repairIndexPackagesLockedCovered DEF Revalidate
<1>4. ASSUME NEW t \in Thread, Build(t) PROVE CoverInv'
  BY <1>4, BuildCovered
<1>5. ASSUME NEW x \in Thread \cup Task, Reindex(x) PROVE CoverInv'
  BY <1>5, PlainCovered, reindexCovered DEF Reindex
<1>6. ASSUME NEW p \in Pkg,
             \/ Save(p) \/ handleDidSave(p) \/ selfHealFactsIfStale(p)
             \/ ExternalChange(p)
      PROVE  CoverInv'
  BY <1>6, SaveCovered, selfHealFactsIfStaleCovered, ExternalChangeCovered
<1>7. CASE UNCHANGED vars
  <2>1. CoverKept
    BY <1>7 DEF vars, CoverKept
  <2> QED
    BY <1>7, <2>1, CoverFrame DEF vars
<1> QED
  BY <1>1, <1>2, <1>3, <1>4, <1>5, <1>6, <1>7 DEF Next

\* When nothing is running or owed, nothing has failed and no save met a missing
\* index, the served index has every package as it is on disk: a reindex that
\* beginReindex dropped has been made up for.
THEOREM DroppedReindexIsMadeUpForHolds == Spec => []DroppedReindexIsMadeUpFor
<1>1. TypeOK /\ CoverInv /\ ColdInv => DroppedReindexIsMadeUpFor
  <2> SUFFICES ASSUME TypeOK, CoverInv, ColdInv, ~coldSave, ~failed, Quiet, idx # None,
                      NEW p \in Pkg
               PROVE  facts[idx.file][p] = disk[p]
    BY DEF DroppedReindexIsMadeUpFor, FactsAreCurrent
  <2>1. /\ \A t \in Reloader \cup Task : proc[t].pc = "idle"
        /\ proc[Loader].pc = "done" /\ owed = 0 /\ saver[p] = "idle"
    BY DEF Quiet, At
  <2>2. ~proc[Loader].cold
    BY <2>1 DEF ColdInv, Thread
  <2>3. ~Covered(p)
    BY <2>1, <2>2 DEF Covered, Thread
  <2> QED
    BY <2>1, <2>3 DEF CoverInv, ServedCovered, Thread
<1> QED
  BY <1>1, IndexSafe, CoverInit, CoverNext, PTL DEF Spec
=============================================================================
