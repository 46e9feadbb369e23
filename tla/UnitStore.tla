------------------------------ MODULE UnitStore ------------------------------
(***************************************************************************)
(* What golance keeps on disk about a repository (internal/store): one     *)
(* bbolt database per worktree root, holding a pointer per package, and    *)
(* one content-addressed store (CAS) of unit blobs that all the roots of   *)
(* the repository share without any lock; and the mark-and-sweep collector *)
(* of that store (internal/server/casgc.go).                               *)
(*                                                                         *)
(* A version stands for a package's source text; its stat identifies one   *)
(* write of the files.  A hash is the value it is computed from.           *)
(***************************************************************************)
EXTENDS Integers, FiniteSets, Sequences, FiniteSetsExt

CONSTANTS
    Roots,        \* worktrees of one repository, sharing one CAS directory
    Pkgs,         \* root packages of the workspace
    Versions,     \* source texts a package can have
    Broken,       \* the versions no type check accepts
    Api,          \* the exported API of a version
    Imports,      \* package -> packages its ordinary files import
    TestImports,  \* package -> packages only its test files import
    Order,        \* the snapshot's topological order
    MaxWrites,    \* bound: writes of one package's files in one root
    ListingFails  \* whether reading the CAS's member markers may fail

ASSUME VersionsAssumption == Versions # {} /\ Broken \subseteq Versions /\ MaxWrites \in Nat
ASSUME OrderAssumption ==
    /\ Pkgs # {} /\ IsFiniteSet(Pkgs)
    /\ Order \in [1..Cardinality(Pkgs) -> Pkgs]
    /\ \A p \in Pkgs : \E i \in DOMAIN Order : Order[i] = p
ASSUME ImportsAssumption == Imports \in [Pkgs -> SUBSET Pkgs] /\ TestImports \in [Pkgs -> SUBSET Pkgs]

VARIABLES
    disk,    \* root -> package -> [ver, stat]: the files in the worktree
    blobs,   \* CAS key -> [facts, files, old]; a missing key is a miss
    units,   \* root -> package -> UnitPointer, NoUnit or Garbled
    file,    \* root -> [state, fp, member]: the database file, whether it records
             \* a fingerprint, and whether the CAS lists it as a member
    holder,  \* root -> who holds the file's exclusive lock
    stamp,   \* whether .gc-stamp is younger than GCInterval
    gc       \* the collection in progress

storeVars == <<disk, blobs, units, file, holder, stamp, gc>>

NoStat == <<"none", 0>>
Stats == {NoStat} \cup (Roots \X (0..MaxWrites))

Pos(p) == CHOOSE i \in DOMAIN Order : Order[i] = p
Before(d, p) == Pos(d) < Pos(p)

\* Mutant: the edge of a test-only cycle is counted too.
directDepImportsAll(p) == Imports[p] \cup TestImports[p]

\* The dependencies a package's key folds in: ordinary and test imports,
\* without the edge of a test-only cycle that the order cannot honour.
directDepImports(p) == {d \in Imports[p] \cup TestImports[p] : Before(d, p)}

Apis == {Api[v] : v \in Versions}

\* computeUnitKey: own content plus the API of every direct dependency.
UnitKey(p, own, deps) == [pkg |-> p, own |-> own, deps |-> deps]
Keys == UNION {{UnitKey(p, v, d) : v \in Versions, d \in [directDepImports(p) -> Apis]} : p \in Pkgs}

UnitPointer == [key : Keys, own : Versions, api : Apis, files : Stats]
NoUnit  == [none |-> TRUE]     \* no record under the package's hash
Garbled == [garbled |-> TRUE]  \* a record decodeUnitPointer rejects

IsPointer(u) == u \notin {NoUnit, Garbled}
KeysOf(f) == {f[p].key : p \in {q \in Pkgs : IsPointer(f[q])}}
Unreadable(f) == \E p \in Pkgs : f[p] = Garbled

\* A record a recorded stat may belong to: no later write than the files of
\* its root have had in disks d, and of their content if it is the last one.
StatAgrees(d, p, own, stat) ==
    stat # NoStat => /\ stat[1] \in Roots /\ stat[2] <= d[stat[1]][p].stat[2]
                     /\ stat = d[stat[1]][p].stat => own = d[stat[1]][p].ver

\* What a store holds that golance wrote: pointers under their own package,
\* and stats that are those of the content recorded with them.
Disks == {d \in [Roots -> [Pkgs -> [ver : Versions, stat : Stats]]] :
            \A r \in Roots, p \in Pkgs : d[r][p].stat[1] = r}
Pointers(p) == {u \in UnitPointer : u.key.pkg = p /\ u.own = u.key.own}
Databases == {f \in [Pkgs -> UnitPointer \cup {NoUnit, Garbled}] :
                \A p \in Pkgs : IsPointer(f[p]) => f[p] \in Pointers(p)}
BlobRecord == [facts : Versions, files : Stats, old : BOOLEAN]
IsCAS(b) == DOMAIN b \subseteq Keys /\ b \in [DOMAIN b -> BlobRecord]
StatsAgree(d, us, b) ==
    /\ \A r \in Roots, p \in Pkgs : IsPointer(us[r][p]) => StatAgrees(d, p, us[r][p].own, us[r][p].files)
    /\ \A k \in DOMAIN b : StatAgrees(d, k.pkg, k.own, b[k].files)
\* Facts and APIs are those of the content they are recorded under.
FactsAgree(us, b) ==
    /\ \A r \in Roots, p \in Pkgs : IsPointer(us[r][p]) => us[r][p].api = Api[us[r][p].own]
    /\ \A k \in DOMAIN b : b[k].facts = k.own

-----------------------------------------------------------------------------
(* The CAS *)

Has(k) == k \in DOMAIN blobs

\* A blob is written to a temporary file and renamed into place, so it
\* appears whole and its age starts anew.
Put(k, facts, stat) ==
    blobs' = [j \in DOMAIN blobs \cup {k} |->
                IF j = k THEN [facts |-> facts, files |-> stat, old |-> FALSE]
                         ELSE blobs[j]]

-----------------------------------------------------------------------------
(* The database of a root *)

\* The databases the CAS lists.  Only the indexer registers one (PutCASDir),
\* and goes on when that fails.  One that was seeded from a sibling or cloned
\* for a private session is not listed, and one that a session emptied no
\* longer names the CAS, until an indexer of its root registers it.
Members == {r \in Roots : file[r].state # "absent" /\ file[r].member}

\* References that have held since the collection began (history).
StillPinned(r, f) == {x \in gc.pinned : x[1] = r => x[2] \in KeysOf(f)}

\* One bbolt transaction on the unit bucket of root r.
PutUnitsBatch(r, new) ==
    LET f == [p \in Pkgs |-> IF p \in DOMAIN new THEN new[p] ELSE units[r][p]]
    IN  /\ units' = [units EXCEPT ![r] = f]
        /\ gc' = [gc EXCEPT !.pinned = StillPinned(r, f)]

\* A file written under another schema is emptied in place, an unreadable
\* one is removed and created again; both lose every pointer, and the record
\* of the CAS directory.  registers: PutCASDir follows, and succeeds.
Discarded(r) == file[r].state \in {"stale", "corrupt"}

Open(r, who, registers) ==
    /\ holder[r] = "none"
    /\ holder' = [holder EXCEPT ![r] = who]
    /\ file' = [file EXCEPT ![r] = [state |-> "current",
                                    fp |-> file[r].fp /\ file[r].state = "current",
                                    member |-> registers \/ (file[r].member /\ file[r].state = "current")]]
    /\ IF Discarded(r)
       THEN PutUnitsBatch(r, [p \in Pkgs |-> NoUnit])
       ELSE UNCHANGED <<units, gc>>

Close(r) == holder' = [holder EXCEPT ![r] = "none"]

-----------------------------------------------------------------------------
(* Mark and sweep.  The collector's own database is read in process; every *)
(* other one only if no live session holds it.                             *)

NoKey == [none |-> TRUE]
GCIdle == [pc |-> "idle", root |-> CHOOSE r \in Roots : TRUE, marks |-> {}, left |-> {},
           bad |-> FALSE, force |-> FALSE, todo |-> {}, victim |-> NoKey, pinned |-> {}]

RunCASGC(r, force) ==
    /\ gc.pc = "idle" /\ holder[r] # "none"
    /\ \E listed \in (IF ListingFails THEN BOOLEAN ELSE {TRUE}) :
         gc' = [GCIdle EXCEPT
                 !.pc = "mark", !.root = r, !.force = force,
                 !.marks = KeysOf(units[r]), !.bad = Unreadable(units[r]),
                 !.left = IF listed THEN Members \ {r} ELSE {},
                 !.pinned = {x \in (Members \cup {r}) \X DOMAIN blobs :
                               file[x[1]].state = "current" /\ x[2] \in KeysOf(units[x[1]])}]
    /\ UNCHANGED <<disk, blobs, units, file, holder, stamp>>

Readable(s) == file[s].state # "corrupt" /\ file[s].member

\* Mutant: a database another session holds is merely left out.
collectOtherCASMarksBusy(s) ==
    /\ gc.pc = "mark" /\ s \in gc.left
    /\ gc' = [gc EXCEPT !.left = @ \ {s},
                        !.marks = IF holder[s] = "none" /\ Readable(s) THEN @ \cup KeysOf(units[s]) ELSE @]
    /\ UNCHANGED <<disk, blobs, units, file, holder, stamp>>

\* A locked database, or one with a record that does not decode, makes the
\* mark set incomplete; one that cannot be opened at all, or no longer names
\* the CAS, is left out.
collectOtherCASMarks(s) ==
    /\ gc.pc = "mark" /\ s \in gc.left
    /\ gc' = [gc EXCEPT
               !.left = @ \ {s},
               !.bad = @ \/ holder[s] # "none" \/ (Readable(s) /\ Unreadable(units[s])),
               !.marks = IF holder[s] = "none" /\ Readable(s)
                         THEN @ \cup KeysOf(units[s]) ELSE @]
    /\ UNCHANGED <<disk, blobs, units, file, holder, stamp>>

MaybeGC ==
    /\ gc.pc = "mark" /\ gc.left = {}
    /\ LET runs == ~gc.bad /\ (gc.force \/ ~stamp)
       IN  /\ gc' = IF runs THEN [gc EXCEPT !.pc = "sweep", !.todo = DOMAIN blobs] ELSE GCIdle
           /\ stamp' = (stamp \/ (runs /\ ~gc.force))
    /\ UNCHANGED <<disk, blobs, units, file, holder>>

\* The walk looks at one blob file at a time ...
sweep(k) ==
    /\ gc.pc = "sweep" /\ gc.victim = NoKey /\ k \in gc.todo
    /\ gc' = [gc EXCEPT !.todo = @ \ {k},
                        !.victim = IF Has(k) /\ blobs[k].old /\ k \notin gc.marks THEN k ELSE NoKey]
    /\ UNCHANGED <<disk, blobs, units, file, holder, stamp>>

\* ... and removes it by name, whatever has happened to it since.
sweepRemove ==
    /\ gc.victim # NoKey
    /\ blobs' = [k \in DOMAIN blobs \ {gc.victim} |-> blobs[k]]
    /\ gc' = [gc EXCEPT !.victim = NoKey]
    /\ UNCHANGED <<disk, units, file, holder, stamp>>

sweepDone ==
    /\ gc.pc = "sweep" /\ gc.todo = {} /\ gc.victim = NoKey
    /\ gc' = GCIdle
    /\ UNCHANGED <<disk, blobs, units, file, holder, stamp>>

GCStep == \/ \E s \in Roots : collectOtherCASMarks(s)
          \/ MaybeGC
          \/ \E k \in gc.todo : sweep(k)
          \/ sweepRemove
          \/ sweepDone

-----------------------------------------------------------------------------
StoreTypeOK ==
    /\ disk \in [Roots -> [Pkgs -> [ver : Versions, stat : Stats]]]
    /\ DOMAIN blobs \subseteq Keys
    /\ \A k \in DOMAIN blobs : blobs[k] \in [facts : Versions, files : Stats, old : BOOLEAN]
    /\ \A r \in Roots : \A p \in Pkgs : IsPointer(units[r][p]) => units[r][p] \in UnitPointer
    /\ file \in [Roots -> [state : {"absent", "current", "stale", "corrupt"}, fp : BOOLEAN, member : BOOLEAN]]
    /\ holder \in [Roots -> {"none", "session", "indexer"}]
    /\ stamp \in BOOLEAN
    /\ gc.pc \in {"idle", "mark", "sweep"} /\ gc.marks \subseteq Keys /\ gc.left \subseteq Roots

\* A collection never removes a blob that the collector's own database, or
\* one the CAS listed when the collection began, has pointed at ever since,
\* whoever held that database (casgc.go: "a blob may only be swept when every
\* index database sharing casPath was actually read COMPLETELY this round").
\* The blobs of a database that is not listed are not protected: the sweep
\* does not know of it.
PinnedBlobsSurvive == \A x \in gc.pinned : Has(x[2])
=============================================================================
