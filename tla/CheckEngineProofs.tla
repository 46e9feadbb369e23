------------------------- MODULE CheckEngineProofs -------------------------
(***************************************************************************)
(* The safety theorems of CheckEngine, for any number of directories,      *)
(* recheck goroutines and request handlers, and any bounds: types and what *)
(* each action does to the recheck records, then jobs and the pending      *)
(* count.                                                                  *)
(***************************************************************************)
EXTENDS CheckEngine, FiniteSetTheorems, TLAPS

----------------------------------------------------------------------------
(* Type correctness.                                                       *)

(***************************************************************************)
(* A slot or a request handler that is in use has a unit to work on.       *)
(***************************************************************************)
InUse ==
    /\ \A r \in Slot : work[r].pc # "idle" => work[r].key \in Unit
    /\ \A r \in Slot : work[r].kind = "idle" <=> work[r].pc = "idle"
    /\ \A g \in Getter : getter[g].pc # "idle" => getter[g].key \in Unit

TypeInv == TypeOK /\ InUse

\* A workspace with finitely many directories has finitely many units.
LEMMA UnitIsFinite == IsFiniteSet(Unit)
<1> DEFINE base == [d \in Dir |-> [dir |-> d, variant |-> "base"]]
           ext == [d \in ExtDir |-> [dir |-> d, variant |-> "ext"]]
<1>1. base \in Surjection(Dir, [dir : Dir, variant : {"base"}])
  BY DEF Surjection
<1>2. ext \in Surjection(ExtDir, [dir : ExtDir, variant : {"ext"}])
  BY DEF Surjection
<1>3. IsFiniteSet(ExtDir)
  BY FS_Subset, EngineAssumption
<1>4. IsFiniteSet([dir : Dir, variant : {"base"}])
  BY <1>1, FS_Surjection, EngineAssumption
<1>5. IsFiniteSet([dir : ExtDir, variant : {"ext"}])
  BY <1>2, <1>3, FS_Surjection
<1> QED
  BY <1>4, <1>5, FS_Union DEF Unit

\* What armDebounceLocked adds to and takes from pendingWG is a number.
LEMMA UnitsAreCounted == \A K \in SUBSET Unit : Cardinality(K) \in Nat
<1> TAKE K \in SUBSET Unit
<1>1. IsFiniteSet(K)
  BY UnitIsFinite, FS_Subset
<1> QED
  BY <1>1, FS_CardinalityType

\* What the action lemmas need of the type invariant.
LEMMA TypeFacts ==
    ASSUME TypeInv
    PROVE  /\ work \in [Slot -> WorkState]
           /\ getter \in [Getter -> GetterState]
           /\ WorldTypeOK /\ CacheTypeOK /\ ScheduleTypeOK /\ LifeTypeOK
           /\ content \in [Unit -> Nat]
           /\ dep \in [Dir -> Nat]
           /\ cache \in [Unit -> Pkg \cup {None}]
           /\ gen \in [Unit -> Nat]
           /\ epoch \in [Unit -> Nat]
           /\ \A r \in Slot : work[r].pc # "idle" => work[r].key \in Unit
           /\ \A r \in Slot : work[r].kind # "idle" => work[r].key \in Unit
           /\ \A g \in Getter : getter[g].pc # "idle" => getter[g].key \in Unit
  BY DEF TypeInv, TypeOK, InUse, WorldTypeOK, CacheTypeOK, ScheduleTypeOK

\* The field updates a recheck makes keep its record well-typed.
LEMMA WorkUpdates ==
    ASSUME NEW w \in WorkState
    PROVE  /\ \A p \in WorkPc : [w EXCEPT !.pc = p] \in WorkState
           /\ \A p \in WorkPc, n \in Nat :
                 /\ [w EXCEPT !.pc = p, !.gen = n] \in WorkState
                 /\ [w EXCEPT !.pc = p, !.dep = n] \in WorkState
                 /\ [w EXCEPT !.pc = p, !.epoch = n] \in WorkState
           /\ \A p \in WorkPc, x \in Reading :
                 /\ [w EXCEPT !.pc = p, !.hash = x] \in WorkState
                 /\ [w EXCEPT !.pc = p, !.text = x] \in WorkState
           /\ \A p \in WorkPc :
                 /\ [w EXCEPT !.pc = p, !.ok = TRUE] \in WorkState
                 /\ [w EXCEPT !.pc = p, !.retried = TRUE] \in WorkState
                 /\ [w EXCEPT !.pc = p, !.canceled = TRUE] \in WorkState
           /\ \A b \in BOOLEAN : [w EXCEPT !.canceled = b] \in WorkState
  BY ZenonT(60) DEF WorkState

\* So are the records a recheck starts from.
LEMMA FreshWork ==
    /\ IdleWork \in WorkState
    /\ \A k \in Unit :
          /\ [IdleWork EXCEPT !.kind = "job", !.key = k, !.pc = "fired"]
                \in WorkState
          /\ \A x \in Reading :
                [IdleWork EXCEPT !.kind = "flight", !.key = k, !.pc = "begin",
                                 !.want = x] \in WorkState
  BY DEF IdleWork, WorkState, WorkPc, Reading, NoReading

\* The field updates a Get call makes keep its record well-typed.
LEMMA GetterUpdates ==
    ASSUME NEW v \in GetterState
    PROVE  /\ \A p \in GetterPc : [v EXCEPT !.pc = p] \in GetterState
           /\ \A p \in GetterPc, x \in Reading :
                 [v EXCEPT !.pc = p, !.hash = x] \in GetterState
           /\ \A p \in GetterPc, r \in Slot :
                 [v EXCEPT !.pc = p, !.on = r] \in GetterState
           /\ \A p \in GetterPc, c \in Pkg \cup {None} :
                 /\ [v EXCEPT !.pc = p, !.pkg = c] \in GetterState
                 /\ [v EXCEPT !.pc = p, !.on = None, !.pkg = c] \in GetterState
  BY DEF GetterState

\* A handler that is idle, or has just called Get, is well formed.
LEMMA FreshGetter ==
    /\ IdleGetter \in GetterState
    /\ \A k \in Unit, n \in Nat :
          [IdleGetter EXCEPT !.pc = "hash", !.key = k, !.since = n]
             \in GetterState
  BY DEF IdleGetter, GetterState, GetterPc, Reading, NoReading

\* Every unit is in a package directory.
LEMMA UnitDir == \A k \in Unit : k.dir \in Dir
  BY EngineAssumption DEF Unit

\* A recheck's result is a checked package.
LEMMA PkgOfType ==
    ASSUME work \in [Slot -> WorkState], NEW r \in Slot
    PROVE  /\ PkgOf(r) \in Pkg
           /\ [text |-> work[r].text, dep |-> work[r].dep]
                 \in Result
           /\ work[r].gen \in Nat
           /\ work[r].epoch \in Nat
  BY DEF PkgOf, Pkg, Result, WorkState

\* A reading that goes on without a file takes one fault from the budget.
LEMMA SkipsType ==
    ASSUME WorldTypeOK, NEW short \in BOOLEAN, Skips(short)
    PROVE  spent' \in [edits : Nat, deps : Nat, gets : Nat, faults : Nat,
                       stops : Nat]
<1>1. CASE short
  BY <1>1 DEF WorldTypeOK, Skips
<1>2. CASE ~short
  BY <1>2 DEF WorldTypeOK, Skips
<1> QED
  BY <1>1, <1>2

\* What a reading of unit k returns is one.
LEMMA ReadingType ==
    ASSUME content \in [Unit -> Nat]
    PROVE  \A k \in Unit : \A b \in BOOLEAN :
              [version |-> content[k], short |-> b] \in Reading
  BY DEF Reading

\* New hands out an engine of the right type.
LEMMA InitTypeInv == Init => TypeInv
<1> SUFFICES ASSUME Init PROVE TypeInv
  OBVIOUS
<1>1. WorldTypeOK
  BY DEF Init, WorldTypeOK
<1>2. CacheTypeOK
  BY DEF Init, CacheTypeOK
<1>3. ScheduleTypeOK
  BY DEF Init, ScheduleTypeOK
<1>4. LifeTypeOK
  BY DEF Init, LifeTypeOK
<1>5. work \in [Slot -> WorkState] /\ getter \in [Getter -> GetterState]
  BY FreshWork, FreshGetter DEF Init
<1>6. InUse
  BY DEF Init, InUse, IdleWork, IdleGetter
<1> QED
  BY <1>1, <1>2, <1>3, <1>4, <1>5, <1>6 DEF TypeInv, TypeOK

\* Edit keeps the type invariant.
LEMMA EditType == ASSUME TypeInv, NEW k \in Unit, Edit(k) PROVE TypeInv'
<1>1. /\ CacheTypeOK'
      /\ ScheduleTypeOK'
      /\ LifeTypeOK'
      /\ work' \in [Slot -> WorkState]
      /\ getter' \in [Getter -> GetterState]
  BY DEF TypeInv, TypeOK, CacheTypeOK, ScheduleTypeOK, LifeTypeOK, Edit, Room,
         world, jobs, gens, store, life, client, history
<1>2. WorldTypeOK'
  BY TypeFacts, UnitDir, EngineAssumption
     DEF WorldTypeOK, Edit, Room, world, jobs, gens, store, life, client,
         history
<1>3. InUse'
  BY TypeFacts
     DEF TypeInv, TypeOK, InUse, IdleWork, IdleGetter, WorkState, GetterState,
         NextPc, Edit, Room, world, jobs, gens, store, life, client, history
<1> QED
  BY <1>1, <1>2, <1>3 DEF TypeInv, TypeOK

\* DependencyChange keeps the type invariant.
LEMMA DependencyChangeType ==
    ASSUME TypeInv, NEW d \in Dir, DependencyChange(d)
    PROVE  TypeInv'
<1>1. /\ CacheTypeOK'
      /\ ScheduleTypeOK'
      /\ LifeTypeOK'
      /\ work' \in [Slot -> WorkState]
      /\ getter' \in [Getter -> GetterState]
  BY DEF TypeInv, TypeOK, CacheTypeOK, ScheduleTypeOK, LifeTypeOK,
         DependencyChange, Room, world, jobs, gens, store, life, client,
         history
<1>2. WorldTypeOK'
  BY TypeFacts
     DEF WorldTypeOK, Unit, DependencyChange, Room, world, jobs, gens, store,
         life, client, history
<1>3. InUse'
  BY TypeFacts
     DEF TypeInv, TypeOK, InUse, IdleWork, IdleGetter, WorkState, GetterState,
         NextPc, DependencyChange, Room, world, jobs, gens, store, life,
         client, history
<1> QED
  BY <1>1, <1>2, <1>3 DEF TypeInv, TypeOK

\* Invalidate keeps the type invariant.
LEMMA InvalidateType ==
    ASSUME TypeInv, NEW d \in Dir, Invalidate(d)
    PROVE  TypeInv'
<1>1. /\ CacheTypeOK'
      /\ LifeTypeOK'
      /\ work' \in [Slot -> WorkState]
      /\ getter' \in [Getter -> GetterState]
  BY DEF TypeInv, TypeOK, CacheTypeOK, LifeTypeOK, Invalidate,
         armDebounceLocked, InvalidateKeys, UnitsOf, world, jobs, gens, store,
         life, client, history
<1>2. WorldTypeOK'
  BY TypeFacts
     DEF WorldTypeOK, Unit, Invalidate, armDebounceLocked, InvalidateKeys,
         UnitsOf, world, jobs, gens, store, life, client, history
<1>3. ScheduleTypeOK'
  BY TypeFacts, UnitsAreCounted
     DEF ScheduleTypeOK, Invalidate, armDebounceLocked, InvalidateKeys,
         UnitsOf, world, jobs, gens, store, life, client, history
<1>4. InUse'
  BY TypeFacts
     DEF TypeInv, TypeOK, InUse, IdleWork, IdleGetter, WorkState, GetterState,
         NextPc, Invalidate, armDebounceLocked, InvalidateKeys, UnitsOf,
         world, jobs, gens, store, life, client, history
<1> QED
  BY <1>1, <1>2, <1>3, <1>4 DEF TypeInv, TypeOK

\* InvalidateDependency keeps the type invariant.
LEMMA InvalidateDependencyType ==
    ASSUME TypeInv, NEW d \in Dir, InvalidateDependency(d)
    PROVE  TypeInv'
<1>1. /\ LifeTypeOK'
      /\ work' \in [Slot -> WorkState]
      /\ getter' \in [Getter -> GetterState]
  BY DEF TypeInv, TypeOK, LifeTypeOK, InvalidateDependency, armDebounceLocked,
         InvalidateDependencyKeys, UnitsOf, world, jobs, gens, store, life,
         client, history
<1>2. WorldTypeOK'
  BY TypeFacts
     DEF WorldTypeOK, Unit, InvalidateDependency, armDebounceLocked,
         InvalidateDependencyKeys, UnitsOf, world, jobs, gens, store, life,
         client, history
<1>3. CacheTypeOK'
  BY TypeFacts, PkgOfType
     DEF CacheTypeOK, Unit, InvalidateDependency, armDebounceLocked,
         InvalidateDependencyKeys, UnitsOf, world, jobs, gens, store, life,
         client, history
<1>4. ScheduleTypeOK'
  BY TypeFacts, UnitsAreCounted
     DEF ScheduleTypeOK, InvalidateDependency, armDebounceLocked,
         InvalidateDependencyKeys, UnitsOf, world, jobs, gens, store, life,
         client, history
<1>5. InUse'
  BY TypeFacts
     DEF TypeInv, TypeOK, InUse, IdleWork, IdleGetter, WorkState, GetterState,
         NextPc, InvalidateDependency, armDebounceLocked,
         InvalidateDependencyKeys, UnitsOf, world, jobs, gens, store, life,
         client, history
<1> QED
  BY <1>1, <1>2, <1>3, <1>4, <1>5 DEF TypeInv, TypeOK

\* SetFocus keeps the type invariant.
LEMMA SetFocusType ==
    ASSUME TypeInv, NEW k \in Unit, SetFocus(k)
    PROVE  TypeInv'
<1>1. /\ WorldTypeOK'
      /\ ScheduleTypeOK'
      /\ LifeTypeOK'
      /\ work' \in [Slot -> WorkState]
      /\ getter' \in [Getter -> GetterState]
  BY DEF TypeInv, TypeOK, WorldTypeOK, ScheduleTypeOK, LifeTypeOK, SetFocus,
         world, jobs, gens, store, life, client, history
<1>2. CacheTypeOK'
  BY TypeFacts, UnitDir
     DEF CacheTypeOK, SetFocus, world, jobs, gens, store, life, client,
         history
<1>3. InUse'
  BY TypeFacts
     DEF TypeInv, TypeOK, InUse, IdleWork, IdleGetter, WorkState, GetterState,
         NextPc, SetFocus, world, jobs, gens, store, life, client, history
<1> QED
  BY <1>1, <1>2, <1>3 DEF TypeInv, TypeOK

\* TimerFires keeps the type invariant.
LEMMA TimerFiresType ==
    ASSUME TypeInv, NEW k \in Unit, NEW r \in Slot, TimerFires(k, r)
    PROVE  TypeInv'
<1>1. /\ WorldTypeOK'
      /\ CacheTypeOK'
      /\ LifeTypeOK'
      /\ getter' \in [Getter -> GetterState]
  BY DEF TypeInv, TypeOK, WorldTypeOK, CacheTypeOK, LifeTypeOK, TimerFires,
         world, jobs, gens, store, life, client, history
<1>2. ScheduleTypeOK'
  BY TypeFacts, UnitsAreCounted
     DEF ScheduleTypeOK, TimerFires, world, jobs, gens, store, life, client,
         history
<1>3. work' \in [Slot -> WorkState]
  BY TypeFacts, WorkUpdates, FreshWork DEF WorkPc, Unit, TimerFires
<1>4. InUse'
  BY TypeFacts
     DEF TypeInv, TypeOK, InUse, IdleWork, IdleGetter, WorkState, GetterState,
         NextPc, TimerFires, world, jobs, gens, store, life, client, history
<1> QED
  BY <1>1, <1>2, <1>3, <1>4 DEF TypeInv, TypeOK

\* startJobStopped keeps the type invariant.
LEMMA startJobStoppedType ==
    ASSUME TypeInv, NEW r \in Slot, startJobStopped(r)
    PROVE  TypeInv'
<1>1. /\ WorldTypeOK'
      /\ CacheTypeOK'
      /\ ScheduleTypeOK'
      /\ LifeTypeOK'
      /\ getter' \in [Getter -> GetterState]
  BY DEF TypeInv, TypeOK, WorldTypeOK, CacheTypeOK, ScheduleTypeOK,
         LifeTypeOK, startJobStopped, world, jobs, gens, store, life, client,
         history
<1>2. work' \in [Slot -> WorkState]
  BY TypeFacts, WorkUpdates, FreshWork DEF WorkPc, Unit, startJobStopped
<1>3. InUse'
  BY TypeFacts
     DEF TypeInv, TypeOK, InUse, IdleWork, IdleGetter, WorkState, GetterState,
         NextPc, startJobStopped, world, jobs, gens, store, life, client,
         history
<1> QED
  BY <1>1, <1>2, <1>3 DEF TypeInv, TypeOK

\* startJob keeps the type invariant.
LEMMA startJobType ==
    ASSUME TypeInv, NEW r \in Slot, startJob(r)
    PROVE  TypeInv'
<1>1. /\ CacheTypeOK'
      /\ LifeTypeOK'
      /\ getter' \in [Getter -> GetterState]
  BY DEF TypeInv, TypeOK, CacheTypeOK, LifeTypeOK, startJob, world, jobs,
         gens, store, life, client, history
<1>2. WorldTypeOK'
  BY TypeFacts
     DEF WorldTypeOK, Unit, startJob, world, jobs, gens, store, life, client,
         history
<1>3. ScheduleTypeOK'
  BY TypeFacts, UnitsAreCounted
     DEF ScheduleTypeOK, startJob, world, jobs, gens, store, life, client,
         history
<1>4. work' \in [Slot -> WorkState]
  <2>1. epoch[work[r].key] + 1 \in Nat
    BY TypeFacts DEF startJob
  <2>2. [work[r] EXCEPT !.pc = "begin", !.epoch = epoch[work[r].key] + 1]
           \in WorkState
    BY <2>1, TypeFacts, WorkUpdates DEF WorkPc
  <2>3. \A s \in Slot : \A b \in BOOLEAN : [work[s] EXCEPT !.canceled = b]
                                                \in WorkState
    BY TypeFacts, WorkUpdates
  <2>4. \A s \in Slot : (work[s].canceled \/ s \in Superseded(r)) \in BOOLEAN
    OBVIOUS
  <2>5. \A s \in Slot : [work[s] EXCEPT !.canceled = @ \/ s \in Superseded(r)]
                            \in WorkState
    BY <2>3, <2>4
  <2> QED
    BY <2>2, <2>5 DEF startJob
<1>5. InUse'
  BY TypeFacts
     DEF TypeInv, TypeOK, InUse, IdleWork, IdleGetter, WorkState, GetterState,
         NextPc, startJob, world, jobs, gens, store, life, client, history
<1> QED
  BY <1>1, <1>2, <1>3, <1>4, <1>5 DEF TypeInv, TypeOK

\* fireRecheckRetry keeps the type invariant.
LEMMA fireRecheckRetryType ==
    ASSUME TypeInv, NEW r \in Slot, fireRecheckRetry(r)
    PROVE  TypeInv'
<1>1. /\ WorldTypeOK'
      /\ CacheTypeOK'
      /\ ScheduleTypeOK'
      /\ LifeTypeOK'
      /\ getter' \in [Getter -> GetterState]
  BY DEF TypeInv, TypeOK, WorldTypeOK, CacheTypeOK, ScheduleTypeOK,
         LifeTypeOK, fireRecheckRetry, world, jobs, gens, store, life, client,
         history
<1>2. work' \in [Slot -> WorkState]
  BY TypeFacts, WorkUpdates, FreshWork DEF WorkPc, Unit, fireRecheckRetry
<1>3. InUse'
  BY TypeFacts
     DEF TypeInv, TypeOK, InUse, IdleWork, IdleGetter, WorkState, GetterState,
         NextPc, fireRecheckRetry, world, jobs, gens, store, life, client,
         history
<1> QED
  BY <1>1, <1>2, <1>3 DEF TypeInv, TypeOK

\* fireRecheckReturns keeps the type invariant.
LEMMA fireRecheckReturnsType ==
    ASSUME TypeInv, NEW r \in Slot, fireRecheckReturns(r)
    PROVE  TypeInv'
<1>1. /\ CacheTypeOK'
      /\ LifeTypeOK'
      /\ getter' \in [Getter -> GetterState]
  BY DEF TypeInv, TypeOK, CacheTypeOK, LifeTypeOK, fireRecheckReturns, world,
         jobs, gens, store, life, client, history
<1>2. WorldTypeOK'
  BY TypeFacts
     DEF WorldTypeOK, Unit, fireRecheckReturns, world, jobs, gens, store,
         life, client, history
<1>3. ScheduleTypeOK'
  BY TypeFacts, UnitsAreCounted
     DEF ScheduleTypeOK, fireRecheckReturns, world, jobs, gens, store, life,
         client, history
<1>4. work' \in [Slot -> WorkState]
  BY TypeFacts, WorkUpdates, FreshWork DEF WorkPc, Unit, fireRecheckReturns
<1>5. InUse'
  BY TypeFacts
     DEF TypeInv, TypeOK, InUse, IdleWork, IdleGetter, WorkState, GetterState,
         NextPc, fireRecheckReturns, world, jobs, gens, store, life, client,
         history
<1> QED
  BY <1>1, <1>2, <1>3, <1>4, <1>5 DEF TypeInv, TypeOK

\* nextGen keeps the type invariant.
LEMMA nextGenType == ASSUME TypeInv, NEW r \in Slot, nextGen(r) PROVE TypeInv'
<1>1. /\ WorldTypeOK'
      /\ LifeTypeOK'
      /\ getter' \in [Getter -> GetterState]
  BY DEF TypeInv, TypeOK, WorldTypeOK, LifeTypeOK, nextGen, NextPc, world,
         jobs, gens, store, life, client, history
<1>2. CacheTypeOK'
  BY TypeFacts, PkgOfType
     DEF CacheTypeOK, Unit, nextGen, NextPc, world, jobs, gens, store, life,
         client, history
<1>3. ScheduleTypeOK'
  BY TypeFacts, UnitsAreCounted
     DEF ScheduleTypeOK, nextGen, NextPc, world, jobs, gens, store, life,
         client, history
<1>4. work' \in [Slot -> WorkState]
  <2>1. gen[work[r].key] + 1 \in Nat
    BY TypeFacts DEF nextGen
  <2>2. [work[r] EXCEPT !.pc = "finish"] \in WorkState
    BY TypeFacts, WorkUpdates DEF WorkPc
  <2>3. [work[r] EXCEPT !.pc = "hash", !.gen = gen[work[r].key] + 1]
           \in WorkState
    BY <2>1, TypeFacts, WorkUpdates DEF WorkPc
  <2> QED
    BY <2>2, <2>3, TypeFacts DEF nextGen
<1>5. InUse'
  BY SMTT(20), TypeFacts
     DEF TypeInv, TypeOK, InUse, IdleWork, IdleGetter, WorkState, GetterState,
         NextPc, nextGen, NextPc, world, jobs, gens, store, life, client,
         history
<1> QED
  BY <1>1, <1>2, <1>3, <1>4, <1>5 DEF TypeInv, TypeOK

\* ReadFails keeps the type invariant.
LEMMA ReadFailsType ==
    ASSUME TypeInv, NEW r \in Slot, ReadFails(r)
    PROVE  TypeInv'
<1>1. /\ CacheTypeOK'
      /\ ScheduleTypeOK'
      /\ LifeTypeOK'
      /\ getter' \in [Getter -> GetterState]
  BY DEF TypeInv, TypeOK, CacheTypeOK, ScheduleTypeOK, LifeTypeOK, ReadFails,
         MayFail, Room, world, jobs, gens, store, life, client, history
<1>2. WorldTypeOK'
  BY TypeFacts
     DEF WorldTypeOK, Unit, ReadFails, MayFail, Room, world, jobs, gens, store, life,
         client, history
<1>3. work' \in [Slot -> WorkState]
  BY TypeFacts, WorkUpdates, FreshWork DEF WorkPc, Unit, ReadFails, MayFail, Room
<1>4. InUse'
  BY TypeFacts
     DEF TypeInv, TypeOK, InUse, IdleWork, IdleGetter, WorkState, GetterState,
         NextPc, ReadFails, MayFail, Room, world, jobs, gens, store, life, client,
         history
<1> QED
  BY <1>1, <1>2, <1>3, <1>4 DEF TypeInv, TypeOK

\* contentHash keeps the type invariant.
LEMMA contentHashType ==
    ASSUME TypeInv, NEW r \in Slot, contentHash(r)
    PROVE  TypeInv'
<1>1. /\ CacheTypeOK'
      /\ ScheduleTypeOK'
      /\ LifeTypeOK'
      /\ getter' \in [Getter -> GetterState]
  BY DEF TypeInv, TypeOK, CacheTypeOK, ScheduleTypeOK, LifeTypeOK, contentHash, jobs,
         gens, store, life, client
<1>2. PICK short \in BOOLEAN :
         /\ Skips(short)
         /\ work' = [work EXCEPT
                       ![r].pc = NextPc(r, "parse"),
                       ![r].hash = [version |-> content[work[r].key],
                                    short |-> short]]
  BY DEF contentHash
<1>3. WorldTypeOK'
  BY <1>2, TypeFacts, SkipsType DEF WorldTypeOK, contentHash, history
<1>4. /\ work[r] \in WorkState /\ work[r].key \in Unit
      /\ NextPc(r, "parse") \in WorkPc
  BY TypeFacts DEF contentHash, NextPc, WorkPc
<1>5. [version |-> content[work[r].key], short |-> short] \in Reading
  BY <1>4, TypeFacts, ReadingType DEF WorkState, Reading
<1>6. work' \in [Slot -> WorkState]
  BY <1>2, <1>4, <1>5, TypeFacts, WorkUpdates
<1>7. InUse'
  BY <1>2, TypeFacts
     DEF TypeInv, TypeOK, InUse, WorkState, NextPc, contentHash, client
<1> QED
  BY <1>1, <1>3, <1>6, <1>7 DEF TypeInv, TypeOK

\* parseFiles keeps the type invariant.
LEMMA parseFilesType ==
    ASSUME TypeInv, NEW r \in Slot, parseFiles(r)
    PROVE  TypeInv'
<1>1. /\ CacheTypeOK'
      /\ ScheduleTypeOK'
      /\ LifeTypeOK'
      /\ getter' \in [Getter -> GetterState]
  BY DEF TypeInv, TypeOK, CacheTypeOK, ScheduleTypeOK, LifeTypeOK, parseFiles, jobs,
         gens, store, life, client
<1>2. PICK short \in BOOLEAN :
         /\ Skips(short)
         /\ work' = [work EXCEPT
                       ![r].pc = NextPc(r, "check"),
                       ![r].text = [version |-> content[work[r].key],
                                    short |-> short \/ work[r].hash.short]]
  BY DEF parseFiles
<1>3. WorldTypeOK'
  BY <1>2, TypeFacts, SkipsType DEF WorldTypeOK, parseFiles, history
<1>4. /\ work[r] \in WorkState /\ work[r].key \in Unit
      /\ NextPc(r, "check") \in WorkPc
  BY TypeFacts DEF parseFiles, NextPc, WorkPc
<1>5. [version |-> content[work[r].key], short |-> short \/ work[r].hash.short] \in Reading
  BY <1>4, TypeFacts, ReadingType DEF WorkState, Reading
<1>6. work' \in [Slot -> WorkState]
  BY <1>2, <1>4, <1>5, TypeFacts, WorkUpdates
<1>7. InUse'
  BY <1>2, TypeFacts
     DEF TypeInv, TypeOK, InUse, WorkState, NextPc, parseFiles, client
<1> QED
  BY <1>1, <1>3, <1>6, <1>7 DEF TypeInv, TypeOK

\* CheckPackage keeps the type invariant.
LEMMA CheckPackageType ==
    ASSUME TypeInv, NEW r \in Slot, CheckPackage(r)
    PROVE  TypeInv'
<1>1. /\ WorldTypeOK'
      /\ CacheTypeOK'
      /\ ScheduleTypeOK'
      /\ LifeTypeOK'
      /\ getter' \in [Getter -> GetterState]
  BY DEF TypeInv, TypeOK, WorldTypeOK, CacheTypeOK, ScheduleTypeOK,
         LifeTypeOK, CheckPackage, NextPc, world, jobs, gens, store, life,
         client, history
<1>2. work' \in [Slot -> WorkState]
  <2>1. dep[work[r].key.dir] \in Nat
    BY TypeFacts, UnitDir DEF CheckPackage
  <2> QED
    BY ZenonT(60), <2>1, TypeFacts, WorkUpdates DEF WorkPc, CheckPackage, NextPc
<1>3. InUse'
  BY TypeFacts
     DEF TypeInv, TypeOK, InUse, IdleWork, IdleGetter, WorkState, GetterState,
         NextPc, CheckPackage, NextPc, world, jobs, gens, store, life, client,
         history
<1> QED
  BY <1>1, <1>2, <1>3 DEF TypeInv, TypeOK

\* commitCacheDropped keeps the type invariant.
LEMMA commitCacheDroppedType ==
    ASSUME TypeInv, NEW r \in Slot, commitCacheDropped(r)
    PROVE  TypeInv'
<1>1. /\ WorldTypeOK'
      /\ CacheTypeOK'
      /\ ScheduleTypeOK'
      /\ LifeTypeOK'
      /\ getter' \in [Getter -> GetterState]
  BY DEF TypeInv, TypeOK, WorldTypeOK, CacheTypeOK, ScheduleTypeOK,
         LifeTypeOK, commitCacheDropped, world, jobs, gens, store, life,
         client, history
<1>2. work' \in [Slot -> WorkState]
  BY TypeFacts, WorkUpdates, FreshWork DEF WorkPc, Unit, commitCacheDropped
<1>3. InUse'
  BY TypeFacts
     DEF TypeInv, TypeOK, InUse, IdleWork, IdleGetter, WorkState, GetterState,
         NextPc, commitCacheDropped, world, jobs, gens, store, life, client,
         history
<1> QED
  BY <1>1, <1>2, <1>3 DEF TypeInv, TypeOK

\* commitCache keeps the type invariant.
LEMMA commitCacheType ==
    ASSUME TypeInv, NEW r \in Slot, commitCache(r)
    PROVE  TypeInv'
<1>1. /\ WorldTypeOK'
      /\ LifeTypeOK'
      /\ getter' \in [Getter -> GetterState]
  BY DEF TypeInv, TypeOK, WorldTypeOK, LifeTypeOK, commitCache, PkgOf, Touch,
         world, jobs, gens, store, life, client, history
<1>0. work[r].key \in Unit
  BY TypeFacts DEF commitCache
<1>2. CacheTypeOK'
  <2>1. cache' \in [Unit -> Pkg \cup {None}]
    BY TypeFacts, PkgOfType DEF commitCache
  <2>2. older' \subseteq Unit \X Unit
    BY <1>0 DEF TypeInv, TypeOK, CacheTypeOK, commitCache, Touch
  <2>3. UNCHANGED <<known, focus, published>>
    BY DEF commitCache, client
  <2> QED
    BY <2>1, <2>2, <2>3 DEF TypeInv, TypeOK, CacheTypeOK
<1>3. ScheduleTypeOK'
  <2>1. doneGen' \in [Unit -> Nat]
    BY TypeFacts, PkgOfType DEF TypeInv, TypeOK, ScheduleTypeOK, commitCache
  <2>2. UNCHANGED <<timer, cancelOf, flight, epoch, gen, pubGen, pending>>
    BY DEF commitCache, jobs
  <2> QED
    BY <2>1, <2>2 DEF TypeInv, TypeOK, ScheduleTypeOK
<1>4. work' \in [Slot -> WorkState]
  BY TypeFacts, WorkUpdates, FreshWork
     DEF WorkPc, Unit, commitCache, PkgOf, Touch
<1>5. InUse'
  BY TypeFacts
     DEF TypeInv, TypeOK, InUse, IdleWork, IdleGetter, WorkState, GetterState,
         NextPc, commitCache, PkgOf, Touch, world, jobs, gens, store, life,
         client, history
<1> QED
  BY <1>1, <1>2, <1>3, <1>4, <1>5 DEF TypeInv, TypeOK

\* commitRetired keeps the type invariant.
LEMMA commitRetiredType ==
    ASSUME TypeInv, NEW r \in Slot, commitRetired(r)
    PROVE  TypeInv'
<1>1. /\ WorldTypeOK'
      /\ CacheTypeOK'
      /\ ScheduleTypeOK'
      /\ LifeTypeOK'
      /\ getter' \in [Getter -> GetterState]
  BY DEF TypeInv, TypeOK, WorldTypeOK, CacheTypeOK, ScheduleTypeOK,
         LifeTypeOK, commitRetired, world, jobs, gens, store, life, client,
         history
<1>2. work' \in [Slot -> WorkState]
  BY TypeFacts, WorkUpdates, FreshWork DEF WorkPc, Unit, commitRetired
<1>3. InUse'
  BY TypeFacts
     DEF TypeInv, TypeOK, InUse, IdleWork, IdleGetter, WorkState, GetterState,
         NextPc, commitRetired, world, jobs, gens, store, life, client,
         history
<1> QED
  BY <1>1, <1>2, <1>3 DEF TypeInv, TypeOK

\* commitPublish keeps the type invariant.
LEMMA commitPublishType ==
    ASSUME TypeInv, NEW r \in Slot, commitPublish(r)
    PROVE  TypeInv'
<1>1. /\ WorldTypeOK'
      /\ LifeTypeOK'
      /\ getter' \in [Getter -> GetterState]
  BY DEF TypeInv, TypeOK, WorldTypeOK, LifeTypeOK, commitPublish, world, jobs,
         gens, store, life, client, history
<1>2. CacheTypeOK'
  <2>1. published' \in [Unit -> Result \cup {None}]
    BY PkgOfType DEF TypeInv, TypeOK, CacheTypeOK, commitPublish
  <2>2. UNCHANGED <<known, focus, cache, older>>
    BY DEF commitPublish, store
  <2> QED
    BY <2>1, <2>2 DEF TypeInv, TypeOK, CacheTypeOK
<1>3. ScheduleTypeOK'
  <2>1. pubGen' \in [Unit -> Nat]
    BY PkgOfType DEF TypeInv, TypeOK, ScheduleTypeOK, commitPublish
  <2>2. UNCHANGED <<timer, cancelOf, flight, epoch, gen, doneGen, pending>>
    BY DEF commitPublish, jobs
  <2> QED
    BY <2>1, <2>2 DEF TypeInv, TypeOK, ScheduleTypeOK
<1>4. work' \in [Slot -> WorkState]
  BY TypeFacts, WorkUpdates, FreshWork DEF WorkPc, Unit, commitPublish
<1>5. InUse'
  BY TypeFacts
     DEF TypeInv, TypeOK, InUse, IdleWork, IdleGetter, WorkState, GetterState,
         NextPc, commitPublish, world, jobs, gens, store, life, client,
         history
<1> QED
  BY <1>1, <1>2, <1>3, <1>4, <1>5 DEF TypeInv, TypeOK

\* GetStarts keeps the type invariant.
LEMMA GetStartsType ==
    ASSUME TypeInv, NEW g \in Getter, NEW k \in Unit, GetStarts(g, k)
    PROVE  TypeInv'
<1>1. /\ ScheduleTypeOK'
      /\ LifeTypeOK'
      /\ work' \in [Slot -> WorkState]
  BY DEF TypeInv, TypeOK, ScheduleTypeOK, LifeTypeOK, GetStarts, Room, world,
         jobs, gens, store, life, client, history
<1>2. WorldTypeOK'
  BY TypeFacts
     DEF WorldTypeOK, Unit, GetStarts, Room, world, jobs, gens, store, life,
         client, history
<1>3. CacheTypeOK'
  BY TypeFacts, PkgOfType
     DEF CacheTypeOK, Unit, GetStarts, Room, world, jobs, gens, store, life,
         client, history
<1>4. getter' \in [Getter -> GetterState]
  BY TypeFacts, GetterUpdates, FreshGetter, PkgOfType
     DEF GetterPc, GetStarts, Room
<1>5. InUse'
  BY TypeFacts
     DEF TypeInv, TypeOK, InUse, IdleWork, IdleGetter, WorkState, GetterState,
         NextPc, GetStarts, Room, world, jobs, gens, store, life, client,
         history
<1> QED
  BY <1>1, <1>2, <1>3, <1>4, <1>5 DEF TypeInv, TypeOK

\* GetHashes keeps the type invariant.
LEMMA GetHashesType ==
    ASSUME TypeInv, NEW g \in Getter, GetHashes(g)
    PROVE  TypeInv'
<1>1. /\ CacheTypeOK'
      /\ ScheduleTypeOK'
      /\ LifeTypeOK'
      /\ work' \in [Slot -> WorkState]
  BY DEF TypeInv, TypeOK, CacheTypeOK, ScheduleTypeOK, LifeTypeOK, GetHashes,
         jobs, gens, store, life
<1>2. PICK short \in BOOLEAN :
         /\ Skips(short)
         /\ getter' = [getter EXCEPT
                         ![g].pc = "lookup",
                         ![g].hash = [version |-> content[getter[g].key],
                                      short |-> short]]
  BY DEF GetHashes
<1>3. WorldTypeOK'
  BY <1>2, TypeFacts, SkipsType DEF WorldTypeOK, GetHashes, history
<1>4. getter[g] \in GetterState /\ getter[g].key \in Unit
  BY TypeFacts DEF GetHashes
<1>5. [version |-> content[getter[g].key], short |-> short] \in Reading
  BY <1>4, TypeFacts, ReadingType
<1>6. getter' \in [Getter -> GetterState]
  BY <1>2, <1>4, <1>5, TypeFacts, GetterUpdates DEF GetterPc
<1>7. InUse'
  BY <1>2, TypeFacts DEF TypeInv, TypeOK, InUse, GetterState, GetHashes
<1> QED
  BY <1>1, <1>3, <1>6, <1>7 DEF TypeInv, TypeOK

\* GetFails keeps the type invariant.
LEMMA GetFailsType ==
    ASSUME TypeInv, NEW g \in Getter, GetFails(g)
    PROVE  TypeInv'
<1>1. /\ CacheTypeOK'
      /\ ScheduleTypeOK'
      /\ LifeTypeOK'
      /\ work' \in [Slot -> WorkState]
  BY DEF TypeInv, TypeOK, CacheTypeOK, ScheduleTypeOK, LifeTypeOK, GetFails,
         MayFail, Room, world, jobs, gens, store, life, client, history
<1>2. WorldTypeOK'
  BY TypeFacts
     DEF WorldTypeOK, Unit, GetFails, MayFail, Room, world, jobs, gens, store, life,
         client, history
<1>3. getter' \in [Getter -> GetterState]
  BY TypeFacts, GetterUpdates, FreshGetter, PkgOfType
     DEF GetterPc, GetFails, MayFail, Room
<1>4. InUse'
  BY TypeFacts
     DEF TypeInv, TypeOK, InUse, IdleWork, IdleGetter, WorkState, GetterState,
         NextPc, GetFails, MayFail, Room, world, jobs, gens, store, life, client,
         history
<1> QED
  BY <1>1, <1>2, <1>3, <1>4 DEF TypeInv, TypeOK

\* GetLooksUp keeps the type invariant.
LEMMA GetLooksUpType ==
    ASSUME TypeInv, NEW g \in Getter, GetLooksUp(g)
    PROVE  TypeInv'
<1>1. /\ WorldTypeOK'
      /\ ScheduleTypeOK'
      /\ LifeTypeOK'
      /\ work' \in [Slot -> WorkState]
  BY DEF TypeInv, TypeOK, WorldTypeOK, ScheduleTypeOK, LifeTypeOK, GetLooksUp,
         CacheHit, Touch, world, jobs, gens, store, life, client, history
<1>2. CacheTypeOK'
  BY TypeFacts, PkgOfType
     DEF CacheTypeOK, Unit, GetLooksUp, CacheHit, Touch, world, jobs, gens,
         store, life, client, history
<1>3. getter' \in [Getter -> GetterState]
  <2>1. cache[getter[g].key] \in Pkg \cup {None}
    BY TypeFacts DEF GetLooksUp
  <2>2. [getter[g] EXCEPT !.pc = "done", !.pkg = cache[getter[g].key]]
           \in GetterState
    BY <2>1, TypeFacts, GetterUpdates DEF GetterPc
  <2>3. [getter[g] EXCEPT !.pc = "flight"] \in GetterState
    BY TypeFacts, GetterUpdates DEF GetterPc
  <2> QED
    BY <2>2, <2>3, TypeFacts DEF GetLooksUp
<1>4. InUse'
  <2>1. \A h \in Getter : /\ getter'[h].key = getter[h].key
                          /\ getter'[h].pc # "idle" => getter[h].pc # "idle"
    BY TypeFacts DEF GetLooksUp, GetterState
  <2>2. work' = work
    BY DEF GetLooksUp
  <2> QED
    BY <2>1, <2>2 DEF TypeInv, InUse
<1> QED
  BY <1>1, <1>2, <1>3, <1>4 DEF TypeInv, TypeOK

\* getOrStartFlightJoin keeps the type invariant.
LEMMA getOrStartFlightJoinType ==
    ASSUME TypeInv, NEW g \in Getter, getOrStartFlightJoin(g)
    PROVE  TypeInv'
<1>1. /\ WorldTypeOK'
      /\ CacheTypeOK'
      /\ ScheduleTypeOK'
      /\ LifeTypeOK'
      /\ work' \in [Slot -> WorkState]
  BY DEF TypeInv, TypeOK, WorldTypeOK, CacheTypeOK, ScheduleTypeOK,
         LifeTypeOK, getOrStartFlightJoin, Joinable, ResultOf, world, jobs,
         gens, store, life, client, history
<1>2. getter' \in [Getter -> GetterState]
  <2>1. PICK r \in Joinable(g) :
          getter' = [getter EXCEPT
                       ![g] = IF work[r].pc = "closed"
                              THEN [@ EXCEPT !.pc = "done", !.pkg = ResultOf(r)]
                              ELSE [@ EXCEPT !.pc = "wait", !.on = r]]
    BY DEF getOrStartFlightJoin
  <2>2. r \in Slot
    BY TypeFacts DEF Joinable, ScheduleTypeOK, getOrStartFlightJoin
  <2>3. ResultOf(r) \in Pkg \cup {None}
    BY <2>2, TypeFacts, PkgOfType DEF ResultOf
  <2> QED
    BY <2>1, <2>2, <2>3, TypeFacts, GetterUpdates DEF GetterPc
<1>3. InUse'
  BY TypeFacts
     DEF TypeInv, TypeOK, InUse, IdleWork, IdleGetter, WorkState, GetterState,
         NextPc, getOrStartFlightJoin, Joinable, ResultOf, world, jobs, gens,
         store, life, client, history
<1> QED
  BY <1>1, <1>2, <1>3 DEF TypeInv, TypeOK

\* getOrStartFlightStart keeps the type invariant.
LEMMA getOrStartFlightStartType ==
    ASSUME TypeInv, NEW g \in Getter, NEW r \in Slot, getOrStartFlightStart(g, r)
    PROVE  TypeInv'
<1>1. /\ WorldTypeOK'
      /\ CacheTypeOK'
      /\ LifeTypeOK'
  BY DEF TypeInv, TypeOK, WorldTypeOK, CacheTypeOK, LifeTypeOK,
         getOrStartFlightStart, world, jobs, gens, store, life, client,
         history
<1>2. ScheduleTypeOK'
  BY TypeFacts, UnitsAreCounted
     DEF ScheduleTypeOK, getOrStartFlightStart, world, jobs, gens, store,
         life, client, history
<1>3. work' \in [Slot -> WorkState]
  <2>1. getter[g].key \in Unit /\ getter[g].hash \in Reading
    BY TypeFacts DEF getOrStartFlightStart, GetterState
  <2> QED
    BY <2>1, TypeFacts, FreshWork DEF getOrStartFlightStart
<1>4. getter' \in [Getter -> GetterState]
  BY TypeFacts, GetterUpdates, FreshGetter, PkgOfType
     DEF GetterPc, getOrStartFlightStart
<1>5. InUse'
  BY TypeFacts
     DEF TypeInv, TypeOK, InUse, IdleWork, IdleGetter, WorkState, GetterState,
         NextPc, getOrStartFlightStart, world, jobs, gens, store, life,
         client, history
<1> QED
  BY <1>1, <1>2, <1>3, <1>4, <1>5 DEF TypeInv, TypeOK

\* GetCanceled keeps the type invariant.
LEMMA GetCanceledType ==
    ASSUME TypeInv, NEW g \in Getter, GetCanceled(g)
    PROVE  TypeInv'
<1>1. /\ WorldTypeOK'
      /\ CacheTypeOK'
      /\ ScheduleTypeOK'
      /\ LifeTypeOK'
      /\ work' \in [Slot -> WorkState]
  BY DEF TypeInv, TypeOK, WorldTypeOK, CacheTypeOK, ScheduleTypeOK,
         LifeTypeOK, GetCanceled, world, jobs, gens, store, life, client,
         history
<1>2. getter' \in [Getter -> GetterState]
  BY TypeFacts, GetterUpdates, FreshGetter, PkgOfType DEF GetterPc, GetCanceled
<1>3. InUse'
  BY TypeFacts
     DEF TypeInv, TypeOK, InUse, IdleWork, IdleGetter, WorkState, GetterState,
         NextPc, GetCanceled, world, jobs, gens, store, life, client, history
<1> QED
  BY <1>1, <1>2, <1>3 DEF TypeInv, TypeOK

\* GetReturns keeps the type invariant.
LEMMA GetReturnsType ==
    ASSUME TypeInv, NEW g \in Getter, GetReturns(g)
    PROVE  TypeInv'
<1>1. /\ WorldTypeOK'
      /\ CacheTypeOK'
      /\ ScheduleTypeOK'
      /\ LifeTypeOK'
      /\ work' \in [Slot -> WorkState]
  BY DEF TypeInv, TypeOK, WorldTypeOK, CacheTypeOK, ScheduleTypeOK,
         LifeTypeOK, GetReturns, world, jobs, gens, store, life, client,
         history
<1>2. getter' \in [Getter -> GetterState]
  BY TypeFacts, GetterUpdates, FreshGetter, PkgOfType DEF GetterPc, GetReturns
<1>3. InUse'
  BY TypeFacts
     DEF TypeInv, TypeOK, InUse, IdleWork, IdleGetter, WorkState, GetterState,
         NextPc, GetReturns, world, jobs, gens, store, life, client, history
<1> QED
  BY <1>1, <1>2, <1>3 DEF TypeInv, TypeOK

\* runFlightCloses keeps the type invariant.
LEMMA runFlightClosesType ==
    ASSUME TypeInv, NEW r \in Slot, runFlightCloses(r)
    PROVE  TypeInv'
<1>1. /\ WorldTypeOK'
      /\ CacheTypeOK'
      /\ ScheduleTypeOK'
      /\ LifeTypeOK'
  BY DEF TypeInv, TypeOK, WorldTypeOK, CacheTypeOK, ScheduleTypeOK,
         LifeTypeOK, runFlightCloses, Waiters, ResultOf, world, jobs, gens,
         store, life, client, history
<1>2. work' \in [Slot -> WorkState]
  BY TypeFacts, WorkUpdates, FreshWork
     DEF WorkPc, Unit, runFlightCloses, Waiters, ResultOf
<1>3. getter' \in [Getter -> GetterState]
  BY TypeFacts, GetterUpdates, FreshGetter, PkgOfType
     DEF GetterPc, runFlightCloses, Waiters, ResultOf
<1>4. InUse'
  <2>1. \A q \in Slot : /\ work'[q].key = work[q].key
                        /\ work'[q].kind = work[q].kind
                        /\ work'[q].pc = IF q = r THEN "closed" ELSE work[q].pc
    BY TypeFacts DEF runFlightCloses, WorkState
  <2>2. work[r].pc # "idle" /\ work[r].kind # "idle"
    BY DEF runFlightCloses
<2>3. \A g \in Getter : getter'[g].key = getter[g].key
    BY TypeFacts DEF runFlightCloses, GetterState
  <2>4. \A g \in Getter : getter'[g].pc # "idle" => getter[g].pc # "idle"
    BY TypeFacts DEF runFlightCloses, GetterState, Waiters
  <2> QED
    BY <2>1, <2>2, <2>3, <2>4 DEF TypeInv, InUse
<1> QED
  BY <1>1, <1>2, <1>3, <1>4 DEF TypeInv, TypeOK

\* runFlightReturns keeps the type invariant.
LEMMA runFlightReturnsType ==
    ASSUME TypeInv, NEW r \in Slot, runFlightReturns(r)
    PROVE  TypeInv'
<1>1. /\ WorldTypeOK'
      /\ CacheTypeOK'
      /\ LifeTypeOK'
      /\ getter' \in [Getter -> GetterState]
  BY DEF TypeInv, TypeOK, WorldTypeOK, CacheTypeOK, LifeTypeOK,
         runFlightReturns, world, jobs, gens, store, life, client, history
<1>2. ScheduleTypeOK'
  BY TypeFacts, UnitsAreCounted
     DEF ScheduleTypeOK, runFlightReturns, world, jobs, gens, store, life,
         client, history
<1>3. work' \in [Slot -> WorkState]
  BY TypeFacts, WorkUpdates, FreshWork DEF WorkPc, Unit, runFlightReturns
<1>4. InUse'
  BY TypeFacts
     DEF TypeInv, TypeOK, InUse, IdleWork, IdleGetter, WorkState, GetterState,
         NextPc, runFlightReturns, world, jobs, gens, store, life, client,
         history
<1> QED
  BY <1>1, <1>2, <1>3, <1>4 DEF TypeInv, TypeOK

\* Retire keeps the type invariant.
LEMMA RetireType == ASSUME TypeInv, Retire PROVE TypeInv'
<1>1. /\ CacheTypeOK'
      /\ getter' \in [Getter -> GetterState]
  BY DEF TypeInv, TypeOK, CacheTypeOK, Retire, Room, CancelJobs, world, jobs,
         gens, store, life, client, history
<1>2. WorldTypeOK'
  BY TypeFacts
     DEF WorldTypeOK, Unit, Retire, Room, CancelJobs, world, jobs, gens,
         store, life, client, history
<1>3. ScheduleTypeOK'
  BY TypeFacts, UnitsAreCounted
     DEF ScheduleTypeOK, Retire, Room, CancelJobs, world, jobs, gens, store,
         life, client, history
<1>4. LifeTypeOK'
  BY TypeFacts
     DEF LifeTypeOK, Retire, Room, CancelJobs, world, jobs, gens, store, life,
         client, history
<1>5. work' \in [Slot -> WorkState]
  BY TypeFacts, WorkUpdates, FreshWork
     DEF WorkPc, Unit, Retire, Room, CancelJobs
<1>6. InUse'
  <2>1. \A q \in Slot : /\ work'[q].pc = work[q].pc
                        /\ work'[q].key = work[q].key
                        /\ work'[q].kind = work[q].kind
    BY TypeFacts DEF Retire, CancelJobs, WorkState
  <2>2. getter' = getter
    BY DEF Retire, client
  <2> QED
    BY <2>1, <2>2 DEF TypeInv, InUse
<1> QED
  BY <1>1, <1>2, <1>3, <1>4, <1>5, <1>6 DEF TypeInv, TypeOK

\* Stop keeps the type invariant.
LEMMA StopType == ASSUME TypeInv, Stop PROVE TypeInv'
<1>1. /\ CacheTypeOK'
      /\ getter' \in [Getter -> GetterState]
  BY DEF TypeInv, TypeOK, CacheTypeOK, Stop, Room, CancelJobs, world, jobs,
         gens, store, life, client, history
<1>2. WorldTypeOK'
  BY TypeFacts
     DEF WorldTypeOK, Unit, Stop, Room, CancelJobs, world, jobs, gens, store,
         life, client, history
<1>3. ScheduleTypeOK'
  BY TypeFacts, UnitsAreCounted
     DEF ScheduleTypeOK, Stop, Room, CancelJobs, world, jobs, gens, store,
         life, client, history
<1>4. LifeTypeOK'
  BY TypeFacts
     DEF LifeTypeOK, Stop, Room, CancelJobs, world, jobs, gens, store, life,
         client, history
<1>5. work' \in [Slot -> WorkState]
  BY TypeFacts, WorkUpdates, FreshWork DEF WorkPc, Unit, Stop, Room, CancelJobs
<1>6. InUse'
  <2>1. \A q \in Slot : /\ work'[q].pc = work[q].pc
                        /\ work'[q].key = work[q].key
                        /\ work'[q].kind = work[q].kind
    BY TypeFacts DEF Stop, CancelJobs, WorkState
  <2>2. getter' = getter
    BY DEF Stop, client
  <2> QED
    BY <2>1, <2>2 DEF TypeInv, InUse
<1> QED
  BY <1>1, <1>2, <1>3, <1>4, <1>5, <1>6 DEF TypeInv, TypeOK

----------------------------------------------------------------------------
\* Every step keeps the type invariant.
LEMMA StepType == ASSUME TypeInv, [Next]_vars PROVE TypeInv'
<1>1. ASSUME NEW k \in Unit,
             Edit(k) \/ SetFocus(k) \/ \E r \in Slot : TimerFires(k, r)
      PROVE  TypeInv'
  BY <1>1, EditType, SetFocusType, TimerFiresType
<1>2. ASSUME NEW d \in Dir,
             DependencyChange(d) \/ Invalidate(d) \/ InvalidateDependency(d)
      PROVE  TypeInv'
  BY <1>2, DependencyChangeType, InvalidateType, InvalidateDependencyType
<1>3. ASSUME NEW r \in Slot, Job(r) PROVE TypeInv'
  BY <1>3, startJobStoppedType, startJobType, fireRecheckRetryType,
     fireRecheckReturnsType DEF Job
<1>4. ASSUME NEW r \in Slot, Recheck(r) PROVE TypeInv'
  BY <1>4, nextGenType, ReadFailsType, contentHashType, parseFilesType,
     CheckPackageType, commitCacheDroppedType, commitCacheType,
     commitRetiredType, commitPublishType DEF Recheck
<1>5. ASSUME NEW r \in Slot, Flight(r) PROVE TypeInv'
  BY <1>5, runFlightClosesType, runFlightReturnsType DEF Flight
<1>6. ASSUME NEW g \in Getter, Get(g) PROVE TypeInv'
  BY <1>6, GetHashesType, GetFailsType, GetLooksUpType,
     getOrStartFlightJoinType, getOrStartFlightStartType, GetReturnsType DEF Get
<1>7. ASSUME NEW g \in Getter,
             GetCanceled(g) \/ \E k \in Unit : GetStarts(g, k)
      PROVE  TypeInv'
  BY <1>7, GetCanceledType, GetStartsType
<1>8. CASE Retire \/ Stop
  BY <1>8, RetireType, StopType
<1>9. CASE UNCHANGED vars
  BY <1>9 DEF vars, TypeInv, TypeOK, WorldTypeOK, CacheTypeOK, ScheduleTypeOK,
              LifeTypeOK, InUse
<1> QED
  BY <1>1, <1>2, <1>3, <1>4, <1>5, <1>6, <1>7, <1>8, <1>9 DEF Next

(***************************************************************************)
(* Type correctness of the engine: every field keeps its type, although a  *)
(* slot's record is reused by unrelated rechecks and pendingWG is changed  *)
(* from five places.                                                       *)
(***************************************************************************)
THEOREM TypeCorrect == Spec => []TypeOK
<1>1. TypeInv /\ [Next]_vars => TypeInv'
  BY StepType
<1>2. TypeInv => TypeOK
  BY DEF TypeInv
<1> QED
  BY InitTypeInv, <1>1, <1>2, PTL DEF Spec
----------------------------------------------------------------------------
(* What each step that touches work does to it.  The proofs of the other   *)
(* invariants use these facts instead of the actions' EXCEPT expressions.  *)

\* What TimerFires does to the recheck records, field by field.
LEMMA TimerFiresEffect ==
    ASSUME TypeInv, NEW k \in Unit, NEW r \in Slot, TimerFires(k, r)
    PROVE  /\ \A s \in Slot \ {r} : work'[s] = work[s]
           /\ work'[r].kind = "job"
           /\ work'[r].key = k
           /\ work'[r].pc = "fired"
           /\ work'[r].want = NoReading
           /\ work'[r].hash = NoReading
           /\ work'[r].retried = FALSE
           /\ work'[r].gen = 0
           /\ work'[r].text = NoReading
           /\ work'[r].dep = 0
           /\ work'[r].canceled = FALSE
           /\ work'[r].epoch = 0
           /\ work'[r].ok = FALSE
  BY TypeFacts DEF WorkState, TimerFires, IdleWork

\* What startJobStopped does to the recheck records, field by field.
LEMMA startJobStoppedEffect ==
    ASSUME TypeInv, NEW r \in Slot, startJobStopped(r)
    PROVE  /\ \A s \in Slot \ {r} : work'[s] = work[s]
           /\ work'[r].pc = "begin"
           /\ work'[r].canceled = TRUE
           /\ work'[r].kind = work[r].kind
           /\ work'[r].key = work[r].key
           /\ work'[r].want = work[r].want
           /\ work'[r].hash = work[r].hash
           /\ work'[r].retried = work[r].retried
           /\ work'[r].gen = work[r].gen
           /\ work'[r].text = work[r].text
           /\ work'[r].dep = work[r].dep
           /\ work'[r].epoch = work[r].epoch
           /\ work'[r].ok = work[r].ok
  BY TypeFacts DEF WorkState, startJobStopped

\* What fireRecheckRetry does to the recheck records, field by field.
LEMMA fireRecheckRetryEffect ==
    ASSUME TypeInv, NEW r \in Slot, fireRecheckRetry(r)
    PROVE  /\ \A s \in Slot \ {r} : work'[s] = work[s]
           /\ work'[r].pc = "begin"
           /\ work'[r].kind = work[r].kind
           /\ work'[r].key = work[r].key
           /\ work'[r].want = work[r].want
           /\ work'[r].hash = work[r].hash
           /\ work'[r].retried = TRUE
           /\ work'[r].gen = work[r].gen
           /\ work'[r].text = work[r].text
           /\ work'[r].dep = work[r].dep
           /\ work'[r].canceled = work[r].canceled
           /\ work'[r].epoch = work[r].epoch
           /\ work'[r].ok = work[r].ok
  BY TypeFacts DEF WorkState, fireRecheckRetry

\* What fireRecheckReturns does to the recheck records, field by field.
LEMMA fireRecheckReturnsEffect ==
    ASSUME TypeInv, NEW r \in Slot, fireRecheckReturns(r)
    PROVE  /\ \A s \in Slot \ {r} : work'[s] = work[s]
           /\ work'[r].kind = "idle"
           /\ work'[r].key = None
           /\ work'[r].pc = "idle"
           /\ work'[r].want = NoReading
           /\ work'[r].hash = NoReading
           /\ work'[r].retried = FALSE
           /\ work'[r].gen = 0
           /\ work'[r].text = NoReading
           /\ work'[r].dep = 0
           /\ work'[r].canceled = FALSE
           /\ work'[r].epoch = 0
           /\ work'[r].ok = FALSE
  BY TypeFacts DEF WorkState, fireRecheckReturns, IdleWork

\* What ReadFails does to the recheck records, field by field.
LEMMA ReadFailsEffect ==
    ASSUME TypeInv, NEW r \in Slot, ReadFails(r)
    PROVE  /\ \A s \in Slot \ {r} : work'[s] = work[s]
           /\ work'[r].pc = "finish"
           /\ work'[r].kind = work[r].kind
           /\ work'[r].key = work[r].key
           /\ work'[r].want = work[r].want
           /\ work'[r].hash = work[r].hash
           /\ work'[r].retried = work[r].retried
           /\ work'[r].gen = work[r].gen
           /\ work'[r].text = work[r].text
           /\ work'[r].dep = work[r].dep
           /\ work'[r].canceled = work[r].canceled
           /\ work'[r].epoch = work[r].epoch
           /\ work'[r].ok = work[r].ok
  BY TypeFacts DEF WorkState, ReadFails

\* What contentHash does to the recheck records, field by field.
LEMMA contentHashEffect ==
    ASSUME TypeInv, NEW r \in Slot, contentHash(r)
    PROVE  /\ \A s \in Slot \ {r} : work'[s] = work[s]
           /\ work'[r].pc = NextPc(r, "parse")
           /\ work'[r].kind = work[r].kind
           /\ work'[r].key = work[r].key
           /\ work'[r].want = work[r].want
           /\ work'[r].hash.version = content[work[r].key]
           /\ work'[r].retried = work[r].retried
           /\ work'[r].gen = work[r].gen
           /\ work'[r].text = work[r].text
           /\ work'[r].dep = work[r].dep
           /\ work'[r].canceled = work[r].canceled
           /\ work'[r].epoch = work[r].epoch
           /\ work'[r].ok = work[r].ok
  BY TypeFacts DEF WorkState, contentHash

\* What parseFiles does to the recheck records, field by field.
LEMMA parseFilesEffect ==
    ASSUME TypeInv, NEW r \in Slot, parseFiles(r)
    PROVE  /\ \A s \in Slot \ {r} : work'[s] = work[s]
           /\ work'[r].pc = NextPc(r, "check")
           /\ work'[r].text.version = content[work[r].key]
           /\ work'[r].kind = work[r].kind
           /\ work'[r].key = work[r].key
           /\ work'[r].want = work[r].want
           /\ work'[r].hash = work[r].hash
           /\ work'[r].retried = work[r].retried
           /\ work'[r].gen = work[r].gen
           /\ work'[r].dep = work[r].dep
           /\ work'[r].canceled = work[r].canceled
           /\ work'[r].epoch = work[r].epoch
           /\ work'[r].ok = work[r].ok
  BY TypeFacts DEF WorkState, parseFiles

\* What CheckPackage does to the recheck records, field by field.
LEMMA CheckPackageEffect ==
    ASSUME TypeInv, NEW r \in Slot, CheckPackage(r)
    PROVE  /\ \A s \in Slot \ {r} : work'[s] = work[s]
           /\ work'[r].pc = NextPc(r, "cache")
           /\ work'[r].dep = dep[work[r].key.dir]
           /\ work'[r].kind = work[r].kind
           /\ work'[r].key = work[r].key
           /\ work'[r].want = work[r].want
           /\ work'[r].hash = work[r].hash
           /\ work'[r].retried = work[r].retried
           /\ work'[r].gen = work[r].gen
           /\ work'[r].text = work[r].text
           /\ work'[r].canceled = work[r].canceled
           /\ work'[r].epoch = work[r].epoch
           /\ work'[r].ok = work[r].ok
  BY TypeFacts DEF WorkState, CheckPackage

\* What commitCacheDropped does to the recheck records, field by field.
LEMMA commitCacheDroppedEffect ==
    ASSUME TypeInv, NEW r \in Slot, commitCacheDropped(r)
    PROVE  /\ \A s \in Slot \ {r} : work'[s] = work[s]
           /\ work'[r].pc = "finish"
           /\ work'[r].ok = TRUE
           /\ work'[r].kind = work[r].kind
           /\ work'[r].key = work[r].key
           /\ work'[r].want = work[r].want
           /\ work'[r].hash = work[r].hash
           /\ work'[r].retried = work[r].retried
           /\ work'[r].gen = work[r].gen
           /\ work'[r].text = work[r].text
           /\ work'[r].dep = work[r].dep
           /\ work'[r].canceled = work[r].canceled
           /\ work'[r].epoch = work[r].epoch
  BY TypeFacts DEF WorkState, commitCacheDropped

\* What commitCache does to the recheck records, field by field.
LEMMA commitCacheEffect ==
    ASSUME TypeInv, NEW r \in Slot, commitCache(r)
    PROVE  /\ \A s \in Slot \ {r} : work'[s] = work[s]
           /\ work'[r].pc = "retired"
           /\ work'[r].kind = work[r].kind
           /\ work'[r].key = work[r].key
           /\ work'[r].want = work[r].want
           /\ work'[r].hash = work[r].hash
           /\ work'[r].retried = work[r].retried
           /\ work'[r].gen = work[r].gen
           /\ work'[r].text = work[r].text
           /\ work'[r].dep = work[r].dep
           /\ work'[r].canceled = work[r].canceled
           /\ work'[r].epoch = work[r].epoch
           /\ work'[r].ok = work[r].ok
  BY TypeFacts DEF WorkState, commitCache

\* What commitRetired does to the recheck records, field by field.
LEMMA commitRetiredEffect ==
    ASSUME TypeInv, NEW r \in Slot, commitRetired(r)
    PROVE  /\ \A s \in Slot \ {r} : work'[s] = work[s]
           /\ work'[r].pc = (IF retired THEN "finish" ELSE "publish")
           /\ work'[r].ok = TRUE
           /\ work'[r].kind = work[r].kind
           /\ work'[r].key = work[r].key
           /\ work'[r].want = work[r].want
           /\ work'[r].hash = work[r].hash
           /\ work'[r].retried = work[r].retried
           /\ work'[r].gen = work[r].gen
           /\ work'[r].text = work[r].text
           /\ work'[r].dep = work[r].dep
           /\ work'[r].canceled = work[r].canceled
           /\ work'[r].epoch = work[r].epoch
  BY TypeFacts DEF WorkState, commitRetired

\* What commitPublish does to the recheck records, field by field.
LEMMA commitPublishEffect ==
    ASSUME TypeInv, NEW r \in Slot, commitPublish(r)
    PROVE  /\ \A s \in Slot \ {r} : work'[s] = work[s]
           /\ work'[r].pc = "finish"
           /\ work'[r].kind = work[r].kind
           /\ work'[r].key = work[r].key
           /\ work'[r].want = work[r].want
           /\ work'[r].hash = work[r].hash
           /\ work'[r].retried = work[r].retried
           /\ work'[r].gen = work[r].gen
           /\ work'[r].text = work[r].text
           /\ work'[r].dep = work[r].dep
           /\ work'[r].canceled = work[r].canceled
           /\ work'[r].epoch = work[r].epoch
           /\ work'[r].ok = work[r].ok
  BY TypeFacts DEF WorkState, commitPublish

\* What getOrStartFlightStart does to the recheck records, field by field.
LEMMA getOrStartFlightStartEffect ==
    ASSUME TypeInv, NEW g \in Getter, NEW r \in Slot, getOrStartFlightStart(g, r)
    PROVE  /\ \A s \in Slot \ {r} : work'[s] = work[s]
           /\ work'[r].kind = "flight"
           /\ work'[r].key = getter[g].key
           /\ work'[r].pc = "begin"
           /\ work'[r].want = getter[g].hash
           /\ work'[r].hash = NoReading
           /\ work'[r].retried = FALSE
           /\ work'[r].gen = 0
           /\ work'[r].text = NoReading
           /\ work'[r].dep = 0
           /\ work'[r].canceled = FALSE
           /\ work'[r].epoch = 0
           /\ work'[r].ok = FALSE
  BY TypeFacts DEF WorkState, getOrStartFlightStart, IdleWork

\* What runFlightCloses does to the recheck records, field by field.
LEMMA runFlightClosesEffect ==
    ASSUME TypeInv, NEW r \in Slot, runFlightCloses(r)
    PROVE  /\ \A s \in Slot \ {r} : work'[s] = work[s]
           /\ work'[r].pc = "closed"
           /\ work'[r].kind = work[r].kind
           /\ work'[r].key = work[r].key
           /\ work'[r].want = work[r].want
           /\ work'[r].hash = work[r].hash
           /\ work'[r].retried = work[r].retried
           /\ work'[r].gen = work[r].gen
           /\ work'[r].text = work[r].text
           /\ work'[r].dep = work[r].dep
           /\ work'[r].canceled = work[r].canceled
           /\ work'[r].epoch = work[r].epoch
           /\ work'[r].ok = work[r].ok
  BY TypeFacts DEF WorkState, runFlightCloses

\* What runFlightReturns does to the recheck records, field by field.
LEMMA runFlightReturnsEffect ==
    ASSUME TypeInv, NEW r \in Slot, runFlightReturns(r)
    PROVE  /\ \A s \in Slot \ {r} : work'[s] = work[s]
           /\ work'[r].kind = "idle"
           /\ work'[r].key = None
           /\ work'[r].pc = "idle"
           /\ work'[r].want = NoReading
           /\ work'[r].hash = NoReading
           /\ work'[r].retried = FALSE
           /\ work'[r].gen = 0
           /\ work'[r].text = NoReading
           /\ work'[r].dep = 0
           /\ work'[r].canceled = FALSE
           /\ work'[r].epoch = 0
           /\ work'[r].ok = FALSE
  BY TypeFacts DEF WorkState, runFlightReturns, IdleWork

\* What nextGen does to the recheck records, field by field.
LEMMA nextGenEffect ==
    ASSUME TypeInv, NEW r \in Slot, nextGen(r)
    PROVE  /\ \A s \in Slot \ {r} : work'[s] = work[s]
           /\ work'[r].kind = work[r].kind
           /\ work'[r].key = work[r].key
           /\ work'[r].want = work[r].want
           /\ work'[r].hash = work[r].hash
           /\ work'[r].retried = work[r].retried
           /\ work'[r].canceled = work[r].canceled
           /\ work'[r].epoch = work[r].epoch
           /\ work'[r].text = work[r].text
           /\ work'[r].dep = work[r].dep
           /\ work'[r].ok = work[r].ok
           /\ Canceled(r) => /\ work'[r].pc = "finish"
                             /\ work'[r].gen = work[r].gen
                             /\ gen' = gen
           /\ ~Canceled(r) => /\ work'[r].pc = "hash"
                              /\ work'[r].gen = gen[work[r].key] + 1
                              /\ gen' = [gen EXCEPT ![work[r].key] = @ + 1]
  BY TypeFacts DEF WorkState, nextGen

\* What startJob does to the recheck records, field by field.
LEMMA startJobEffect ==
    ASSUME TypeInv, NEW r \in Slot, startJob(r)
    PROVE  /\ \A s \in Slot :
                /\ work'[s].kind = work[s].kind
                /\ work'[s].key = work[s].key
                /\ work'[s].want = work[s].want
                /\ work'[s].gen = work[s].gen
                /\ work'[s].hash = work[s].hash
                /\ work'[s].retried = work[s].retried
                /\ work'[s].text = work[s].text
                /\ work'[s].dep = work[s].dep
                /\ work'[s].ok = work[s].ok
           /\ \A s \in Slot \ {r} :
                /\ work'[s].pc = work[s].pc
                /\ work'[s].epoch = work[s].epoch
                /\ work'[s].canceled = (work[s].canceled \/ s \in Superseded(r))
           /\ work'[r].pc = "begin"
           /\ work'[r].canceled = work[r].canceled
           /\ work'[r].epoch = epoch[work[r].key] + 1
<1>1. work' = [s \in Slot |->
                 IF s = r
                 THEN [work[r] EXCEPT !.pc = "begin", !.epoch = epoch[work[r].key] + 1]
                 ELSE [work[s] EXCEPT !.canceled = @ \/ s \in Superseded(r)]]
  BY DEF startJob
<1>2. work'[r] = [work[r] EXCEPT !.pc = "begin", !.epoch = epoch[work[r].key] + 1]
  BY <1>1
<1>3. \A s \in Slot \ {r} : work'[s] = [work[s] EXCEPT !.canceled = @ \/ s \in Superseded(r)]
  BY <1>1
<1>4. \A s \in Slot : work[s] \in WorkState
  BY TypeFacts
<1>5. /\ work'[r].pc = "begin" /\ work'[r].epoch = epoch[work[r].key] + 1
      /\ work'[r].canceled = work[r].canceled
      /\ work'[r].kind = work[r].kind /\ work'[r].key = work[r].key
      /\ work'[r].want = work[r].want /\ work'[r].gen = work[r].gen
      /\ work'[r].hash = work[r].hash /\ work'[r].retried = work[r].retried
      /\ work'[r].text = work[r].text /\ work'[r].dep = work[r].dep
      /\ work'[r].ok = work[r].ok
  BY <1>2, <1>4 DEF WorkState
<1>6. ASSUME NEW s \in Slot \ {r}
      PROVE  /\ work'[s].pc = work[s].pc /\ work'[s].epoch = work[s].epoch
             /\ work'[s].canceled = (work[s].canceled \/ s \in Superseded(r))
             /\ work'[s].kind = work[s].kind /\ work'[s].key = work[s].key
             /\ work'[s].want = work[s].want /\ work'[s].gen = work[s].gen
             /\ work'[s].hash = work[s].hash /\ work'[s].retried = work[s].retried
             /\ work'[s].text = work[s].text /\ work'[s].dep = work[s].dep
             /\ work'[s].ok = work[s].ok
  BY ZenonT(60), <1>3, <1>4 DEF WorkState
<1>. QED  BY <1>5, <1>6

\* What CancelJobs does to the recheck records, field by field.
LEMMA CancelJobsEffect ==
    ASSUME TypeInv, CancelJobs
    PROVE  \A s \in Slot :
                /\ work'[s].kind = work[s].kind
                /\ work'[s].key = work[s].key
                /\ work'[s].pc = work[s].pc
                /\ work'[s].want = work[s].want
                /\ work'[s].gen = work[s].gen
                /\ work'[s].hash = work[s].hash
                /\ work'[s].retried = work[s].retried
                /\ work'[s].text = work[s].text
                /\ work'[s].dep = work[s].dep
                /\ work'[s].ok = work[s].ok
                /\ work'[s].epoch = work[s].epoch
                /\ work'[s].canceled = (work[s].canceled \/ \E k \in Unit : cancelOf[k] = s)
  BY TypeFacts DEF WorkState, CancelJobs

----------------------------------------------------------------------------
(* The inductive invariant.                                                *)

\* A job past startJob and not canceled.
LiveJob(r) ==
    /\ work[r].kind = "job"
    /\ work[r].pc # "fired"
    /\ ~work[r].canceled

\* A live job is the one registered for its unit.
LiveIsRegistered == \A r \in Slot : LiveJob(r) => cancelOf[work[r].key] = r

\* What is registered is a job of that unit, under the unit's current epoch.
RegisteredIsJob ==
    \A k \in Unit : \A r \in Slot : cancelOf[k] = r =>
        /\ work[r].kind = "job" /\ work[r].key = k /\ work[r].pc # "fired"
        /\ work[r].epoch = epoch[k] /\ epoch[k] > 0

\* Nobody else has that epoch.
EpochIsOwned ==
    \A r \in Slot : work[r].kind = "job" =>
        /\ work[r].epoch <= epoch[work[r].key]
        /\ work[r].epoch > 0 /\ work[r].epoch = epoch[work[r].key] =>
              cancelOf[work[r].key] = r

\* A job that has not reached startJob has no epoch and cannot be canceled.
FiredIsFresh ==
    \A r \in Slot : work[r].pc = "fired" =>
        work[r].kind = "job" /\ ~work[r].canceled /\ work[r].epoch = 0

(***************************************************************************)
(* Registration: dirState.cancel and dirState.epoch.                       *)
(***************************************************************************)
JobInv ==
    /\ LiveIsRegistered /\ RegisteredIsJob /\ EpochIsOwned /\ FiredIsFresh
    /\ stopped => retired

\* A step that leaves registrations alone and only moves rechecks along keeps
\* JobInv.
LEMMA JobFrame ==
    ASSUME JobInv, UNCHANGED <<cancelOf, epoch, life>>,
           \A s \in Slot :
              /\ work'[s].kind = work[s].kind
              /\ work'[s].key = work[s].key
              /\ work'[s].canceled = work[s].canceled
              /\ work'[s].epoch = work[s].epoch
              /\ work'[s].pc = "fired" <=> work[s].pc = "fired"
    PROVE  JobInv'
<1>1. LiveIsRegistered'
  BY DEF JobInv, LiveIsRegistered, LiveJob
<1>2. RegisteredIsJob'
  BY DEF JobInv, RegisteredIsJob
<1>3. EpochIsOwned'
  BY DEF JobInv, EpochIsOwned
<1>4. FiredIsFresh'
  BY DEF JobInv, FiredIsFresh
<1>5. (stopped => retired)'
  BY DEF JobInv, life
<1> QED
  BY <1>1, <1>2, <1>3, <1>4, <1>5 DEF JobInv

\* The same for a step of one recheck that leaves its job's identity alone.
LEMMA MoveJobInv ==
    ASSUME JobInv, UNCHANGED <<cancelOf, epoch, retired, stopped>>,
           NEW r \in Slot, \A s \in Slot \ {r} : work'[s] = work[s],
           work'[r].kind = work[r].kind, work'[r].key = work[r].key,
           work'[r].canceled = work[r].canceled,
           work'[r].epoch = work[r].epoch,
           work[r].pc # "fired", work'[r].pc # "fired"
    PROVE  JobInv'
<1>1. \A s \in Slot :
         /\ work'[s].kind = work[s].kind
         /\ work'[s].key = work[s].key
         /\ work'[s].canceled = work[s].canceled
         /\ work'[s].epoch = work[s].epoch
         /\ work'[s].pc = "fired" <=> work[s].pc = "fired"
  OBVIOUS
<1> QED
  BY <1>1, JobFrame DEF life

\* startJob(r) takes over unit k = work[r].key under a new epoch.
LEMMA startJobJobInv ==
    ASSUME TypeInv, JobInv, NEW r \in Slot, startJob(r)
    PROVE  JobInv'
<1> DEFINE k == work[r].key
<1>1. /\ k \in Unit
      /\ epoch[k] \in Nat
      /\ cancelOf' = [cancelOf EXCEPT ![k] = r]
      /\ epoch' = [epoch EXCEPT ![k] = @ + 1]
      /\ work[r].pc = "fired"
      /\ cancelOf \in [Unit -> Slot \cup {None}]
      /\ epoch \in [Unit -> Nat]
  BY TypeFacts DEF startJob, ScheduleTypeOK
<1>2. work[r].kind = "job"
  BY <1>1 DEF JobInv, FiredIsFresh
<1>3. LiveIsRegistered'
  <2> SUFFICES ASSUME NEW s \in Slot, LiveJob(s)'
               PROVE  cancelOf'[work'[s].key] = s
    BY DEF LiveIsRegistered
  <2>1. CASE s = r
    BY <2>1, <1>1, startJobEffect
  <2>2. CASE s # r
    <3>1. LiveJob(s) /\ s \notin Superseded(r) /\ work'[s].key = work[s].key
      BY <2>2, startJobEffect DEF LiveJob
    <3>2. cancelOf[work[s].key] = s
      BY <3>1 DEF JobInv, LiveIsRegistered
    <3>3. s # None
      BY EngineAssumption
    <3>4. work[s].key # k
      BY <3>1, <3>2, <3>3 DEF Superseded
    <3> QED
      BY <3>1, <3>2, <3>4, <1>1
  <2> QED
    BY <2>1, <2>2
<1>4. RegisteredIsJob'
  <2> SUFFICES ASSUME NEW j \in Unit, NEW s \in Slot, cancelOf'[j] = s
               PROVE  /\ work'[s].kind = "job" /\ work'[s].key = j
                      /\ work'[s].pc # "fired"
                      /\ work'[s].epoch = epoch'[j] /\ epoch'[j] > 0
    BY DEF RegisteredIsJob
  <2>1. CASE j = k
    BY <2>1, <1>1, <1>2, startJobEffect
  <2>2. CASE j # k
    <3>1. cancelOf[j] = s /\ epoch'[j] = epoch[j]
      BY <2>2, <1>1
    <3>2. s # r
      BY <3>1, <1>1 DEF JobInv, RegisteredIsJob
    <3> QED
      BY <3>1, <3>2, startJobEffect DEF JobInv, RegisteredIsJob
  <2> QED
    BY <2>1, <2>2
<1>5. EpochIsOwned'
  <2> SUFFICES ASSUME NEW s \in Slot, work'[s].kind = "job"
               PROVE  /\ work'[s].epoch <= epoch'[work'[s].key]
                      /\ work'[s].epoch > 0 /\ work'[s].epoch = epoch'[work'[s].key]
                            => cancelOf'[work'[s].key] = s
    BY DEF EpochIsOwned
  <2>1. CASE s = r
    BY <2>1, <1>1, startJobEffect
  <2>2. CASE s # r
    <3>1. /\ work[s].kind = "job" /\ work'[s].key = work[s].key
          /\ work'[s].epoch = work[s].epoch
      BY <2>2, startJobEffect
    <3>2. work[s].key \in Unit /\ work[s].epoch \in Nat
      BY <3>1, TypeFacts, PkgOfType
    <3>3. work[s].epoch <= epoch[work[s].key]
      BY <3>1 DEF JobInv, EpochIsOwned
    <3>4. CASE work[s].key = k
      BY <3>1, <3>2, <3>3, <3>4, <1>1
    <3>5. CASE work[s].key # k
      BY <3>1, <3>2, <3>3, <3>5, <1>1 DEF JobInv, EpochIsOwned
    <3> QED
      BY <3>4, <3>5
  <2> QED
    BY <2>1, <2>2
<1>6. FiredIsFresh'
  <2> SUFFICES ASSUME NEW s \in Slot, work'[s].pc = "fired"
               PROVE  work'[s].kind = "job" /\ ~work'[s].canceled /\ work'[s].epoch = 0
    BY DEF FiredIsFresh
  <2>1. s # r /\ work[s].pc = "fired"
    BY startJobEffect
  <2>2. work[s].kind = "job" /\ ~work[s].canceled /\ work[s].epoch = 0
    BY <2>1 DEF JobInv, FiredIsFresh
  <2>3. s \notin Superseded(r)
    BY <2>1, <1>1 DEF Superseded, JobInv, RegisteredIsJob
  <2> QED
    BY <2>1, <2>2, <2>3, startJobEffect
<1>7. (stopped => retired)'
  BY DEF JobInv, startJob, life
<1> QED
  BY <1>3, <1>4, <1>5, <1>6, <1>7 DEF JobInv

\* fireRecheckReturns keeps JobInv.
LEMMA fireRecheckReturnsJobInv ==
    ASSUME TypeInv, JobInv, NEW r \in Slot, fireRecheckReturns(r)
    PROVE  JobInv'
<1> DEFINE k == work[r].key
<1>1. /\ work[r].kind = "job" /\ work[r].pc = "finish"
      /\ k \in Unit
      /\ cancelOf' = [cancelOf EXCEPT ![k] = IF finishClears(r) THEN None ELSE @]
      /\ UNCHANGED epoch
      /\ cancelOf \in [Unit -> Slot \cup {None}]
      /\ None \notin Slot
      /\ work'[r].kind = "idle" /\ work'[r].pc = "idle"
  BY TypeFacts, EngineAssumption, fireRecheckReturnsEffect
     DEF fireRecheckReturns, ScheduleTypeOK, jobs
<1>2. \A s \in Slot \ {r} : work'[s] = work[s]
  BY fireRecheckReturnsEffect
\* Clearing the registration takes nobody else's away.
<1>3. \A s \in Slot \ {r}, j \in Unit : cancelOf[j] = s => cancelOf'[j] = s
  <2> SUFFICES ASSUME NEW s \in Slot \ {r}, NEW j \in Unit, cancelOf[j] = s,
                      j = k, finishClears(r)
               PROVE  FALSE
    BY <1>1
  <2>1. epoch[k] = work[r].epoch /\ epoch[k] > 0
    BY DEF finishClears, JobInv, RegisteredIsJob
  <2> QED
    BY <2>1, <1>1 DEF JobInv, EpochIsOwned
<1>4. \A s \in Slot, j \in Unit : cancelOf'[j] = s => cancelOf[j] = s /\ s # r
  <2> SUFFICES ASSUME NEW s \in Slot, NEW j \in Unit, cancelOf'[j] = s
               PROVE  cancelOf[j] = s /\ s # r
    OBVIOUS
  <2>1. cancelOf[j] = s
    BY <1>1
  <2>2. CASE s = r
    <3>1. j = k /\ finishClears(r)
      BY <2>1, <2>2 DEF JobInv, RegisteredIsJob, finishClears
    <3> QED
      BY <3>1, <1>1
  <2> QED
    BY <2>1, <2>2
<1>5. LiveIsRegistered'
  BY <1>1, <1>2, <1>3, TypeFacts DEF JobInv, LiveIsRegistered, LiveJob
<1>6. RegisteredIsJob'
  BY <1>1, <1>2, <1>4 DEF JobInv, RegisteredIsJob
<1>7. EpochIsOwned'
  BY <1>1, <1>2, <1>3, TypeFacts DEF JobInv, EpochIsOwned
<1>8. FiredIsFresh'
  BY <1>1, <1>2 DEF JobInv, FiredIsFresh
<1>9. (stopped => retired)'
  BY DEF JobInv, fireRecheckReturns, life
<1> QED
  BY <1>5, <1>6, <1>7, <1>8, <1>9 DEF JobInv

\* The scheduling calls, the world and Get leave every recheck where it is.
LEMMA OutsideJobInv ==
    ASSUME JobInv, UNCHANGED <<work, cancelOf, epoch, life>>
    PROVE  JobInv'
  BY JobFrame

\* So does a step of runRecheck, as far as registration is concerned.
LEMMA RecheckJobInv ==
    ASSUME TypeInv, JobInv, NEW r \in Slot, Recheck(r)
    PROVE  JobInv'
<1>1. ASSUME nextGen(r) PROVE JobInv'
  <2>1. /\ work[r].pc # "fired"
        /\ UNCHANGED <<cancelOf, epoch, retired, stopped>>
    BY <1>1 DEF nextGen, jobs, life
  <2>2. work'[r].pc # "fired"
    BY <1>1, nextGenEffect DEF NextPc
  <2> QED
    BY <1>1, <2>1, <2>2, nextGenEffect, MoveJobInv
<1>2. ASSUME ReadFails(r) PROVE JobInv'
  <2>1. /\ work[r].pc # "fired"
        /\ UNCHANGED <<cancelOf, epoch, retired, stopped>>
    BY <1>2 DEF ReadFails, jobs, life
  <2>2. work'[r].pc # "fired"
    BY <1>2, ReadFailsEffect DEF NextPc
  <2> QED
    BY <1>2, <2>1, <2>2, ReadFailsEffect, MoveJobInv
<1>3. ASSUME contentHash(r) PROVE JobInv'
  <2>1. /\ work[r].pc # "fired"
        /\ UNCHANGED <<cancelOf, epoch, retired, stopped>>
    BY <1>3 DEF contentHash, jobs, life
  <2>2. work'[r].pc # "fired"
    BY <1>3, contentHashEffect DEF NextPc
  <2> QED
    BY <1>3, <2>1, <2>2, contentHashEffect, MoveJobInv
<1>4. ASSUME parseFiles(r) PROVE JobInv'
  <2>1. /\ work[r].pc # "fired"
        /\ UNCHANGED <<cancelOf, epoch, retired, stopped>>
    BY <1>4 DEF parseFiles, jobs, life
  <2>2. work'[r].pc # "fired"
    BY <1>4, parseFilesEffect DEF NextPc
  <2> QED
    BY <1>4, <2>1, <2>2, parseFilesEffect, MoveJobInv
<1>5. ASSUME CheckPackage(r) PROVE JobInv'
  <2>1. /\ work[r].pc # "fired"
        /\ UNCHANGED <<cancelOf, epoch, retired, stopped>>
    BY <1>5 DEF CheckPackage, jobs, life
  <2>2. work'[r].pc # "fired"
    BY <1>5, CheckPackageEffect DEF NextPc
  <2> QED
    BY <1>5, <2>1, <2>2, CheckPackageEffect, MoveJobInv
<1>6. ASSUME commitCacheDropped(r) PROVE JobInv'
  <2>1. /\ work[r].pc # "fired"
        /\ UNCHANGED <<cancelOf, epoch, retired, stopped>>
    BY <1>6 DEF commitCacheDropped, jobs, life
  <2>2. work'[r].pc # "fired"
    BY <1>6, commitCacheDroppedEffect DEF NextPc
  <2> QED
    BY <1>6, <2>1, <2>2, commitCacheDroppedEffect, MoveJobInv
<1>7. ASSUME commitCache(r) PROVE JobInv'
  <2>1. /\ work[r].pc # "fired"
        /\ UNCHANGED <<cancelOf, epoch, retired, stopped>>
    BY <1>7 DEF commitCache, jobs, life
  <2>2. work'[r].pc # "fired"
    BY <1>7, commitCacheEffect DEF NextPc
  <2> QED
    BY <1>7, <2>1, <2>2, commitCacheEffect, MoveJobInv
<1>8. ASSUME commitRetired(r) PROVE JobInv'
  <2>1. /\ work[r].pc # "fired"
        /\ UNCHANGED <<cancelOf, epoch, retired, stopped>>
    BY <1>8 DEF commitRetired, jobs, life
  <2>2. work'[r].pc # "fired"
    BY <1>8, commitRetiredEffect DEF NextPc
  <2> QED
    BY <1>8, <2>1, <2>2, commitRetiredEffect, MoveJobInv
<1>9. ASSUME commitPublish(r) PROVE JobInv'
  <2>1. /\ work[r].pc # "fired"
        /\ UNCHANGED <<cancelOf, epoch, retired, stopped>>
    BY <1>9 DEF commitPublish, jobs, life
  <2>2. work'[r].pc # "fired"
    BY <1>9, commitPublishEffect DEF NextPc
  <2> QED
    BY <1>9, <2>1, <2>2, commitPublishEffect, MoveJobInv
<1> QED
  BY <1>1, <1>2, <1>3, <1>4, <1>5, <1>6, <1>7, <1>8, <1>9 DEF Recheck

\* A slot taken by a new recheck was idle, so nobody had registered it.
LEMMA StartsJobInv ==
    ASSUME TypeInv, JobInv, UNCHANGED <<cancelOf, epoch, life>>,
           NEW r \in Slot, work[r].kind = "idle",
           \A s \in Slot \ {r} : work'[s] = work[s],
           \/ work'[r].kind = "job" /\ work'[r].pc = "fired"
              /\ work'[r].key \in Unit
           \/ work'[r].kind = "flight" /\ work'[r].pc = "begin",
           ~work'[r].canceled, work'[r].epoch = 0
    PROVE  JobInv'
<1>1. \A k \in Unit : cancelOf[k] # r
  BY DEF JobInv, RegisteredIsJob
<1>2. LiveIsRegistered'
  BY DEF JobInv, LiveIsRegistered, LiveJob
<1>3. RegisteredIsJob'
  BY <1>1 DEF JobInv, RegisteredIsJob
<1>4. EpochIsOwned'
  BY TypeFacts DEF JobInv, EpochIsOwned, ScheduleTypeOK
<1>5. FiredIsFresh'
  BY DEF JobInv, FiredIsFresh
<1>6. (stopped => retired)'
  BY DEF JobInv, life
<1> QED
  BY <1>2, <1>3, <1>4, <1>5, <1>6 DEF JobInv

\* The other steps of a background job and of a flight.
LEMMA SlotJobInv ==
    ASSUME TypeInv, JobInv, NEW r \in Slot,
           \/ startJobStopped(r) \/ fireRecheckRetry(r)
           \/ runFlightCloses(r) \/ runFlightReturns(r)
    PROVE  JobInv'
<1> USE DEF jobs, life
<1>1. ASSUME startJobStopped(r) PROVE JobInv'
  <2>1. /\ work[r].pc = "fired" /\ work'[r].pc = "begin" /\ work'[r].canceled
        /\ work'[r].kind = work[r].kind /\ work'[r].key = work[r].key
        /\ work'[r].epoch = work[r].epoch
        /\ \A s \in Slot \ {r} : work'[s] = work[s]
        /\ UNCHANGED <<cancelOf, epoch, retired, stopped>>
    BY <1>1, startJobStoppedEffect DEF startJobStopped
  <2>2. LiveIsRegistered'
    BY <2>1 DEF JobInv, LiveIsRegistered, LiveJob
  <2>3. RegisteredIsJob'
    BY <2>1 DEF JobInv, RegisteredIsJob
  <2>4. EpochIsOwned'
    BY <2>1 DEF JobInv, EpochIsOwned
  <2>5. FiredIsFresh'
    BY <2>1 DEF JobInv, FiredIsFresh
  <2>6. (stopped => retired)'
    BY <2>1 DEF JobInv
  <2> QED
    BY <2>2, <2>3, <2>4, <2>5, <2>6 DEF JobInv
<1>2. ASSUME fireRecheckRetry(r) PROVE JobInv'
  <2>1. /\ work[r].pc # "fired"
        /\ UNCHANGED <<cancelOf, epoch, retired, stopped>>
    BY <1>2 DEF fireRecheckRetry
  <2>2. work'[r].pc # "fired"
    BY <1>2, fireRecheckRetryEffect
  <2> QED
    BY <1>2, <2>1, <2>2, fireRecheckRetryEffect, MoveJobInv
<1>3. ASSUME runFlightCloses(r) PROVE JobInv'
  <2>1. /\ work[r].pc # "fired"
        /\ UNCHANGED <<cancelOf, epoch, retired, stopped>>
    BY <1>3 DEF runFlightCloses
  <2>2. work'[r].pc # "fired"
    BY <1>3, runFlightClosesEffect
  <2> QED
    BY <1>3, <2>1, <2>2, runFlightClosesEffect, MoveJobInv
<1>4. ASSUME runFlightReturns(r) PROVE JobInv'
  <2>1. /\ work[r].kind = "flight" /\ work'[r].pc = "idle"
        /\ work'[r].kind = "idle"
        /\ \A s \in Slot \ {r} : work'[s] = work[s]
        /\ UNCHANGED <<cancelOf, epoch, retired, stopped>>
    BY <1>4, runFlightReturnsEffect DEF runFlightReturns
  <2>2. LiveIsRegistered'
    BY <2>1 DEF JobInv, LiveIsRegistered, LiveJob
  <2>3. RegisteredIsJob'
    BY <2>1 DEF JobInv, RegisteredIsJob
  <2>4. EpochIsOwned'
    BY <2>1 DEF JobInv, EpochIsOwned
  <2>5. FiredIsFresh'
    BY <2>1 DEF JobInv, FiredIsFresh
  <2>6. (stopped => retired)'
    BY <2>1 DEF JobInv
  <2> QED
    BY <2>2, <2>3, <2>4, <2>5, <2>6 DEF JobInv
<1> QED
  BY <1>1, <1>2, <1>3, <1>4

\* Retire and Stop cancel what is registered and set retired.
LEMMA ShutdownJobInv ==
    ASSUME TypeInv, JobInv, Retire \/ Stop
    PROVE  JobInv'
<1>1. CancelJobs /\ UNCHANGED <<cancelOf, epoch>>
  BY DEF Retire, Stop
<1>2. \A s \in Slot : ~work'[s].canceled => ~work[s].canceled
  BY <1>1, CancelJobsEffect
<1>3. LiveIsRegistered'
  BY <1>1, <1>2, CancelJobsEffect DEF JobInv, LiveIsRegistered, LiveJob
<1>4. RegisteredIsJob'
  BY <1>1, CancelJobsEffect DEF JobInv, RegisteredIsJob
<1>5. EpochIsOwned'
  BY <1>1, CancelJobsEffect DEF JobInv, EpochIsOwned
<1>6. FiredIsFresh'
  <2> SUFFICES ASSUME NEW s \in Slot, work'[s].pc = "fired"
               PROVE  work'[s].kind = "job" /\ ~work'[s].canceled
                      /\ work'[s].epoch = 0
    BY DEF FiredIsFresh
  <2>1. work[s].pc = "fired"
    BY <1>1, CancelJobsEffect
  <2>2. \A k \in Unit : cancelOf[k] # s
    BY <2>1 DEF JobInv, RegisteredIsJob
  <2>3. work[s].kind = "job" /\ ~work[s].canceled /\ work[s].epoch = 0
    BY <2>1 DEF JobInv, FiredIsFresh
  <2> QED
    BY <2>2, <2>3, <1>1, CancelJobsEffect
<1>7. (stopped => retired)'
  BY DEF Retire, Stop
<1> QED
  BY <1>3, <1>4, <1>5, <1>6, <1>7 DEF JobInv

\* Every step keeps JobInv.
LEMMA StepJobInv ==
    ASSUME TypeInv, JobInv, [Next]_vars
    PROVE  JobInv'
<1> USE DEF world, jobs, gens, store, life, client, history
<1>1. ASSUME NEW k \in Unit, NEW r \in Slot, TimerFires(k, r)
      PROVE  JobInv'
  <2>1. work[r].kind = "idle" /\ UNCHANGED <<cancelOf, epoch, life>>
    BY <1>1 DEF TimerFires
  <2>2. /\ \A s \in Slot \ {r} : work'[s] = work[s]
        /\ work'[r].kind = "job" /\ work'[r].pc = "fired"
        /\ work'[r].key \in Unit
        /\ ~work'[r].canceled /\ work'[r].epoch = 0
    BY <1>1, TimerFiresEffect
  <2> QED
    BY <2>1, <2>2, StartsJobInv
<1>2. ASSUME NEW g \in Getter, NEW r \in Slot, getOrStartFlightStart(g, r)
      PROVE  JobInv'
  BY <1>2, getOrStartFlightStartEffect, StartsJobInv DEF getOrStartFlightStart
<1>3. ASSUME NEW k \in Unit, Edit(k) \/ SetFocus(k) PROVE JobInv'
  BY <1>3, OutsideJobInv DEF Edit, SetFocus
<1>4. ASSUME NEW d \in Dir,
             DependencyChange(d) \/ Invalidate(d) \/ InvalidateDependency(d)
      PROVE  JobInv'
  BY <1>4, OutsideJobInv DEF DependencyChange, Invalidate, InvalidateDependency
<1>5. ASSUME NEW r \in Slot, Job(r) \/ Recheck(r) \/ Flight(r) PROVE JobInv'
  BY <1>5, startJobJobInv, fireRecheckReturnsJobInv, SlotJobInv, RecheckJobInv
     DEF Job, Flight
<1>6. ASSUME NEW g \in Getter,
             \/ GetHashes(g) \/ GetFails(g) \/ GetLooksUp(g)
             \/ getOrStartFlightJoin(g) \/ GetReturns(g) \/ GetCanceled(g)
             \/ \E k \in Unit : GetStarts(g, k)
      PROVE  JobInv'
  BY <1>6, OutsideJobInv DEF GetHashes, GetFails, GetLooksUp,
     getOrStartFlightJoin, GetReturns, GetCanceled, GetStarts
<1>7. CASE UNCHANGED vars
  BY <1>7, OutsideJobInv DEF vars
<1> QED
  BY <1>1, <1>2, <1>3, <1>4, <1>5, <1>6, <1>7, ShutdownJobInv DEF Next, Get

\* An engine that has started nothing has registered nothing.
LEMMA InitJobInv == Init => JobInv
<1>1. None \notin Slot
  BY EngineAssumption
<1> QED
  BY <1>1 DEF Init, JobInv, LiveIsRegistered, LiveJob, RegisteredIsJob,
     EpochIsOwned, FiredIsFresh, IdleWork

(***************************************************************************)
(* At most one background job per unit is past startJob and not canceled,  *)
(* however many timers have fired and however the finishes of superseded   *)
(* jobs interleave with the starts of newer ones.                          *)
(***************************************************************************)
THEOREM OneLiveJobHolds == Spec => []OneLiveJob
<1>1. Init => TypeInv /\ JobInv
  BY InitTypeInv, InitJobInv
<1>2. TypeInv /\ JobInv /\ [Next]_vars => TypeInv' /\ JobInv'
  BY StepType, StepJobInv
<1>3. TypeInv /\ JobInv => OneLiveJob
  BY DEF JobInv, LiveIsRegistered, LiveJob, OneLiveJob
<1> QED
  BY <1>1, <1>2, <1>3, PTL DEF Spec

----------------------------------------------------------------------------
(* pendingWG.                                                              *)

\* The units whose timer is armed, and the slots in use.
Armed == {k \in Unit : timer[k] = "armed"}
Busy == {r \in Slot : work[r].kind # "idle"}

(***************************************************************************)
(* The counter covers what is armed and what runs.  Only finitely many     *)
(* goroutines run at a time, however many there may be.                    *)
(***************************************************************************)
WaitInv ==
    /\ IsFiniteSet(Busy)
    /\ pending >= Cardinality(Armed) + Cardinality(Busy)

\* What the counting needs to know of the two sets.
LEMMA WaitFacts ==
    ASSUME TypeInv, WaitInv
    PROVE  /\ IsFiniteSet(Armed) /\ Cardinality(Armed) \in Nat
           /\ IsFiniteSet(Busy) /\ Cardinality(Busy) \in Nat
           /\ pending \in Int
<1>1. IsFiniteSet(Armed)
  BY UnitIsFinite, FS_Subset DEF Armed
<1> QED
  BY <1>1, FS_CardinalityType DEF WaitInv, TypeInv, TypeOK, ScheduleTypeOK

\* Timers may be stopped without balancing the counter.
LEMMA WaitKept ==
    ASSUME TypeInv, WaitInv, Armed' \subseteq Armed, Busy' = Busy,
           pending' = pending
    PROVE  WaitInv'
<1>1. Cardinality(Armed') <= Cardinality(Armed) /\ Cardinality(Armed') \in Nat
  BY WaitFacts, FS_Subset, FS_CardinalityType
<1> QED
  BY <1>1, WaitFacts DEF WaitInv

\* Arming K adds the timers that were not armed before.
LEMMA armDebounceLockedWait ==
    ASSUME TypeInv, WaitInv, NEW K \in SUBSET Unit, armDebounceLocked(K),
           work' = work
    PROVE  WaitInv'
<1>1. Armed' = Armed \cup K
  BY TypeFacts DEF Armed, armDebounceLocked, ScheduleTypeOK
<1>2. {k \in K : StopReturnsTrue(k)} = Armed \cap K
  BY DEF StopReturnsTrue, Armed
<1>3. IsFiniteSet(K)
  BY UnitIsFinite, FS_Subset
<1>4. Cardinality(Armed \cup K) =
         Cardinality(Armed) + Cardinality(K) - Cardinality(Armed \cap K)
  BY <1>3, WaitFacts, FS_Union
<1>5. Cardinality(K) \in Nat /\ Cardinality(Armed \cap K) \in Nat
  BY <1>3, FS_CardinalityType, FS_Subset
<1>6. pending' = pending + Cardinality(K) - Cardinality(Armed \cap K)
  BY <1>2 DEF armDebounceLocked
<1>7. Busy' = Busy
  BY DEF Busy
<1> QED
  BY <1>1, <1>4, <1>5, <1>6, <1>7, WaitFacts DEF WaitInv

\* A slot that starts a recheck takes over the count of the timer that fired,
\* or is counted.
LEMMA StartsWait ==
    ASSUME TypeInv, WaitInv, NEW r \in Slot, r \notin Busy,
           Busy' = Busy \cup {r},
           \/ pending' = pending + 1 /\ Armed' = Armed
           \/ pending' = pending /\ \E k \in Armed : Armed' = Armed \ {k}
    PROVE  WaitInv'
<1>1. /\ IsFiniteSet(Busy')
      /\ Cardinality(Busy') = Cardinality(Busy) + 1
  BY WaitFacts, FS_AddElement
<1>2. \A k \in Armed : Cardinality(Armed \ {k}) = Cardinality(Armed) - 1
  BY WaitFacts, FS_RemoveElement
<1> QED
  BY <1>1, <1>2, WaitFacts DEF WaitInv

\* A slot that ends is no longer counted.
LEMMA EndsWait ==
    ASSUME TypeInv, WaitInv, NEW r \in Busy, Busy' = Busy \ {r},
           pending' = pending - 1, Armed' = Armed
    PROVE  WaitInv'
<1>1. /\ IsFiniteSet(Busy')
      /\ Cardinality(Busy') = Cardinality(Busy) - 1
  BY WaitFacts, FS_RemoveElement
<1> QED
  BY <1>1, WaitFacts DEF WaitInv

\* Every step keeps WaitInv.
LEMMA StepWait ==
    ASSUME TypeInv, WaitInv, [Next]_vars
    PROVE  WaitInv'
<1> USE DEF world, jobs, gens, store, life, client, history
<1>1. ASSUME NEW k \in Unit, NEW r \in Slot, TimerFires(k, r)
      PROVE  WaitInv'
  <2>0. work[r].kind = "idle"
    BY <1>1 DEF TimerFires
  <2>1. r \notin Busy /\ Busy' = Busy \cup {r}
    <3>1. work'[r].kind # "idle" /\ \A s \in Slot \ {r} : work'[s] = work[s]
      BY <1>1, TimerFiresEffect
    <3> QED
      BY <2>0, <3>1 DEF Busy
  <2>2. k \in Armed /\ Armed' = Armed \ {k} /\ pending' = pending
    BY <1>1, TypeFacts DEF Armed, TimerFires, ScheduleTypeOK
  <2> QED
    BY <2>1, <2>2, StartsWait
<1>2. ASSUME NEW g \in Getter, NEW r \in Slot, getOrStartFlightStart(g, r)
      PROVE  WaitInv'
  <2>0. work[r].kind = "idle"
    BY <1>2 DEF getOrStartFlightStart
  <2>1. r \notin Busy /\ Busy' = Busy \cup {r}
    <3>1. work'[r].kind # "idle" /\ \A s \in Slot \ {r} : work'[s] = work[s]
      BY <1>2, getOrStartFlightStartEffect
    <3> QED
      BY <2>0, <3>1 DEF Busy
  <2>2. Armed' = Armed /\ pending' = pending + 1
    BY <1>2 DEF Armed, getOrStartFlightStart
  <2> QED
    BY <2>1, <2>2, StartsWait
<1>3. ASSUME NEW r \in Slot, fireRecheckReturns(r) \/ runFlightReturns(r)
      PROVE  WaitInv'
  <2>0. work[r].kind # "idle"
    BY <1>3 DEF fireRecheckReturns, runFlightReturns
  <2>1. r \in Busy /\ Busy' = Busy \ {r}
    <3>1. work'[r].kind = "idle" /\ \A s \in Slot \ {r} : work'[s] = work[s]
      BY <1>3, fireRecheckReturnsEffect, runFlightReturnsEffect
    <3> QED
      BY <2>0, <3>1 DEF Busy
  <2>2. Armed' = Armed /\ pending' = pending - 1
    BY <1>3 DEF Armed, fireRecheckReturns, runFlightReturns
  <2> QED
    BY <2>1, <2>2, EndsWait
<1>4. ASSUME NEW d \in Dir, Invalidate(d) \/ InvalidateDependency(d)
      PROVE  WaitInv'
  <2>1. /\ InvalidateKeys(d) \in SUBSET Unit
        /\ InvalidateDependencyKeys(d) \in SUBSET Unit
    BY DEF InvalidateKeys, InvalidateDependencyKeys, UnitsOf
  <2> QED
    BY <1>4, <2>1, armDebounceLockedWait DEF Invalidate, InvalidateDependency
<1>5. ASSUME NEW r \in Slot, startJob(r) PROVE WaitInv'
  <2>1. Busy' = Busy
    BY <1>5, startJobEffect DEF Busy
  <2>2. Armed' \subseteq Armed /\ pending' = pending
    BY <1>5, TypeFacts DEF Armed, startJob, ScheduleTypeOK
  <2> QED
    BY <2>1, <2>2, WaitKept
<1>6. ASSUME NEW r \in Slot,
             \/ startJobStopped(r) \/ fireRecheckRetry(r) \/ Recheck(r)
             \/ runFlightCloses(r)
      PROVE  WaitInv'
  <2>1. \A s \in Slot : work'[s].kind = work[s].kind
    <3>1. /\ \A s \in Slot \ {r} : work'[s] = work[s]
          /\ work'[r].kind = work[r].kind
      <4>1. ASSUME startJobStopped(r) \/ fireRecheckRetry(r) \/ runFlightCloses(r)
            PROVE  <3>1!:
        BY <4>1, startJobStoppedEffect, fireRecheckRetryEffect,
           runFlightClosesEffect
      <4>2. ASSUME \/ nextGen(r) \/ ReadFails(r) \/ contentHash(r)
                   \/ parseFiles(r) \/ CheckPackage(r)
            PROVE  <3>1!:
        BY <4>2, nextGenEffect, ReadFailsEffect, contentHashEffect,
           parseFilesEffect, CheckPackageEffect
      <4>3. ASSUME \/ commitCacheDropped(r) \/ commitCache(r)
                   \/ commitRetired(r) \/ commitPublish(r)
            PROVE  <3>1!:
        BY <4>3, commitCacheDroppedEffect, commitCacheEffect,
           commitRetiredEffect, commitPublishEffect
      <4> QED
        BY <1>6, <4>1, <4>2, <4>3 DEF Recheck
    <3> QED
      BY <3>1
  <2>2. timer' = timer /\ pending' = pending
    BY <1>6 DEF startJobStopped, fireRecheckRetry, runFlightCloses, Recheck,
       nextGen, ReadFails, contentHash, parseFiles, CheckPackage,
       commitCacheDropped, commitCache, commitRetired, commitPublish
  <2>3. Busy' = Busy /\ Armed' \subseteq Armed
    BY <2>1, <2>2 DEF Busy, Armed
  <2> QED
    BY <2>2, <2>3, WaitKept
<1>7. CASE Retire
  <2>1. Busy' = Busy
    BY <1>7, CancelJobsEffect DEF Busy, Retire
  <2>2. Armed' \subseteq Armed /\ pending' = pending
    BY <1>7 DEF Armed, Retire
  <2> QED
    BY <2>1, <2>2, WaitKept
<1>8. CASE Stop
  <2>1. Busy' = Busy
    BY <1>8, CancelJobsEffect DEF Busy, Stop
  <2>2. Armed' = {}
    BY <1>8 DEF Armed, Stop
  <2>3. pending' = pending - Cardinality(Armed)
    BY <1>8 DEF Armed, Stop, StopReturnsTrue
  <2> QED
    BY <2>1, <2>2, <2>3, WaitFacts, FS_EmptySet DEF WaitInv
<1>9. ASSUME UNCHANGED <<timer, work, pending>> PROVE WaitInv'
  BY <1>9, WaitKept DEF Armed, Busy
<1>10. ASSUME NEW k \in Unit, Edit(k) \/ SetFocus(k) PROVE WaitInv'
  BY <1>9, <1>10 DEF Edit, SetFocus
<1>11. ASSUME NEW d \in Dir, DependencyChange(d) PROVE WaitInv'
  BY <1>9, <1>11 DEF DependencyChange
<1>12. ASSUME NEW g \in Getter,
             \/ GetHashes(g) \/ GetFails(g) \/ GetLooksUp(g)
             \/ getOrStartFlightJoin(g) \/ GetReturns(g) \/ GetCanceled(g)
             \/ \E k \in Unit : GetStarts(g, k)
      PROVE  WaitInv'
  BY <1>9, <1>12 DEF GetHashes, GetFails, GetLooksUp,
     getOrStartFlightJoin, GetReturns, GetCanceled, GetStarts
<1>13. CASE UNCHANGED vars
  BY <1>9, <1>13 DEF vars
<1> QED
  BY <1>1, <1>2, <1>3, <1>4, <1>5, <1>6, <1>7, <1>8, <1>10, <1>11, <1>12, <1>13
     DEF Next, Get, Job, Flight

(***************************************************************************)
(* pendingWG never counts less than the timers that are armed and the      *)
(* rechecks that run, although it is raised and lowered from six places    *)
(* and a timer's Stop may come too late: Wait never returns early and the  *)
(* counter never goes negative.                                            *)
(***************************************************************************)
THEOREM WaitNeverEarlyHolds == Spec => []WaitNeverEarly
<1>1. Init => TypeInv /\ WaitInv
  <2> SUFFICES ASSUME Init PROVE WaitInv
    BY InitTypeInv
  <2>1. Armed = {} /\ Busy = {} /\ pending = 0
    BY DEF Init, Armed, Busy, IdleWork
  <2> QED
    BY <2>1, FS_EmptySet DEF WaitInv
<1>2. TypeInv /\ WaitInv /\ [Next]_vars => (TypeInv /\ WaitInv)'
  BY StepType, StepWait
<1>3. TypeInv /\ WaitInv => WaitNeverEarly
  BY DEF WaitInv, WaitNeverEarly, Outstanding, Armed, Busy
<1> QED
  BY <1>1, <1>2, <1>3, PTL DEF Spec

============================================================================
