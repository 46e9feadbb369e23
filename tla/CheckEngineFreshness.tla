------------------------ MODULE CheckEngineFreshness ------------------------
(***************************************************************************)
(* What the engine's generations are for: a unit at rest shows, and has    *)
(* cached, its current files and imports, and Get never goes back in time. *)
(* For any number of directories, goroutines and request handlers, and any *)
(* bounds.                                                                 *)
(***************************************************************************)
EXTENDS CheckEngineProofs

----------------------------------------------------------------------------
(* Freshness.                                                              *)

\* The steps of a recheck: before it could have succeeded, once it has a
\* generation, once its texts are read, once its imports are, and between its
\* cache write and its publish.
Unfinished == {"fired", "begin", "hash", "parse", "check", "cache"}
Numbered == {"hash", "parse", "check", "cache", "retired", "publish"}
Parsed == {"check", "cache", "retired", "publish"}
Checked == {"cache", "retired", "publish"}
Committed == {"retired", "publish"}

(***************************************************************************)
(* A recheck's generation is at most its unit's counter and, from its      *)
(* cache write to its publish, at most doneGen; and a recheck that took    *)
(* its generation after the last change of its unit read what is current.  *)
(***************************************************************************)
RecheckOK(r) ==
    LET k == work[r].key IN
    /\ work[r].gen <= gen[k]
    /\ work[r].pc \in Numbered => work[r].gen > 0
    /\ work[r].pc \in Committed => work[r].gen <= doneGen[k]
    /\ work[r].pc \in Unfinished => ~work[r].ok
    /\ work[r].gen > changedAt[k] =>
          /\ work[r].pc \in Parsed => work[r].text.version = content[k]
          /\ work[r].pc \in Checked => work[r].dep = dep[k.dir]

RechecksOK == \A r \in Slot : work[r].pc # "idle" => RecheckOK(r)

\* The three counters of a unit are ordered, and only a unit that a recheck
\* has looked up has a generation, a cache entry or a publication.
CountersOK(k) ==
    /\ pubGen[k] <= doneGen[k]
    /\ doneGen[k] <= gen[k]
    /\ changedAt[k] <= gen[k]
    /\ gen[k] > 0 => k \in known
    /\ published[k] # None => pubGen[k] > 0
    /\ cache[k] # None => doneGen[k] > 0

\* What was cached or published under a generation later than the last change
\* is current.
ResultsOK(k) ==
    /\ pubGen[k] > changedAt[k] => Shown(k)
    /\ doneGen[k] > changedAt[k] /\ cache[k] # None =>
          IsCurrent(cache[k], k)

\* Recheck r has cached its result for unit k and is about to publish it.
Publishing(k, r) == work[r].key = k /\ work[r].pc \in Committed

\* A result that is cached and not yet published is about to be.
PublishFollows(k) ==
    pubGen[k] < doneGen[k] /\ ~retired =>
        \E r \in Slot : Publishing(k, r) /\ work[r].gen = doneGen[k]

\* Job r of unit k is not canceled and ends in a publication, a retry, or by
\* giving the unit up.
WillCover(k, r) ==
    /\ work[r].key = k /\ work[r].kind = "job" /\ ~work[r].canceled
    /\ \/ work[r].pc \in {"fired", "begin"}
       \/ work[r].pc \in {"hash", "parse", "check", "cache"}
          /\ work[r].gen > changedAt[k]
       \/ work[r].pc = "finish" /\ ~work[r].ok

\* A recheck of unit k that will see its last change is on its way.
Coming(k) ==
    \/ k.dir \in owed /\ (k.variant = "base" \/ k \in known)
    \/ k.dir \in owedDep /\ k \in known
    \/ timer[k] = "armed"
    \/ \E r \in Slot : WillCover(k, r)
    \/ \E r \in Slot : Publishing(k, r) /\ work[r].gen > changedAt[k]

\* Unit k has changed since its first recheck, or is an edited base package.
Changed(k) == changedAt[k] > 0 \/ (k.variant = "base" /\ content[k] > 0)

(***************************************************************************)
(* No change is lost: either a result that has seen it is published, or a  *)
(* recheck that will see it is on its way.                                 *)
(***************************************************************************)
ChangeIsCovered(k) ==
    Changed(k) /\ ~retired /\ k \notin gaveUp =>
        pubGen[k] > changedAt[k] \/ Coming(k)

UnitOK(k) ==
    CountersOK(k) /\ ResultsOK(k) /\ PublishFollows(k) /\ ChangeIsCovered(k)

FreshInv == RechecksOK /\ \A k \in Unit : UnitOK(k)


\* The fields of a recheck's record that the invariant compares.
LEMMA WorkFacts ==
    ASSUME TypeInv
    PROVE  \A r \in Slot :
              /\ work[r].gen \in Nat /\ work[r].text.version \in Nat
              /\ work[r].dep \in Nat /\ work[r].hash.version \in Nat
              /\ work[r].want.version \in Nat
              /\ work[r].ok \in BOOLEAN /\ work[r].canceled \in BOOLEAN
              /\ work[r].retried \in BOOLEAN
              /\ work[r].kind \in {"idle", "job", "flight"}
              /\ work[r].pc \in WorkPc
  BY TypeFacts DEF WorkState, Reading

\* The counters of a unit are numbers.
LEMMA UnitFacts ==
    ASSUME TypeInv, NEW k \in Unit
    PROVE  /\ gen[k] \in Nat /\ doneGen[k] \in Nat /\ pubGen[k] \in Nat
           /\ changedAt[k] \in Nat /\ content[k] \in Nat /\ dep[k.dir] \in Nat
           /\ k.dir \in Dir
  BY UnitDir DEF TypeInv, TypeOK, WorldTypeOK, ScheduleTypeOK

\* Recheck s keeps its part of the invariant when counters only grow and its
\* record, or what it records of itself, stays.
LEMMA RecheckKept ==
    ASSUME TypeInv, TypeInv', NEW s \in Slot, work[s].pc # "idle", RecheckOK(s),
           work'[s].key = work[s].key, work'[s].gen = work[s].gen,
           work'[s].text = work[s].text, work'[s].dep = work[s].dep,
           work'[s].ok = work[s].ok, work'[s].pc = work[s].pc,
           \A k \in Unit : /\ gen'[k] >= gen[k] /\ doneGen'[k] >= doneGen[k]
                           /\ changedAt'[k] = changedAt[k]
                           /\ content'[k] = content[k]
                           /\ dep'[k.dir] = dep[k.dir]
    PROVE  RecheckOK(s)'
<1> PICK k \in Unit : k = work[s].key
  BY TypeFacts
<1>1. /\ work[s].gen \in Nat /\ work[s].gen \in Nat
      /\ gen[k] \in Nat /\ gen'[k] \in Nat /\ doneGen[k] \in Nat
      /\ doneGen'[k] \in Nat /\ changedAt[k] \in Nat
  BY WorkFacts, UnitFacts DEF TypeInv, TypeOK, ScheduleTypeOK
<1> QED
  BY <1>1 DEF RecheckOK

\* The same for every recheck but one.
LEMMA OthersKept ==
    ASSUME TypeInv, TypeInv', RechecksOK, NEW r \in Slot,
           \A s \in Slot \ {r} : work'[s] = work[s],
           work'[r].pc # "idle" => RecheckOK(r)',
           \A k \in Unit : /\ gen'[k] >= gen[k] /\ doneGen'[k] >= doneGen[k]
                           /\ changedAt'[k] = changedAt[k]
                           /\ content'[k] = content[k]
                           /\ dep'[k.dir] = dep[k.dir]
    PROVE  RechecksOK'
<1> SUFFICES ASSUME NEW s \in Slot, work'[s].pc # "idle", s # r
             PROVE  RecheckOK(s)'
  BY DEF RechecksOK
<1>1. work'[s] = work[s]
  OBVIOUS
<1>2. RecheckOK(s) /\ work[s].pc # "idle"
  BY <1>1 DEF RechecksOK
<1> QED
  BY <1>1, <1>2, RecheckKept

\* A unit whose inputs, counters and results stay keeps its part as long as
\* the rechecks on their way stay on their way.
LEMMA UnitKept ==
    ASSUME TypeInv, NEW k \in Unit, UnitOK(k),
           content'[k] = content[k], dep'[k.dir] = dep[k.dir],
           changedAt'[k] = changedAt[k], gen'[k] = gen[k],
           doneGen'[k] = doneGen[k], pubGen'[k] = pubGen[k],
           cache'[k] \in {cache[k], None}, published'[k] = published[k],
           known \subseteq known', retired' = retired,
           k \in gaveUp => k \in gaveUp' \/ Coming(k)',
           \A s \in Slot : Publishing(k, s) /\ ~retired => Publishing(k, s)'
                                                   /\ work'[s].gen = work[s].gen,
           k \notin gaveUp' /\ Coming(k) => Coming(k)'
    PROVE  UnitOK(k)'
<1>1. CountersOK(k)'
  BY UnitFacts DEF UnitOK, CountersOK
<1>2. ResultsOK(k)'
  BY DEF UnitOK, ResultsOK, Shown, IsCurrent
<1>3. PublishFollows(k)'
  BY DEF UnitOK, PublishFollows
<1>4. ChangeIsCovered(k)'
  BY DEF UnitOK, ChangeIsCovered, Changed
<1> QED
  BY <1>1, <1>2, <1>3, <1>4 DEF UnitOK

\* A step that changes nothing the invariant is about keeps it.
LEMMA FreshFrame ==
    ASSUME TypeInv, TypeInv', FreshInv, known \subseteq known',
           UNCHANGED <<content, dep, owed, owedDep, cache, timer, gens, retired,
                       work, published, changedAt, gaveUp>>
    PROVE  FreshInv'
<1> USE DEF gens
<1>1. RechecksOK'
  <2> SUFFICES ASSUME NEW s \in Slot, work[s].pc # "idle"
               PROVE  RecheckOK(s)'
    BY DEF RechecksOK
  <2>1. RecheckOK(s)
    BY DEF FreshInv, RechecksOK
  <2>2. \A k \in Unit : gen[k] \in Nat /\ doneGen[k] \in Nat
    BY UnitFacts
  <2> QED
    BY <2>1, <2>2, RecheckKept
<1>2. ASSUME NEW k \in Unit PROVE UnitOK(k)'
  <2>1. UnitOK(k)
    BY DEF FreshInv
  <2>2. Coming(k) => Coming(k)'
    BY DEF Coming, WillCover, Publishing
  <2>3. \A s \in Slot : Publishing(k, s) => Publishing(k, s)'
                                            /\ work'[s].gen = work[s].gen
    BY DEF Publishing
  <2> QED
    BY <2>1, <2>2, <2>3, UnitKept
<1> QED
  BY <1>1, <1>2 DEF FreshInv

\* An edit makes what has read the unit so far old, and Invalidate is owed.
LEMMA EditFresh ==
    ASSUME TypeInv, TypeInv', FreshInv, NEW k \in Unit, Edit(k)
    PROVE  FreshInv'
<1> USE DEF world, store, jobs, gens, life, client
<1>1. /\ content' \in [Unit -> Nat] /\ owed' = owed \cup {k.dir}
      /\ \A j \in Unit \ {k} : content'[j] = content[j]
                               /\ changedAt'[j] = changedAt[j]
      /\ changedAt'[k] = gen[k]
      /\ UNCHANGED <<dep, owedDep, known, cache, timer, gen, doneGen, pubGen,
                     retired, work, published, gaveUp>>
  <2>1. /\ changedAt \in [Unit -> Nat] /\ content \in [Unit -> Nat]
        /\ content' \in [Unit -> Nat]
    BY DEF TypeInv, TypeOK, WorldTypeOK
  <2> QED
    BY <2>1 DEF Edit
<1>2. RechecksOK'
  <2> SUFFICES ASSUME NEW s \in Slot, work[s].pc # "idle"
               PROVE  RecheckOK(s)'
    BY <1>1 DEF RechecksOK
  <2> PICK j \in Unit : j = work[s].key
    BY TypeFacts
  <2>1. RecheckOK(s)
    BY DEF FreshInv, RechecksOK
  <2>2. gen[j] \in Nat /\ work[s].gen \in Nat
    BY UnitFacts, WorkFacts
  <2> QED
    BY <1>1, <2>1, <2>2 DEF RecheckOK
<1>3. ASSUME NEW j \in Unit, j # k PROVE UnitOK(j)'
  <2>1. UnitOK(j)
    BY DEF FreshInv
  <2>2. Coming(j) => Coming(j)'
    BY <1>1, <1>3 DEF Coming, WillCover, Publishing
  <2>3. \A s \in Slot : Publishing(j, s) => Publishing(j, s)'
                                            /\ work'[s].gen = work[s].gen
    BY <1>1 DEF Publishing
  <2> QED
    BY <1>1, <1>3, <2>1, <2>2, <2>3, UnitKept
<1>4. UnitOK(k)'
  <2>1. /\ CountersOK(k) /\ PublishFollows(k)
        /\ gen[k] \in Nat /\ doneGen[k] \in Nat /\ pubGen[k] \in Nat
    BY UnitFacts DEF FreshInv, UnitOK
  <2>2. CountersOK(k)' /\ ResultsOK(k)'
    BY <1>1, <2>1 DEF CountersOK, ResultsOK
  <2>3. PublishFollows(k)'
    BY <1>1, <2>1 DEF PublishFollows, Publishing
  <2>4. Changed(k)' => Coming(k)'
    BY <1>1, <2>1 DEF Changed, Coming, CountersOK
  <2> QED
    BY <2>2, <2>3, <2>4 DEF UnitOK, ChangeIsCovered
<1> QED
  BY <1>2, <1>3, <1>4 DEF FreshInv

\* A dependency change does the same to every unit of the directory, and
\* InvalidateDependency is owed.
LEMMA DependencyChangeFresh ==
    ASSUME TypeInv, TypeInv', FreshInv, NEW d \in Dir, DependencyChange(d)
    PROVE  FreshInv'
<1> USE DEF world, store, jobs, gens, life, client
<1>1. /\ owedDep' = owedDep \cup {d}
      /\ \A k \in Unit : k.dir # d => dep'[k.dir] = dep[k.dir]
                                      /\ changedAt'[k] = changedAt[k]
      /\ \A k \in Unit : k.dir = d => changedAt'[k] = gen[k]
      /\ UNCHANGED <<content, owed, known, cache, timer, gen, doneGen, pubGen,
                     retired, work, published, gaveUp>>
  <2>1. dep \in [Dir -> Nat] /\ \A k \in Unit : k.dir \in Dir
    BY UnitDir, TypeFacts
  <2> QED
    BY <2>1 DEF DependencyChange
<1>2. RechecksOK'
  <2> SUFFICES ASSUME NEW s \in Slot, work[s].pc # "idle"
               PROVE  RecheckOK(s)'
    BY <1>1 DEF RechecksOK
  <2> PICK j \in Unit : j = work[s].key
    BY TypeFacts
  <2>1. RecheckOK(s)
    BY DEF FreshInv, RechecksOK
  <2>2. gen[j] \in Nat /\ work[s].gen \in Nat
    BY UnitFacts, WorkFacts
  <2> QED
    BY <1>1, <2>1, <2>2 DEF RecheckOK
<1>3. ASSUME NEW k \in Unit, k.dir # d PROVE UnitOK(k)'
  <2>1. UnitOK(k)
    BY DEF FreshInv
  <2>2. Coming(k) => Coming(k)'
    BY <1>1, <1>3 DEF Coming, WillCover, Publishing
  <2>3. \A s \in Slot : Publishing(k, s) => Publishing(k, s)'
                                            /\ work'[s].gen = work[s].gen
    BY <1>1 DEF Publishing
  <2> QED
    BY <1>1, <1>3, <2>1, <2>2, <2>3, UnitKept
<1>4. ASSUME NEW k \in Unit, k.dir = d PROVE UnitOK(k)'
  <2>1. /\ CountersOK(k) /\ PublishFollows(k) /\ ChangeIsCovered(k)
        /\ gen[k] \in Nat /\ doneGen[k] \in Nat /\ pubGen[k] \in Nat
        /\ changedAt[k] \in Nat
    BY UnitFacts DEF FreshInv, UnitOK
  <2>2. CountersOK(k)' /\ ResultsOK(k)'
    BY <1>1, <1>4, <2>1 DEF CountersOK, ResultsOK
  <2>3. PublishFollows(k)'
    BY <1>1, <2>1 DEF PublishFollows, Publishing
  <2>4. CASE gen[k] > 0
    BY <1>1, <1>4, <2>1, <2>2, <2>3, <2>4
       DEF UnitOK, ChangeIsCovered, Coming, CountersOK
  \* No recheck has a generation, so none of those on their way can have read
  \* anything yet.
  <2>5. CASE gen[k] = 0
    <3>1. \A s \in Slot : work[s].key = k /\ work[s].pc # "idle" =>
                             work[s].gen = 0
      BY <2>5, WorkFacts DEF FreshInv, RechecksOK, RecheckOK
    <3>2. Changed(k)' => Changed(k)
      BY <1>1, <1>4, <2>5 DEF Changed
    <3>3. changedAt[k] = 0 /\ pubGen[k] = 0
      BY <2>1, <2>5 DEF CountersOK
    <3>4. \A s \in Slot : WillCover(k, s) => WillCover(k, s)'
      BY <1>1, <1>4, <2>5, <3>1, <3>3 DEF WillCover
    <3>5. \A s \in Slot : ~(Publishing(k, s) /\ work[s].gen > changedAt[k])
      BY <3>1, <3>3 DEF Publishing, Committed
    <3>6. Coming(k) => Coming(k)'
      BY <1>1, <3>4, <3>5 DEF Coming
    <3> QED
      BY <1>1, <1>4, <2>1, <2>2, <2>3, <2>5, <3>2, <3>3, <3>6
         DEF UnitOK, ChangeIsCovered
  <2> QED
    BY <2>1, <2>4, <2>5
<1> QED
  BY <1>2, <1>3, <1>4 DEF FreshInv

\* Invalidate arms every unit it owed a recheck to.
LEMMA InvalidateFresh ==
    ASSUME TypeInv, TypeInv', FreshInv, NEW d \in Dir,
           Invalidate(d) \/ InvalidateDependency(d)
    PROVE  FreshInv'
<1> USE DEF world, store, jobs, gens, life, client, history
<1>1. /\ UNCHANGED <<content, dep, known, gen, doneGen, pubGen,
                     retired, work, published, changedAt, gaveUp>>
      /\ \A k \in Unit : /\ cache'[k] \in {cache[k], None}
                         /\ timer[k] = "armed" => timer'[k] = "armed"
  BY TypeFacts
     DEF Invalidate, InvalidateDependency, armDebounceLocked, CacheTypeOK
<1>2. RechecksOK'
  <2> SUFFICES ASSUME NEW s \in Slot, work[s].pc # "idle"
               PROVE  RecheckOK(s)'
    BY <1>1 DEF RechecksOK
  <2>1. RecheckOK(s)
    BY DEF FreshInv, RechecksOK
  <2>2. \A k \in Unit : gen[k] \in Nat /\ doneGen[k] \in Nat
    BY UnitFacts
  <2> QED
    BY <1>1, <2>1, <2>2, RecheckKept
<1>3. ASSUME NEW k \in Unit PROVE UnitOK(k)'
  <2>1. UnitOK(k)
    BY DEF FreshInv
  <2>2. k.dir = d => k \in UnitsOf(d)
    BY DEF UnitsOf
  <2>3. ASSUME k.dir \in owed /\ (k.variant = "base" \/ k \in known)
        PROVE  Coming(k)'
    BY <1>1, <2>2, <2>3
       DEF Invalidate, InvalidateDependency, armDebounceLocked, InvalidateKeys,
           unitKnownLocked, Coming
  <2>4. ASSUME k.dir \in owedDep /\ k \in known
        PROVE  Coming(k)'
    BY <1>1, <2>2, <2>4
       DEF Invalidate, InvalidateDependency, armDebounceLocked,
           InvalidateDependencyKeys, unitKnownLocked, Coming
  <2>5. Coming(k) => Coming(k)'
    BY <1>1, <2>3, <2>4 DEF Coming, WillCover, Publishing
  <2>6. \A s \in Slot : Publishing(k, s) => Publishing(k, s)'
                                            /\ work'[s].gen = work[s].gen
    BY <1>1 DEF Publishing
  <2> QED
    BY <1>1, <2>1, <2>5, <2>6, UnitKept
<1> QED
  BY <1>2, <1>3 DEF FreshInv

\* A step of one recheck r that leaves the counters, the results and the
\* schedule alone.
LEMMA MoveFresh ==
    ASSUME TypeInv, TypeInv', FreshInv, NEW r \in Slot,
           known \subseteq known',
           UNCHANGED <<content, dep, owed, owedDep, cache, timer, gens, retired,
                       published, changedAt, gaveUp>>,
           \A s \in Slot \ {r} : work'[s] = work[s],
           work'[r].key = work[r].key, work'[r].gen = work[r].gen,
           work[r].pc # "idle", work'[r].pc # "idle" => RecheckOK(r)',
           NEW k \in Unit, k = work[r].key,
           ~retired /\ Publishing(k, r) => Publishing(k, r)',
           k \notin gaveUp /\ ~retired /\ WillCover(k, r) =>
              WillCover(k, r)' \/ (Publishing(k, r)' /\ work[r].gen > changedAt[k])
    PROVE  FreshInv'
<1> USE DEF gens
<1>1. RechecksOK'
  <2>1. \A j \in Unit : gen[j] \in Nat /\ doneGen[j] \in Nat
    BY UnitFacts
  <2>2. RechecksOK
    BY DEF FreshInv
  <2> QED
    BY <2>1, <2>2, OthersKept
<1>2. ASSUME NEW j \in Unit PROVE UnitOK(j)'
  <2>1. UnitOK(j)
    BY DEF FreshInv
  <2>2. \A s \in Slot \ {r} :
           /\ Publishing(j, s) => Publishing(j, s)' /\ work'[s].gen = work[s].gen
           /\ WillCover(j, s) => WillCover(j, s)'
    BY DEF Publishing, WillCover
  <2>3. j # k => ~Publishing(j, r) /\ ~WillCover(j, r)
    BY DEF Publishing, WillCover
  <2>4. \A s \in Slot : ~retired /\ Publishing(j, s) =>
                           Publishing(j, s)' /\ work'[s].gen = work[s].gen
    BY <2>2, <2>3
  <2>5. j \notin gaveUp /\ ~retired /\ Coming(j) => Coming(j)'
    <3>1. ASSUME NEW s \in Slot, WillCover(j, s), j \notin gaveUp, ~retired
          PROVE  Coming(j)'
      <4>1. CASE s # r
        BY <4>1, <3>1, <2>2 DEF Coming
      <4>2. CASE s = r
        <5>1. WillCover(k, r)' \/ (Publishing(k, r)' /\ work[r].gen > changedAt[k])
          BY <4>2, <3>1, <2>3
        <5>2. j = k
          BY <4>2, <3>1, <2>3
        <5> QED
          BY <5>1, <5>2 DEF Coming
      <4> QED
        BY <4>1, <4>2
    <3>2. ASSUME NEW s \in Slot, Publishing(j, s), work[s].gen > changedAt[j],
                 ~retired
          PROVE  Coming(j)'
      BY <3>2, <2>4 DEF Coming
    <3> QED
      BY <3>1, <3>2 DEF Coming
  <2>6. CASE retired
    <3>1. CountersOK(j)'
      BY <2>1, UnitFacts DEF UnitOK, CountersOK
    <3>2. ResultsOK(j)'
      BY <2>1 DEF UnitOK, ResultsOK, Shown, IsCurrent
    <3> QED
      BY <2>6, <3>1, <3>2 DEF UnitOK, PublishFollows, ChangeIsCovered
  <2>7. CASE ~retired
    BY <2>1, <2>4, <2>5, <2>7, UnitKept
  <2> QED
    BY <2>6, <2>7
<1> QED
  BY <1>1, <1>2 DEF FreshInv

\* The reads of runRecheck.
LEMMA ReadsFresh ==
    ASSUME TypeInv, TypeInv', JobInv, FreshInv, NEW r \in Slot,
           \/ ReadFails(r) \/ contentHash(r) \/ parseFiles(r) \/ CheckPackage(r)
    PROVE  FreshInv'
<1> USE DEF world, store, jobs, gens, life, client, history
<1>1. /\ known \subseteq known'
      /\ UNCHANGED <<content, dep, owed, owedDep, cache, timer, gens, retired,
                     stopped, published, changedAt, gaveUp>>
      /\ work[r].pc \in {"begin", "hash", "parse", "check"}
  BY DEF ReadFails, contentHash, parseFiles, CheckPackage
<1>2. /\ \A s \in Slot \ {r} : work'[s] = work[s]
      /\ work'[r].key = work[r].key /\ work'[r].gen = work[r].gen
      /\ work'[r].ok = work[r].ok /\ work'[r].kind = work[r].kind
      /\ work'[r].canceled = work[r].canceled
  BY ReadFailsEffect, contentHashEffect, parseFilesEffect, CheckPackageEffect
<1> PICK k \in Unit : k = work[r].key
  BY <1>1, TypeFacts
<1>0. /\ contentHash(r) => work[r].pc = "hash"
      /\ parseFiles(r) => work[r].pc = "parse"
      /\ CheckPackage(r) => work[r].pc = "check"
  BY DEF contentHash, parseFiles, CheckPackage
<1>3. RecheckOK(r)
  BY <1>1 DEF FreshInv, RechecksOK
<1>5. RecheckOK(r)'
      /\ (~Canceled(r) => \/ /\ work[r].pc \in {"hash", "parse", "check"}
                             /\ work'[r].pc \in {"parse", "check", "cache"}
                          \/ work'[r].pc = "finish")
      /\ (Canceled(r) => work'[r].pc = "finish")
  <2>1. CASE ReadFails(r)
    BY <1>1, <1>2, <1>3, <2>1, ReadFailsEffect
       DEF RecheckOK, Numbered, Committed, Unfinished, Parsed, Checked
  <2>2. CASE contentHash(r)
    BY <1>1, <1>2, <1>3, <1>0, <2>2, contentHashEffect
       DEF RecheckOK, Numbered, Committed, Unfinished, Parsed, Checked, NextPc
  <2>3. CASE parseFiles(r)
    BY <1>1, <1>2, <1>3, <1>0, <2>3, parseFilesEffect
       DEF RecheckOK, Numbered, Committed, Unfinished, Parsed, Checked, NextPc
  <2>4. CASE CheckPackage(r)
    BY <1>1, <1>2, <1>3, <1>0, <2>4, CheckPackageEffect
       DEF RecheckOK, Numbered, Committed, Unfinished, Parsed, Checked, NextPc
  <2> QED
    BY <2>1, <2>2, <2>3, <2>4
<1>6. ~Publishing(k, r)
  BY <1>1 DEF Publishing, Committed
<1>7. WillCover(k, r) => WillCover(k, r)'
  <2> HAVE WillCover(k, r)
  <2>1. ~Canceled(r)
    BY DEF Canceled, WillCover
  <2>2. ~work[r].ok
    BY <1>1, <1>3 DEF RecheckOK, Unfinished
  <2> QED
    BY <1>1, <1>2, <1>5, <2>1, <2>2 DEF WillCover
<1> QED
  BY <1>1, <1>2, <1>5, <1>6, <1>7, MoveFresh

\* The generation is taken before anything is read, so it is later than the
\* last change.
LEMMA nextGenFresh ==
    ASSUME TypeInv, TypeInv', FreshInv, NEW r \in Slot, nextGen(r)
    PROVE  FreshInv'
<1> USE DEF world, store, jobs, gens, life, client, history
<1>1. /\ UNCHANGED <<content, dep, owed, owedDep, cache, timer, doneGen, pubGen,
                     retired, stopped, published, changedAt, gaveUp>>
      /\ work[r].pc = "begin" /\ known' = known \cup {work[r].key}
  BY DEF nextGen
<1>2. /\ \A s \in Slot \ {r} : work'[s] = work[s]
      /\ work'[r].key = work[r].key
      /\ work'[r].ok = work[r].ok /\ work'[r].kind = work[r].kind
      /\ work'[r].canceled = work[r].canceled
  BY nextGenEffect
<1> PICK k \in Unit : k = work[r].key
  BY <1>1, TypeFacts
<1>3. RecheckOK(r)
  BY <1>1 DEF FreshInv, RechecksOK
<1>4. ~Publishing(k, r)
  BY <1>1 DEF Publishing, Committed
<1>5. CASE Canceled(r)
  <2>1. UNCHANGED gen /\ work'[r].pc = "finish" /\ work'[r].gen = work[r].gen
    BY <1>5, nextGenEffect
  <2>2. RecheckOK(r)'
    BY <1>1, <1>2, <1>3, <2>1
       DEF RecheckOK, Numbered, Committed, Unfinished, Parsed, Checked
  <2>3. ~work[r].ok
    BY <1>1, <1>3 DEF RecheckOK, Unfinished
  <2>4. WillCover(k, r) => WillCover(k, r)'
    BY <1>2, <2>1, <2>3 DEF WillCover
  <2> QED
    BY <1>1, <1>2, <1>4, <2>1, <2>2, <2>4, MoveFresh
<1>6. CASE ~Canceled(r)
  <2>1. /\ work'[r].pc = "hash" /\ work'[r].gen = gen[k] + 1
        /\ gen' = [gen EXCEPT ![k] = @ + 1]
    BY <1>6, nextGenEffect
  <2>2. /\ gen[k] \in Nat /\ changedAt[k] \in Nat /\ doneGen[k] \in Nat
        /\ pubGen[k] \in Nat /\ gen \in [Unit -> Nat]
    BY UnitFacts, TypeFacts
  <2>3. /\ gen'[k] = gen[k] + 1
        /\ \A j \in Unit \ {k} : gen'[j] = gen[j]
    BY <2>1, <2>2
  <2>4. RecheckOK(r)'
    BY <1>1, <1>2, <1>3, <2>1, <2>2, <2>3
       DEF RecheckOK, Numbered, Committed, Unfinished, Parsed, Checked
  <2>5. RechecksOK'
    <3>1. \A j \in Unit : /\ gen'[j] >= gen[j] /\ doneGen'[j] >= doneGen[j]
      BY <1>1, <2>2, <2>3, UnitFacts
    <3>2. RechecksOK
      BY DEF FreshInv
    <3> QED
      BY <1>1, <1>2, <2>4, <3>1, <3>2, OthersKept
  <2>6. \A j \in Unit, s \in Slot \ {r} :
           /\ Publishing(j, s) => Publishing(j, s)' /\ work'[s].gen = work[s].gen
           /\ WillCover(j, s) => WillCover(j, s)'
    BY <1>1, <1>2 DEF Publishing, WillCover
  <2>7. ASSUME NEW j \in Unit, j # k PROVE UnitOK(j)'
    <3>1. UnitOK(j)
      BY DEF FreshInv
    <3>2. ~Publishing(j, r) /\ ~WillCover(j, r)
      BY <2>7 DEF Publishing, WillCover
    <3>3. \A s \in Slot :
           /\ Publishing(j, s) => Publishing(j, s)' /\ work'[s].gen = work[s].gen
           /\ WillCover(j, s) => WillCover(j, s)'
      BY <2>6, <3>2
    <3>4. Coming(j) => Coming(j)'
      BY <1>1, <3>3 DEF Coming
    <3> QED
      BY <1>1, <2>3, <2>7, <3>1, <3>3, <3>4, UnitKept
  <2>8. UnitOK(k)'
    <3>1. UnitOK(k)
      BY DEF FreshInv
    <3>2. CountersOK(k)'
      BY <1>1, <2>2, <2>3, <3>1 DEF UnitOK, CountersOK
    <3>3. ResultsOK(k)'
      BY <1>1, <3>1 DEF UnitOK, ResultsOK, Shown, IsCurrent
    <3>4. PublishFollows(k)'
      BY <1>1, <1>4, <2>6, <3>1 DEF UnitOK, PublishFollows
    <3>5. WillCover(k, r) => WillCover(k, r)'
      BY <1>1, <1>2, <2>1, <2>2, <3>1 DEF WillCover, UnitOK, CountersOK
    <3>6. Coming(k) => Coming(k)'
      BY <1>1, <1>4, <2>6, <3>5 DEF Coming
    <3>7. ChangeIsCovered(k)'
      BY <1>1, <3>1, <3>6 DEF UnitOK, ChangeIsCovered, Changed
    <3> QED
      BY <3>2, <3>3, <3>4, <3>7 DEF UnitOK
  <2> QED
    BY <2>5, <2>7, <2>8 DEF FreshInv
<1> QED
  BY <1>5, <1>6

\* A job whose result is dropped has been overtaken by a recheck that has
\* published or is about to.
LEMMA commitCacheDroppedFresh ==
    ASSUME TypeInv, TypeInv', FreshInv, NEW r \in Slot, commitCacheDropped(r)
    PROVE  FreshInv'
<1> USE DEF world, store, jobs, gens, life, client, history
<1>1. /\ UNCHANGED <<content, dep, owed, owedDep, cache, timer, gens, known,
                     retired, published, changedAt, gaveUp>>
      /\ work[r].pc = "cache" /\ CacheIsNewer(r)
  BY DEF commitCacheDropped
<1>2. /\ \A s \in Slot \ {r} : work'[s] = work[s]
      /\ work'[r].key = work[r].key /\ work'[r].gen = work[r].gen
      /\ work'[r].pc = "finish" /\ work'[r].ok
  BY commitCacheDroppedEffect
<1> PICK k \in Unit : k = work[r].key
  BY <1>1, TypeFacts
<1>3. RecheckOK(r) /\ UnitOK(k)
  BY <1>1 DEF FreshInv, RechecksOK
<1>4. RecheckOK(r)'
  BY <1>1, <1>2, <1>3
     DEF RecheckOK, Numbered, Committed, Unfinished, Parsed, Checked
<1>5. RechecksOK'
  <2>1. \A j \in Unit : gen[j] \in Nat /\ doneGen[j] \in Nat
    BY UnitFacts
  <2>2. RechecksOK
    BY DEF FreshInv
  <2> QED
    BY <1>1, <1>2, <1>4, <2>1, <2>2, OthersKept
<1>6. \A j \in Unit, s \in Slot \ {r} :
         /\ Publishing(j, s) => Publishing(j, s)' /\ work'[s].gen = work[s].gen
         /\ WillCover(j, s) => WillCover(j, s)'
  BY <1>1, <1>2 DEF Publishing, WillCover
<1>7. \A j \in Unit : ~Publishing(j, r)
  BY <1>1 DEF Publishing, Committed
<1>8. ASSUME NEW j \in Unit, j # k PROVE UnitOK(j)'
  <2>1. UnitOK(j)
    BY DEF FreshInv
  <2>2. ~WillCover(j, r)
    BY <1>8 DEF WillCover
  <2>3. Coming(j) => Coming(j)'
    BY <1>1, <1>6, <1>7, <2>2 DEF Coming
  <2> QED
    BY <1>1, <1>6, <1>7, <2>1, <2>3, UnitKept
<1>9. UnitOK(k)'
  <2>1. /\ gen[k] \in Nat /\ changedAt[k] \in Nat /\ doneGen[k] \in Nat
        /\ pubGen[k] \in Nat /\ work[r].gen \in Nat
    BY UnitFacts, WorkFacts
  <2>2. CountersOK(k)' /\ ResultsOK(k)'
    BY <1>1, <1>3 DEF UnitOK, CountersOK, ResultsOK, Shown, IsCurrent
  <2>3. PublishFollows(k)'
    BY <1>1, <1>3, <1>6, <1>7 DEF UnitOK, PublishFollows
  <2>4. ASSUME WillCover(k, r), ~retired
        PROVE  (pubGen[k] > changedAt[k] \/ Coming(k))'
    <3>1. work[r].gen > changedAt[k] /\ work[r].gen < doneGen[k]
      BY <1>1, <2>4 DEF WillCover, CacheIsNewer
    <3>2. CASE pubGen[k] < doneGen[k]
      <4> PICK s \in Slot : Publishing(k, s) /\ work[s].gen = doneGen[k]
        BY <1>3, <2>4, <3>2 DEF UnitOK, PublishFollows
      <4>1. Publishing(k, s)' /\ work'[s].gen > changedAt[k]
        BY <1>6, <1>7, <3>1, <2>1
      <4> QED
        BY <1>1, <4>1 DEF Coming
    <3> QED
      BY <1>1, <2>1, <3>1, <3>2
  <2>5. ChangeIsCovered(k)'
    <3>1. Coming(k) /\ ~WillCover(k, r) => Coming(k)'
      BY <1>1, <1>6, <1>7 DEF Coming
    <3> QED
      BY <1>1, <1>3, <2>4, <3>1 DEF UnitOK, ChangeIsCovered, Changed
  <2> QED
    BY <2>2, <2>3, <2>5 DEF UnitOK
<1> QED
  BY <1>5, <1>8, <1>9 DEF FreshInv

\* The cache takes the result, and its publish follows.
LEMMA commitCacheFresh ==
    ASSUME TypeInv, TypeInv', FreshInv, NEW r \in Slot, commitCache(r)
    PROVE  FreshInv'
<1> USE DEF world, jobs, gens, life, client, history
<1>1. /\ UNCHANGED <<content, dep, owed, owedDep, timer, gen, pubGen, known,
                     retired, published, changedAt, gaveUp>>
      /\ work[r].pc = "cache" /\ ~CacheIsNewer(r)
      /\ doneGen' = [doneGen EXCEPT ![work[r].key] = work[r].gen]
      /\ \A j \in Unit : j = work[r].key => cache'[j] = PkgOf(r)
      /\ \A j \in Unit : j # work[r].key => cache'[j] \in {cache[j], None}
  BY DEF commitCache
<1>2. /\ \A s \in Slot \ {r} : work'[s] = work[s]
      /\ work'[r].key = work[r].key /\ work'[r].gen = work[r].gen
      /\ work'[r].text = work[r].text /\ work'[r].dep = work[r].dep
      /\ work'[r].pc = "retired" /\ work'[r].ok = work[r].ok
  BY commitCacheEffect
<1> PICK k \in Unit : k = work[r].key
  BY <1>1, TypeFacts
<1>3. RecheckOK(r) /\ UnitOK(k)
  BY <1>1 DEF FreshInv, RechecksOK
<1>4. /\ gen[k] \in Nat /\ changedAt[k] \in Nat /\ doneGen[k] \in Nat
      /\ pubGen[k] \in Nat /\ work[r].gen \in Nat
  BY UnitFacts, WorkFacts
<1>5. /\ doneGen'[k] = work[r].gen /\ doneGen[k] <= work[r].gen
      /\ \A j \in Unit \ {k} : doneGen'[j] = doneGen[j]
  <2>1. doneGen \in [Unit -> Nat]
    BY TypeFacts DEF ScheduleTypeOK
  <2> QED
    BY <1>1, <1>4, <2>1 DEF CacheIsNewer
<1>6. RecheckOK(r)'
  BY <1>1, <1>2, <1>3, <1>4, <1>5
     DEF RecheckOK, Numbered, Committed, Unfinished, Parsed, Checked
<1>7. RechecksOK'
  <2>1. \A j \in Unit : gen'[j] >= gen[j] /\ doneGen'[j] >= doneGen[j]
    BY <1>1, <1>4, <1>5, UnitFacts
  <2>2. RechecksOK
    BY DEF FreshInv
  <2> QED
    BY <1>1, <1>2, <1>6, <2>1, <2>2, OthersKept
<1>8. \A j \in Unit, s \in Slot \ {r} :
         /\ Publishing(j, s) => Publishing(j, s)' /\ work'[s].gen = work[s].gen
         /\ WillCover(j, s) => WillCover(j, s)'
  BY <1>1, <1>2 DEF Publishing, WillCover
<1>9. \A j \in Unit : ~Publishing(j, r)
  BY <1>1 DEF Publishing, Committed
<1>10. ASSUME NEW j \in Unit, j # k PROVE UnitOK(j)'
  <2>1. UnitOK(j)
    BY DEF FreshInv
  <2>2. ~WillCover(j, r)
    BY <1>10 DEF WillCover
  <2>3. Coming(j) => Coming(j)'
    BY <1>1, <1>8, <1>9, <2>2 DEF Coming
  <2> QED
    BY <1>1, <1>5, <1>8, <1>9, <1>10, <2>1, <2>3, UnitKept
<1>11. UnitOK(k)'
  <2>1. /\ cache'[k].text = work[r].text /\ cache'[k].dep = work[r].dep
    BY <1>1 DEF PkgOf
  <2>2. CountersOK(k)'
    BY <1>1, <1>3, <1>4, <1>5 DEF UnitOK, CountersOK, RecheckOK, Numbered
  <2>3. ResultsOK(k)'
    BY <1>1, <1>3, <1>5, <2>1
       DEF UnitOK, ResultsOK, Shown, IsCurrent, RecheckOK, Parsed, Checked
  <2>4. Publishing(k, r)' /\ work'[r].gen = doneGen'[k]
    BY <1>2, <1>5 DEF Publishing, Committed
  <2>5. PublishFollows(k)'
    BY <2>4 DEF PublishFollows
  <2>6. Coming(k) => Coming(k)'
    <3>1. WillCover(k, r) => work'[r].gen > changedAt'[k]
      BY <1>1, <1>2 DEF WillCover
    <3> QED
      BY <1>1, <1>8, <1>9, <2>4, <3>1 DEF Coming
  <2>7. ChangeIsCovered(k)'
    BY <1>1, <1>3, <2>6 DEF UnitOK, ChangeIsCovered, Changed
  <2> QED
    BY <2>2, <2>3, <2>5, <2>7 DEF UnitOK
<1> QED
  BY <1>7, <1>10, <1>11 DEF FreshInv

\* Unless the engine is retired the recheck goes on to publish.
LEMMA commitRetiredFresh ==
    ASSUME TypeInv, TypeInv', FreshInv, NEW r \in Slot, commitRetired(r)
    PROVE  FreshInv'
<1> USE DEF world, store, jobs, gens, life, client, history
<1>1. /\ UNCHANGED <<content, dep, owed, owedDep, cache, timer, gens, known,
                     retired, published, changedAt, gaveUp>>
      /\ work[r].pc = "retired"
  BY DEF commitRetired
<1>2. /\ \A s \in Slot \ {r} : work'[s] = work[s]
      /\ work'[r].key = work[r].key /\ work'[r].gen = work[r].gen
      /\ work'[r].text = work[r].text /\ work'[r].dep = work[r].dep
      /\ work'[r].pc = (IF retired THEN "finish" ELSE "publish")
  BY commitRetiredEffect
<1> PICK k \in Unit : k = work[r].key
  BY <1>1, TypeFacts
<1>3. RecheckOK(r)
  BY <1>1 DEF FreshInv, RechecksOK
<1>4. RecheckOK(r)'
  BY <1>1, <1>2, <1>3
     DEF RecheckOK, Numbered, Committed, Unfinished, Parsed, Checked
<1>5. ~retired => Publishing(k, r)'
  BY <1>2 DEF Publishing, Committed
<1>6. ~WillCover(k, r)
  BY <1>1 DEF WillCover
<1> QED
  BY <1>1, <1>2, <1>4, <1>5, <1>6, MoveFresh

\* A publish that is dropped was overtaken by one with a later generation.
LEMMA commitPublishFresh ==
    ASSUME TypeInv, TypeInv', FreshInv, NEW r \in Slot, commitPublish(r)
    PROVE  FreshInv'
<1> USE DEF world, store, jobs, life, history
<1>1. /\ UNCHANGED <<content, dep, owed, owedDep, cache, timer, gen, doneGen,
                     known, retired, changedAt, gaveUp>>
      /\ work[r].pc = "publish"
      /\ IF PublishIsNewer(r)
         THEN UNCHANGED <<pubGen, published>>
         ELSE /\ pubGen' = [pubGen EXCEPT ![work[r].key] = work[r].gen]
              /\ published' = [published EXCEPT ![work[r].key] =
                               [text |-> work[r].text, dep |-> work[r].dep]]
  BY DEF commitPublish
<1>2. /\ \A s \in Slot \ {r} : work'[s] = work[s]
      /\ work'[r].key = work[r].key /\ work'[r].gen = work[r].gen
      /\ work'[r].pc = "finish"
  BY commitPublishEffect
<1> PICK k \in Unit : k = work[r].key
  BY <1>1, TypeFacts
<1>3. RecheckOK(r) /\ UnitOK(k)
  BY <1>1 DEF FreshInv, RechecksOK
<1>4. /\ gen[k] \in Nat /\ changedAt[k] \in Nat /\ doneGen[k] \in Nat
      /\ pubGen[k] \in Nat /\ work[r].gen \in Nat /\ pubGen \in [Unit -> Nat]
      /\ published \in [Unit -> Result \cup {None}]
  BY UnitFacts, WorkFacts, TypeFacts DEF CacheTypeOK, ScheduleTypeOK
<1>5. /\ \A j \in Unit \ {k} : pubGen'[j] = pubGen[j] /\ published'[j] = published[j]
      /\ PublishIsNewer(r) => pubGen'[k] = pubGen[k] /\ published'[k] = published[k]
      /\ ~PublishIsNewer(r) =>
            /\ pubGen'[k] = work[r].gen
            /\ published'[k] = [text |-> work[r].text, dep |-> work[r].dep]
      /\ PublishIsNewer(r) <=> work[r].gen < pubGen[k]
  BY <1>1, <1>4 DEF PublishIsNewer
<1>6. RecheckOK(r)'
  BY <1>1, <1>2, <1>3
     DEF RecheckOK, Numbered, Committed, Unfinished, Parsed, Checked
<1>7. RechecksOK'
  <2>1. \A j \in Unit : gen[j] \in Nat /\ doneGen[j] \in Nat
    BY UnitFacts
  <2>2. RechecksOK
    BY DEF FreshInv
  <2> QED
    BY <1>1, <1>2, <1>6, <2>1, <2>2, OthersKept
<1>8. \A j \in Unit, s \in Slot \ {r} :
         /\ Publishing(j, s) => Publishing(j, s)' /\ work'[s].gen = work[s].gen
         /\ WillCover(j, s) => WillCover(j, s)'
  BY <1>1, <1>2 DEF Publishing, WillCover
<1>9. \A j \in Unit : ~WillCover(j, r)
  BY <1>1 DEF WillCover
<1>10. ASSUME NEW j \in Unit, j # k PROVE UnitOK(j)'
  <2>1. UnitOK(j)
    BY DEF FreshInv
  <2>2. ~Publishing(j, r)
    BY <1>10 DEF Publishing
  <2>3. Coming(j) => Coming(j)'
    BY <1>1, <1>8, <1>9, <2>2 DEF Coming
  <2> QED
    BY <1>1, <1>5, <1>8, <1>10, <2>1, <2>2, <2>3, UnitKept
<1>11. UnitOK(k)'
  <2>1. work[r].gen <= doneGen[k] /\ work[r].gen > 0
    BY <1>1, <1>3 DEF RecheckOK, Committed, Numbered
  <2>2. /\ pubGen'[k] >= work[r].gen /\ pubGen'[k] >= pubGen[k]
        /\ pubGen'[k] <= doneGen[k] /\ pubGen'[k] \in Nat
    BY <1>3, <1>4, <1>5, <2>1 DEF UnitOK, CountersOK
  <2>3. CountersOK(k)'
    BY <1>1, <1>3, <1>4, <1>5, <2>1, <2>2 DEF UnitOK, CountersOK
  <2>4. ResultsOK(k)'
    <3>1. [text |-> work[r].text, dep |-> work[r].dep] # None
      BY PkgOfType, TypeFacts, NoneAssumption
    <3> QED
      BY <1>1, <1>3, <1>5, <3>1
         DEF UnitOK, ResultsOK, Shown, IsCurrent, RecheckOK, Parsed, Checked
  <2>5. PublishFollows(k)'
    <3> SUFFICES ASSUME pubGen'[k] < doneGen[k], ~retired
                 PROVE  \E s \in Slot : Publishing(k, s)' /\ work'[s].gen = doneGen[k]
      BY <1>1 DEF PublishFollows
    <3> PICK s \in Slot : Publishing(k, s) /\ work[s].gen = doneGen[k]
      BY <1>3, <1>4, <2>2 DEF UnitOK, PublishFollows
    <3>1. s # r
      BY <1>4, <2>2
    <3> QED
      BY <1>8, <3>1
  <2>6. Coming(k) => Coming(k)' \/ pubGen'[k] > changedAt[k]
    BY <1>1, <1>4, <1>8, <1>9, <2>2 DEF Coming
  <2>7. ChangeIsCovered(k)'
    BY <1>1, <1>3, <1>4, <2>2, <2>6 DEF UnitOK, ChangeIsCovered, Changed
  <2> QED
    BY <2>3, <2>4, <2>5, <2>7 DEF UnitOK
<1> QED
  BY <1>7, <1>10, <1>11 DEF FreshInv

\* A slot that starts a recheck was idle; nothing else changes but the timer
\* that fired.
LEMMA StartsFresh ==
    ASSUME TypeInv, TypeInv', FreshInv, NEW r \in Slot, work[r].pc = "idle",
           UNCHANGED <<content, dep, owed, owedDep, known, cache, gens, retired,
                       published, changedAt, gaveUp>>,
           \A s \in Slot \ {r} : work'[s] = work[s],
           work'[r].pc \in {"fired", "begin"}, ~work'[r].ok, work'[r].gen = 0,
           ~work'[r].canceled,
           \A k \in Unit : timer[k] = "armed" =>
              \/ timer'[k] = "armed"
              \/ work'[r].key = k /\ work'[r].kind = "job"
    PROVE  FreshInv'
<1> USE DEF gens
<1>1. RechecksOK'
  <2> PICK k \in Unit : k = work'[r].key
    BY DEF TypeInv, InUse
  <2>1. \A j \in Unit : gen[j] \in Nat /\ doneGen[j] \in Nat
                        /\ changedAt[j] \in Nat
    BY UnitFacts
  <2>2. RechecksOK
    BY DEF FreshInv
  <2>3. RecheckOK(r)'
    BY <2>1 DEF RecheckOK, Numbered, Committed, Unfinished, Parsed, Checked
  <2> QED
    BY <2>1, <2>2, <2>3, OthersKept
<1>2. ASSUME NEW k \in Unit PROVE UnitOK(k)'
  <2>1. UnitOK(k)
    BY DEF FreshInv
  <2>2. \A s \in Slot \ {r} :
           /\ Publishing(k, s) => Publishing(k, s)' /\ work'[s].gen = work[s].gen
           /\ WillCover(k, s) => WillCover(k, s)'
    BY DEF Publishing, WillCover
  <2>3. ~Publishing(k, r) /\ ~WillCover(k, r)
    BY DEF Publishing, WillCover, Committed
  <2>4. timer[k] = "armed" => Coming(k)'
    BY DEF Coming, WillCover
  <2>5. Coming(k) => Coming(k)'
    BY <2>2, <2>3, <2>4 DEF Coming
  <2> QED
    BY <2>1, <2>2, <2>3, <2>5, UnitKept
<1> QED
  BY <1>1, <1>2 DEF FreshInv

\* startJob drops the timer and cancels the older job of its unit, but is a
\* job of that unit itself and has yet to take its generation.
LEMMA startJobFresh ==
    ASSUME TypeInv, TypeInv', JobInv, FreshInv, NEW r \in Slot, startJob(r)
    PROVE  FreshInv'
<1> USE DEF world, store, jobs, gens, life, client
<1>1. /\ UNCHANGED <<content, dep, owed, owedDep, known, cache, gens, retired,
                     published, changedAt>>
      /\ work[r].pc = "fired"
      /\ timer' = [timer EXCEPT ![work[r].key] = "nil"]
      /\ gaveUp' = gaveUp \ {work[r].key}
  BY DEF startJob
<1> PICK k \in Unit : k = work[r].key
  BY <1>1, TypeFacts
<1>2. /\ \A s \in Slot : /\ work'[s].key = work[s].key /\ work'[s].gen = work[s].gen
                         /\ work'[s].text = work[s].text
                         /\ work'[s].dep = work[s].dep /\ work'[s].ok = work[s].ok
                         /\ work'[s].kind = work[s].kind
      /\ \A s \in Slot \ {r} : work'[s].pc = work[s].pc
      /\ \A s \in Slot \ {r} : work[s].key # k => work'[s].canceled = work[s].canceled
      /\ work'[r].pc = "begin" /\ ~work'[r].canceled /\ work[r].kind = "job"
  <2>1. \A s \in Slot : s \in Superseded(r) => work[s].key = k
    BY DEF Superseded, JobInv, RegisteredIsJob
  <2>2. ~work[r].canceled /\ work[r].kind = "job"
    BY <1>1 DEF JobInv, FiredIsFresh
  <2> QED
    BY <2>1, <2>2, startJobEffect, WorkFacts
<1>3. RechecksOK'
  <2> SUFFICES ASSUME NEW s \in Slot, work'[s].pc # "idle"
               PROVE  RecheckOK(s)'
    BY DEF RechecksOK
  <2>1. work[s].pc # "idle"
    BY <1>1, <1>2
  <2>2. RecheckOK(s)
    BY <2>1 DEF FreshInv, RechecksOK
  <2>3. CASE s = r
    BY <1>1, <1>2, <2>2, <2>3
       DEF RecheckOK, Numbered, Committed, Unfinished, Parsed, Checked
  <2>4. CASE s # r
    <3>1. \A j \in Unit : gen[j] \in Nat /\ doneGen[j] \in Nat
      BY UnitFacts
    <3> QED
      BY <1>1, <1>2, <2>1, <2>2, <2>4, <3>1, RecheckKept
  <2> QED
    BY <2>3, <2>4
<1>4. ASSUME NEW j \in Unit PROVE UnitOK(j)'
  <2>1. UnitOK(j)
    BY DEF FreshInv
  <2>2. \A s \in Slot : Publishing(j, s) => Publishing(j, s)'
                                            /\ work'[s].gen = work[s].gen
    BY <1>1, <1>2 DEF Publishing, Committed
  <2>3. CASE j = k
    <3>1. Coming(j)'
      BY <1>2, <2>3 DEF Coming, WillCover
    <3> QED
      BY <1>1, <2>1, <2>2, <3>1, UnitKept
  <2>4. CASE j # k
    <3>1. \A s \in Slot : WillCover(j, s) => WillCover(j, s)'
      BY <1>1, <1>2, <2>4 DEF WillCover
    <3>2. timer'[j] = timer[j]
      BY <1>1, <2>4, TypeFacts DEF ScheduleTypeOK
    <3>3. Coming(j) => Coming(j)'
      BY <1>1, <2>2, <3>1, <3>2 DEF Coming
    <3> QED
      BY <1>1, <2>1, <2>2, <2>4, <3>3, UnitKept
  <2> QED
    BY <2>3, <2>4
<1> QED
  BY <1>3, <1>4 DEF FreshInv

\* A failed job is retried once, and the second failure is recorded.
LEMMA fireRecheckFresh ==
    ASSUME TypeInv, TypeInv', FreshInv, NEW r \in Slot,
           fireRecheckRetry(r) \/ fireRecheckReturns(r)
    PROVE  FreshInv'
<1> USE DEF world, store, jobs, gens, life, client, history
<1>1. /\ UNCHANGED <<content, dep, owed, owedDep, known, cache, timer, gens,
                     retired, published, changedAt>>
      /\ work[r].pc = "finish"
  BY DEF fireRecheckRetry, fireRecheckReturns
<1> PICK k \in Unit : k = work[r].key
  BY <1>1, TypeFacts
<1>2. RecheckOK(r)
  BY <1>1 DEF FreshInv, RechecksOK
<1>3. ~Publishing(k, r)
  BY <1>1 DEF Publishing, Committed
<1>4. CASE fireRecheckRetry(r)
  <2>1. /\ \A s \in Slot \ {r} : work'[s] = work[s]
        /\ work'[r].key = work[r].key /\ work'[r].gen = work[r].gen
        /\ work'[r].ok = work[r].ok /\ work'[r].kind = work[r].kind
        /\ work'[r].pc = "begin" /\ work'[r].canceled = work[r].canceled
    BY <1>4, fireRecheckRetryEffect
  <2>2. ~work[r].ok /\ UNCHANGED gaveUp
    BY <1>4 DEF fireRecheckRetry, MayRetry, Failed
  <2>3. RecheckOK(r)'
    BY <1>1, <1>2, <2>1, <2>2
       DEF RecheckOK, Numbered, Committed, Unfinished, Parsed, Checked
  <2>4. WillCover(k, r) => WillCover(k, r)'
    BY <2>1 DEF WillCover
  <2> QED
    BY <1>1, <1>3, <2>1, <2>2, <2>3, <2>4, MoveFresh
<1>5. CASE fireRecheckReturns(r)
  <2>1. /\ \A s \in Slot \ {r} : work'[s] = work[s]
        /\ work'[r].pc = "idle"
    BY <1>5, fireRecheckReturnsEffect
  <2>2. /\ WillCover(k, r) => k \in gaveUp'
        /\ gaveUp \subseteq gaveUp' /\ gaveUp' \subseteq gaveUp \cup {k}
    BY <1>1, <1>5 DEF fireRecheckReturns, MayRetry, Failed, WillCover
  <2>3. RechecksOK'
    <3>1. \A j \in Unit : gen[j] \in Nat /\ doneGen[j] \in Nat
      BY UnitFacts
    <3>2. RechecksOK
      BY DEF FreshInv
    <3> QED
      BY <1>1, <2>1, <3>1, <3>2, OthersKept
  <2>4. ASSUME NEW j \in Unit PROVE UnitOK(j)'
    <3>1. UnitOK(j)
      BY DEF FreshInv
    <3>2. \A s \in Slot \ {r} :
             /\ Publishing(j, s) => Publishing(j, s)'
                                    /\ work'[s].gen = work[s].gen
             /\ WillCover(j, s) => WillCover(j, s)'
      BY <1>1, <2>1 DEF Publishing, WillCover
    <3>3. ~Publishing(j, r) /\ (j \notin gaveUp' => ~WillCover(j, r))
      BY <1>3, <2>2 DEF Publishing, WillCover
    <3>4. j \notin gaveUp' /\ Coming(j) => Coming(j)'
      BY <1>1, <3>2, <3>3 DEF Coming
    <3> QED
      BY <1>1, <2>2, <3>1, <3>2, <3>3, <3>4, UnitKept
  <2> QED
    BY <2>3, <2>4 DEF FreshInv
<1> QED
  BY <1>4, <1>5

\* A flight ends: it had published, or failed, or been dropped.
LEMMA runFlightFresh ==
    ASSUME TypeInv, TypeInv', FreshInv, NEW r \in Slot,
           runFlightCloses(r) \/ runFlightReturns(r)
    PROVE  FreshInv'
<1> USE DEF world, store, jobs, gens, life, client, history
<1>1. /\ UNCHANGED <<content, dep, owed, owedDep, known, cache, timer, gens,
                     retired, published, changedAt, gaveUp>>
      /\ work[r].pc \in {"finish", "closed"} /\ work[r].kind = "flight"
  BY DEF runFlightCloses, runFlightReturns
<1>2. /\ \A s \in Slot \ {r} : work'[s] = work[s]
      /\ \/ /\ work'[r].key = work[r].key /\ work'[r].gen = work[r].gen
            /\ work'[r].ok = work[r].ok /\ work'[r].pc = "closed"
         \/ work'[r].pc = "idle"
  BY runFlightClosesEffect, runFlightReturnsEffect
<1>3. RecheckOK(r)
  BY <1>1 DEF FreshInv, RechecksOK
<1>4. work'[r].pc # "idle" => RecheckOK(r)'
  BY <1>1, <1>2, <1>3
     DEF RecheckOK, Numbered, Committed, Unfinished, Parsed, Checked
<1>5. RechecksOK'
  <2>1. \A j \in Unit : gen[j] \in Nat /\ doneGen[j] \in Nat
    BY UnitFacts
  <2>2. RechecksOK
    BY DEF FreshInv
  <2> QED
    BY <1>1, <1>2, <1>4, <2>1, <2>2, OthersKept
<1>6. ASSUME NEW k \in Unit PROVE UnitOK(k)'
  <2>1. UnitOK(k)
    BY DEF FreshInv
  <2>2. \A s \in Slot \ {r} :
           /\ Publishing(k, s) => Publishing(k, s)' /\ work'[s].gen = work[s].gen
           /\ WillCover(k, s) => WillCover(k, s)'
    BY <1>1, <1>2 DEF Publishing, WillCover
  <2>3. ~Publishing(k, r) /\ ~WillCover(k, r)
    BY <1>1 DEF Publishing, WillCover, Committed
  <2>4. Coming(k) => Coming(k)'
    BY <1>1, <2>2, <2>3 DEF Coming
  <2> QED
    BY <1>1, <2>1, <2>2, <2>3, <2>4, UnitKept
<1> QED
  BY <1>5, <1>6 DEF FreshInv

\* A step that leaves a retired engine, or is taken in one, owes nobody a
\* recheck; what was cached and published stays what it is.
LEMMA RetiredFresh ==
    ASSUME TypeInv, TypeInv', FreshInv, retired',
           UNCHANGED <<content, dep, known, cache, gens, published, changedAt>>,
           \A s \in Slot :
              /\ work'[s].key = work[s].key /\ work'[s].gen = work[s].gen
              /\ work'[s].text = work[s].text /\ work'[s].dep = work[s].dep
              /\ work'[s].ok = work[s].ok
              /\ \/ work'[s].pc = work[s].pc
                 \/ work[s].pc = "fired" /\ work'[s].pc = "begin"
    PROVE  FreshInv'
<1> USE DEF gens
<1>1. RechecksOK'
  <2> SUFFICES ASSUME NEW s \in Slot, work'[s].pc # "idle"
               PROVE  RecheckOK(s)'
    BY DEF RechecksOK
  <2>1. work[s].pc # "idle"
    OBVIOUS
  <2>2. RecheckOK(s)
    BY <2>1 DEF FreshInv, RechecksOK
  <2> QED
    BY <2>2 DEF RecheckOK, Numbered, Committed, Unfinished, Parsed, Checked
<1>2. ASSUME NEW k \in Unit PROVE UnitOK(k)'
  <2>1. UnitOK(k)
    BY DEF FreshInv
  <2>2. CountersOK(k)' /\ ResultsOK(k)'
    BY <2>1 DEF UnitOK, CountersOK, ResultsOK, Shown, IsCurrent
  <2> QED
    BY <2>2 DEF UnitOK, PublishFollows, ChangeIsCovered
<1> QED
  BY <1>1, <1>2 DEF FreshInv

\* Every step keeps FreshInv.
LEMMA StepFresh ==
    ASSUME TypeInv, TypeInv', JobInv, FreshInv, [Next]_vars
    PROVE  FreshInv'
<1> USE DEF world, jobs, gens, store, life, client, history
<1>1. ASSUME NEW k \in Unit, NEW r \in Slot, TimerFires(k, r)
      PROVE  FreshInv'
  <2>1. /\ work[r].pc = "idle"
        /\ \A j \in Unit \ {k} : timer'[j] = timer[j]
        /\ UNCHANGED <<content, dep, owed, owedDep, known, cache, gens, retired,
                       published, changedAt, gaveUp>>
    BY <1>1, TypeFacts DEF TimerFires, ScheduleTypeOK, TypeInv, InUse
  <2> QED
    BY ZenonT(60), <1>1, <2>1, TimerFiresEffect, StartsFresh
<1>2. ASSUME NEW g \in Getter, NEW r \in Slot, getOrStartFlightStart(g, r)
      PROVE  FreshInv'
  <2>1. /\ work[r].pc = "idle"
        /\ UNCHANGED <<content, dep, owed, owedDep, known, cache, gens, retired,
                       timer, published, changedAt, gaveUp>>
    BY <1>2 DEF getOrStartFlightStart, TypeInv, InUse
  <2> QED
    BY <1>2, <2>1, getOrStartFlightStartEffect, StartsFresh
<1>3. ASSUME NEW k \in Unit, Edit(k) PROVE FreshInv'
  BY <1>3, EditFresh
<1>4. ASSUME NEW k \in Unit, SetFocus(k) PROVE FreshInv'
  BY <1>4, FreshFrame DEF SetFocus
<1>5. ASSUME NEW d \in Dir,
             DependencyChange(d) \/ Invalidate(d) \/ InvalidateDependency(d)
      PROVE  FreshInv'
  BY <1>5, DependencyChangeFresh, InvalidateFresh
<1>6. ASSUME NEW r \in Slot, startJobStopped(r) PROVE FreshInv'
  <2>1. /\ retired' /\ work[r].pc = "fired"
        /\ UNCHANGED <<content, dep, known, cache, gens, published, changedAt>>
    BY <1>6 DEF startJobStopped, JobInv
  <2> QED
    BY <1>6, <2>1, startJobStoppedEffect, RetiredFresh
<1>7. ASSUME NEW r \in Slot, Job(r) \/ Recheck(r) \/ Flight(r) PROVE FreshInv'
  BY <1>6, <1>7, startJobFresh, fireRecheckFresh, nextGenFresh, ReadsFresh,
     commitCacheDroppedFresh, commitCacheFresh, commitRetiredFresh,
     commitPublishFresh, runFlightFresh DEF Job, Recheck, Flight
<1>8. ASSUME NEW g \in Getter,
             \/ GetHashes(g) \/ GetFails(g) \/ GetLooksUp(g)
             \/ getOrStartFlightJoin(g) \/ GetReturns(g) \/ GetCanceled(g)
             \/ \E k \in Unit : GetStarts(g, k)
      PROVE  FreshInv'
  BY <1>8, FreshFrame DEF GetHashes, GetFails, GetLooksUp,
     getOrStartFlightJoin, GetReturns, GetCanceled, GetStarts
<1>9. CASE Retire \/ Stop
  <2>1. /\ retired' /\ CancelJobs
        /\ UNCHANGED <<content, dep, known, cache, gens, published, changedAt>>
    BY <1>9 DEF Retire, Stop
  <2> QED
    BY <2>1, CancelJobsEffect, RetiredFresh
<1>10. CASE UNCHANGED vars
  BY <1>10, FreshFrame DEF vars
<1> QED
  BY <1>1, <1>2, <1>3, <1>4, <1>5, <1>7, <1>8, <1>9, <1>10 DEF Next, Get

\* The whole of what is proved of the engine's rechecks, as one invariant.
LEMMA FreshAlways == Spec => [](TypeInv /\ JobInv /\ FreshInv)
<1>1. Init => TypeInv /\ JobInv /\ FreshInv
  <2> SUFFICES ASSUME Init PROVE FreshInv
    BY InitTypeInv, InitJobInv
  <2> USE DEF Init
  <2>1. RechecksOK
    BY DEF RechecksOK, IdleWork
  <2>2. ASSUME NEW k \in Unit PROVE UnitOK(k)
    BY DEF UnitOK, CountersOK, ResultsOK, PublishFollows, ChangeIsCovered,
           Changed
  <2> QED
    BY <2>1, <2>2 DEF FreshInv
<1>2. TypeInv /\ JobInv /\ FreshInv /\ [Next]_vars =>
         (TypeInv /\ JobInv /\ FreshInv)'
  BY StepType, StepJobInv, StepFresh
<1> QED
  BY <1>1, <1>2, PTL DEF Spec

(***************************************************************************)
(* Once a unit is quiet the client shows the diagnostics of its current    *)
(* files and imports: whatever passes the two generation gates late is     *)
(* older than what they have let through, and the recheck that the last    *)
(* change armed is neither superseded by one that has not seen the change  *)
(* nor dropped in favour of a result that does not get published.          *)
(***************************************************************************)
THEOREM FreshWhenQuietHolds == Spec => []FreshWhenQuiet
<1>1. TypeInv /\ JobInv /\ FreshInv => FreshWhenQuiet
  <2> SUFFICES ASSUME TypeInv, FreshInv, NEW k \in Unit \ gaveUp,
                      Quiet(k), ~retired, Due(k)
               PROVE  Shown(k)
    BY DEF FreshWhenQuiet
  <2>1. UnitOK(k) /\ changedAt[k] \in Nat /\ pubGen[k] \in Nat
    BY UnitFacts DEF FreshInv
  <2>2. ~Coming(k)
    BY DEF Quiet, Running, Coming, WillCover, Publishing
  <2>3. pubGen[k] > changedAt[k]
    BY <2>1, <2>2 DEF UnitOK, ChangeIsCovered, Changed, CountersOK, Due
  <2> QED
    BY <2>1, <2>3 DEF UnitOK, ResultsOK
<1> QED
  BY <1>1, FreshAlways, PTL

(***************************************************************************)
(* The cache entry that a quiet unit is left with was parsed and checked   *)
(* from its current files and imports, although getUnit compares nothing   *)
(* but the hash of the unit's own files.                                   *)
(***************************************************************************)
THEOREM CacheFreshWhenQuietHolds == Spec => []CacheFreshWhenQuiet
<1>1. TypeInv /\ JobInv /\ FreshInv => CacheFreshWhenQuiet
  <2> SUFFICES ASSUME TypeInv, FreshInv, NEW k \in Unit \ gaveUp,
                      Quiet(k), ~retired, cache[k] # None
               PROVE  IsCurrent(cache[k], k)
    BY DEF CacheFreshWhenQuiet
  <2>1. /\ UnitOK(k) /\ changedAt[k] \in Nat /\ pubGen[k] \in Nat
        /\ doneGen[k] \in Nat
    BY UnitFacts DEF FreshInv
  <2>2. ~Coming(k)
    BY DEF Quiet, Running, Coming, WillCover, Publishing
  <2>3. doneGen[k] > changedAt[k]
    BY <2>1, <2>2 DEF UnitOK, ChangeIsCovered, Changed, CountersOK
  <2> QED
    BY <2>1, <2>3 DEF UnitOK, ResultsOK, Shown, IsCurrent
<1> QED
  BY <1>1, FreshAlways, PTL

----------------------------------------------------------------------------
(* What Get answers with.                                                  *)

(***************************************************************************)
(* A recheck hashes before it parses, and a flight hashes after the        *)
(* request it was started for.  A result keeps the order of the two reads. *)
(***************************************************************************)
ReadOK(r) ==
    LET k == work[r].key IN
    /\ work[r].want.version <= content[k]
    /\ work[r].pc \in {"parse"} \cup Parsed =>
          work[r].want.version <= work[r].hash.version /\ work[r].hash.version <= content[k]
    /\ work[r].pc \in Parsed \/ work[r].ok =>
          work[r].want.version <= work[r].hash.version /\ work[r].hash.version <= work[r].text.version

ReadsOK == \A r \in Slot : work[r].pc # "idle" => ReadOK(r)

\* So does a cache entry.
EntriesOK == \A k \in Unit : cache[k] # None => cache[k].hash.version <= cache[k].text.version

\* The unit's entry in e.flights is a flight of that unit.
FlightsOK ==
    \A k \in Unit, r \in Slot :
        flight[k] = r => work[r].kind = "flight" /\ work[r].key = k

\* A flight that a Get call with this hash may wait for.
Answers(r, hash) ==
    work[r].kind = "flight" /\ work[r].want = hash /\ work[r].pc # "closed"

(***************************************************************************)
(* A Get call's hash is that of a text no older than the text at its call; *)
(* a call that waits does so for a flight started for that hash and whose  *)
(* done channel is still open; what it answers is no older either.         *)
(***************************************************************************)
GetterOK(g) ==
    LET v == getter[g] IN
    /\ v.pc # "idle" => v.since <= content[v.key]
    /\ v.pc \in {"lookup", "flight", "wait"} =>
          v.since <= v.hash.version /\ v.hash.version <= content[v.key]
    /\ v.pc = "wait" => v.on \in Slot /\ Answers(v.on, v.hash)
    /\ v.pc # "done" => v.pkg = None
    /\ v.pc = "done" /\ v.pkg # None => v.pkg.text.version >= v.since

GettersOK == \A g \in Getter : GetterOK(g)

GetInv == ReadsOK /\ EntriesOK /\ FlightsOK /\ GettersOK

\* The numbers in a Get call's record.
LEMMA GetterFacts ==
    ASSUME TypeInv
    PROVE  \A g \in Getter :
              /\ getter[g].since \in Nat /\ getter[g].hash.version \in Nat
              /\ getter[g].hash \in Reading
              /\ getter[g].on \in Slot \cup {None}
              /\ getter[g].pkg \in Pkg \cup {None}
              /\ getter[g].pc # "idle" => getter[g].key \in Unit
  BY TypeFacts DEF GetterState, Reading

\* The calls of Get do not notice a step that leaves them and the flights
\* they wait for alone.
LEMMA GettersKept ==
    ASSUME GettersOK, getter' = getter, content' = content,
           \A s \in Slot, x \in Reading : Answers(s, x) => Answers(s, x)',
           TypeInv
    PROVE  GettersOK'
<1> SUFFICES ASSUME NEW g \in Getter PROVE GetterOK(g)'
  BY DEF GettersOK
<1>1. GetterOK(g) /\ getter[g].hash \in Reading
  BY GetterFacts DEF GettersOK
<1>2. ASSUME getter[g].pc = "wait"
      PROVE  Answers(getter[g].on, getter[g].hash)'
  <2> PICK s \in Slot : s = getter[g].on /\ Answers(s, getter[g].hash)
    BY <1>1, <1>2 DEF GetterOK
  <2> PICK x \in Reading : x = getter[g].hash
    BY <1>1
  <2>1. Answers(s, x)'
    OBVIOUS
  <2> QED
    BY <2>1 DEF Answers
<1> QED
  BY <1>1, <1>2 DEF GetterOK

\* A step of one recheck that stays what it is.
LEMMA MoveGet ==
    ASSUME TypeInv, GetInv, NEW r \in Slot,
           UNCHANGED <<content, getter, flight>>, EntriesOK',
           \A s \in Slot \ {r} : work'[s] = work[s],
           work'[r].kind = work[r].kind, work'[r].key = work[r].key,
           work'[r].want = work[r].want, work[r].pc # "idle",
           work'[r].pc # "closed", ReadOK(r)'
    PROVE  GetInv'
<1>1. ReadsOK'
  <2> SUFFICES ASSUME NEW s \in Slot, work'[s].pc # "idle", s # r
               PROVE  ReadOK(s)'
    BY DEF ReadsOK
  <2> QED
    BY DEF GetInv, ReadsOK, ReadOK
<1>2. FlightsOK'
  BY DEF GetInv, FlightsOK
<1>3. GettersOK'
  BY GettersKept DEF GetInv, Answers
<1> QED
  BY <1>1, <1>2, <1>3 DEF GetInv

\* The steps of runRecheck: every read is of the text at that moment.
LEMMA RecheckGet ==
    ASSUME TypeInv, FreshInv, GetInv, NEW r \in Slot, Recheck(r)
    PROVE  GetInv'
<1> USE DEF world, store, jobs, gens, life, client, history
<1> DEFINE Same == /\ \A s \in Slot \ {r} : work'[s] = work[s]
                   /\ work'[r].kind = work[r].kind
                   /\ work'[r].key = work[r].key
                   /\ work'[r].want = work[r].want
<1>1. /\ UNCHANGED <<content, getter, flight>>
      /\ work[r].pc # "idle" /\ work[r].pc # "closed"
  BY DEF Recheck, nextGen, ReadFails, contentHash, parseFiles, CheckPackage,
     commitCacheDropped, commitCache, commitRetired, commitPublish
<1>2. ReadOK(r)
  BY <1>1 DEF GetInv, ReadsOK
<1> PICK k \in Unit : k = work[r].key
  BY <1>1, TypeFacts
<1>3. /\ work[r].want.version \in Nat /\ work[r].hash.version \in Nat /\ work[r].text.version \in Nat
      /\ content[k] \in Nat
  BY WorkFacts, UnitFacts
<1>4. work[r].pc \in Unfinished => ~work[r].ok
  BY <1>1 DEF FreshInv, RechecksOK, RecheckOK
<1>5. EntriesOK' /\ (~commitCache(r) => UNCHANGED cache)
  <2>1. CASE commitCache(r)
    <3>1. work[r].hash.version <= work[r].text.version
      BY <1>2, <2>1 DEF commitCache, ReadOK, Parsed
    <3>2. \A j \in Unit : \/ cache'[j] = PkgOf(r)
                          \/ cache'[j] \in {cache[j], None}
      BY <2>1 DEF commitCache
    <3>3. PkgOf(r).hash.version <= PkgOf(r).text.version
      BY <3>1 DEF PkgOf
    <3> QED
      BY <2>1, <3>2, <3>3 DEF EntriesOK, GetInv
  <2>2. CASE ~commitCache(r)
    <3>1. UNCHANGED cache
      BY <2>2 DEF Recheck, nextGen, ReadFails, contentHash, parseFiles,
         CheckPackage, commitCacheDropped, commitRetired, commitPublish
    <3> QED
      BY <3>1 DEF EntriesOK, GetInv
  <2> QED
    BY <2>1, <2>2
<1>6. ASSUME nextGen(r) \/ ReadFails(r)
      PROVE  Same /\ work'[r].pc # "closed" /\ ReadOK(r)'
  <2>1. Same /\ work'[r].pc \in {"hash", "finish"} /\ work'[r].ok = work[r].ok
        /\ work'[r].hash = work[r].hash /\ work'[r].text = work[r].text
    BY <1>6, nextGenEffect, ReadFailsEffect
  <2>2. ~work[r].ok
    BY <1>4, <1>6 DEF nextGen, ReadFails, Unfinished
  <2> QED
    BY <1>1, <1>2, <2>1, <2>2 DEF ReadOK, Parsed
<1>7. ASSUME contentHash(r)
      PROVE  Same /\ work'[r].pc # "closed" /\ ReadOK(r)'
  <2>1. /\ Same /\ work'[r].pc \in {"parse", "finish"}
        /\ work'[r].ok = work[r].ok
        /\ work'[r].hash.version = content[k] /\ work'[r].text = work[r].text
    BY <1>7, contentHashEffect DEF NextPc
  <2>2. ~work[r].ok
    BY <1>4, <1>7 DEF contentHash, Unfinished
  <2> QED
    BY <1>1, <1>2, <1>3, <2>1, <2>2 DEF ReadOK, Parsed
<1>8. ASSUME parseFiles(r)
      PROVE  Same /\ work'[r].pc # "closed" /\ ReadOK(r)'
  <2>1. /\ Same /\ work'[r].pc \in {"check", "finish"}
        /\ work'[r].ok = work[r].ok
        /\ work'[r].hash = work[r].hash /\ work'[r].text.version = content[k]
    BY <1>8, parseFilesEffect DEF NextPc
  <2>2. ~work[r].ok /\ work[r].pc = "parse"
    BY <1>4, <1>8 DEF parseFiles, Unfinished
  <2> QED
    BY <1>1, <1>2, <1>3, <2>1, <2>2 DEF ReadOK, Parsed
<1>9. ASSUME \/ CheckPackage(r) \/ commitCacheDropped(r) \/ commitCache(r)
             \/ commitRetired(r) \/ commitPublish(r)
      PROVE  Same /\ work'[r].pc # "closed" /\ ReadOK(r)'
  <2>1. /\ Same /\ work'[r].pc \in {"cache", "finish", "retired", "publish"}
        /\ work'[r].hash = work[r].hash /\ work'[r].text = work[r].text
    <3>1. CASE CheckPackage(r)
      BY <3>1, CheckPackageEffect DEF NextPc
    <3>2. CASE commitCacheDropped(r) \/ commitCache(r)
      BY <3>2, commitCacheDroppedEffect, commitCacheEffect
    <3>3. CASE commitRetired(r) \/ commitPublish(r)
      BY <3>3, commitRetiredEffect, commitPublishEffect
    <3> QED
      BY <1>9, <3>1, <3>2, <3>3
  <2>2. work[r].pc \in Parsed
    BY <1>9 DEF CheckPackage, commitCacheDropped, commitCache, commitRetired,
       commitPublish, Parsed
  <2> QED
    BY <1>1, <1>2, <2>1, <2>2 DEF ReadOK, Parsed
<1>10. Same /\ work'[r].pc # "closed" /\ ReadOK(r)'
  BY <1>6, <1>7, <1>8, <1>9 DEF Recheck
<1> QED
  BY <1>1, <1>5, <1>10, MoveGet

\* A slot is put to use or given back: nobody waits for it.
LEMMA SlotGet ==
    ASSUME TypeInv, GetInv, NEW r \in Slot,
           UNCHANGED <<content, cache>>,
           \A s \in Slot \ {r} : work'[s] = work[s],
           work[r].kind # "flight" \/ work[r].pc = "closed",
           \A k \in Unit : flight'[k] = r =>
              work'[r].kind = "flight" /\ work'[r].key = k,
           \A k \in Unit, s \in Slot \ {r} : flight'[k] = s => flight[k] = s,
           work'[r].pc # "idle" => ReadOK(r)'
    PROVE  /\ ReadsOK' /\ EntriesOK' /\ FlightsOK'
           /\ \A s \in Slot, x \in Reading : Answers(s, x) => s # r /\ Answers(s, x)'
<1>1. ReadsOK'
  <2> SUFFICES ASSUME NEW s \in Slot, work'[s].pc # "idle", s # r
               PROVE  ReadOK(s)'
    BY DEF ReadsOK
  <2> QED
    BY DEF GetInv, ReadsOK, ReadOK
<1>2. EntriesOK'
  BY DEF GetInv, EntriesOK
<1>3. FlightsOK'
  BY DEF GetInv, FlightsOK
<1>4. \A s \in Slot, x \in Reading : Answers(s, x) => s # r /\ Answers(s, x)'
  BY DEF Answers
<1> QED
  BY <1>1, <1>2, <1>3, <1>4

\* The steps that put a slot to use or give it back, and the end of a flight.
LEMMA FlightGet ==
    ASSUME TypeInv, TypeInv', FreshInv, GetInv, NEW r \in Slot,
           \/ \E k \in Unit : TimerFires(k, r)
           \/ \E g \in Getter : getOrStartFlightStart(g, r)
           \/ fireRecheckReturns(r) \/ runFlightReturns(r) \/ runFlightCloses(r)
    PROVE  GetInv'
<1> USE DEF world, store, jobs, gens, life, client, history
<1>1. ASSUME NEW k \in Unit, TimerFires(k, r) PROVE GetInv'
  <2>1. UNCHANGED <<content, cache, flight, getter>> /\ work[r].kind = "idle"
    BY <1>1 DEF TimerFires
  <2>2. /\ \A s \in Slot \ {r} : work'[s] = work[s]
        /\ work'[r].want.version = 0 /\ work'[r].key = k
        /\ work'[r].pc = "fired" /\ ~work'[r].ok
    <3>1. NoReading.version = 0
      BY DEF NoReading
    <3>2. work'[r].want = NoReading
      BY <1>1, TimerFiresEffect
    <3> QED
      BY <1>1, <3>1, <3>2, TimerFiresEffect
  <2>3. ReadOK(r)'
    BY <2>1, <2>2, UnitFacts DEF ReadOK, Parsed
  <2>4. \A j \in Unit : flight[j] # r
    BY <2>1 DEF GetInv, FlightsOK
  <2>5. /\ ReadsOK' /\ EntriesOK' /\ FlightsOK'
        /\ \A s \in Slot, x \in Reading : Answers(s, x) => s # r /\ Answers(s, x)'
    BY <2>1, <2>2, <2>3, <2>4, SlotGet
  <2> QED
    BY <2>1, <2>5, GettersKept DEF GetInv
<1>2. ASSUME fireRecheckReturns(r) \/ runFlightReturns(r) PROVE GetInv'
  <2>1. /\ UNCHANGED <<content, cache, getter>>
        /\ work[r].kind = "job" \/ work[r].pc = "closed"
        /\ work[r].pc # "idle"
    BY <1>2 DEF fireRecheckReturns, runFlightReturns
  <2>2. /\ \A s \in Slot \ {r} : work'[s] = work[s]
        /\ work'[r].pc = "idle"
    BY <1>2, fireRecheckReturnsEffect, runFlightReturnsEffect
  <2>3. /\ \A k \in Unit : flight'[k] # r
        /\ \A k \in Unit, s \in Slot \ {r} : flight'[k] = s => flight[k] = s
    <3>1. /\ flight \in [Unit -> Slot \cup {None}] /\ work[r].key \in Unit
          /\ None \notin Slot
      BY <2>1, TypeFacts, EngineAssumption DEF ScheduleTypeOK
    <3>2. \A k \in Unit : flight[k] = r => work[r].kind = "flight" /\ work[r].key = k
      BY DEF GetInv, FlightsOK
    <3>3. CASE fireRecheckReturns(r)
      BY <3>2, <3>3 DEF fireRecheckReturns
    <3>4. CASE runFlightReturns(r)
      BY <3>1, <3>2, <3>4 DEF runFlightReturns, RemovesEntry
    <3> QED
      BY <1>2, <3>3, <3>4
  <2>4. /\ ReadsOK' /\ EntriesOK' /\ FlightsOK'
        /\ \A s \in Slot, x \in Reading : Answers(s, x) => s # r /\ Answers(s, x)'
    BY <2>1, <2>2, <2>3, SlotGet
  <2> QED
    BY <2>1, <2>4, GettersKept DEF GetInv
<1>3. ASSUME NEW g \in Getter, getOrStartFlightStart(g, r) PROVE GetInv'
  <2>1. /\ UNCHANGED <<content, cache>> /\ work[r].kind = "idle"
        /\ flight' = [flight EXCEPT ![getter[g].key] = r]
        /\ getter' = [getter EXCEPT ![g].pc = "wait", ![g].on = r]
        /\ getter[g].pc = "flight"
    BY <1>3 DEF getOrStartFlightStart
  <2>2. /\ \A s \in Slot \ {r} : work'[s] = work[s]
        /\ work'[r].want = getter[g].hash /\ work'[r].key = getter[g].key
        /\ work'[r].pc = "begin" /\ ~work'[r].ok /\ work'[r].kind = "flight"
    BY <1>3, getOrStartFlightStartEffect
  <2>3. /\ getter[g].key \in Unit /\ getter[g].hash.version <= content[getter[g].key]
        /\ getter[g].since <= getter[g].hash.version /\ getter[g].hash.version \in Nat
        /\ getter[g].since <= content[getter[g].key] /\ getter[g].pkg = None
    BY <2>1, GetterFacts DEF GetInv, GettersOK, GetterOK
  <2>4. ReadOK(r)'
    BY <2>1, <2>2, <2>3 DEF ReadOK, Parsed
  <2>5. /\ \A j \in Unit : flight'[j] = r => j = getter[g].key
        /\ \A j \in Unit, s \in Slot \ {r} : flight'[j] = s => flight[j] = s
    <3>1. flight \in [Unit -> Slot \cup {None}]
      BY TypeFacts DEF ScheduleTypeOK
    <3>2. \A j \in Unit : flight[j] # r
      BY <2>1 DEF GetInv, FlightsOK
    <3> QED
      BY <2>1, <3>1, <3>2
  <2>6. /\ ReadsOK' /\ EntriesOK' /\ FlightsOK'
        /\ \A s \in Slot, x \in Reading : Answers(s, x) => s # r /\ Answers(s, x)'
    BY <2>1, <2>2, <2>4, <2>5, SlotGet
  <2>7. ASSUME NEW h \in Getter, h # g PROVE GetterOK(h)'
    <3>1. getter'[h] = getter[h] /\ GetterOK(h) /\ getter[h].hash \in Reading
      BY <2>1, <2>7, TypeFacts, GetterFacts DEF GetInv, GettersOK
    <3>2. ASSUME getter[h].pc = "wait" PROVE Answers(getter[h].on, getter[h].hash)'
      <4> PICK s \in Slot : s = getter[h].on /\ Answers(s, getter[h].hash)
        BY <3>1, <3>2 DEF GetterOK
      <4> PICK x \in Reading : x = getter[h].hash
        BY <3>1
      <4>1. Answers(s, x)'
        BY <2>6
      <4> QED
        BY <3>1, <4>1 DEF Answers
    <3> QED
      BY <2>1, <3>1, <3>2 DEF GetterOK
  <2>8. GetterOK(g)'
    <3>1. /\ getter'[g].pc = "wait" /\ getter'[g].on = r
          /\ getter'[g].hash = getter[g].hash /\ getter'[g].since = getter[g].since
          /\ getter'[g].key = getter[g].key /\ getter'[g].pkg = getter[g].pkg
      BY <2>1, TypeFacts DEF GetterState
    <3> QED
      BY <2>1, <2>2, <2>3, <3>1 DEF GetterOK, Answers
  <2> QED
    BY <2>6, <2>7, <2>8 DEF GetInv, GettersOK
<1>4. ASSUME runFlightCloses(r) PROVE GetInv'
  <2>1. /\ UNCHANGED <<content, cache, flight>> /\ work[r].kind = "flight"
        /\ work[r].pc = "finish"
        /\ getter' = [g \in Getter |->
                        IF g \in Waiters(r)
                        THEN [getter[g] EXCEPT !.pc = "done", !.on = None,
                                               !.pkg = ResultOf(r)]
                        ELSE getter[g]]
    BY <1>4 DEF runFlightCloses
  <2>2. /\ \A s \in Slot \ {r} : work'[s] = work[s]
        /\ work'[r].pc = "closed" /\ work'[r].ok = work[r].ok
        /\ work'[r].kind = work[r].kind /\ work'[r].key = work[r].key
        /\ work'[r].want = work[r].want /\ work'[r].hash = work[r].hash
        /\ work'[r].text = work[r].text
    BY <1>4, runFlightClosesEffect
  <2>3. ReadOK(r)
    BY <2>1 DEF GetInv, ReadsOK
  <2>4. ReadsOK'
    <3> SUFFICES ASSUME NEW s \in Slot, work'[s].pc # "idle" PROVE ReadOK(s)'
      BY DEF ReadsOK
    <3>1. CASE s = r
      BY <2>1, <2>2, <2>3, <3>1 DEF ReadOK, Parsed
    <3>2. CASE s # r
      BY <2>1, <2>2, <3>2 DEF GetInv, ReadsOK, ReadOK
    <3> QED
      BY <3>1, <3>2
  <2>5. EntriesOK' /\ FlightsOK'
    <3>1. EntriesOK'
      BY <2>1 DEF GetInv, EntriesOK
    <3>2. \A s \in Slot : work'[s].kind = work[s].kind /\ work'[s].key = work[s].key
      BY <2>2
    <3>3. FlightsOK'
      BY <2>1, <3>2 DEF GetInv, FlightsOK
    <3> QED
      BY <3>1, <3>3
  <2>6. ASSUME NEW g \in Getter PROVE GetterOK(g)'
    <3>1. /\ GetterOK(g) /\ getter[g] \in GetterState
          /\ getter[g].since \in Nat /\ getter[g].hash.version \in Nat
      BY TypeFacts, GetterFacts DEF GetInv, GettersOK
    <3>2. CASE g \in Waiters(r)
      <4>1. /\ getter[g].pc = "wait" /\ getter[g].on = r
        BY <3>2 DEF Waiters
      <4>2. /\ getter'[g].pc = "done" /\ getter'[g].pkg = ResultOf(r)
            /\ getter'[g].since = getter[g].since
            /\ getter'[g].key = getter[g].key
        BY <2>1, <3>1, <3>2 DEF GetterState
      <4>3. /\ work[r].want = getter[g].hash /\ getter[g].since <= getter[g].hash.version
            /\ getter[g].since <= content[getter[g].key]
        BY <3>1, <4>1 DEF GetterOK, Answers
      <4>4. ASSUME ResultOf(r) # None
            PROVE  ResultOf(r).text.version >= getter[g].since
        <5>1. work[r].ok /\ ResultOf(r).text = work[r].text
          BY <4>4 DEF ResultOf, PkgOf
        <5>2. work[r].hash.version \in Nat /\ work[r].text.version \in Nat
          BY WorkFacts
        <5> QED
          BY <2>3, <3>1, <4>3, <5>1, <5>2 DEF ReadOK
      <4> QED
        BY <2>1, <4>2, <4>3, <4>4 DEF GetterOK
    <3>3. CASE g \notin Waiters(r)
      <4>1. getter'[g] = getter[g]
        BY <2>1, <3>3
      <4>2. ASSUME getter[g].pc = "wait"
            PROVE  Answers(getter[g].on, getter[g].hash)'
        <5>1. getter[g].on \in Slot \ {r} /\ Answers(getter[g].on, getter[g].hash)
          BY <3>1, <3>3, <4>2 DEF GetterOK, Waiters
        <5> QED
          BY <2>2, <4>1, <5>1 DEF Answers
      <4> QED
        BY <2>1, <3>1, <4>1, <4>2 DEF GetterOK
    <3> QED
      BY <3>2, <3>3
  <2> QED
    BY <2>4, <2>5, <2>6 DEF GetInv, GettersOK
<1> QED
  BY <1>1, <1>2, <1>3, <1>4

\* startJob, its form on a stopped engine, a retry, Retire and Stop.
LEMMA SchedulingGet ==
    ASSUME TypeInv, GetInv, UNCHANGED <<content, flight, getter>>,
           \A k \in Unit : cache'[k] \in {cache[k], None},
           \A s \in Slot :
              /\ work'[s].kind = work[s].kind /\ work'[s].key = work[s].key
              /\ work'[s].want = work[s].want /\ work'[s].hash = work[s].hash
              /\ work'[s].text = work[s].text /\ work'[s].ok = work[s].ok
              /\ \/ work'[s].pc = work[s].pc
                 \/ work[s].pc \notin {"idle", "closed"} /\ work'[s].pc = "begin"
    PROVE  GetInv'
<1>1. ReadsOK'
  <2> SUFFICES ASSUME NEW s \in Slot, work'[s].pc # "idle" PROVE ReadOK(s)'
    BY DEF ReadsOK
  <2>1. ReadOK(s)
    BY DEF GetInv, ReadsOK
  <2> QED
    BY <2>1 DEF ReadOK, Parsed
<1>2. EntriesOK' /\ FlightsOK'
  BY DEF GetInv, EntriesOK, FlightsOK
<1>3. GettersOK'
  BY GettersKept DEF GetInv, Answers
<1> QED
  BY <1>1, <1>2, <1>3 DEF GetInv

\* The steps of a Get call up to the flight it joins.
LEMMA CallGet ==
    ASSUME TypeInv, TypeInv', GetInv, NEW g \in Getter,
           \/ GetHashes(g) \/ GetFails(g) \/ GetLooksUp(g)
           \/ getOrStartFlightJoin(g) \/ GetReturns(g) \/ GetCanceled(g)
           \/ \E k \in Unit : GetStarts(g, k)
    PROVE  GetInv'
<1> USE DEF world, store, jobs, gens, life, client, history
<1>1. UNCHANGED <<content, cache, flight, work>>
  BY DEF GetHashes, GetFails, GetLooksUp, getOrStartFlightJoin, GetReturns,
     GetCanceled, GetStarts
<1>2. ReadsOK' /\ EntriesOK' /\ FlightsOK'
  BY <1>1 DEF GetInv, ReadsOK, ReadOK, EntriesOK, FlightsOK
<1>3. /\ getter \in [Getter -> GetterState] /\ getter[g] \in GetterState
      /\ GetterOK(g)
      /\ getter[g].since \in Nat /\ getter[g].hash.version \in Nat
  BY TypeFacts, GetterFacts DEF GetInv, GettersOK
<1>4. \A h \in Getter \ {g} : getter'[h] = getter[h]
  BY <1>3 DEF GetHashes, GetFails, GetLooksUp, getOrStartFlightJoin, GetReturns,
     GetCanceled, GetStarts
<1>5. ASSUME NEW h \in Getter \ {g} PROVE GetterOK(h)'
  BY <1>1, <1>4 DEF GetInv, GettersOK, GetterOK, Answers
<1>6. GetterOK(g)'
  <2>1. CASE GetHashes(g)
    <3> PICK short \in BOOLEAN :
           getter' = [getter EXCEPT
                       ![g].pc = "lookup",
                       ![g].hash = [version |-> content[getter[g].key],
                                    short |-> short]]
      BY <2>1 DEF GetHashes
    <3>1. /\ getter[g].pc = "hash" /\ getter'[g].pc = "lookup"
          /\ getter'[g].hash.version = content[getter[g].key]
          /\ getter'[g].pkg = getter[g].pkg
          /\ getter'[g].since = getter[g].since /\ getter'[g].key = getter[g].key
      BY <1>3, <2>1 DEF GetHashes, GetterState
    <3>2. content[getter[g].key] \in Nat
      BY <3>1, TypeFacts
    <3> QED
      BY <1>1, <1>3, <3>1, <3>2 DEF GetterOK
  <2>2. CASE GetFails(g)
    <3>1. /\ getter[g].pc = "hash" /\ getter'[g].pc = "done"
          /\ getter'[g].pkg = getter[g].pkg
          /\ getter'[g].since = getter[g].since /\ getter'[g].key = getter[g].key
      BY <1>3, <2>2 DEF GetFails, GetterState
    <3> QED
      BY <1>1, <1>3, <3>1 DEF GetterOK
  <2>3. CASE GetLooksUp(g)
    <3>1. getter[g].pc = "lookup"
      BY <2>3 DEF GetLooksUp
    <3>2. CASE CacheHit(g)
      <4>1. /\ getter'[g].pc = "done" /\ getter'[g].pkg = cache[getter[g].key]
            /\ getter'[g].since = getter[g].since /\ getter'[g].key = getter[g].key
        BY <1>3, <2>3, <3>2 DEF GetLooksUp, GetterState
      <4> PICK k \in Unit : k = getter[g].key
        BY <3>1, GetterFacts
      <4>2. /\ cache[k].hash = getter[g].hash /\ cache[k] # None
            /\ cache[k].hash.version <= cache[k].text.version
            /\ cache[k] \in Pkg
        BY <3>2, TypeFacts DEF CacheHit, GetInv, EntriesOK
      <4>3. cache[k].text.version \in Nat
        BY <4>2 DEF Pkg, Reading
      <4>4. cache[k].text.version >= getter[g].since
        BY <1>3, <3>1, <4>2, <4>3 DEF GetterOK
      <4> QED
        BY <1>1, <1>3, <3>1, <4>1, <4>4 DEF GetterOK
    <3>3. CASE ~CacheHit(g)
      <4>1. /\ getter'[g].pc = "flight" /\ getter'[g].hash = getter[g].hash
            /\ getter'[g].pkg = getter[g].pkg
            /\ getter'[g].since = getter[g].since /\ getter'[g].key = getter[g].key
        BY <1>3, <2>3, <3>3 DEF GetLooksUp, GetterState
      <4> QED
        BY <1>1, <1>3, <3>1, <4>1 DEF GetterOK
    <3> QED
      BY <3>2, <3>3
  <2>4. CASE getOrStartFlightJoin(g)
    <3>1. getter[g].pc = "flight"
      BY <2>4 DEF getOrStartFlightJoin
    <3> PICK k \in Unit : k = getter[g].key
      BY <3>1, GetterFacts
    <3> PICK r \in Joinable(g) :
           getter' = [getter EXCEPT
                       ![g] = IF work[r].pc = "closed"
                              THEN [@ EXCEPT !.pc = "done", !.pkg = ResultOf(r)]
                              ELSE [@ EXCEPT !.pc = "wait", !.on = r]]
      BY <2>4 DEF getOrStartFlightJoin
    <3>2. /\ r \in Slot /\ flight[k] = r /\ work[r].want = getter[g].hash
          /\ work[r].kind = "flight"
      <4>1. flight[k] \in Slot \cup {None}
        BY TypeFacts DEF ScheduleTypeOK
      <4> QED
        BY <4>1 DEF Joinable, GetInv, FlightsOK
    <3>3. /\ ReadOK(r) /\ work[r].hash.version \in Nat /\ work[r].text.version \in Nat
      BY <3>2, WorkFacts DEF GetInv, ReadsOK, TypeInv, InUse
    <3>4. CASE work[r].pc = "closed"
      <4>1. /\ getter'[g].pc = "done" /\ getter'[g].pkg = ResultOf(r)
            /\ getter'[g].since = getter[g].since /\ getter'[g].key = getter[g].key
        BY <1>3, <3>4 DEF GetterState
      <4>2. ASSUME ResultOf(r) # None PROVE ResultOf(r).text.version >= getter[g].since
        <5>1. work[r].ok /\ ResultOf(r).text = work[r].text
          BY <4>2 DEF ResultOf, PkgOf
        <5> QED
          BY <1>3, <3>1, <3>2, <3>3, <5>1 DEF GetterOK, ReadOK
      <4> QED
        BY <1>1, <1>3, <3>1, <4>1, <4>2 DEF GetterOK
    <3>5. CASE work[r].pc # "closed"
      <4>1. /\ getter'[g].pc = "wait" /\ getter'[g].on = r
            /\ getter'[g].hash = getter[g].hash
            /\ getter'[g].pkg = getter[g].pkg
            /\ getter'[g].since = getter[g].since /\ getter'[g].key = getter[g].key
        BY <1>3, <3>5 DEF GetterState
      <4> QED
        BY <1>1, <1>3, <3>1, <3>2, <3>5, <4>1 DEF GetterOK, Answers
    <3> QED
      BY <3>4, <3>5
  <2>5. CASE GetReturns(g) \/ GetCanceled(g)
    <3>1. getter'[g].pc = "idle" /\ getter'[g].pkg = None
      BY <1>3, <2>5 DEF GetReturns, GetCanceled, IdleGetter
    <3> QED
      BY <3>1 DEF GetterOK
  <2>6. ASSUME NEW k \in Unit, GetStarts(g, k) PROVE GetterOK(g)'
    <3>1. /\ getter'[g].pc = "hash" /\ getter'[g].since = content[k]
          /\ getter'[g].key = k /\ getter'[g].pkg = None
      BY <1>3, <2>6 DEF GetStarts, IdleGetter
    <3>2. content[k] \in Nat
      BY UnitFacts
    <3> QED
      BY <1>1, <3>1, <3>2 DEF GetterOK
  <2> QED
    BY <2>1, <2>2, <2>3, <2>4, <2>5, <2>6
<1> QED
  BY <1>2, <1>5, <1>6 DEF GetInv, GettersOK

\* Texts that do not repeat: an edit makes the version later, and what was no
\* later than the old text is no later than the new one.
LEMMA EditGet ==
    ASSUME TypeInv, TypeInv', GetInv, ~Undo, NEW k \in Unit, Edit(k)
    PROVE  GetInv'
<1> USE DEF world, store, jobs, gens, life, client
<1>1. UNCHANGED <<cache, flight, work, getter>>
  BY DEF Edit
<1>2. \A j \in Unit : content[j] \in Nat /\ content'[j] \in Nat
  BY DEF TypeInv, TypeOK, WorldTypeOK
<1>3. \A j \in Unit : content[j] <= content'[j]
  <2>1. content \in [Unit -> Nat]
    BY TypeFacts
  <2>2. content' = [content EXCEPT ![k] = content[k] + 1]
    BY DEF Edit
  <2> QED
    BY <1>2, <2>1, <2>2
<1>4. ReadsOK'
  <2> SUFFICES ASSUME NEW r \in Slot, work[r].pc # "idle" PROVE ReadOK(r)'
    BY <1>1 DEF ReadsOK
  <2>1. /\ ReadOK(r) /\ work[r].key \in Unit
        /\ work[r].want.version \in Nat /\ work[r].hash.version \in Nat
    BY TypeFacts, WorkFacts DEF GetInv, ReadsOK
  <2> QED
    BY <1>1, <1>2, <1>3, <2>1 DEF ReadOK
<1>5. EntriesOK' /\ FlightsOK'
  BY <1>1 DEF GetInv, EntriesOK, FlightsOK
<1>6. ASSUME NEW g \in Getter PROVE GetterOK(g)'
  <2>1. /\ GetterOK(g) /\ getter[g].since \in Nat /\ getter[g].hash.version \in Nat
        /\ getter[g].pc # "idle" => getter[g].key \in Unit
    BY GetterFacts DEF GetInv, GettersOK
  <2> QED
    BY <1>1, <1>2, <1>3, <2>1 DEF GetterOK, Answers
<1> QED
  BY <1>4, <1>5, <1>6 DEF GetInv, GettersOK

\* Every step keeps GetInv.
LEMMA StepGet ==
    ASSUME TypeInv, TypeInv', FreshInv, GetInv, ~Undo, [Next]_vars
    PROVE  GetInv'
<1> USE DEF world, jobs, gens, store, life, client, history
<1>1. ASSUME NEW k \in Unit,
             Edit(k) \/ SetFocus(k) \/ \E r \in Slot : TimerFires(k, r)
      PROVE  GetInv'
  BY <1>1, EditGet, SchedulingGet, FlightGet DEF SetFocus
<1>2. ASSUME NEW d \in Dir,
             DependencyChange(d) \/ Invalidate(d) \/ InvalidateDependency(d)
      PROVE  GetInv'
  <2>1. /\ UNCHANGED <<content, flight, getter, work>>
        /\ \A k \in Unit : cache'[k] \in {cache[k], None}
    BY <1>2 DEF DependencyChange, Invalidate, InvalidateDependency
  <2> QED
    BY <2>1, SchedulingGet
<1>3. ASSUME NEW r \in Slot, startJob(r) PROVE GetInv'
  <2>1. UNCHANGED <<content, flight, getter, cache>> /\ work[r].pc = "fired"
    BY <1>3 DEF startJob
  <2> QED
    BY <1>3, <2>1, startJobEffect, SchedulingGet
<1>4. ASSUME NEW r \in Slot, startJobStopped(r) \/ fireRecheckRetry(r)
      PROVE  GetInv'
  <2>1. /\ UNCHANGED <<content, flight, getter, cache>>
        /\ work[r].pc \in {"fired", "finish"}
    BY <1>4 DEF startJobStopped, fireRecheckRetry
  <2> QED
    BY ZenonT(60), <1>4, <2>1, startJobStoppedEffect, fireRecheckRetryEffect, SchedulingGet
<1>5. ASSUME NEW r \in Slot, Job(r) \/ Recheck(r) \/ Flight(r) PROVE GetInv'
  BY <1>3, <1>4, <1>5, FlightGet, RecheckGet DEF Job, Flight
<1>6. ASSUME NEW g \in Getter,
             Get(g) \/ GetCanceled(g) \/ \E k \in Unit : GetStarts(g, k)
      PROVE  GetInv'
  BY <1>6, CallGet, FlightGet DEF Get
<1>7. CASE Retire \/ Stop
  <2>1. UNCHANGED <<content, flight, getter, cache>> /\ CancelJobs
    BY <1>7 DEF Retire, Stop
  <2> QED
    BY <2>1, CancelJobsEffect, SchedulingGet
<1>8. CASE UNCHANGED vars
  BY <1>8, SchedulingGet DEF vars
<1> QED
  BY <1>1, <1>2, <1>5, <1>6, <1>7, <1>8 DEF Next

(***************************************************************************)
(* As long as edits bring no earlier text back, Get never answers with     *)
(* text older than the text at its call: a cache entry with the right hash *)
(* was parsed after it was hashed, a flight is joined only by calls with   *)
(* the hash it was started for, and it stays that flight until it has      *)
(* answered everyone who waits.                                            *)
(***************************************************************************)
THEOREM GetNeverStaleHolds ==
    ASSUME ~Undo
    PROVE  Spec => []GetNeverStale
<1>1. Init => GetInv
  <2> SUFFICES ASSUME Init PROVE GetInv
    OBVIOUS
  <2>1. None \notin Slot
    BY EngineAssumption
  <2>2. ReadsOK /\ EntriesOK /\ FlightsOK
    BY <2>1 DEF Init, ReadsOK, EntriesOK, FlightsOK, IdleWork
  <2>3. GettersOK
    BY DEF Init, GettersOK, GetterOK, IdleGetter
  <2> QED
    BY <2>2, <2>3 DEF GetInv
<1>2. /\ TypeInv /\ JobInv /\ FreshInv /\ (TypeInv /\ JobInv /\ FreshInv)'
      /\ GetInv /\ [Next]_vars
      => GetInv'
  BY StepGet
<1>3. GetInv => GetNeverStale
  BY DEF GetInv, GettersOK, GetterOK, GetNeverStale
<1> QED
  BY <1>1, <1>2, <1>3, FreshAlways, PTL DEF Spec

=============================================================================
