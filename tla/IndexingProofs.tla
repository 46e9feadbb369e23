--------------------------- MODULE IndexingProofs ---------------------------
(***************************************************************************)
(* What Indexing.tla's writers keep true, for any roots, packages, import  *)
(* graph, versions, calls and loads.                                       *)
(*                                                                         *)
(* IndexInv is the inductive invariant: every record has its type, every   *)
(* pointer stands under its own package, the scheduler's counters count    *)
(* the unfinished dependencies, and every key in use was computed from     *)
(* the run's own results (BuildInv, CallInv).  On top of it: StatInv, that *)
(* stats, facts and APIs are recorded with the content they are of (no     *)
(* torn reads); PinInv, what a collection has still to mark (no listing    *)
(* failure); CacheInv, who is to report a package that the decode caches   *)
(* hold in another version than the database; and PassInv, that a          *)
(* revalidation pass nobody disturbs has every buildable package right, in *)
(* its list, or ahead of the call it runs.  A package comes after          *)
(* what it depends on (After), the pass walks the order (Walk), and so     *)
(* what it takes from the key table or the database is right (KeysFresh).  *)
(***************************************************************************)
EXTENDS Indexing, FiniteSetTheorems, SequenceTheorems, NaturalsInduction, WellFoundedInduction, TLAPS

\* The results of one run, by package.
KeyTable == [Pkgs -> Apis \cup {Unset, Failed}]

\* A package has a position in the snapshot's order.
LEMMA PosType ==
    ASSUME NEW p \in Pkgs
    PROVE  Pos(p) \in Nat
<1>1. Cardinality(Pkgs) \in Nat
  BY OrderAssumption, FS_CardinalityType
<1>2. DOMAIN Order = 1..Cardinality(Pkgs)
  BY OrderAssumption
<1>3. \E i \in DOMAIN Order : Order[i] = p
  BY OrderAssumption
<1>4. Pos(p) \in DOMAIN Order
  BY <1>3 DEF Pos
<1> QED BY <1>1, <1>2, <1>4

\* The dependencies a key folds in are other packages, finitely many.
LEMMA DepsType ==
    ASSUME NEW p \in Pkgs
    PROVE  /\ directDepImports(p) \subseteq Pkgs
           /\ p \notin directDepImports(p)
           /\ IsFiniteSet(directDepImports(p))
<1>1. directDepImports(p) \subseteq Pkgs
  BY ImportsAssumption DEF directDepImports
<1>2. p \notin directDepImports(p)
  BY PosType DEF directDepImports, Before
<1> QED BY <1>1, <1>2, FS_Subset, OrderAssumption

\* computeUnitKey yields a key, and its parts are what it was computed from.
LEMMA KeyType ==
    ASSUME NEW p \in Pkgs, NEW own \in Versions, NEW deps \in [directDepImports(p) -> Apis]
    PROVE  /\ UnitKey(p, own, deps) \in Keys
           /\ UnitKey(p, own, deps).pkg = p
           /\ UnitKey(p, own, deps).own = own
           /\ UnitKey(p, own, deps).deps = deps
<1>1. UnitKey(p, own, deps) \in {UnitKey(p, v, d) : v \in Versions, d \in [directDepImports(p) -> Apis]}
  OBVIOUS
<1>2. UnitKey(p, own, deps) \in Keys
  BY <1>1 DEF Keys
<1> QED BY <1>2 DEF UnitKey

\* The parts of a key.
LEMMA KeyParts ==
    ASSUME NEW k \in Keys
    PROVE  /\ k.pkg \in Pkgs /\ k.own \in Versions
           /\ DOMAIN k.deps = directDepImports(k.pkg)
<1>1. PICK p \in Pkgs : k \in {UnitKey(p, v, d) : v \in Versions, d \in [directDepImports(p) -> Apis]}
  BY DEF Keys
<1>2. PICK v \in Versions, d \in [directDepImports(p) -> Apis] : k = UnitKey(p, v, d)
  BY <1>1
<1> QED BY <1>2 DEF UnitKey

\* The order is a sequence of packages.
LEMMA OrderIsSeq == Order \in Seq(Pkgs)
  BY OrderAssumption, FS_CardinalityType, IsASeq

\* A non-empty set of naturals has a least element.
LEMMA Least ==
    ASSUME NEW T \in SUBSET Nat, T # {}
    PROVE  \E n \in T : \A m \in T : n <= m
<1>1. IsWellFoundedOn(OpToRel(<, Nat), Nat)
  BY NatLessThanWellFounded
<1>2. PICK x \in T : \A y \in T : ~ (<<y, x>> \in OpToRel(<, Nat))
  BY <1>1, WFMin
<1>3. \A a, b \in Nat : b < a => <<b, a>> \in OpToRel(<, Nat)
  BY DEF OpToRel
<1>4. \A y \in T : ~(y < x)
  BY <1>2, <1>3
<1> QED BY <1>4

\* What InOrder has selected after i packages.
Kept(f, K, i) == IF i = 0 THEN <<>> ELSE IF Order[i] \in K THEN Append(f[i - 1], Order[i]) ELSE f[i - 1]
KeptUpTo(K, n) == \E f \in [0..n -> Seq(Pkgs)] : \A i \in 0..n : f[i] = Kept(f, K, i)

\* The function InOrder recurses on exists, by induction on its length.
LEMMA KeptExists ==
    ASSUME NEW K
    PROVE  \A n \in 0..Len(Order) : KeptUpTo(K, n)
<1> DEFINE T == {n \in 0..Len(Order) : ~KeptUpTo(K, n)}
<1>0. Len(Order) \in Nat
  BY OrderIsSeq, LenProperties
<1>1. SUFFICES ASSUME T # {} PROVE FALSE
  OBVIOUS
<1>2. PICK n \in T : \A m \in T : n <= m
  <2>1. T \in SUBSET Nat
    BY <1>0
  <2> HIDE DEF T
  <2> QED BY <1>1, <2>1, Least
<1>3. n # 0
  <2>1. [i \in 0..0 |-> <<>>] \in [0..0 -> Seq(Pkgs)]
    BY EmptySeq
  <2>2. \A i \in 0..0 : [j \in 0..0 |-> <<>>][i] = Kept([j \in 0..0 |-> <<>>], K, i)
    BY DEF Kept
  <2>3. KeptUpTo(K, 0)
    BY <2>1, <2>2 DEF KeptUpTo
  <2> QED BY <2>3
<1>4. n - 1 \in 0..Len(Order) /\ n \in 1..Len(Order) /\ ~(n <= n - 1)
  BY <1>0, <1>3
<1>5. KeptUpTo(K, n - 1)
  BY <1>2, <1>4
<1>6. PICK f \in [0..(n - 1) -> Seq(Pkgs)] : \A i \in 0..(n - 1) : f[i] = Kept(f, K, i)
  BY <1>5 DEF KeptUpTo
<1> DEFINE g == [i \in 0..n |-> IF i < n THEN f[i] ELSE Kept(f, K, n)]
<1>7. Kept(f, K, n) \in Seq(Pkgs)
  <2>1. Order[n] \in Pkgs /\ f[n - 1] \in Seq(Pkgs) /\ n # 0
    BY <1>4, OrderIsSeq, ElementOfSeq
  <2> QED BY <2>1, AppendProperties DEF Kept
<1>8. g \in [0..n -> Seq(Pkgs)]
  BY <1>4, <1>7
<1>9. \A i \in 0..n : g[i] = Kept(g, K, i)
  <2>1. \A i \in 0..(n - 1) : g[i] = f[i]
    BY <1>4
  <2>2. ASSUME NEW i \in 0..n PROVE Kept(g, K, i) = Kept(f, K, i)
    BY <2>1, <1>4 DEF Kept
  <2>3. g[n] = Kept(f, K, n)
    BY <1>4
  <2>4. ASSUME NEW i \in 0..n PROVE g[i] = Kept(g, K, i)
    <3>1. i = n \/ i \in 0..(n - 1)
      BY <1>4
    <3> QED BY <2>1, <2>2, <2>3, <1>6, <3>1
  <2> HIDE DEF g
  <2> QED BY <2>4
<1>10. KeptUpTo(K, n)
  <2> HIDE DEF g
  <2> QED BY <1>8, <1>9 DEF KeptUpTo
<1> QED BY <1>10

\* InOrder selects package after package.
LEMMA InOrderKept ==
    ASSUME NEW K
    PROVE  \E f \in [0..Len(Order) -> Seq(Pkgs)] :
              (\A i \in 0..Len(Order) : f[i] = Kept(f, K, i)) /\ InOrder(K) = f[Len(Order)]
<1> DEFINE N == Len(Order)
<1>0. N \in Nat
  BY OrderIsSeq, LenProperties
<1>1. PICK f \in [0..N -> Seq(Pkgs)] : \A i \in 0..N : f[i] = Kept(f, K, i)
  <2>1. N \in 0..N
    BY <1>0
  <2>2. KeptUpTo(K, N)
    BY <2>1, KeptExists
  <2> QED BY <2>2 DEF KeptUpTo
<1>2. f = [i \in 0..N |-> IF i = 0 THEN <<>> ELSE IF Order[i] \in K THEN Append(f[i - 1], Order[i]) ELSE f[i - 1]]
  BY <1>1 DEF Kept
<1> DEFINE F == CHOOSE h : h = [i \in 0..N |-> IF i = 0 THEN <<>> ELSE IF Order[i] \in K THEN Append(h[i - 1], Order[i]) ELSE h[i - 1]]
<1>3. F = [i \in 0..N |-> IF i = 0 THEN <<>> ELSE IF Order[i] \in K THEN Append(F[i - 1], Order[i]) ELSE F[i - 1]]
  <2>1. \E h : h = [i \in 0..N |-> IF i = 0 THEN <<>> ELSE IF Order[i] \in K THEN Append(h[i - 1], Order[i]) ELSE h[i - 1]]
    BY <1>2
  <2> QED BY <2>1
<1>4. InOrder(K) = F[N]
  BY DEF InOrder
<1> HIDE DEF F
<1> DEFINE T == {i \in 0..N : F[i] # f[i]}
<1>5. T = {}
  <2>1. SUFFICES ASSUME T # {} PROVE FALSE
    OBVIOUS
  <2>2. PICK n \in T : \A m \in T : n <= m
    <3>1. T \in SUBSET Nat
      BY <1>0
    <3> HIDE DEF T
    <3> QED BY <2>1, <3>1, Least
  <2>3. n = 0 \/ (n - 1 \in 0..N /\ ~(n <= n - 1))
    BY <1>0
  <2>4. n = 0 \/ F[n - 1] = f[n - 1]
    BY <2>2, <2>3
  <2>5. F[n] = f[n]
    BY <1>2, <1>3, <2>4
  <2> QED BY <2>5
<1>6. N \in 0..N
  BY <1>0
<1>7. F[N] = f[N]
  BY <1>5, <1>6
<1> QED BY <1>1, <1>4, <1>7

\* It yields a sequence of packages.
LEMMA InOrderType ==
    ASSUME NEW K
    PROVE  InOrder(K) \in Seq(Pkgs)
<1>1. PICK f \in [0..Len(Order) -> Seq(Pkgs)] : InOrder(K) = f[Len(Order)]
  BY InOrderKept
<1>2. Len(Order) \in 0..Len(Order)
  BY OrderIsSeq, LenProperties
<1> QED BY <1>1, <1>2

\* So does the walk of a Reindex call.
LEMMA ClosureType == ASSUME NEW p PROVE orderedReverseClosure(p) \in Seq(Pkgs)
  BY InOrderType DEF orderedReverseClosure
-----------------------------------------------------------------------------
\* The types of the records that IndexInv is about.
FileType == [state : {"absent", "current", "stale", "corrupt"}, fp : BOOLEAN, member : BOOLEAN]
GCType == [pc : {"idle", "mark", "sweep"}, root : Roots, marks : SUBSET Keys, left : SUBSET Roots,
           bad : BOOLEAN, force : BOOLEAN, todo : SUBSET Keys, victim : Keys \cup {NoKey},
           pinned : SUBSET (Roots \X Keys)]
Batches == {f \in UNION {[D -> UnitPointer] : D \in SUBSET Pkgs} : \A p \in DOMAIN f : f[p] \in Pointers(p)}
BuildRecord == [pc : {"idle", "run", "gc", "close"}, st : [Pkgs -> {"wait", "ready", "check", "done"}],
                pend : [Pkgs -> Nat], keys : KeyTable, key : [Pkgs -> Keys \cup {NoKey}],
                own : [Pkgs -> Versions], batch : Batches,
                canceled : BOOLEAN, fatal : BOOLEAN, recreated : BOOLEAN]

\* The dependencies of p that are not done.
Unfinished(st, p) == {d \in directDepImports(p) : st[d] # "done"}
\* The scheduler counts them, and a package waits exactly while there are some.
Scheduled(b) == \A p \in Pkgs : /\ b.pend[p] = Cardinality(Unfinished(b.st, p))
                                /\ (b.st[p] = "wait") <=> (b.pend[p] # 0)
\* A key that a type check of p will store under; a pointer to write for p.
InCheck(keys, p, k, own) == k \in Keys /\ k.pkg = p /\ k.own = own /\ Coherent(keys, k)
Proper(keys, p, u) == u \in Pointers(p) /\ Coherent(keys, u.key)

\* What a Build keeps: its jobs and its batch.
BuildInv(b) ==
    /\ Scheduled(b)
    /\ \A p \in Pkgs : b.st[p] = "check" => InCheck(b.keys, p, b.key[p], b.own[p])
    /\ \A p \in DOMAIN b.batch : b.st[p] = "done" /\ Proper(b.keys, p, b.batch[p])
BuildOK == {b \in BuildRecord : BuildInv(b)}

\* What a Reindex call keeps: a package in hand, and what was computed for it.
CallInv(cl) ==
    /\ cl.pc \in {"resolve", "check", "gate", "put"} => cl.todo # <<>>
    /\ (cl.pc = "check" \/ cl.key # NoKey) => InCheck(cl.keys, Head(cl.todo), cl.key, cl.own)
    /\ (cl.pc \in {"gate", "put"} \/ cl.unit # NoUnit) => Proper(cl.keys, Head(cl.todo), cl.unit)
CallOK == {cl \in CallType : CallInv(cl)}

\* What resolving p may hand on.
Outcome(keys, p, res) ==
    /\ res.kind \in {"fail", "same", "hit", "check", "checked"}
    /\ res.own \in Versions /\ res.api \in Apis \cup {Failed}
    /\ res.kind = "check" => InCheck(keys, p, res.key, res.own)
    /\ res.unit = NoUnit \/ Proper(keys, p, res.unit)

\* What a batch of pending pointers holds.
LEMMA BatchParts ==
    ASSUME NEW b \in Batches
    PROVE  /\ DOMAIN b \subseteq Pkgs /\ IsFiniteSet(DOMAIN b)
           /\ \A p \in DOMAIN b : b[p] \in Pointers(p)
<1>1. PICK D \in SUBSET Pkgs : b \in [D -> UnitPointer]
  BY DEF Batches
<1>2. DOMAIN b = D
  BY <1>1
<1>3. \A p \in DOMAIN b : b[p] \in Pointers(p)
  BY DEF Batches
<1> QED BY <1>2, <1>3, FS_Subset, OrderAssumption

\* A function with proper pointers is a batch.
LEMMA BatchIntro ==
    ASSUME NEW D \in SUBSET Pkgs, NEW f, f = [p \in D |-> f[p]], \A p \in D : f[p] \in Pointers(p)
    PROVE  f \in Batches
<1>1. \A p \in D : f[p] \in UnitPointer
  BY DEF Pointers
<1>2. f \in [D -> UnitPointer]
  BY <1>1
<1>3. f \in UNION {[E -> UnitPointer] : E \in SUBSET Pkgs}
  BY <1>2
<1> QED BY <1>2, <1>3 DEF Batches

\* The empty batch is one.
LEMMA EmptyBatchType == EmptyBatch \in Batches /\ DOMAIN EmptyBatch = {}
<1>1. EmptyBatch \in [{} -> UnitPointer]
  BY DEF EmptyBatch
<1>2. {} \in SUBSET Pkgs
  OBVIOUS
<1>3. EmptyBatch \in UNION {[E -> UnitPointer] : E \in SUBSET Pkgs}
  BY <1>1, <1>2
<1>4. DOMAIN EmptyBatch = {}
  BY DEF EmptyBatch
<1> QED BY <1>3, <1>4 DEF Batches

\* A key stays coherent when the table learns the result of a package that the key does not depend
\* on.
LEMMA CoherentUpdate ==
    ASSUME NEW keys \in KeyTable, NEW k \in Keys, NEW p \in Pkgs, NEW a,
           Coherent(keys, k), p \notin directDepImports(k.pkg)
    PROVE  Coherent([keys EXCEPT ![p] = a], k)
  BY KeyParts, DepsType DEF Coherent, KeyTable

\* The parts of a pointer recorded under a package.
LEMMA PointerParts ==
    ASSUME NEW p, NEW u \in Pointers(p)
    PROVE  u \in UnitPointer /\ u.key \in Keys /\ u.key.pkg = p /\ u.own = u.key.own /\ u.own \in Versions
           /\ u.api \in Apis /\ u.files \in Stats
  BY DEF Pointers, UnitPointer

\* Every version has an API.
LEMMA ApiType == \A v \in Versions : Api[v] \in Apis
  BY DEF Apis

\* A pointer found in a database is one of its package.
LEMMA DatabaseParts ==
    ASSUME NEW f \in Databases, NEW p \in Pkgs, IsPointer(f[p])
    PROVE  f[p] \in Pointers(p)
  BY DEF Databases

\* keyTable.get returns a failure or an API, and never another API than the run's own result.
LEMMA KeyGetType ==
    ASSUME NEW r \in Roots, units[r] \in Databases, NEW keys \in KeyTable, NEW d \in Pkgs
    PROVE  /\ keyGet(keys, r, d) \in Apis \cup {Failed}
           /\ keyGet(keys, r, d) # Failed => keys[d] \in {Unset, keyGet(keys, r, d)}
<1>1. IsPointer(units[r][d]) => units[r][d].api \in Apis
  BY DatabaseParts, PointerParts
<1>2. keys[d] \in Apis \cup {Unset, Failed}
  BY DEF KeyTable
<1>3. CASE keys[d] # Unset
  BY <1>2, <1>3 DEF keyGet
<1>4. CASE keys[d] = Unset /\ IsPointer(units[r][d])
  <2>1. keyGet(keys, r, d) = units[r][d].api
    BY <1>4 DEF keyGet
  <2> QED BY <1>1, <1>4, <2>1
<1>5. CASE keys[d] = Unset /\ ~IsPointer(units[r][d])
  <2>1. keyGet(keys, r, d) = Failed
    BY <1>5 DEF keyGet
  <2> QED BY <2>1
<1> QED BY <1>3, <1>4, <1>5

\* What processUnit leaves: a coherent key to check, or a proper pointer, or nothing to write.
LEMMA ResolveOutcome ==
    ASSUME NEW r \in Roots, units[r] \in Databases, NEW keys \in KeyTable, NEW p \in Pkgs,
           NEW ver \in Versions, NEW trust \in BOOLEAN, IsCAS(blobs), disk \in Disks
    PROVE  Outcome(keys, p, processUnit(r, p, ver, trust, keys))
<1> DEFINE old == units[r][p]
           deps == directDepExports(keys, r, p)
           statOK == filesStatMatch(r, p, trust)
           own == IF statOK THEN old.own ELSE ver
           key == UnitKey(p, own, deps)
           res == processUnit(r, p, ver, trust, keys)
           bad == \E d \in DOMAIN deps : deps[d] = Failed
           same == IsPointer(old) /\ key = old.key
           fail == [kind |-> "fail", key |-> NoKey, own |-> own, unit |-> NoUnit, api |-> Failed]
           fresh == IF statOK \/ ~trust THEN NoUnit ELSE [old EXCEPT !.files = disk[r][p].stat]
           api == Api[blobs[key].facts]
           hit == [key |-> key, own |-> own, api |-> api, files |-> blobs[key].files]
<1>1. IsPointer(old) => old \in Pointers(p)
  BY DatabaseParts
<1>2. own \in Versions
  BY <1>1, PointerParts DEF filesStatMatch
<1>3. DOMAIN deps = directDepImports(p)
  BY DEF directDepExports
<1>4. ~bad => /\ deps \in [directDepImports(p) -> Apis]
              /\ \A d \in directDepImports(p) : keys[d] \in {Unset, deps[d]}
  <2>1. \A d \in directDepImports(p) : d \in Pkgs /\ deps[d] = keyGet(keys, r, d)
    BY DepsType DEF directDepExports
  <2> SUFFICES ASSUME ~bad PROVE /\ deps \in [directDepImports(p) -> Apis]
              /\ \A d \in directDepImports(p) : keys[d] \in {Unset, deps[d]}
    OBVIOUS
  <2>2. \A d \in directDepImports(p) : deps[d] # Failed
    BY <1>3
  <2>3. \A d \in directDepImports(p) : deps[d] \in Apis /\ keys[d] \in {Unset, deps[d]}
    BY <2>1, <2>2, KeyGetType
  <2>4. deps = [d \in directDepImports(p) |-> keyGet(keys, r, d)]
    BY DEF directDepExports
  <2> HIDE DEF deps
  <2> QED BY <2>1, <2>3, <2>4
<1>5. ~bad => InCheck(keys, p, key, own)
  <2> HIDE DEF own, deps, bad
  <2> QED BY <1>2, <1>3, <1>4, KeyType DEF InCheck, Coherent
<1>6. res = CASE bad -> fail
          [] ~bad /\ Has(key) /\ same -> [fail EXCEPT !.kind = "same", !.key = key, !.api = old.api, !.unit = fresh]
          [] ~bad /\ Has(key) /\ ~same -> [fail EXCEPT !.kind = "hit", !.key = key, !.api = api, !.unit = hit]
          [] ~bad /\ ~Has(key) -> [fail EXCEPT !.kind = "check", !.key = key]
  BY DEF processUnit
<1> SUFFICES Outcome(keys, p, res)
  OBVIOUS
<1> HIDE DEF bad, same, key, own, deps, res
<1>7. CASE bad
  <2>1. res = fail
    BY <1>6, <1>7
  <2> QED BY <1>2, <2>1 DEF Outcome
<1>8. CASE ~bad /\ Has(key) /\ same
  <2>1. res = [fail EXCEPT !.kind = "same", !.key = key, !.api = old.api, !.unit = fresh]
    BY <1>6, <1>8
  <2>2. IsPointer(old) /\ key = old.key
    BY <1>8 DEF same
  <2>3. fresh = NoUnit \/ Proper(keys, p, fresh)
    <3>1. CASE statOK \/ ~trust
      BY <3>1
    <3>2. CASE ~(statOK \/ ~trust)
      <4>1. fresh = [old EXCEPT !.files = disk[r][p].stat]
        BY <3>2
      <4>2. disk[r][p].stat \in Stats
        BY DEF Disks
      <4>3. old \in [key : Keys, own : Versions, api : Apis, files : Stats]
        BY <2>2, <1>1 DEF Pointers, UnitPointer
      <4>4. fresh \in UnitPointer /\ fresh.key = old.key /\ fresh.own = old.own
        BY <4>1, <4>2, <4>3 DEF UnitPointer
      <4>5. fresh \in Pointers(p)
        BY <4>4, <2>2, <1>1 DEF Pointers
      <4> QED BY <4>4, <4>5, <2>2, <1>5, <1>8 DEF Proper, InCheck
    <3> QED BY <3>1, <3>2
  <2>4. old.api \in Apis
    BY <2>2, <1>1, PointerParts
  <2> HIDE DEF fresh, old
  <2> QED BY <1>2, <2>1, <2>3, <2>4 DEF Outcome
<1>9. CASE ~bad /\ Has(key) /\ ~same
  <2>1. res = [fail EXCEPT !.kind = "hit", !.key = key, !.api = api, !.unit = hit]
    BY <1>6, <1>9
  <2>2. blobs[key].facts \in Versions /\ blobs[key].files \in Stats
    BY <1>9 DEF Has, IsCAS, BlobRecord
  <2>3. api \in Apis
    BY <2>2, ApiType
  <2>4. hit \in Pointers(p)
    BY <2>2, <2>3, <1>2, <1>5, <1>9 DEF Pointers, UnitPointer, InCheck
  <2>5. Proper(keys, p, hit)
    BY <2>4, <1>5, <1>9 DEF Proper, InCheck
  <2> HIDE DEF hit, api
  <2> QED BY <1>2, <2>1, <2>3, <2>5 DEF Outcome
<1>10. CASE ~bad /\ ~Has(key)
  <2>1. res = [fail EXCEPT !.kind = "check", !.key = key]
    BY <1>6, <1>10
  <2> QED BY <1>2, <1>5, <1>10, <2>1 DEF Outcome
<1> QED BY <1>7, <1>8, <1>9, <1>10

\* What the type check leaves: a proper pointer under the key computed before, or a failure.
LEMMA CheckOutcome ==
    ASSUME NEW r \in Roots, NEW keys \in KeyTable, NEW p \in Pkgs, NEW ver \in Versions,
           NEW trust \in BOOLEAN, disk \in Disks, NEW key, NEW own \in Versions, InCheck(keys, p, key, own)
    PROVE  Outcome(keys, p, checkAndStoreOutcome(r, p, ver, trust, key, own))
<1> DEFINE stat == IF trust THEN disk[r][p].stat ELSE NoStat
           unit == [key |-> key, own |-> own, api |-> Api[ver], files |-> stat]
<1>1. stat \in Stats
  BY DEF Disks, Stats
<1>2. Api[ver] \in Apis
  BY ApiType
<1>3. unit \in Pointers(p)
  BY <1>1, <1>2 DEF Pointers, UnitPointer, InCheck
<1>4. Proper(keys, p, unit)
  BY <1>3 DEF Proper, InCheck
<1> HIDE DEF unit, stat
<1> QED BY <1>2, <1>4 DEF Outcome, checkAndStoreOutcome, unit, stat

-----------------------------------------------------------------------------
\* A package that is ready, or being checked, has no unfinished dependency.
LEMMA DepsDone ==
    ASSUME NEW b \in BuildRecord, Scheduled(b), NEW p \in Pkgs, b.st[p] # "wait"
    PROVE  \A d \in directDepImports(p) : b.st[d] = "done"
<1>1. Cardinality(Unfinished(b.st, p)) = 0
  BY DEF Scheduled
<1>2. IsFiniteSet(Unfinished(b.st, p))
  BY DepsType, FS_Subset DEF Unfinished
<1>3. Unfinished(b.st, p) = {}
  BY <1>1, <1>2, FS_EmptySet
<1> QED BY <1>3 DEF Unfinished

\* scheduler.finish keeps the counters right and only moves packages forward.
LEMMA FinishParts ==
    ASSUME NEW b \in BuildRecord, NEW p \in Pkgs, Scheduled(b), b.st[p] \in {"ready", "check"}
    PROVE  /\ finish(b, p) = [b EXCEPT !.pend = finish(b, p).pend, !.st = finish(b, p).st]
           /\ finish(b, p).pend \in [Pkgs -> Nat]
           /\ finish(b, p).st \in [Pkgs -> {"wait", "ready", "check", "done"}]
           /\ Scheduled(finish(b, p))
           /\ finish(b, p).st[p] = "done"
           /\ \A q \in Pkgs : b.st[q] = "done" => finish(b, p).st[q] = "done"
           /\ \A q \in Pkgs : finish(b, p).st[q] = "check" => b.st[q] = "check"
<1> DEFINE pend == [q \in Pkgs |-> IF q \in Dependents(p) THEN b.pend[q] - 1 ELSE b.pend[q]]
           st == [q \in Pkgs |-> IF q = p THEN "done"
                                 ELSE IF q \in Dependents(p) /\ pend[q] = 0 THEN "ready"
                                 ELSE b.st[q]]
           f == finish(b, p)
<1>0. b.st \in [Pkgs -> {"wait", "ready", "check", "done"}] /\ b.pend \in [Pkgs -> Nat]
  BY DEF BuildRecord
<1>1. f = [b EXCEPT !.pend = pend, !.st = st]
  BY DEF finish
<1>2. f.pend = pend /\ f.st = st
  BY <1>1 DEF BuildRecord
<1>3. p \notin Dependents(p)
  BY DepsType DEF Dependents
<1>4. \A q \in Dependents(p) : q \in Pkgs /\ p \in Unfinished(b.st, q)
  BY DEF Dependents, Unfinished
<1>5. \A q \in Pkgs : IsFiniteSet(Unfinished(b.st, q))
  BY DepsType, FS_Subset DEF Unfinished
<1>5a. \A q \in Dependents(p) : b.st[q] = "wait"
  BY <1>4, <1>5, FS_EmptySet DEF Scheduled
<1>6. st \in [Pkgs -> {"wait", "ready", "check", "done"}]
  <2> HIDE DEF pend
  <2> QED BY <1>0
<1>7. \A q \in Pkgs \ Dependents(p) : q # p => Unfinished(st, q) = Unfinished(b.st, q)
  <2> SUFFICES ASSUME NEW q \in Pkgs \ Dependents(p), NEW d \in directDepImports(q)
               PROVE  (st[d] # "done") <=> (b.st[d] # "done")
    BY DEF Unfinished
  <2>1. d \in Pkgs /\ d # p
    BY DepsType DEF Dependents
  <2> HIDE DEF pend
  <2> QED BY <2>1, <1>5a
<1>7a. Unfinished(st, p) = Unfinished(b.st, p)
  <2> SUFFICES ASSUME NEW d \in directDepImports(p) PROVE (st[d] # "done") <=> (b.st[d] # "done")
    BY DEF Unfinished
  <2>1. d \in Pkgs /\ d # p
    BY DepsType
  <2>2. b.st[d] = "done"
    BY DepsDone
  <2>3. d \in Dependents(p) => b.st[d] = "wait"
    BY <1>4, <1>5, FS_EmptySet, <2>1 DEF Scheduled
  <2> HIDE DEF pend
  <2> QED BY <2>1, <2>2, <2>3
<1>8. \A q \in Dependents(p) : Unfinished(st, q) = Unfinished(b.st, q) \ {p}
  <2> SUFFICES ASSUME NEW q \in Dependents(p), NEW d \in directDepImports(q)
               PROVE  (st[d] # "done") <=> (b.st[d] # "done" /\ d # p)
    BY DEF Unfinished
  <2>1. d \in Pkgs
    BY <1>4, DepsType
  <2>2. b.st[d] = "done" => d \notin Dependents(p) \/ d = p
    <3>1. d \in Dependents(p) => b.st[d] = "wait"
      BY <1>4, <1>5, FS_EmptySet, <2>1 DEF Scheduled
    <3> QED BY <3>1
  <2> HIDE DEF pend
  <2> QED BY <2>1, <2>2
<1>9. ASSUME NEW q \in Dependents(p)
      PROVE  /\ b.pend[q] \in Nat /\ b.pend[q] # 0 /\ b.st[q] = "wait"
             /\ Cardinality(Unfinished(st, q)) = b.pend[q] - 1
  <2>1. b.pend[q] = Cardinality(Unfinished(b.st, q)) /\ b.pend[q] \in Nat
    BY <1>0, <1>4 DEF Scheduled
  <2>2. Cardinality(Unfinished(b.st, q) \ {p}) = Cardinality(Unfinished(b.st, q)) - 1
    BY <1>4, <1>5, FS_RemoveElement
  <2>3. Cardinality(Unfinished(b.st, q)) # 0
    BY <1>4, <1>5, FS_EmptySet
  <2> HIDE DEF st
  <2> QED BY <2>1, <2>2, <2>3, <1>4, <1>8 DEF Scheduled
<1>10. pend \in [Pkgs -> Nat]
  <2>1. ASSUME NEW q \in Pkgs PROVE pend[q] \in Nat
    <3>1. b.pend[q] \in Nat /\ (q \in Dependents(p) => b.pend[q] # 0)
      BY <1>0, <1>9
    <3> QED BY <3>1
  <2> QED BY <2>1
<1>11. ASSUME NEW q \in Pkgs
       PROVE  pend[q] = Cardinality(Unfinished(st, q)) /\ ((st[q] = "wait") <=> (pend[q] # 0))
  <2>1. CASE q \in Dependents(p)
    <3>1. pend[q] = b.pend[q] - 1 /\ q # p
      BY <2>1, <1>3
    <3>2. st[q] = IF pend[q] = 0 THEN "ready" ELSE b.st[q]
      BY <2>1, <3>1
    <3> HIDE DEF st, pend
    <3> QED BY <2>1, <3>1, <3>2, <1>9
  <2>2. CASE q \notin Dependents(p) /\ q # p
    <3>1. pend[q] = b.pend[q] /\ st[q] = b.st[q]
      BY <2>2
    <3> HIDE DEF st, pend
    <3> QED BY <2>2, <3>1, <1>7 DEF Scheduled
  <2>3. CASE q = p
    <3>1. pend[q] = b.pend[q] /\ st[q] = "done" /\ b.st[p] # "wait"
      BY <2>3, <1>3
    <3> HIDE DEF st, pend
    <3> QED BY <2>3, <3>1, <1>7a DEF Scheduled
  <2> QED BY <2>1, <2>2, <2>3
<1>12. \A q \in Pkgs : /\ b.st[q] = "done" => st[q] = "done"
                       /\ st[q] = "check" => b.st[q] = "check"
  <2> HIDE DEF pend
  <2> QED BY <1>9
<1>13. st[p] = "done"
  OBVIOUS
<1> HIDE DEF st, pend, f
<1>14. Scheduled(f)
  BY <1>11, <1>2 DEF Scheduled
<1>15. f = [b EXCEPT !.pend = f.pend, !.st = f.st]
  BY <1>1, <1>2
<1> QED BY <1>2, <1>6, <1>10, <1>12, <1>13, <1>14, <1>15 DEF f

\* The batch of b after p's pointer u.
Joined(b, p, u) == IF u = NoUnit THEN b.batch
                   ELSE [q \in DOMAIN b.batch \cup {p} |-> IF q = p THEN u ELSE b.batch[q]]

\* A finished job leaves the Build's state in order, with the result in the key table and the
\* batch.
LEMMA FinishOK ==
    ASSUME NEW b \in BuildRecord, NEW p \in Pkgs, BuildInv(b), b.st[p] \in {"ready", "check"},
           NEW keys \in KeyTable, NEW a \in Apis \cup {Unset, Failed},
           keys = b.keys \/ keys = [b.keys EXCEPT ![p] = a],
           NEW batch \in Batches, \A q \in DOMAIN batch : (q = p \/ b.st[q] = "done") /\ Proper(b.keys, q, batch[q])
    PROVE  finish([b EXCEPT !.keys = keys, !.batch = batch], p) \in BuildOK
<1> DEFINE c == [b EXCEPT !.keys = keys, !.batch = batch]
           f == finish(c, p)
<1>1. c \in BuildRecord /\ c.keys = keys /\ c.batch = batch /\ c.st = b.st /\ c.pend = b.pend
      /\ c.key = b.key /\ c.own = b.own
  BY DEF BuildRecord
<1>2. Scheduled(c) /\ c.st[p] \in {"ready", "check"}
  BY <1>1 DEF Scheduled, BuildInv
<1> HIDE DEF c
<1>3. /\ f = [c EXCEPT !.pend = f.pend, !.st = f.st]
      /\ f.pend \in [Pkgs -> Nat]
      /\ f.st \in [Pkgs -> {"wait", "ready", "check", "done"}]
      /\ Scheduled(f)
      /\ f.st[p] = "done"
      /\ \A q \in Pkgs : b.st[q] = "done" => f.st[q] = "done"
      /\ \A q \in Pkgs : f.st[q] = "check" => b.st[q] = "check"
  <2>1. c \in BuildRecord /\ Scheduled(c) /\ c.st[p] \in {"ready", "check"} /\ p \in Pkgs
    BY <1>1, <1>2
  <2>2. c.st = b.st
    BY <1>1
  <2> HIDE DEF f
  <2>3. /\ f = [c EXCEPT !.pend = f.pend, !.st = f.st]
        /\ f.pend \in [Pkgs -> Nat]
        /\ f.st \in [Pkgs -> {"wait", "ready", "check", "done"}]
        /\ Scheduled(f)
        /\ f.st[p] = "done"
        /\ \A q \in Pkgs : c.st[q] = "done" => f.st[q] = "done"
        /\ \A q \in Pkgs : f.st[q] = "check" => c.st[q] = "check"
    BY ONLY <2>1, FinishParts DEF f
  <2> QED BY <2>2, <2>3
<1> HIDE DEF f
<1>4. f \in BuildRecord /\ f.keys = keys /\ f.batch = batch /\ f.key = b.key /\ f.own = b.own
  <2> DEFINE pd == f.pend
             s == f.st
  <2>1. f = [c EXCEPT !.pend = pd, !.st = s] /\ pd \in [Pkgs -> Nat]
        /\ s \in [Pkgs -> {"wait", "ready", "check", "done"}]
    BY <1>3
  <2> HIDE DEF pd, s
  <2> QED BY <1>1, <2>1 DEF BuildRecord
<1>5. \A q \in Pkgs, k \in Keys :
        (q = p \/ b.st[q] \in {"check", "done"}) /\ k.pkg = q /\ Coherent(b.keys, k) => Coherent(keys, k)
  <2> SUFFICES ASSUME NEW q \in Pkgs, NEW k \in Keys, q = p \/ b.st[q] \in {"check", "done"}, k.pkg = q,
                      Coherent(b.keys, k) PROVE Coherent(keys, k)
    OBVIOUS
  <2>1. b.st[q] # "wait"
    OBVIOUS
  <2>2. \A d \in directDepImports(q) : b.st[d] = "done"
    BY <2>1, DepsDone DEF BuildInv
  <2>3. p \notin directDepImports(q)
    BY <2>2
  <2>4. b.keys \in KeyTable
    BY DEF BuildRecord
  <2> QED BY SMTT(20), <2>3, <2>4, CoherentUpdate
<1>6. \A q \in Pkgs : f.st[q] = "check" => InCheck(f.keys, q, f.key[q], f.own[q])
  BY <1>3, <1>4, <1>5 DEF BuildInv, InCheck
<1>7. \A q \in DOMAIN f.batch : f.st[q] = "done" /\ Proper(f.keys, q, f.batch[q])
  <2> SUFFICES ASSUME NEW q \in DOMAIN batch PROVE f.st[q] = "done" /\ Proper(keys, q, batch[q])
    BY <1>4
  <2>1. q \in Pkgs
    BY BatchParts
  <2>2. batch[q] \in Pointers(q) /\ Coherent(b.keys, batch[q].key)
    BY DEF Proper
  <2>3. batch[q].key \in Keys /\ batch[q].key.pkg = q
    BY <2>2, PointerParts
  <2> QED BY <2>1, <2>2, <2>3, <1>3, <1>5 DEF Proper
<1>8. BuildInv(f)
  BY <1>3, <1>6, <1>7 DEF BuildInv
<1> QED BY <1>4, <1>8 DEF BuildOK, f, c

\* A result joins the batch of finished packages.
LEMMA JoinedOK ==
    ASSUME NEW b \in BuildRecord, NEW p \in Pkgs, BuildInv(b), NEW u, u = NoUnit \/ Proper(b.keys, p, u)
    PROVE  /\ Joined(b, p, u) \in Batches
           /\ \A q \in DOMAIN Joined(b, p, u) : (q = p \/ b.st[q] = "done") /\ Proper(b.keys, q, Joined(b, p, u)[q])
<1>1. b.batch \in Batches
  BY DEF BuildRecord
<1>2. CASE u = NoUnit
  <2>1. Joined(b, p, u) = b.batch
    BY <1>2 DEF Joined
  <2> QED BY <1>1, <2>1 DEF BuildInv
<1>3. CASE u # NoUnit
  <2> DEFINE D == DOMAIN b.batch \cup {p}
             g(q) == IF q = p THEN u ELSE b.batch[q]
  <2>1. Joined(b, p, u) = [q \in D |-> g(q)]
    BY <1>3 DEF Joined
  <2>2. D \in SUBSET Pkgs
    BY <1>1, BatchParts
  <2>3. \A q \in D : (q = p \/ b.st[q] = "done") /\ Proper(b.keys, q, g(q))
    BY <1>3 DEF BuildInv
  <2>4. \A q \in D : g(q) \in Pointers(q)
    BY <2>3 DEF Proper
  <2> DEFINE G == [q \in D |-> g(q)]
  <2>5. G \in Batches
    <3>1. G = [q \in D |-> G[q]] /\ \A q \in D : G[q] \in Pointers(q)
      BY <2>4
    <3> HIDE DEF G, D
    <3> QED BY <2>2, <3>1, BatchIntro
  <2> HIDE DEF g, D
  <2> QED BY <2>1, <2>3, <2>5
<1> QED BY <1>2, <1>3

-----------------------------------------------------------------------------
\* A call that moves on is in order.
LEMMA Next1OK ==
    ASSUME NEW cl \in CallType, cl.todo # <<>>
    PROVE  Next1(cl) \in CallOK
<1> DEFINE t == Tail(cl.todo)
           pc == IF Len(cl.todo) > 1 THEN "resolve" ELSE "end"
           n == [cl EXCEPT !.todo = t, !.key = NoKey, !.unit = NoUnit, !.pc = pc]
<1>1. cl.todo \in Seq(Pkgs)
  BY DEF CallType
<1>2. t \in Seq(Pkgs) /\ Len(t) = Len(cl.todo) - 1 /\ Len(cl.todo) \in Nat
  BY <1>1, HeadTailProperties, LenProperties
<1>3. pc = "resolve" => t # <<>>
  <2>1. pc = "resolve" => Len(cl.todo) > 1
    OBVIOUS
  <2>2. Len(<<>>) = 0
    BY EmptySeq
  <2> HIDE DEF t, pc
  <2> QED BY <1>2, <2>1, <2>2
<1>4. pc \in {"resolve", "end"}
  OBVIOUS
<1>5. Next1(cl) = n
  BY DEF Next1
<1> HIDE DEF t, pc
<1>6. n \in CallType /\ n.todo = t /\ n.key = NoKey /\ n.unit = NoUnit /\ n.pc = pc
  BY <1>2, <1>4 DEF CallType
<1> HIDE DEF n
<1>7. CallInv(n)
  BY <1>3, <1>4, <1>6 DEF CallInv
<1> QED BY <1>5, <1>6, <1>7 DEF CallOK

\* So is one that gives up.
LEMMA AbortOK ==
    ASSUME NEW cl \in CallType
    PROVE  Abort(cl) \in CallOK
<1> DEFINE n == [cl EXCEPT !.pc = "end", !.err = TRUE, !.key = NoKey, !.unit = NoUnit]
<1>1. Abort(cl) = n
  BY DEF Abort
<1>2. n \in CallType /\ n.key = NoKey /\ n.unit = NoUnit /\ n.pc = "end"
  BY DEF CallType
<1> HIDE DEF n
<1>3. CallInv(n)
  BY <1>2 DEF CallInv
<1> QED BY <1>1, <1>2, <1>3 DEF CallOK

\* So is one after an error, wherever it happened.
LEMMA AfterErrorOK ==
    ASSUME NEW cl \in CallType, cl.todo # <<>>
    PROVE  AfterError(cl) \in CallOK
<1> DEFINE n == [cl EXCEPT !.err = TRUE]
<1>1. n \in CallType /\ n.todo # <<>>
  BY DEF CallType
<1> HIDE DEF n
<1>2. Next1(n) \in CallOK /\ Abort(cl) \in CallOK
  BY <1>1, Next1OK, AbortOK
<1> QED BY <1>2 DEF AfterError, n

\* The package a call works on.
LEMMA HeadType ==
    ASSUME NEW cl \in CallType, cl.todo # <<>>
    PROVE  Head(cl.todo) \in Pkgs
  BY HeadTailProperties DEF CallType

\* What reindexOne does with a result leaves the call in order.
LEMMA AfterResolveOK ==
    ASSUME NEW cl \in CallOK, cl.pc \in {"resolve", "check"}, NEW res, Outcome(cl.keys, Head(cl.todo), res)
    PROVE  afterResolve(cl, res) \in CallOK
<1> DEFINE p == Head(cl.todo)
           chg == IF res.kind \in {"hit", "checked"} THEN cl.changed \cup {p} ELSE cl.changed
           keys == [cl.keys EXCEPT ![p] = res.api]
           c2 == [cl EXCEPT !.keys = keys, !.changed = chg]
<1>0. cl \in CallType /\ CallInv(cl)
  BY DEF CallOK
<1>1. cl.todo # <<>> /\ p \in Pkgs
  BY <1>0, HeadType DEF CallInv
<1>2. cl.keys \in KeyTable /\ cl.changed \subseteq Pkgs
  BY <1>0 DEF CallType, KeyTable
<1>3. chg \subseteq Pkgs /\ keys \in KeyTable
  BY <1>1, <1>2 DEF Outcome, KeyTable
<1>4. ASSUME NEW k \in Keys, k.pkg = p, Coherent(cl.keys, k) PROVE Coherent(keys, k)
  BY <1>1, <1>2, <1>4, CoherentUpdate, DepsType
<1>5. [cl EXCEPT !.keys[Head(cl.todo)] = res.api,
                 !.changed = IF res.kind \in {"hit", "checked"} THEN @ \cup {Head(cl.todo)} ELSE @] = c2
  BY <1>0 DEF CallType
<1> HIDE DEF p
<1>6. afterResolve(cl, res) =
        CASE res.kind = "fail"  -> AfterError(c2)
          [] res.kind = "check" -> [cl EXCEPT !.pc = "check", !.key = res.key, !.own = res.own]
          [] res.kind \notin {"fail", "check"} /\ res.unit = NoUnit -> Next1(c2)
          [] res.kind \notin {"fail", "check"} /\ res.unit # NoUnit -> [c2 EXCEPT !.pc = "gate", !.unit = res.unit]
  BY <1>5 DEF afterResolve
<1> HIDE DEF chg, keys
<1>7. c2 \in CallType /\ c2.keys = keys /\ c2.todo = cl.todo /\ c2.pc = cl.pc /\ c2.key = cl.key /\ c2.own = cl.own
  BY <1>0, <1>3 DEF CallType, KeyTable
<1> HIDE DEF c2
<1>8. CASE res.kind = "fail"
  BY <1>1, <1>6, <1>7, <1>8, AfterErrorOK
<1>9. CASE res.kind = "check"
  <2> DEFINE n == [cl EXCEPT !.pc = "check", !.key = res.key, !.own = res.own]
  <2>1. afterResolve(cl, res) = n
    BY <1>6, <1>9
  <2>2. res.key \in Keys /\ res.own \in Versions /\ InCheck(cl.keys, p, res.key, res.own)
    BY <1>9 DEF Outcome, InCheck, p
  <2>3. n \in CallType /\ n.pc = "check" /\ n.key = res.key /\ n.own = res.own /\ n.keys = cl.keys
        /\ n.todo = cl.todo /\ n.unit = cl.unit
    BY <1>0, <2>2 DEF CallType
  <2> HIDE DEF n
  <2>4. CallInv(n)
    BY <1>0, <1>1, <2>2, <2>3 DEF CallInv, p
  <2> QED BY <2>1, <2>3, <2>4 DEF CallOK
<1>10. CASE res.kind \notin {"fail", "check"} /\ res.unit = NoUnit
  BY <1>1, <1>6, <1>7, <1>10, Next1OK
<1>11. CASE res.kind \notin {"fail", "check"} /\ res.unit # NoUnit
  <2> DEFINE n == [c2 EXCEPT !.pc = "gate", !.unit = res.unit]
  <2>1. afterResolve(cl, res) = n
    BY <1>6, <1>11
  <2>2. res.unit \in Pointers(p) /\ Coherent(cl.keys, res.unit.key)
    BY <1>11 DEF Outcome, Proper, p
  <2>3. res.unit \in UnitPointer /\ res.unit.key \in Keys /\ res.unit.key.pkg = p
    BY <2>2, PointerParts
  <2>4. Proper(keys, p, res.unit)
    BY <2>2, <2>3, <1>4 DEF Proper
  <2>5. n \in CallType /\ n.pc = "gate" /\ n.key = cl.key /\ n.own = cl.own /\ n.keys = keys
        /\ n.todo = cl.todo /\ n.unit = res.unit
    BY <1>7, <2>3 DEF CallType
  <2>6. cl.key # NoKey => InCheck(keys, p, cl.key, cl.own)
    BY <1>0, <1>4 DEF CallInv, InCheck, p
  <2> HIDE DEF n
  <2>7. CallInv(n)
    BY <1>1, <2>4, <2>5, <2>6 DEF CallInv, p
  <2> QED BY <2>1, <2>5, <2>7 DEF CallOK
<1> QED BY <1>8, <1>9, <1>10, <1>11

\* The empty key table.
LEMMA NoKeysType == NoKeys \in KeyTable
  BY DEF NoKeys, KeyTable

\* An idle call is in order.
LEMMA CallIdleOK == CallIdle \in CallOK /\ CallIdle.pc = "idle"
<1>1. AnyVersion \in Versions
  BY VersionsAssumption DEF AnyVersion
<1>2. Order[1] \in Pkgs
  <2>1. Cardinality(Pkgs) \in Nat /\ Cardinality(Pkgs) # 0
    BY OrderAssumption, FS_CardinalityType, FS_EmptySet
  <2> QED BY <2>1, OrderAssumption
<1>3. <<>> \in Seq(Pkgs)
  BY EmptySeq
<1>4. CallIdle \in CallType
  BY <1>1, <1>2, <1>3, NoKeysType DEF CallIdle, CallType, KeyTable
<1>5. CallIdle.pc = "idle" /\ CallIdle.key = NoKey /\ CallIdle.unit = NoUnit
  BY DEF CallIdle
<1>6. CallInv(CallIdle)
  BY <1>5 DEF CallInv
<1> QED BY <1>4, <1>5, <1>6 DEF CallOK

\* So is one that has just started.
LEMMA StartedOK ==
    ASSUME NEW p \in Pkgs, NEW g \in Nat
    PROVE  [CallIdle EXCEPT !.pc = "resolve", !.gen = g, !.first = p,
                            !.todo = <<p>> \o orderedReverseClosure(p)] \in CallOK
<1> DEFINE t == <<p>> \o orderedReverseClosure(p)
           n == [CallIdle EXCEPT !.pc = "resolve", !.gen = g, !.first = p, !.todo = t]
<1>1. <<p>> \in Seq(Pkgs) /\ Len(<<p>>) = 1
  OBVIOUS
<1>2. t \in Seq(Pkgs) /\ Len(t) = 1 + Len(orderedReverseClosure(p))
  BY <1>1, ClosureType, ConcatProperties
<1>3. t # <<>>
  BY <1>2, ClosureType, LenProperties, EmptySeq
<1> HIDE DEF t
<1>4. CallIdle \in CallType /\ CallIdle.key = NoKey /\ CallIdle.unit = NoUnit
  BY CallIdleOK DEF CallOK, CallIdle
<1>5. n \in CallType /\ n.todo = t /\ n.pc = "resolve" /\ n.key = NoKey /\ n.unit = NoUnit
  BY <1>2, <1>4 DEF CallType
<1> HIDE DEF n
<1>6. CallInv(n)
  BY <1>3, <1>5 DEF CallInv
<1>7. n \in CallOK
  BY <1>5, <1>6 DEF CallOK
<1> QED BY <1>7 DEF n, t

\* When all is done nothing is unfinished.
LEMMA NoneUnfinished == \A p \in Pkgs : Unfinished([q \in Pkgs |-> "done"], p) = {}
  BY DepsType DEF Unfinished

\* An idle Build is in order.
LEMMA BuildIdleOK == BuildIdle \in BuildOK
<1>1. AnyVersion \in Versions
  BY VersionsAssumption DEF AnyVersion
<1>2. BuildIdle \in BuildRecord
  BY <1>1, NoKeysType, EmptyBatchType DEF BuildIdle, BuildRecord
<1>3. BuildIdle.st = [p \in Pkgs |-> "done"] /\ BuildIdle.pend = [p \in Pkgs |-> 0] /\ BuildIdle.batch = EmptyBatch
  BY DEF BuildIdle
<1>4. Scheduled(BuildIdle)
  BY <1>3, NoneUnfinished, FS_EmptySet DEF Scheduled
<1>5. BuildInv(BuildIdle)
  BY <1>3, <1>4, EmptyBatchType DEF BuildInv
<1> QED BY <1>2, <1>5 DEF BuildOK

\* So is a Build whose flags change.
LEMMA RelabelOK ==
    ASSUME NEW b \in BuildOK, NEW pc \in {"idle", "run", "gc", "close"}, NEW rec \in BOOLEAN,
           NEW can \in BOOLEAN, NEW fat \in BOOLEAN
    PROVE  [b EXCEPT !.pc = pc, !.recreated = rec, !.canceled = can, !.fatal = fat] \in BuildOK
<1> DEFINE n == [b EXCEPT !.pc = pc, !.recreated = rec, !.canceled = can, !.fatal = fat]
<1>1. b \in BuildRecord /\ BuildInv(b)
  BY DEF BuildOK
<1>2. n \in BuildRecord /\ n.st = b.st /\ n.pend = b.pend /\ n.batch = b.batch /\ n.keys = b.keys
      /\ n.key = b.key /\ n.own = b.own
  BY <1>1 DEF BuildRecord
<1> HIDE DEF n
<1>3. BuildInv(n)
  BY <1>1, <1>2 DEF BuildInv, Scheduled
<1>4. n \in BuildOK
  BY <1>2, <1>3 DEF BuildOK
<1> QED BY <1>4 DEF n

\* newScheduler: the counters start as the numbers of dependencies.
LEMMA NewSchedulerOK ==
    ASSUME NEW r \in Roots
    PROVE  newScheduler(r) \in BuildOK
<1> DEFINE pend == [p \in Pkgs |-> Cardinality(directDepImports(p))]
           st == [p \in Pkgs |-> IF pend[p] = 0 THEN "ready" ELSE "wait"]
           n == [BuildIdle EXCEPT !.pc = "run", !.pend = pend, !.recreated = Discarded(r), !.st = st]
<1>1. newScheduler(r) = n
  BY DEF newScheduler
<1>2. pend \in [Pkgs -> Nat]
  BY DepsType, FS_CardinalityType
<1>3. st \in [Pkgs -> {"wait", "ready"}] /\ \A p \in Pkgs : (st[p] = "wait") <=> (pend[p] # 0)
  <2> HIDE DEF pend
  <2> QED OBVIOUS
<1>4. \A p \in Pkgs : Unfinished(st, p) = directDepImports(p)
  <2> HIDE DEF st
  <2> QED BY <1>3, DepsType DEF Unfinished
<1>5. \A p \in Pkgs : pend[p] = Cardinality(Unfinished(st, p))
  <2> HIDE DEF st
  <2> QED BY <1>4
<1>6. Discarded(r) \in BOOLEAN
  BY DEF Discarded
<1> DEFINE disc == Discarded(r)
<1> HIDE DEF pend, st, disc
<1>7. AnyVersion \in Versions
  BY VersionsAssumption DEF AnyVersion
<1>8. n \in BuildRecord
  <2>1. BuildIdle \in BuildRecord
    BY BuildIdleOK DEF BuildOK
  <2>2. disc \in BOOLEAN /\ n = [BuildIdle EXCEPT !.pc = "run", !.pend = pend, !.recreated = disc, !.st = st]
    BY <1>6 DEF disc
  <2>3. st \in [Pkgs -> {"wait", "ready", "check", "done"}]
    BY <1>3
  <2> HIDE DEF n
  <2> QED BY <1>2, <2>1, <2>2, <2>3 DEF BuildRecord
<1>9. n.st = st /\ n.pend = pend /\ n.batch = EmptyBatch
  BY DEF BuildIdle
<1> HIDE DEF n
<1>10. Scheduled(n)
  BY <1>3, <1>5, <1>9 DEF Scheduled
<1>11. BuildInv(n)
  BY <1>3, <1>9, <1>10, EmptyBatchType DEF BuildInv
<1> QED BY <1>1, <1>8, <1>11 DEF BuildOK

-----------------------------------------------------------------------------
DecodeType == [api : [Pkgs -> Apis \cup {Unset}], skipped : SUBSET Pkgs]
GensType == [next : Nat, done : [Pkgs -> Nat], wrote : [Pkgs -> Nat]]
RepairType == [pc : {"idle", "run", "done"}, todo : SUBSET Pkgs, clean : BOOLEAN]
Holders == {"none", "session", "indexer"}

\* The inductive invariant.
IndexInv ==
    /\ disk \in Disks
    /\ units \in [Roots -> Databases]
    /\ IsCAS(blobs)
    /\ file \in [Roots -> FileType]
    /\ holder \in [Roots -> Holders]
    /\ stamp \in BOOLEAN
    /\ gc \in GCType
    /\ text \in [Pkgs -> Versions \cup {NotOpen}]
    /\ build \in [Roots -> BuildOK]
    /\ call \in [Calls -> CallOK]
    /\ decoded \in DecodeType
    /\ gens \in GensType
    /\ repair \in RepairType

\* The keys a database points at.
LEMMA KeysOfType ==
    ASSUME NEW f \in Databases
    PROVE  KeysOf(f) \subseteq Keys
<1> SUFFICES ASSUME NEW p \in Pkgs, IsPointer(f[p]) PROVE f[p].key \in Keys
  BY DEF KeysOf
<1> QED BY DatabaseParts, PointerParts

\* The idle collector.
LEMMA GCIdleType == GCIdle \in GCType
<1>1. (CHOOSE r \in Roots : TRUE) \in Roots
  BY LiveAssumption
<1> QED BY <1>1 DEF GCIdle, GCType

\* A transaction leaves a database of pointers.
LEMMA PutUnitsType ==
    ASSUME IndexInv, NEW r \in Roots, NEW new, DOMAIN new \subseteq Pkgs,
           \A p \in DOMAIN new : new[p] = NoUnit \/ new[p] \in Pointers(p), PutUnitsBatch(r, new)
    PROVE  units' \in [Roots -> Databases] /\ gc' \in GCType
<1> DEFINE f == [p \in Pkgs |-> IF p \in DOMAIN new THEN new[p] ELSE units[r][p]]
           pinned == StillPinned(r, f)
<1>1. units[r] \in Databases
  BY DEF IndexInv
<1>2. \A p \in Pkgs : f[p] \in UnitPointer \cup {NoUnit, Garbled} /\ (IsPointer(f[p]) => f[p] \in Pointers(p))
  BY <1>1, PointerParts DEF Databases, IsPointer
<1>3. f \in Databases
  BY <1>2 DEF Databases
<1>4. units' = [units EXCEPT ![r] = f] /\ gc' = [gc EXCEPT !.pinned = pinned]
  BY DEF PutUnitsBatch
<1>5. pinned \subseteq gc.pinned
  BY DEF StillPinned
<1> HIDE DEF f, pinned
<1>6. gc \in GCType
  BY DEF IndexInv
<1>7. gc' \in GCType
  BY <1>4, <1>5, <1>6 DEF GCType
<1> QED BY <1>3, <1>4, <1>7 DEF IndexInv

\* A blob put into the CAS leaves a CAS.
LEMMA PutType ==
    ASSUME IsCAS(blobs), NEW k \in Keys, NEW v \in Versions, NEW s \in Stats, Put(k, v, s)
    PROVE  IsCAS(blobs')
<1> DEFINE D == DOMAIN blobs \cup {k}
           g(j) == IF j = k THEN [facts |-> v, files |-> s, old |-> FALSE] ELSE blobs[j]
<1>1. blobs' = [j \in D |-> g(j)]
  BY DEF Put
<1>2. D \subseteq Keys
  BY DEF IsCAS
<1>3. \A j \in D : g(j) \in BlobRecord
  BY DEF IsCAS, BlobRecord
<1> HIDE DEF D, g
<1> QED BY <1>1, <1>2, <1>3 DEF IsCAS

\* So does the store at the end of a type check.
LEMMA StoreBlobType ==
    ASSUME IndexInv, NEW r \in Roots, NEW p \in Pkgs, NEW v \in Versions, NEW trust \in BOOLEAN, NEW k \in Keys,
           StoreBlob(r, p, v, trust, k)
    PROVE  IsCAS(blobs')
<1> DEFINE s == IF trust THEN disk[r][p].stat ELSE NoStat
<1>1. s \in Stats
  BY DEF IndexInv, Disks, Stats
<1>2. CASE v \in Broken
  BY <1>2 DEF StoreBlob, IndexInv, IsCAS
<1>3. CASE v \notin Broken
  <2>1. Put(k, v, s)
    BY <1>3 DEF StoreBlob
  <2> HIDE DEF s
  <2> QED BY <1>1, <2>1, PutType DEF IndexInv
<1> QED BY <1>2, <1>3

\* A write of a package's files changes that package alone, and its stat is one higher.
LEMMA WriteType ==
    ASSUME disk \in Disks, NEW r \in Roots, NEW p \in Pkgs, NEW v \in Versions, disk[r][p].stat[2] < MaxWrites,
           disk' = [disk EXCEPT ![r][p] = [ver |-> v, stat |-> <<r, @.stat[2] + 1>>]]
    PROVE  /\ disk' \in Disks
           /\ disk'[r][p] = [ver |-> v, stat |-> <<r, disk[r][p].stat[2] + 1>>]
           /\ disk[r][p].stat[2] \in Nat
           /\ \A s \in Roots, q \in Pkgs : (s # r \/ q # p) => disk'[s][q] = disk[s][q]
<1> DEFINE w == [ver |-> v, stat |-> <<r, disk[r][p].stat[2] + 1>>]
<1>1. disk \in [Roots -> [Pkgs -> [ver : Versions, stat : Stats]]]
  BY DEF Disks
<1>2. disk[r][p].stat[2] \in 0..MaxWrites
  <2>1. disk[r][p].stat \in Stats
    BY <1>1
  <2>2. MaxWrites \in Nat
    BY VersionsAssumption
  <2> QED BY <2>1, <2>2 DEF Stats, NoStat
<1>3. disk[r][p].stat[2] + 1 \in 0..MaxWrites
  BY <1>2, VersionsAssumption
<1>4. w \in [ver : Versions, stat : Stats] /\ w.stat[1] = r
  BY <1>3 DEF Stats
<1>5. disk' = [disk EXCEPT ![r] = [disk[r] EXCEPT ![p] = w]]
  BY <1>1
<1>6. disk' \in [Roots -> [Pkgs -> [ver : Versions, stat : Stats]]]
      /\ disk'[r][p] = w /\ \A s \in Roots, q \in Pkgs : (s # r \/ q # p) => disk'[s][q] = disk[s][q]
  <2> DEFINE R == [ver : Versions, stat : Stats]
             e == [disk[r] EXCEPT ![p] = w]
  <2>1. w \in R /\ disk \in [Roots -> [Pkgs -> R]]
    BY <1>1, <1>4
  <2> HIDE DEF w, R
  <2>2. e \in [Pkgs -> R] /\ e[p] = w /\ \A q \in Pkgs : q # p => e[q] = disk[r][q]
    BY <2>1
  <2>3. disk' = [disk EXCEPT ![r] = e]
    BY <1>5
  <2> HIDE DEF e
  <2>4. disk' \in [Roots -> [Pkgs -> R]] /\ disk'[r][p] = w
        /\ \A s \in Roots, q \in Pkgs : (s # r \/ q # p) => disk'[s][q] = disk[s][q]
    BY <2>1, <2>2, <2>3
  <2> QED BY <2>4 DEF R
<1>7. \A s \in Roots, q \in Pkgs : disk'[s][q].stat[1] = s
  BY <1>4, <1>6 DEF Disks
<1> HIDE DEF w
<1>8. disk' \in Disks
  BY <1>6, <1>7 DEF Disks
<1> QED BY <1>2, <1>6, <1>8 DEF w

\* Open leaves the stores well formed.
LEMMA OpenType ==
    ASSUME IndexInv, NEW r \in Roots, NEW who \in {"session", "indexer"}, NEW reg \in BOOLEAN, Open(r, who, reg)
    PROVE  /\ holder' \in [Roots -> Holders] /\ file' \in [Roots -> FileType]
           /\ units' \in [Roots -> Databases] /\ gc' \in GCType
<1>1. holder' \in [Roots -> Holders]
  BY DEF Open, IndexInv, Holders
<1>2. file' \in [Roots -> FileType]
  <2> DEFINE b == file[r].fp /\ file[r].state = "current"
             m == reg \/ (file[r].member /\ file[r].state = "current")
  <2>1. b \in BOOLEAN /\ m \in BOOLEAN
    OBVIOUS
  <2>2. file' = [file EXCEPT ![r] = [state |-> "current", fp |-> b, member |-> m]]
    BY DEF Open
  <2> HIDE DEF b, m
  <2> QED BY <2>1, <2>2 DEF IndexInv, FileType
<1>3. CASE Discarded(r)
  <2> DEFINE n == [p \in Pkgs |-> NoUnit]
  <2>1. PutUnitsBatch(r, n)
    BY <1>3 DEF Open
  <2>2. DOMAIN n \subseteq Pkgs /\ \A p \in DOMAIN n : n[p] = NoUnit \/ n[p] \in Pointers(p)
    OBVIOUS
  <2> HIDE DEF n
  <2> QED BY <1>1, <1>2, <2>1, <2>2, PutUnitsType
<1>4. CASE ~Discarded(r)
  BY <1>1, <1>2, <1>4 DEF Open, IndexInv
<1> QED BY <1>3, <1>4

\* So does Close.
LEMMA CloseType ==
    ASSUME IndexInv, NEW r \in Roots, Close(r)
    PROVE  holder' \in [Roots -> Holders]
  BY DEF Close, IndexInv, Holders

\* A collection that starts.
LEMMA RunGCType ==
    ASSUME IndexInv, NEW r \in Roots, NEW force \in BOOLEAN, RunCASGC(r, force)
    PROVE  gc' \in GCType
<1>1. PICK listed \in BOOLEAN :
         gc' = [GCIdle EXCEPT
                 !.pc = "mark", !.root = r, !.force = force,
                 !.marks = KeysOf(units[r]), !.bad = Unreadable(units[r]),
                 !.left = IF listed THEN Members \ {r} ELSE {},
                 !.pinned = {x \in (Members \cup {r}) \X DOMAIN blobs :
                               file[x[1]].state = "current" /\ x[2] \in KeysOf(units[x[1]])}]
  BY DEF RunCASGC
<1> DEFINE marks == KeysOf(units[r])
           bad == Unreadable(units[r])
           left == IF listed THEN Members \ {r} ELSE {}
           pinned == {x \in (Members \cup {r}) \X DOMAIN blobs : file[x[1]].state = "current" /\ x[2] \in KeysOf(units[x[1]])}
<1>2. marks \subseteq Keys
  BY KeysOfType DEF IndexInv
<1>3. bad \in BOOLEAN
  BY DEF Unreadable
<1>4. left \subseteq Roots
  BY DEF Members
<1>5. pinned \subseteq Roots \X Keys
  BY DEF Members, IndexInv, IsCAS
<1>6. gc' = [GCIdle EXCEPT !.pc = "mark", !.root = r, !.force = force, !.marks = marks, !.bad = bad,
                           !.left = left, !.pinned = pinned]
  BY <1>1
<1> HIDE DEF marks, bad, left, pinned
<1> QED BY <1>2, <1>3, <1>4, <1>5, <1>6, GCIdleType DEF GCType

-----------------------------------------------------------------------------
\* The invariant holds initially.
LEMMA InitInv == ASSUME Init PROVE IndexInv
<1>1. PICK l \in Loads : /\ disk = l.disk /\ blobs = l.blobs /\ units = l.units /\ file = l.file
                         /\ holder = l.holder /\ stamp = l.stamp /\ budget = l.budget
  BY DEF Init
<1>2. /\ disk \in Disks /\ units \in [Roots -> Databases] /\ IsCAS(blobs)
      /\ file \in [Roots -> FileType] /\ holder \in [Roots -> Holders] /\ stamp \in BOOLEAN
  BY <1>1, LoadsAssumption DEF FileType, Holders
<1>3. gc \in GCType
  BY GCIdleType DEF Init
<1>4. text \in [Pkgs -> Versions \cup {NotOpen}]
  BY DEF Init
<1>5. build \in [Roots -> BuildOK] /\ call \in [Calls -> CallOK]
  BY BuildIdleOK, CallIdleOK DEF Init
<1>6. decoded \in DecodeType /\ gens \in GensType /\ repair \in RepairType
  BY DEF Init, DecodeType, GensType, RepairType, NoDecodes, NoKeys
<1> QED BY <1>2, <1>3, <1>4, <1>5, <1>6 DEF IndexInv

\* collectOtherCASMarks preserves IndexInv.
LEMMA MarkInv ==
    ASSUME IndexInv, NEW s \in Roots, collectOtherCASMarks(s), UNCHANGED idxVars
    PROVE  IndexInv'
<1> DEFINE bad == gc.bad \/ holder[s] # "none" \/ (Readable(s) /\ Unreadable(units[s]))
           marks == IF holder[s] = "none" /\ Readable(s) THEN gc.marks \cup KeysOf(units[s]) ELSE gc.marks
           left == gc.left \ {s}
<1>1. gc \in GCType /\ units[s] \in Databases
  BY DEF IndexInv
<1>2. gc' = [gc EXCEPT !.left = left, !.bad = bad, !.marks = marks]
  BY DEF collectOtherCASMarks
<1>3. bad \in BOOLEAN
  BY <1>1 DEF GCType
<1>4. marks \subseteq Keys /\ left \subseteq Roots
  BY <1>1, KeysOfType DEF GCType
<1> HIDE DEF bad, marks, left
<1>5. gc' \in GCType
  BY <1>1, <1>2, <1>3, <1>4 DEF GCType
<1> QED BY <1>5 DEF IndexInv, collectOtherCASMarks, idxVars

\* MaybeGC preserves IndexInv.
LEMMA MaybeGCInv ==
    ASSUME IndexInv, MaybeGC, UNCHANGED idxVars
    PROVE  IndexInv'
<1>1. gc \in GCType /\ DOMAIN blobs \subseteq Keys
  BY DEF IndexInv, IsCAS
<1>2. gc' \in GCType
  <2>1. gc' = [gc EXCEPT !.pc = "sweep", !.todo = DOMAIN blobs] \/ gc' = GCIdle
    BY DEF MaybeGC
  <2> QED BY <1>1, <2>1, GCIdleType DEF GCType
<1>3. stamp' \in BOOLEAN
  BY DEF MaybeGC, IndexInv
<1> QED BY <1>2, <1>3 DEF IndexInv, MaybeGC, idxVars

\* sweep preserves IndexInv.
LEMMA SweepInv ==
    ASSUME IndexInv, NEW k \in gc.todo, sweep(k), UNCHANGED idxVars
    PROVE  IndexInv'
<1> DEFINE v == IF Has(k) /\ blobs[k].old /\ k \notin gc.marks THEN k ELSE NoKey
           todo == gc.todo \ {k}
<1>1. gc \in GCType
  BY DEF IndexInv
<1>2. gc' = [gc EXCEPT !.todo = todo, !.victim = v]
  BY DEF sweep
<1>3. v \in Keys \cup {NoKey} /\ todo \subseteq Keys
  BY <1>1 DEF GCType
<1> HIDE DEF v, todo
<1>4. gc' \in GCType
  BY <1>1, <1>2, <1>3 DEF GCType
<1> QED BY <1>4 DEF IndexInv, sweep, idxVars

\* sweepRemove preserves IndexInv.
LEMMA SweepRemoveInv ==
    ASSUME IndexInv, sweepRemove, UNCHANGED idxVars
    PROVE  IndexInv'
<1>1. gc' \in GCType
  BY DEF IndexInv, sweepRemove, GCType
<1>2. IsCAS(blobs')
  <2> DEFINE D == DOMAIN blobs \ {gc.victim}
  <2>1. blobs' = [k \in D |-> blobs[k]]
    BY DEF sweepRemove
  <2>2. D \subseteq Keys /\ \A k \in D : blobs[k] \in BlobRecord
    BY DEF IndexInv, IsCAS
  <2> HIDE DEF D
  <2> QED BY <2>1, <2>2 DEF IsCAS
<1> QED BY <1>1, <1>2 DEF IndexInv, sweepRemove, idxVars

\* sweepDone preserves IndexInv.
LEMMA SweepDoneInv ==
    ASSUME IndexInv, sweepDone, UNCHANGED idxVars
    PROVE  IndexInv'
  BY GCIdleType DEF IndexInv, sweepDone, idxVars

\* A disturbed pass is still a pass.
LEMMA DisturbedType ==
    ASSUME IndexInv
    PROVE  Disturbed \in RepairType
  BY DEF IndexInv, RepairType, Disturbed

\* The start of a Build preserves IndexInv.
LEMMA BuildStartInv ==
    ASSUME IndexInv, NEW r \in Roots, Build(r)
    PROVE  IndexInv'
<1>1. PICK reg \in BOOLEAN :
         /\ Open(r, "indexer", reg) /\ build' = [build EXCEPT ![r] = newScheduler(r)] /\ repair' = Disturbed
         /\ UNCHANGED <<disk, blobs, stamp, text, call, decoded, gens>>
  BY DEF Build
<1>2. build' \in [Roots -> BuildOK]
  BY <1>1, NewSchedulerOK DEF IndexInv
<1> QED BY <1>1, <1>2, OpenType, DisturbedType DEF IndexInv

\* buildResults.record and the deferred finish leave the Build and the database in order.
LEMMA RecordJobInv ==
    ASSUME IndexInv, NEW r \in Roots, NEW p \in Pkgs, NEW res, build[r].st[p] \in {"ready", "check"},
           Outcome(build[r].keys, p, res), recordJob(r, p, res)
    PROVE  build' \in [Roots -> BuildOK] /\ units' \in [Roots -> Databases] /\ gc' \in GCType
<1> DEFINE o == build[r]
           b == [build[r] EXCEPT !.keys[p] = res.api]
           batch == IF res.unit = NoUnit THEN b.batch
                    ELSE [q \in DOMAIN b.batch \cup {p} |-> IF q = p THEN res.unit ELSE b.batch[q]]
           full == Cardinality(DOMAIN batch) >= BatchSize
           left == IF full THEN EmptyBatch ELSE batch
           keys == [o.keys EXCEPT ![p] = res.api]
<1>0. o \in BuildRecord /\ BuildInv(o) /\ o.st[p] \in {"ready", "check"}
  BY DEF IndexInv, BuildOK
<1>1. o.keys \in KeyTable /\ res.api \in Apis \cup {Unset, Failed}
  BY <1>0 DEF BuildRecord, Outcome
<1>2. keys \in KeyTable
  BY <1>1 DEF KeyTable
<1>3. b = [o EXCEPT !.keys = keys] /\ b.batch = o.batch
  BY <1>0 DEF BuildRecord
<1>4. batch = Joined(o, p, res.unit)
  BY <1>3 DEF Joined
<1>5. batch \in Batches /\ \A q \in DOMAIN batch : (q = p \/ o.st[q] = "done") /\ Proper(o.keys, q, batch[q])
  BY <1>0, <1>4, JoinedOK DEF Outcome
<1>6. left \in Batches /\ \A q \in DOMAIN left : (q = p \/ o.st[q] = "done") /\ Proper(o.keys, q, left[q])
  <2> HIDE DEF batch
  <2> QED BY <1>5, EmptyBatchType
<1>7. [b EXCEPT !.batch = left] = [o EXCEPT !.keys = keys, !.batch = left]
  BY <1>3
<1>8. /\ build' = [build EXCEPT ![r] = finish([b EXCEPT !.batch = left], p)]
      /\ \/ PutUnitsBatch(r, batch)
         \/ UNCHANGED <<units, gc>>
  BY DEF recordJob
<1> HIDE DEF b, batch, full, left, keys, o
<1>9. finish([o EXCEPT !.keys = keys, !.batch = left], p) \in BuildOK
  BY <1>0, <1>1, <1>2, <1>6, FinishOK DEF keys
<1>10. build' \in [Roots -> BuildOK]
  BY <1>7, <1>8, <1>9 DEF IndexInv
<1>11. CASE PutUnitsBatch(r, batch)
  <2>1. DOMAIN batch \subseteq Pkgs /\ \A q \in DOMAIN batch : batch[q] = NoUnit \/ batch[q] \in Pointers(q)
    BY <1>5, BatchParts
  <2> QED BY <1>10, <1>11, <2>1, PutUnitsType
<1>12. CASE UNCHANGED <<units, gc>>
  BY <1>10, <1>12 DEF IndexInv
<1> QED BY <1>8, <1>11, <1>12

\* A job that goes on to its type check leaves the Build in order.
LEMMA ResolveInBuild ==
    ASSUME NEW b \in BuildOK, NEW p \in Pkgs, b.st[p] = "ready", NEW k, NEW own \in Versions,
           InCheck(b.keys, p, k, own)
    PROVE  [b EXCEPT !.st = [b.st EXCEPT ![p] = "check"], !.key = [b.key EXCEPT ![p] = k],
                     !.own = [b.own EXCEPT ![p] = own]] \in BuildOK
<1> DEFINE st == [b.st EXCEPT ![p] = "check"]
           key == [b.key EXCEPT ![p] = k]
           ow == [b.own EXCEPT ![p] = own]
           n == [b EXCEPT !.st = st, !.key = key, !.own = ow]
<1>0. b \in BuildRecord /\ BuildInv(b)
  BY DEF BuildOK
<1>1. /\ st \in [Pkgs -> {"wait", "ready", "check", "done"}] /\ key \in [Pkgs -> Keys \cup {NoKey}]
      /\ ow \in [Pkgs -> Versions]
  BY <1>0 DEF BuildRecord, InCheck
<1>2. /\ st[p] = "check" /\ key[p] = k /\ ow[p] = own
      /\ \A q \in Pkgs : q # p => st[q] = b.st[q] /\ key[q] = b.key[q] /\ ow[q] = b.own[q]
  BY <1>0 DEF BuildRecord
<1> HIDE DEF st, key, ow
<1>3. n \in BuildRecord /\ n.st = st /\ n.key = key /\ n.own = ow /\ n.pend = b.pend /\ n.keys = b.keys
      /\ n.batch = b.batch
  BY <1>0, <1>1 DEF BuildRecord
<1> HIDE DEF n
<1>4. \A q \in Pkgs : Unfinished(st, q) = Unfinished(b.st, q)
  <2> SUFFICES ASSUME NEW q \in Pkgs, NEW d \in directDepImports(q) PROVE (st[d] = "done") <=> (b.st[d] = "done")
    BY DEF Unfinished
  <2>1. d \in Pkgs
    BY DepsType
  <2> QED BY <1>2, <2>1
<1>5. Scheduled(n)
  BY <1>0, <1>2, <1>3, <1>4 DEF Scheduled, BuildInv
<1>6. \A q \in Pkgs : n.st[q] = "check" => InCheck(n.keys, q, n.key[q], n.own[q])
  BY <1>0, <1>2, <1>3 DEF BuildInv
<1>7. \A q \in DOMAIN n.batch : n.st[q] = "done" /\ Proper(n.keys, q, n.batch[q])
  <2>1. b.batch \in Batches
    BY <1>0 DEF BuildRecord
  <2>2. DOMAIN b.batch \subseteq Pkgs
    BY <2>1, BatchParts
  <2> QED BY <1>0, <1>2, <1>3, <2>2 DEF BuildInv
<1>8. n \in BuildOK
  BY <1>3, <1>5, <1>6, <1>7 DEF BuildOK, BuildInv
<1> QED BY <1>8 DEF n, st, key, ow

\* runBuildJob preserves IndexInv.
LEMMA RunBuildJobInv ==
    ASSUME IndexInv, NEW r \in Roots, NEW p \in Pkgs, runBuildJob(r, p)
    PROVE  IndexInv'
<1> DEFINE b == build[r]
           res == processUnit(r, p, disk[r][p].ver, TRUE, b.keys)
<1>1. b \in BuildOK /\ b \in BuildRecord /\ b.keys \in KeyTable /\ b.st[p] = "ready"
  BY DEF IndexInv, BuildOK, BuildRecord, runBuildJob
<1>2. disk[r][p].ver \in Versions /\ units[r] \in Databases
  BY DEF IndexInv, Disks
<1>3. Outcome(b.keys, p, res)
  BY <1>1, <1>2, ResolveOutcome DEF IndexInv
<1>4. /\ IF res.kind = "check"
         THEN /\ build' = [build EXCEPT ![r].st[p] = "check", ![r].key[p] = res.key, ![r].own[p] = res.own]
              /\ UNCHANGED <<units, gc, budget>>
         ELSE recordJob(r, p, res)
      /\ UNCHANGED <<disk, blobs, file, holder, stamp, text, call, decoded, gens, repair>>
  BY DEF runBuildJob
<1>5. build' \in [Roots -> BuildOK] /\ units' \in [Roots -> Databases] /\ gc' \in GCType
  <2> HIDE DEF res
  <2>1. CASE res.kind = "check"
    <3> DEFINE n == [b EXCEPT !.st = [b.st EXCEPT ![p] = "check"], !.key = [b.key EXCEPT ![p] = res.key],
                              !.own = [b.own EXCEPT ![p] = res.own]]
    <3>1. build' = [build EXCEPT ![r] = n]
      BY <1>1, <1>4, <2>1 DEF IndexInv, BuildRecord
    <3>2. res.own \in Versions /\ InCheck(b.keys, p, res.key, res.own)
      BY <1>3, <2>1 DEF Outcome
    <3> HIDE DEF b
    <3>3. n \in BuildOK
      BY <1>1, <3>2, ResolveInBuild
    <3> HIDE DEF n
    <3> QED BY <1>4, <2>1, <3>1, <3>3 DEF IndexInv
  <2>2. CASE res.kind # "check"
    BY <1>1, <1>3, <1>4, <2>2, RecordJobInv
  <2> QED BY <2>1, <2>2
<1> QED BY <1>4, <1>5 DEF IndexInv

\* finishBuildJob preserves IndexInv.
LEMMA FinishBuildJobInv ==
    ASSUME IndexInv, NEW r \in Roots, NEW p \in Pkgs, finishBuildJob(r, p)
    PROVE  IndexInv'
<1> DEFINE b == build[r]
<1>0. PICK ver \in parseGoFiles(disk[r][p].ver) :
         /\ StoreBlob(r, p, ver, TRUE, b.key[p])
         /\ recordJob(r, p, checkAndStoreOutcome(r, p, ver, TRUE, b.key[p], b.own[p]))
  BY DEF finishBuildJob
<1> DEFINE res == checkAndStoreOutcome(r, p, ver, TRUE, b.key[p], b.own[p])
<1>1. b \in BuildRecord /\ BuildInv(b) /\ b.keys \in KeyTable /\ b.st[p] = "check" /\ b.own[p] \in Versions
  BY DEF IndexInv, BuildOK, BuildRecord, finishBuildJob
<1>2. ver \in Versions
  BY <1>0 DEF IndexInv, Disks, parseGoFiles
<1>3. InCheck(b.keys, p, b.key[p], b.own[p]) /\ b.key[p] \in Keys
  BY <1>1 DEF BuildInv, InCheck
<1>4. Outcome(b.keys, p, res)
  BY <1>1, <1>2, <1>3, CheckOutcome DEF IndexInv
<1>5. /\ StoreBlob(r, p, ver, TRUE, b.key[p]) /\ recordJob(r, p, res)
      /\ UNCHANGED <<disk, file, holder, stamp, text, call, decoded, gens, repair>>
  BY <1>0 DEF finishBuildJob
<1> HIDE DEF res
<1>6. IsCAS(blobs')
  BY <1>2, <1>3, <1>5, StoreBlobType
<1>7. build' \in [Roots -> BuildOK] /\ units' \in [Roots -> Databases] /\ gc' \in GCType
  BY <1>1, <1>4, <1>5, RecordJobInv
<1> QED BY <1>5, <1>6, <1>7 DEF IndexInv

\* cancelBuild preserves IndexInv.
LEMMA CancelBuildInv ==
    ASSUME IndexInv, NEW r \in Roots, cancelBuild(r)
    PROVE  IndexInv'
<1> DEFINE b == build[r]
           n == [b EXCEPT !.pc = b.pc, !.recreated = b.recreated, !.canceled = TRUE, !.fatal = b.fatal]
<1>1. b \in BuildOK /\ b \in BuildRecord
  BY DEF IndexInv, BuildOK
<1>2. b.pc \in {"idle", "run", "gc", "close"} /\ b.recreated \in BOOLEAN /\ b.fatal \in BOOLEAN
  BY <1>1 DEF BuildRecord
<1>3. n \in BuildOK
  BY <1>1, <1>2, RelabelOK
<1>4. [b EXCEPT !.canceled = TRUE] = n
  BY <1>1 DEF BuildRecord
<1>5. build' = [build EXCEPT ![r] = n]
  BY <1>4 DEF cancelBuild
<1> HIDE DEF n
<1>6. build' \in [Roots -> BuildOK]
  BY <1>3, <1>5 DEF IndexInv
<1> QED BY <1>6 DEF IndexInv, cancelBuild, storeVars

\* recordFatal preserves IndexInv.
LEMMA RecordFatalInv ==
    ASSUME IndexInv, NEW r \in Roots, NEW p \in Pkgs, recordFatal(r, p)
    PROVE  IndexInv'
<1> DEFINE b == build[r]
           f == finish(b, p)
           n == [f EXCEPT !.pc = f.pc, !.recreated = f.recreated, !.canceled = f.canceled, !.fatal = TRUE]
<1>1. b \in BuildRecord /\ BuildInv(b) /\ b.st[p] \in {"ready", "check"} /\ b.keys \in KeyTable /\ b.batch \in Batches
  BY DEF IndexInv, BuildOK, BuildRecord, recordFatal
<1>2. \A q \in DOMAIN b.batch : (q = p \/ b.st[q] = "done") /\ Proper(b.keys, q, b.batch[q])
  BY <1>1 DEF BuildInv
<1>3. finish([b EXCEPT !.keys = b.keys, !.batch = b.batch], p) \in BuildOK
  <2> HIDE DEF b
  <2>1. Failed \in Apis \cup {Unset, Failed}
    OBVIOUS
  <2> QED BY <1>1, <1>2, <2>1, FinishOK
<1>4. [b EXCEPT !.keys = b.keys, !.batch = b.batch] = b
  BY <1>1 DEF BuildRecord
<1>5. f \in BuildOK /\ f \in BuildRecord
  BY <1>3, <1>4 DEF BuildOK
<1> HIDE DEF f
<1>6. f.pc \in {"idle", "run", "gc", "close"} /\ f.recreated \in BOOLEAN /\ f.canceled \in BOOLEAN
  BY <1>5 DEF BuildRecord
<1>7. n \in BuildOK
  BY <1>5, <1>6, RelabelOK
<1>8. [f EXCEPT !.fatal = TRUE] = n
  BY <1>5 DEF BuildRecord
<1>9. build' = [build EXCEPT ![r] = n]
  BY <1>8 DEF recordFatal, f
<1> HIDE DEF n
<1>10. build' \in [Roots -> BuildOK]
  BY <1>7, <1>9 DEF IndexInv
<1> QED BY <1>10 DEF IndexInv, recordFatal, storeVars

\* endBuild preserves IndexInv.
LEMMA EndBuildInv ==
    ASSUME IndexInv, NEW r \in Roots, endBuild(r)
    PROVE  IndexInv'
<1> DEFINE b == build[r]
           pc == IF b.fatal THEN "close" ELSE "gc"
           n == [BuildIdle EXCEPT !.pc = pc, !.recreated = b.recreated, !.canceled = BuildIdle.canceled,
                                  !.fatal = BuildIdle.fatal]
<1>1. b \in BuildRecord /\ BuildInv(b) /\ b.batch \in Batches /\ b.recreated \in BOOLEAN /\ b.fatal \in BOOLEAN
  BY DEF IndexInv, BuildOK, BuildRecord
<1>2. pc \in {"idle", "run", "gc", "close"}
  OBVIOUS
<1>3. BuildIdle \in BuildOK /\ BuildIdle \in BuildRecord
  BY BuildIdleOK DEF BuildOK
<1>4. BuildIdle.canceled \in BOOLEAN /\ BuildIdle.fatal \in BOOLEAN
  BY <1>3 DEF BuildRecord
<1>5. /\ PutUnitsBatch(r, b.batch) \/ UNCHANGED <<units, gc>>
      /\ file' = [file EXCEPT ![r].fp = @ \/ ~b.fatal]
      /\ build' = [build EXCEPT ![r] = [BuildIdle EXCEPT !.pc = pc, !.recreated = b.recreated]]
      /\ UNCHANGED <<disk, blobs, holder, stamp, text, call, decoded, gens, repair>>
  BY DEF endBuild
<1> DEFINE rec == b.recreated
           fat == b.fatal
           bat == b.batch
<1>6. [BuildIdle EXCEPT !.pc = pc, !.recreated = rec] = n
  <2> HIDE DEF pc, rec
  <2> QED BY <1>3 DEF BuildRecord, rec
<1>7. n \in BuildOK
  <2> HIDE DEF pc
  <2> QED BY <1>1, <1>2, <1>3, <1>4, RelabelOK
<1> HIDE DEF n, pc
<1>8. build' \in [Roots -> BuildOK]
  BY <1>5, <1>6, <1>7 DEF IndexInv
<1>9. file' \in [Roots -> FileType]
  <2> DEFINE fp == file[r].fp \/ ~fat
  <2>1. file' = [file EXCEPT ![r].fp = fp] /\ file \in [Roots -> FileType]
    BY <1>5 DEF IndexInv
  <2>2. fp \in BOOLEAN
    BY <1>1 DEF IndexInv, FileType
  <2> HIDE DEF fp
  <2> QED BY <2>1, <2>2 DEF FileType
<1>10. units' \in [Roots -> Databases] /\ gc' \in GCType
  <2>1. CASE PutUnitsBatch(r, bat)
    <3>1. DOMAIN bat \subseteq Pkgs /\ \A q \in DOMAIN bat : bat[q] = NoUnit \/ bat[q] \in Pointers(q)
      BY <1>1, BatchParts
    <3> HIDE DEF bat
    <3> QED BY <2>1, <3>1, PutUnitsType
  <2>2. CASE UNCHANGED <<units, gc>>
    BY <2>2 DEF IndexInv
  <2> QED BY <1>5, <2>1, <2>2
<1> QED BY <1>5, <1>8, <1>9, <1>10 DEF IndexInv

\* collectAfterBuild preserves IndexInv.
LEMMA CollectAfterBuildInv ==
    ASSUME IndexInv, NEW r \in Roots, collectAfterBuild(r)
    PROVE  IndexInv'
<1> DEFINE b == build[r]
           n == [b EXCEPT !.pc = "close", !.recreated = b.recreated, !.canceled = b.canceled, !.fatal = b.fatal]
<1>1. b \in BuildOK /\ b \in BuildRecord
  BY DEF IndexInv, BuildOK
<1>2. b.recreated \in BOOLEAN /\ b.fatal \in BOOLEAN /\ b.canceled \in BOOLEAN
  BY <1>1 DEF BuildRecord
<1>3. n \in BuildOK
  BY <1>1, <1>2, RelabelOK
<1>4. [b EXCEPT !.pc = "close"] = n
  BY <1>1 DEF BuildRecord
<1>5. build' = [build EXCEPT ![r] = n] /\ RunCASGC(r, b.recreated) /\ UNCHANGED <<text, call, decoded, gens, repair, budget>>
  BY <1>4 DEF collectAfterBuild
<1> HIDE DEF n
<1>6. build' \in [Roots -> BuildOK]
  BY <1>3, <1>5 DEF IndexInv
<1>7. gc' \in GCType
  BY <1>2, <1>5, RunGCType
<1> QED BY <1>5, <1>6, <1>7 DEF IndexInv, RunCASGC

\* exitIndexer preserves IndexInv.
LEMMA ExitIndexerInv ==
    ASSUME IndexInv, NEW r \in Roots, exitIndexer(r)
    PROVE  IndexInv'
<1>1. build' \in [Roots -> BuildOK]
  BY BuildIdleOK DEF IndexInv, exitIndexer
<1>2. holder' \in [Roots -> Holders]
  BY CloseType DEF exitIndexer
<1> QED BY <1>1, <1>2 DEF IndexInv, exitIndexer

\* killIndexer preserves IndexInv.
LEMMA KillIndexerInv ==
    ASSUME IndexInv, NEW r \in Roots, killIndexer(r)
    PROVE  IndexInv'
<1>1. build' \in [Roots -> BuildOK]
  BY BuildIdleOK DEF IndexInv, killIndexer
<1>2. holder' \in [Roots -> Holders]
  BY CloseType DEF killIndexer
<1>3. gc' \in GCType
  BY GCIdleType DEF IndexInv, killIndexer
<1> QED BY <1>1, <1>2, <1>3 DEF IndexInv, killIndexer

\* openSession preserves IndexInv.
LEMMA OpenSessionInv ==
    ASSUME IndexInv, openSession
    PROVE  IndexInv'
<1>1. Open(Live, "session", FALSE) /\ repair' = Disturbed /\ UNCHANGED <<disk, blobs, stamp, text, build, call, budget>>
  BY DEF openSession
<1>2. gens' \in GensType /\ decoded' \in DecodeType
  BY DEF openSession, GensType, DecodeType, NoDecodes, NoKeys
<1> QED BY <1>1, <1>2, OpenType, DisturbedType, LiveAssumption DEF IndexInv

\* closeSession preserves IndexInv.
LEMMA CloseSessionInv ==
    ASSUME IndexInv, closeSession
    PROVE  IndexInv'
<1>1. holder' \in [Roots -> Holders]
  BY CloseType, LiveAssumption DEF closeSession
<1>2. repair' \in RepairType
  BY DEF closeSession, RepairType
<1> QED BY <1>1, <1>2 DEF IndexInv, closeSession

\* runStartupCASGC preserves IndexInv.
LEMMA StartupGCInv ==
    ASSUME IndexInv, runStartupCASGC
    PROVE  IndexInv'
<1>1. RunCASGC(Live, FALSE) /\ repair' = Disturbed /\ UNCHANGED <<text, build, call, decoded, gens>>
  BY DEF runStartupCASGC
<1>2. gc' \in GCType
  BY <1>1, RunGCType, LiveAssumption
<1> QED BY <1>1, <1>2, DisturbedType DEF IndexInv, RunCASGC

\* The start of a call preserves IndexInv.
LEMMA StartInv ==
    ASSUME IndexInv, NEW c \in Calls, NEW p \in Pkgs, Start(c, p)
    PROVE  gens' \in GensType /\ call' \in [Calls -> CallOK]
<1>1. gens \in GensType /\ gens.next \in Nat
  BY DEF IndexInv, GensType
<1> DEFINE g == gens.next + 1
           n == [CallIdle EXCEPT !.pc = "resolve", !.gen = g, !.first = p, !.todo = <<p>> \o orderedReverseClosure(p)]
<1>2. n \in CallOK
  <2>1. g \in Nat
    BY <1>1
  <2> HIDE DEF g
  <2> QED BY <2>1, StartedOK
<1>3. call' = [call EXCEPT ![c] = n] /\ gens' = [gens EXCEPT !.next = gens.next + 1]
  BY DEF Start
<1>4. gens' \in GensType
  BY <1>1, <1>3 DEF GensType
<1> HIDE DEF n
<1> QED BY <1>2, <1>3, <1>4 DEF IndexInv

\* Reindex preserves IndexInv.
LEMMA ReindexInv ==
    ASSUME IndexInv, NEW c \in Calls, NEW p \in Pkgs, Reindex(c, p)
    PROVE  IndexInv'
<1>1. Start(c, p) /\ repair' = Disturbed /\ UNCHANGED <<storeVars, text, build, decoded>>
  BY DEF Reindex
<1> QED BY <1>1, StartInv, DisturbedType DEF IndexInv, storeVars

\* What is known of a call that works on a package.
LEMMA CallParts ==
    ASSUME IndexInv, NEW c \in Calls, call[c].pc \in {"resolve", "check", "gate", "put"}
    PROVE  /\ call[c] \in CallOK /\ call[c] \in CallType /\ CallInv(call[c])
           /\ call[c].todo # <<>> /\ Head(call[c].todo) \in Pkgs /\ call[c].keys \in KeyTable
           /\ call[c].own \in Versions
<1>1. call[c] \in CallOK /\ call[c] \in CallType /\ CallInv(call[c])
  BY DEF IndexInv, CallOK
<1>2. call[c].todo # <<>>
  BY <1>1 DEF CallInv
<1> QED BY <1>1, <1>2, HeadType DEF CallType, KeyTable

\* What a call reads.
LEMMA ReadByType ==
    ASSUME IndexInv, NEW c \in Calls, call[c].pc \in {"resolve", "check"}
    PROVE  ReadBy(c) \in Versions /\ TrustStat(c) \in BOOLEAN
<1>1. \A p \in Pkgs : disk[Live][p].ver \in Versions
  BY LiveAssumption DEF IndexInv, Disks
<1>2. \A p \in Pkgs : ReadFile(p) \in Versions
  BY <1>1 DEF IndexInv, ReadFile
<1> QED BY <1>1, <1>2, CallParts DEF ReadBy, TrustStat

\* reindexOne preserves IndexInv.
LEMMA ReindexOneInv ==
    ASSUME IndexInv, NEW c \in Calls, reindexOne(c)
    PROVE  IndexInv'
<1> DEFINE cl == call[c]
           res == processUnit(Live, Head(cl.todo), ReadBy(c), TrustStat(c), cl.keys)
<1>1. cl.pc = "resolve" /\ call' = [call EXCEPT ![c] = afterResolve(cl, res)]
      /\ UNCHANGED <<storeVars, text, build, decoded, gens, repair, budget>>
  BY DEF reindexOne
<1>2. cl \in CallOK /\ Head(cl.todo) \in Pkgs /\ cl.keys \in KeyTable
  BY <1>1, CallParts
<1>3. Outcome(cl.keys, Head(cl.todo), res)
  BY <1>1, <1>2, ReadByType, ResolveOutcome, LiveAssumption DEF IndexInv
<1> HIDE DEF res
<1>4. afterResolve(cl, res) \in CallOK
  BY <1>1, <1>2, <1>3, AfterResolveOK
<1>5. call' \in [Calls -> CallOK]
  BY <1>1, <1>4 DEF IndexInv
<1> QED BY <1>1, <1>5 DEF IndexInv, storeVars

\* reindexCheck preserves IndexInv.
LEMMA ReindexCheckInv ==
    ASSUME IndexInv, NEW c \in Calls, reindexCheck(c)
    PROVE  IndexInv'
<1> DEFINE cl == call[c]
           p == Head(cl.todo)
<1>0. PICK ver \in parseGoFiles(ReadBy(c)) :
         /\ StoreBlob(Live, p, ver, TrustStat(c), cl.key)
         /\ call' = [call EXCEPT ![c] = afterResolve(cl, checkAndStoreOutcome(Live, p, ver, TrustStat(c), cl.key, cl.own))]
  BY DEF reindexCheck
<1> DEFINE res == checkAndStoreOutcome(Live, p, ver, TrustStat(c), cl.key, cl.own)
<1>1. cl.pc = "check" /\ call' = [call EXCEPT ![c] = afterResolve(cl, res)]
      /\ StoreBlob(Live, p, ver, TrustStat(c), cl.key)
      /\ UNCHANGED <<disk, units, file, holder, stamp, gc, text, build, decoded, gens, repair, budget>>
  BY <1>0 DEF reindexCheck
<1>a. ver \in Versions /\ TrustStat(c) \in BOOLEAN
  BY <1>0, <1>1, ReadByType DEF parseGoFiles
<1>2. cl \in CallOK /\ CallInv(cl) /\ p \in Pkgs /\ cl.keys \in KeyTable /\ cl.own \in Versions
  BY <1>1, CallParts
<1>3. InCheck(cl.keys, p, cl.key, cl.own) /\ cl.key \in Keys
  BY <1>1, <1>2 DEF CallInv, InCheck
<1>4. Outcome(cl.keys, p, res)
  BY <1>1, <1>2, <1>3, <1>a, CheckOutcome, LiveAssumption DEF IndexInv
<1> HIDE DEF res
<1>5. afterResolve(cl, res) \in CallOK
  BY <1>1, <1>2, <1>4, AfterResolveOK
<1>6. call' \in [Calls -> CallOK]
  BY <1>1, <1>5 DEF IndexInv
<1>7. IsCAS(blobs')
  BY <1>1, <1>2, <1>3, <1>a, StoreBlobType, LiveAssumption
<1> QED BY <1>1, <1>6, <1>7 DEF IndexInv

\* tryCommit preserves IndexInv.
LEMMA TryCommitInv ==
    ASSUME IndexInv, NEW c \in Calls, tryCommit(c)
    PROVE  IndexInv'
<1> DEFINE cl == call[c]
           p == Head(cl.todo)
           ok == cl.gen >= gens.done[p]
           n == [cl EXCEPT !.pc = "put"]
<1>1. cl.pc = "gate" /\ UNCHANGED <<storeVars, text, build, repair, budget, decoded>>
      /\ gens' = (IF ok THEN [gens EXCEPT !.done[p] = cl.gen] ELSE gens)
      /\ call' = [call EXCEPT ![c] = IF ok THEN n ELSE Next1(cl)]
  BY DEF tryCommit
<1>2. cl \in CallType /\ CallInv(cl) /\ cl.todo # <<>> /\ p \in Pkgs /\ cl.gen \in Nat
  BY <1>1, CallParts DEF CallType
<1>3. n \in CallOK
  <2>1. n \in CallType /\ n.pc = "put" /\ n.todo = cl.todo /\ n.key = cl.key /\ n.keys = cl.keys
        /\ n.own = cl.own /\ n.unit = cl.unit
    BY <1>2 DEF CallType
  <2> HIDE DEF n
  <2>2. CallInv(n)
    BY <1>1, <1>2, <2>1 DEF CallInv
  <2> QED BY <2>1, <2>2 DEF CallOK
<1>4. Next1(cl) \in CallOK
  BY <1>2, Next1OK
<1> HIDE DEF n, ok
<1>5. call' \in [Calls -> CallOK]
  BY <1>1, <1>3, <1>4 DEF IndexInv
<1>6. gens' \in GensType
  <2> DEFINE g == cl.gen
  <2> HIDE DEF p, g
  <2>1. gens' = [gens EXCEPT !.done[p] = g] \/ gens' = gens
    BY <1>1 DEF g
  <2>2. g \in Nat /\ p \in Pkgs
    BY <1>2 DEF g
  <2>3. gens \in [next : Nat, done : [Pkgs -> Nat], wrote : [Pkgs -> Nat]]
    BY DEF IndexInv, GensType
  <2>4. gens' \in [next : Nat, done : [Pkgs -> Nat], wrote : [Pkgs -> Nat]]
    BY ONLY <2>1, <2>2, <2>3
  <2> QED BY <2>4 DEF GensType
<1> QED BY <1>1, <1>5, <1>6 DEF IndexInv, storeVars

\* PutUnit preserves IndexInv.
LEMMA PutUnitInv ==
    ASSUME IndexInv, NEW c \in Calls, PutUnit(c)
    PROVE  IndexInv'
<1> DEFINE cl == call[c]
           p == Head(cl.todo)
           new == [q \in {p} |-> cl.unit]
<1>1. cl.pc = "put" /\ UNCHANGED <<disk, blobs, file, holder, stamp, text, build>>
  BY DEF PutUnit
<1>2. cl \in CallType /\ CallInv(cl) /\ cl.todo # <<>> /\ p \in Pkgs /\ cl.gen \in Nat
  BY <1>1, CallParts DEF CallType
<1>3. cl.unit \in Pointers(p)
  BY <1>1, <1>2 DEF CallInv, Proper
<1>4. Next1(cl) \in CallOK /\ Abort(cl) \in CallOK
  BY <1>2, Next1OK, AbortOK
<1>5. CASE /\ PutUnitsBatch(Live, new)
           /\ call' = [call EXCEPT ![c] = Next1(cl)]
           /\ gens' = [gens EXCEPT !.wrote[p] = cl.gen]
           /\ decoded' = [decoded EXCEPT !.skipped = @ \cup PutBack(c)]
           /\ UNCHANGED <<budget, repair>>
  <2>1. DOMAIN new \subseteq Pkgs /\ \A q \in DOMAIN new : new[q] = NoUnit \/ new[q] \in Pointers(q)
    BY <1>2, <1>3
  <2> HIDE DEF new
  <2>2. units' \in [Roots -> Databases] /\ gc' \in GCType
    BY <1>5, <2>1, PutUnitsType, LiveAssumption
  <2>3. call' \in [Calls -> CallOK]
    BY <1>4, <1>5 DEF IndexInv
  <2>4. gens' \in GensType
    BY <1>2, <1>5 DEF IndexInv, GensType
  <2>5. decoded' \in DecodeType
    <3>1. PutBack(c) \subseteq Pkgs
      BY <1>2 DEF PutBack
    <3> QED BY <1>5, <3>1 DEF IndexInv, DecodeType
  <2> QED BY <1>1, <1>5, <2>2, <2>3, <2>4, <2>5 DEF IndexInv
<1>6. CASE /\ call' = [call EXCEPT ![c] = IF Head(@.todo) \in @.changed THEN Abort(@) ELSE Next1(@)]
           /\ repair' = Disturbed
           /\ UNCHANGED <<units, gc, gens, decoded>>
  <2>1. call' \in [Calls -> CallOK]
    BY <1>4, <1>6 DEF IndexInv
  <2> QED BY <1>1, <1>6, <2>1, DisturbedType DEF IndexInv
<1> QED BY <1>5, <1>6 DEF PutUnit

\* The end of a call preserves IndexInv.
LEMMA ReindexEndInv ==
    ASSUME IndexInv, NEW c \in Calls, reindex(c)
    PROVE  IndexInv'
<1> DEFINE cl == call[c]
           chg == IF cl.changed = {} THEN {cl.first} ELSE cl.changed
<1>1. cl \in CallType
  BY DEF IndexInv, CallOK
<1>2. cl.changed \subseteq Pkgs
  BY <1>1 DEF CallType
<1>3. decoded' = Invalidate(cl, chg) /\ call' = [call EXCEPT ![c] = CallIdle]
      /\ UNCHANGED <<storeVars, text, build, gens, repair, budget>>
  BY DEF reindex
<1> HIDE DEF chg
<1>4. decoded' \in DecodeType
  <2>1. CASE cl.err
    BY <1>2, <1>3, <2>1 DEF Invalidate, IndexInv, DecodeType
  <2>2. CASE ~cl.err
    <3> DEFINE a == [p \in Pkgs |-> IF p \in chg THEN Unset ELSE decoded.api[p]]
               s == decoded.skipped \ chg
    <3>1. a \in [Pkgs -> Apis \cup {Unset}] /\ s \subseteq Pkgs
      BY DEF IndexInv, DecodeType
    <3>2. decoded' = [api |-> a, skipped |-> s]
      BY <1>3, <2>2 DEF Invalidate
    <3> HIDE DEF a, s
    <3> QED BY <3>1, <3>2 DEF DecodeType
  <2> QED BY <2>1, <2>2
<1>5. call' \in [Calls -> CallOK]
  BY <1>3, CallIdleOK DEF IndexInv
<1> QED BY <1>3, <1>4, <1>5 DEF IndexInv, storeVars

\* decode preserves IndexInv.
LEMMA DecodeInv ==
    ASSUME IndexInv, NEW p \in Pkgs, decode(p)
    PROVE  IndexInv'
<1> DEFINE k == units[Live][p].key
           a == Api[blobs[k].facts]
<1>1. k \in DOMAIN blobs
  BY DEF decode, Has
<1>2. a \in Apis
  BY <1>1, ApiType DEF IndexInv, IsCAS, BlobRecord
<1>3. decoded' = [decoded EXCEPT !.api[p] = a] /\ UNCHANGED <<storeVars, text, build, call, gens, repair>>
  BY DEF decode
<1> HIDE DEF a
<1>4. decoded' \in DecodeType
  BY <1>2, <1>3 DEF IndexInv, DecodeType
<1> QED BY <1>3, <1>4 DEF IndexInv, storeVars

\* RevalidateStale preserves IndexInv.
LEMMA RevalidateInv ==
    ASSUME IndexInv, RevalidateStale
    PROVE  IndexInv'
<1> DEFINE t == {p \in Pkgs : packageChanged(p)}
           cln == InFlight = {} /\ gc.pc = "idle" /\ file[Live].member /\ \A p \in Pkgs : ReadFile(p) = disk[Live][p].ver
<1>1. repair' = [pc |-> "run", todo |-> t, clean |-> cln] /\ UNCHANGED <<storeVars, text, build, call, decoded, gens>>
  BY DEF RevalidateStale
<1>2. t \subseteq Pkgs /\ cln \in BOOLEAN
  OBVIOUS
<1> HIDE DEF t, cln
<1>3. repair' \in RepairType
  BY <1>1, <1>2 DEF RepairType
<1> QED BY <1>1, <1>3 DEF IndexInv, storeVars

\* repairNext preserves IndexInv.
LEMMA RepairNextInv ==
    ASSUME IndexInv, NEW p \in Pkgs, repairNext(p)
    PROVE  IndexInv'
<1>1. Start(Repair, p) /\ UNCHANGED <<storeVars, text, build, budget, decoded>>
  BY DEF repairNext
<1>2. repair' \in RepairType
  BY DEF repairNext, IndexInv, RepairType
<1> QED BY <1>1, <1>2, StartInv, CallsAssumption DEF IndexInv, storeVars

\* repairDone preserves IndexInv.
LEMMA RepairDoneInv ==
    ASSUME IndexInv, repairDone
    PROVE  IndexInv'
<1>1. repair' \in RepairType
  BY DEF repairDone, IndexInv, RepairType
<1> QED BY <1>1 DEF IndexInv, storeVars, repairDone

\* editDisk preserves IndexInv.
LEMMA EditDiskInv ==
    ASSUME IndexInv, NEW r \in Roots, NEW p \in Pkgs, NEW v \in Versions, editDisk(r, p, v)
    PROVE  IndexInv'
<1>1. disk' \in Disks
  BY WriteType DEF editDisk, IndexInv
<1>2. repair' \in RepairType
  BY DisturbedType DEF editDisk
<1> QED BY <1>1, <1>2 DEF IndexInv, editDisk

\* didChange preserves IndexInv.
LEMMA DidChangeInv ==
    ASSUME IndexInv, NEW p \in Pkgs, NEW v \in Versions, didChange(p, v)
    PROVE  IndexInv'
<1>1. text' \in [Pkgs -> Versions \cup {NotOpen}]
  BY DEF didChange, IndexInv
<1>2. repair' \in RepairType
  BY DisturbedType DEF didChange
<1> QED BY <1>1, <1>2 DEF IndexInv, didChange, storeVars

\* didSave preserves IndexInv.
LEMMA DidSaveInv ==
    ASSUME IndexInv, NEW p \in Pkgs, didSave(p)
    PROVE  IndexInv'
<1>1. text[p] \in Versions
  BY DEF didSave, IndexInv
<1>2. disk' \in Disks
  BY <1>1, WriteType, LiveAssumption DEF didSave, IndexInv
<1>3. repair' \in RepairType
  BY DisturbedType DEF didSave
<1> QED BY <1>2, <1>3 DEF IndexInv, didSave

\* A stuttering step preserves the invariant.
LEMMA StutterInv == ASSUME IndexInv, UNCHANGED vars PROVE IndexInv'
  BY DEF IndexInv, vars, storeVars, idxVars

\* The steps of the system, one disjunct per kind.
LEMMA StepCases ==
    ASSUME [Next]_vars
    PROVE  \/ GCStep /\ UNCHANGED idxVars
           \/ \E r \in Roots : Build(r) \/ cancelBuild(r) \/ killIndexer(r)
           \/ \E r \in Roots : BuildStep(r)
           \/ openSession \/ closeSession \/ runStartupCASGC
           \/ \E c \in Calls : CallStep(c)
           \/ \E c \in Calls, p \in Pkgs : Reindex(c, p)
           \/ \E p \in Pkgs : decode(p)
           \/ RevalidateStale \/ repairDone
           \/ \E p \in Pkgs : repairNext(p)
           \/ \E r \in Roots, p \in Pkgs, v \in Versions : editDisk(r, p, v)
           \/ \E p \in Pkgs, v \in Versions : didChange(p, v)
           \/ \E p \in Pkgs : didSave(p)
           \/ UNCHANGED vars
<1>1. ASSUME NEW p \in Pkgs, IdleCalls # {}, Reindex(CHOOSE c \in IdleCalls : TRUE, p)
      PROVE  \E c \in Calls, q \in Pkgs : Reindex(c, q)
  <2>1. (CHOOSE c \in IdleCalls : TRUE) \in Calls
    BY <1>1 DEF IdleCalls
  <2> QED BY <1>1, <2>1
<1>2. CASE UNCHANGED vars
  BY <1>2
<1>3. CASE Next
  BY <1>1, <1>3, Zenon DEF Next
<1> QED BY <1>2, <1>3

\* IndexInv is inductive.
LEMMA NextInv == ASSUME IndexInv, [Next]_vars PROVE IndexInv'
<1>1. CASE GCStep /\ UNCHANGED idxVars
  BY <1>1, MarkInv, MaybeGCInv, SweepInv, SweepRemoveInv, SweepDoneInv DEF GCStep
<1>2. ASSUME NEW r \in Roots, Build(r) \/ cancelBuild(r) \/ killIndexer(r) PROVE IndexInv'
  BY <1>2, BuildStartInv, CancelBuildInv, KillIndexerInv
<1>3. ASSUME NEW r \in Roots, BuildStep(r) PROVE IndexInv'
  BY <1>3, RunBuildJobInv, FinishBuildJobInv, RecordFatalInv, EndBuildInv, CollectAfterBuildInv, ExitIndexerInv
     DEF BuildStep
<1>4. CASE openSession \/ closeSession \/ runStartupCASGC
  BY <1>4, OpenSessionInv, CloseSessionInv, StartupGCInv
<1>5. ASSUME NEW c \in Calls, CallStep(c) PROVE IndexInv'
  BY <1>5, ReindexOneInv, ReindexCheckInv, TryCommitInv, PutUnitInv, ReindexEndInv DEF CallStep
<1>6. CASE RevalidateStale \/ repairDone
  BY <1>6, RevalidateInv, RepairDoneInv
<1> QED
  BY <1>1, <1>2, <1>3, <1>4, <1>5, <1>6, StepCases, ReindexInv, DecodeInv, RepairNextInv,
     EditDiskInv, DidChangeInv, DidSaveInv, StutterInv

\* The invariant implies type correctness,
LEMMA InvImpliesTypes == ASSUME IndexInv PROVE TypeOK
<1>1. StoreTypeOK
  <2>1. disk \in [Roots -> [Pkgs -> [ver : Versions, stat : Stats]]]
    BY DEF IndexInv, Disks
  <2>2. /\ DOMAIN blobs \subseteq Keys
        /\ \A k \in DOMAIN blobs : blobs[k] \in [facts : Versions, files : Stats, old : BOOLEAN]
    BY DEF IndexInv, IsCAS, BlobRecord
  <2>3. \A r \in Roots : \A p \in Pkgs : IsPointer(units[r][p]) => units[r][p] \in UnitPointer
    BY DEF IndexInv, Databases, Pointers
  <2>4. gc.pc \in {"idle", "mark", "sweep"} /\ gc.marks \subseteq Keys /\ gc.left \subseteq Roots
    BY DEF IndexInv, GCType
  <2> QED BY <2>1, <2>2, <2>3, <2>4 DEF StoreTypeOK, IndexInv, FileType, Holders
<1>2. \A c \in Calls : call[c] \in CallType
  BY DEF IndexInv, CallOK
<1>3. \A r \in Roots : /\ build[r].pc \in {"idle", "run", "gc", "close"}
                       /\ build[r].pend \in [Pkgs -> Nat]
                       /\ build[r].st \in [Pkgs -> {"wait", "ready", "check", "done"}]
  BY DEF IndexInv, BuildOK, BuildRecord
<1>4. decoded.api \in [Pkgs -> Apis \cup {Unset}] /\ decoded.skipped \subseteq Pkgs
  BY DEF IndexInv, DecodeType
<1>5. gens.next \in Nat /\ gens.done \in [Pkgs -> Nat]
  BY DEF IndexInv, GensType
<1>6. repair.pc \in {"idle", "run", "done"} /\ repair.todo \subseteq Pkgs
  BY DEF IndexInv, RepairType
<1>7. text \in [Pkgs -> Versions \cup {NotOpen}]
  BY DEF IndexInv
<1> QED BY <1>1, <1>2, <1>3, <1>4, <1>5, <1>6, <1>7 DEF TypeOK

\* and that keys are coherent.
LEMMA InvImpliesCoherence == ASSUME IndexInv PROVE KeysAreCoherent
<1>1. \A c \in Calls : CallInv(call[c])
  BY DEF IndexInv, CallOK
<1>2. \A r \in Roots : BuildInv(build[r])
  BY DEF IndexInv, BuildOK
<1> QED BY <1>1, <1>2 DEF KeysAreCoherent, InFlight, CallInv, BuildInv, InCheck, Proper

\* The inductive invariant of the index writers holds in every reachable state: whatever Builds,
\* Reindex calls, repairs, collections, crashes and edits interleave.
THEOREM IndexSafe == Spec => []IndexInv
<1>1. Init => IndexInv
  BY InitInv
<1>2. IndexInv /\ [Next]_vars => IndexInv'
  BY NextInv
<1> QED BY <1>1, <1>2, PTL DEF Spec

\* Every reachable state of the index is type correct; in particular the scheduler's counters never
\* go negative (scheduler.finish).
THEOREM TypeCorrect == Spec => []TypeOK
<1>1. IndexInv => TypeOK
  BY InvImpliesTypes
<1> QED BY <1>1, IndexSafe, PTL

\* No unit key, of a Build or of a Reindex call, is ever computed from a dependency the same run
\* failed to resolve or found with another API (keyTable.get).
THEOREM KeysAreCoherentHolds == Spec => []KeysAreCoherent
<1>1. IndexInv => KeysAreCoherent
  BY InvImpliesCoherence
<1> QED BY <1>1, IndexSafe, PTL

-----------------------------------------------------------------------------
\* The stat and the API of a pointer are of its content.
UnitStat(d, u) == u # NoUnit => StatAgrees(d, u.key.pkg, u.own, u.files) /\ u.api = Api[u.own]
BuildStat(d, r, b) ==
    /\ \A p \in DOMAIN b.batch : UnitStat(d, b.batch[p])
    /\ \A p \in Pkgs : b.st[p] = "check" => b.own[p] = d[r][p].ver
\* What a call in its type check is reading.
TextRead(d, t, cl) ==
    LET p == Head(cl.todo)
    IN  IF p = cl.first /\ t[p] # NotOpen THEN t[p] ELSE d[Live][p].ver
CallStat(d, t, cl) ==
    /\ UnitStat(d, cl.unit)
    /\ cl.pc = "check" => cl.own = TextRead(d, t, cl)
\* Everything recorded is of the content it is recorded with, and a type check reads the content
\* that was hashed.
StatInv ==
    /\ StatsAgree(disk, units, blobs)
    /\ FactsAgree(units, blobs)
    /\ \A r \in Roots : BuildStat(disk, r, build[r])
    /\ \A c \in Calls : CallStat(disk, text, call[c])
\* The same of a result that is handed on.
OutcomeStat(ver, res) ==
    /\ UnitStat(disk, res.unit)
    /\ res.kind = "check" => res.own = ver

\* The stat of the files agrees with their content.
LEMMA OwnStatAgrees ==
    ASSUME disk \in Disks, NEW r \in Roots, NEW p \in Pkgs, NEW own, own = disk[r][p].ver
    PROVE  StatAgrees(disk, p, own, disk[r][p].stat)
<1>1. disk[r][p].stat \in Stats /\ disk[r][p].stat[1] = r
  BY DEF Disks
<1>2. disk[r][p].stat[2] \in Nat
  BY <1>1, VersionsAssumption DEF Stats, NoStat
<1> QED BY <1>1, <1>2 DEF StatAgrees

\* Where the recorded stat is the current one, the recorded content is the current one: what
\* processUnit relies on when it does not read the file.
LEMMA FastPath ==
    ASSUME IndexInv, StatsAgree(disk, units, blobs), NEW r \in Roots, NEW p \in Pkgs,
           IsPointer(units[r][p]), units[r][p].files # NoStat, units[r][p].files = disk[r][p].stat
    PROVE  units[r][p].own = disk[r][p].ver
<1>1. disk[r][p].stat[1] = r
  BY DEF IndexInv, Disks
<1>2. StatAgrees(disk, p, units[r][p].own, units[r][p].files)
  BY DEF StatsAgree
<1> QED BY <1>1, <1>2 DEF StatAgrees

\* processUnit hands on the content it read, and records stats and APIs of that content.
LEMMA ResolveStat ==
    ASSUME IndexInv, StatsAgree(disk, units, blobs), FactsAgree(units, blobs), NEW r \in Roots, NEW keys,
           NEW p \in Pkgs, NEW ver, NEW trust \in BOOLEAN, trust => ver = disk[r][p].ver
    PROVE  OutcomeStat(ver, processUnit(r, p, ver, trust, keys))
<1> DEFINE old == units[r][p]
           deps == directDepExports(keys, r, p)
           statOK == filesStatMatch(r, p, trust)
           own == IF statOK THEN old.own ELSE ver
           key == UnitKey(p, own, deps)
           res == processUnit(r, p, ver, trust, keys)
           bad == \E d \in DOMAIN deps : deps[d] = Failed
           same == IsPointer(old) /\ key = old.key
           fail == [kind |-> "fail", key |-> NoKey, own |-> own, unit |-> NoUnit, api |-> Failed]
           fresh == IF statOK \/ ~trust THEN NoUnit ELSE [old EXCEPT !.files = disk[r][p].stat]
           api == Api[blobs[key].facts]
           hit == [key |-> key, own |-> own, api |-> api, files |-> blobs[key].files]
<1>1. IsPointer(old) => old \in Pointers(p)
  BY DatabaseParts DEF IndexInv
<1>2. own = ver /\ (trust => own = disk[r][p].ver)
  BY FastPath DEF filesStatMatch
<1>3. key.pkg = p /\ key.own = own
  BY DEF UnitKey
<1>4. res = CASE bad -> fail
          [] ~bad /\ Has(key) /\ same -> [fail EXCEPT !.kind = "same", !.key = key, !.api = old.api, !.unit = fresh]
          [] ~bad /\ Has(key) /\ ~same -> [fail EXCEPT !.kind = "hit", !.key = key, !.api = api, !.unit = hit]
          [] ~bad /\ ~Has(key) -> [fail EXCEPT !.kind = "check", !.key = key]
  BY DEF processUnit
<1> SUFFICES OutcomeStat(ver, res)
  OBVIOUS
<1> HIDE DEF bad, same, key, own, deps, res
<1>5. UnitStat(disk, NoUnit)
  BY DEF UnitStat
<1>6. CASE bad
  <2>1. res = fail
    BY <1>4, <1>6
  <2> QED BY <1>5, <2>1 DEF OutcomeStat
<1>7. CASE ~bad /\ Has(key) /\ same
  <2>1. res = [fail EXCEPT !.kind = "same", !.key = key, !.api = old.api, !.unit = fresh]
    BY <1>4, <1>7
  <2>2. IsPointer(old) /\ key = old.key
    BY <1>7 DEF same
  <2>3. UnitStat(disk, fresh)
    <3>1. CASE statOK \/ ~trust
      BY <1>5, <3>1
    <3>2. CASE ~(statOK \/ ~trust)
      <4>1. fresh = [old EXCEPT !.files = disk[r][p].stat]
        BY <3>2
      <4>2. old \in [key : Keys, own : Versions, api : Apis, files : Stats]
        BY <2>2, <1>1 DEF Pointers, UnitPointer
      <4>3. fresh.key = old.key /\ fresh.own = old.own /\ fresh.files = disk[r][p].stat /\ fresh.api = old.api
        BY <4>1, <4>2
      <4>4. old.key.pkg = p /\ old.own = own
        BY <1>1, <1>3, <2>2, PointerParts
      <4>5. StatAgrees(disk, p, own, disk[r][p].stat)
        BY <1>2, <3>2, OwnStatAgrees DEF IndexInv
      <4>6. old.api = Api[old.own]
        BY <2>2 DEF FactsAgree
      <4> QED BY <4>3, <4>4, <4>5, <4>6 DEF UnitStat
    <3> QED BY <3>1, <3>2
  <2> HIDE DEF fresh, old
  <2> QED BY <2>1, <2>3 DEF OutcomeStat
<1>8. CASE ~bad /\ Has(key) /\ ~same
  <2>1. res = [fail EXCEPT !.kind = "hit", !.key = key, !.api = api, !.unit = hit]
    BY <1>4, <1>8
  <2>2. StatAgrees(disk, key.pkg, key.own, blobs[key].files) /\ blobs[key].facts = key.own
    BY <1>8 DEF Has, StatsAgree, FactsAgree
  <2>3. UnitStat(disk, hit)
    BY <1>3, <2>2 DEF UnitStat
  <2> HIDE DEF hit, api
  <2> QED BY <2>1, <2>3 DEF OutcomeStat
<1>9. CASE ~bad /\ ~Has(key)
  <2>1. res = [fail EXCEPT !.kind = "check", !.key = key]
    BY <1>4, <1>9
  <2> QED BY <1>2, <1>5, <2>1 DEF OutcomeStat
<1> QED BY <1>6, <1>7, <1>8, <1>9

\* So does the type check, when it parses what was hashed.
LEMMA CheckStat ==
    ASSUME IndexInv, NEW r \in Roots, NEW p \in Pkgs, NEW ver, NEW trust \in BOOLEAN, NEW key, key.pkg = p,
           NEW own, own = ver, trust => own = disk[r][p].ver
    PROVE  OutcomeStat(ver, checkAndStoreOutcome(r, p, ver, trust, key, own))
<1> DEFINE stat == IF trust THEN disk[r][p].stat ELSE NoStat
           unit == [key |-> key, own |-> own, api |-> Api[ver], files |-> stat]
           res == checkAndStoreOutcome(r, p, ver, trust, key, own)
<1>1. StatAgrees(disk, p, own, stat)
  <2>1. CASE trust
    BY <2>1, OwnStatAgrees DEF IndexInv
  <2>2. CASE ~trust
    BY <2>2 DEF StatAgrees
  <2> QED BY <2>1, <2>2
<1>2. UnitStat(disk, unit) /\ UnitStat(disk, NoUnit)
  BY <1>1 DEF UnitStat
<1>3. res.kind \in {"fail", "checked"} /\ res.unit = IF ver \in Broken THEN NoUnit ELSE unit
  BY DEF checkAndStoreOutcome
<1> HIDE DEF unit, stat, res
<1>4. OutcomeStat(ver, res)
  BY <1>2, <1>3 DEF OutcomeStat
<1> QED BY <1>4 DEF res

\* The blob it stores holds the facts of the content its key names.
LEMMA StoreBlobStat ==
    ASSUME IndexInv, StatsAgree(disk, units, blobs), FactsAgree(units, blobs), NEW r \in Roots, NEW p \in Pkgs,
           NEW v, NEW trust \in BOOLEAN, NEW k, k.pkg = p, k.own = v, trust => k.own = disk[r][p].ver,
           StoreBlob(r, p, v, trust, k)
    PROVE  \A j \in DOMAIN blobs' : StatAgrees(disk, j.pkg, j.own, blobs'[j].files) /\ blobs'[j].facts = j.own
<1> DEFINE s == IF trust THEN disk[r][p].stat ELSE NoStat
<1>1. StatAgrees(disk, p, k.own, s)
  <2>1. CASE trust
    BY <2>1, OwnStatAgrees DEF IndexInv
  <2>2. CASE ~trust
    BY <2>2 DEF StatAgrees
  <2> QED BY <2>1, <2>2
<1>2. CASE v \in Broken
  BY <1>2 DEF StoreBlob, StatsAgree, FactsAgree
<1>3. CASE v \notin Broken
  <2>1. Put(k, v, s)
    BY <1>3 DEF StoreBlob
  <2> HIDE DEF s
  <2>2. blobs' = [j \in DOMAIN blobs \cup {k} |-> IF j = k THEN [facts |-> v, files |-> s, old |-> FALSE] ELSE blobs[j]]
    BY <2>1 DEF Put
  <2>3. ASSUME NEW j \in DOMAIN blobs' 
        PROVE  StatAgrees(disk, j.pkg, j.own, blobs'[j].files) /\ blobs'[j].facts = j.own
    <3>1. CASE j = k
      <4>1. blobs'[j].files = s /\ blobs'[j].facts = v
        BY <2>2, <3>1
      <4> QED BY <1>1, <3>1, <4>1
    <3>2. CASE j # k
      <4>1. j \in DOMAIN blobs /\ blobs'[j] = blobs[j]
        BY <2>2, <3>2
      <4> QED BY <4>1 DEF StatsAgree, FactsAgree
    <3> QED BY <3>1, <3>2
  <2> QED BY <2>3
<1> QED BY <1>2, <1>3

\* A write of the files makes no recorded stat wrong: none is that of a later write.
LEMMA WriteStat ==
    ASSUME disk \in Disks, NEW r \in Roots, NEW p \in Pkgs, NEW v \in Versions, disk[r][p].stat[2] < MaxWrites,
           disk' = [disk EXCEPT ![r][p] = [ver |-> v, stat |-> <<r, @.stat[2] + 1>>]],
           NEW q \in Pkgs, NEW own, NEW s \in Stats, StatAgrees(disk, q, own, s)
    PROVE  StatAgrees(disk', q, own, s)
<1>1. /\ disk'[r][p] = [ver |-> v, stat |-> <<r, disk[r][p].stat[2] + 1>>] /\ disk[r][p].stat[2] \in Nat
      /\ \A t \in Roots, u \in Pkgs : (t # r \/ u # p) => disk'[t][u] = disk[t][u]
  BY WriteType
<1>2. CASE s = NoStat
  BY <1>2 DEF StatAgrees
<1>3. CASE s # NoStat /\ (s[1] # r \/ q # p)
  <2>1. s[1] \in Roots /\ s[2] <= disk[s[1]][q].stat[2] /\ (s = disk[s[1]][q].stat => own = disk[s[1]][q].ver)
    BY <1>3 DEF StatAgrees
  <2>2. disk'[s[1]][q] = disk[s[1]][q]
    BY <1>1, <1>3, <2>1
  <2> QED BY <2>1, <2>2 DEF StatAgrees
<1>4. CASE s # NoStat /\ s[1] = r /\ q = p
  <2>1. s[2] <= disk[r][p].stat[2]
    BY <1>4 DEF StatAgrees
  <2>2. s[2] \in Nat
    BY VersionsAssumption DEF Stats, NoStat
  <2>3. disk'[r][p].stat[2] = disk[r][p].stat[2] + 1
    BY <1>1
  <2>4. s[2] <= disk'[r][p].stat[2] /\ s[2] # disk'[r][p].stat[2]
    BY <1>1, <2>1, <2>2, <2>3
  <2> QED BY <1>4, <2>4 DEF StatAgrees
<1> QED BY <1>2, <1>3, <1>4

-----------------------------------------------------------------------------
\* StatInv, one part per variable.
UnitsAgree(d, us) ==
    \A r \in Roots, p \in Pkgs : IsPointer(us[r][p]) =>
        StatAgrees(d, p, us[r][p].own, us[r][p].files) /\ us[r][p].api = Api[us[r][p].own]
BlobsAgree(d, b) == \A k \in DOMAIN b : StatAgrees(d, k.pkg, k.own, b[k].files) /\ b[k].facts = k.own
BuildsAgree(d, bs) == \A r \in Roots : BuildStat(d, r, bs[r])
CallsAgree(d, t, cs) == \A c \in Calls : CallStat(d, t, cs[c])

\* StatInv by the variables it is about.
LEMMA StatParts ==
    StatInv <=> UnitsAgree(disk, units) /\ BlobsAgree(disk, blobs) /\ BuildsAgree(disk, build) /\ CallsAgree(disk, text, call)
  BY DEF StatInv, StatsAgree, FactsAgree, UnitsAgree, BlobsAgree, BuildsAgree, CallsAgree

\* The same after a step.
LEMMA StatPartsNext ==
    ASSUME UnitsAgree(disk', units'), BlobsAgree(disk', blobs'), BuildsAgree(disk', build'), CallsAgree(disk', text', call')
    PROVE  StatInv'
  BY DEF StatInv, StatsAgree, FactsAgree, UnitsAgree, BlobsAgree, BuildsAgree, CallsAgree

\* A transaction of agreeing pointers keeps the databases agreeing.
LEMMA PutUnitsStat ==
    ASSUME IndexInv, UnitsAgree(disk, units), NEW r \in Roots, NEW new,
           \A p \in DOMAIN new : (new[p] = NoUnit \/ new[p] \in Pointers(p)) /\ UnitStat(disk, new[p]),
           PutUnitsBatch(r, new)
    PROVE  UnitsAgree(disk, units')
<1> DEFINE f == [p \in Pkgs |-> IF p \in DOMAIN new THEN new[p] ELSE units[r][p]]
<1>1. units' = [units EXCEPT ![r] = f]
  BY DEF PutUnitsBatch
<1>2. \A p \in Pkgs : IsPointer(f[p]) => StatAgrees(disk, p, f[p].own, f[p].files) /\ f[p].api = Api[f[p].own]
  <2> SUFFICES ASSUME NEW p \in Pkgs, IsPointer(f[p])
               PROVE  StatAgrees(disk, p, f[p].own, f[p].files) /\ f[p].api = Api[f[p].own]
    OBVIOUS
  <2>1. CASE p \in DOMAIN new
    <3>1. f[p] = new[p] /\ new[p] # NoUnit /\ new[p] \in Pointers(p)
      BY <2>1 DEF IsPointer
    <3>2. new[p].key.pkg = p
      BY <3>1, PointerParts
    <3> QED BY <2>1, <3>1, <3>2 DEF UnitStat
  <2>2. CASE p \notin DOMAIN new
    <3>1. f[p] = units[r][p]
      BY <2>2
    <3> HIDE DEF f
    <3> QED BY <3>1 DEF UnitsAgree
  <2> QED BY <2>1, <2>2
<1> HIDE DEF f
<1>3. units \in [Roots -> Databases]
  BY DEF IndexInv
<1> QED BY <1>1, <1>2, <1>3 DEF UnitsAgree

\* Open loses pointers or keeps them.
LEMMA OpenStat ==
    ASSUME IndexInv, UnitsAgree(disk, units), NEW r \in Roots, NEW who, NEW reg, Open(r, who, reg)
    PROVE  UnitsAgree(disk, units')
<1>1. CASE Discarded(r)
  <2> DEFINE n == [p \in Pkgs |-> NoUnit]
  <2>1. PutUnitsBatch(r, n)
    BY <1>1 DEF Open
  <2>2. \A p \in DOMAIN n : (n[p] = NoUnit \/ n[p] \in Pointers(p)) /\ UnitStat(disk, n[p])
    BY DEF UnitStat
  <2> HIDE DEF n
  <2> QED BY <2>1, <2>2, PutUnitsStat
<1>2. CASE ~Discarded(r)
  BY <1>2 DEF Open, UnitsAgree
<1> QED BY <1>1, <1>2

\* A Build without results agrees with anything.
LEMMA IdleBuildStat ==
    /\ \A r \in Roots : BuildStat(disk, r, BuildIdle)
    /\ \A r \in Roots : BuildStat(disk, r, newScheduler(r))
    /\ \A r \in Roots : \A pc, rec : BuildStat(disk, r, [BuildIdle EXCEPT !.pc = pc, !.recreated = rec])
<1>1. BuildIdle.st = [p \in Pkgs |-> "done"] /\ BuildIdle.batch = EmptyBatch
  BY DEF BuildIdle
<1>2. \A r \in Roots : BuildStat(disk, r, BuildIdle)
  BY <1>1, EmptyBatchType DEF BuildStat
<1>3. ASSUME NEW r \in Roots PROVE BuildStat(disk, r, newScheduler(r))
  <2>1. newScheduler(r).batch = EmptyBatch /\ \A p \in Pkgs : newScheduler(r).st[p] # "check"
    BY DEF newScheduler, BuildIdle
  <2> QED BY <2>1, EmptyBatchType DEF BuildStat
<1>4. ASSUME NEW r \in Roots, NEW pc, NEW rec PROVE BuildStat(disk, r, [BuildIdle EXCEPT !.pc = pc, !.recreated = rec])
  <2> DEFINE n == [BuildIdle EXCEPT !.pc = pc, !.recreated = rec]
  <2>1. n.st = [p \in Pkgs |-> "done"] /\ n.batch = EmptyBatch
    BY DEF BuildIdle
  <2> HIDE DEF n
  <2>2. BuildStat(disk, r, n)
    BY <2>1, EmptyBatchType DEF BuildStat
  <2> QED BY <2>2 DEF n
<1> QED BY <1>2, <1>3, <1>4

\* scheduler.finish adds nothing but the batch it is given.
LEMMA FinishStat ==
    ASSUME NEW b \in BuildRecord, NEW p \in Pkgs, BuildInv(b), b.st[p] \in {"ready", "check"},
           NEW keys \in KeyTable, NEW batch \in Batches, NEW r \in Roots, BuildStat(disk, r, b),
           \A q \in DOMAIN batch : UnitStat(disk, batch[q])
    PROVE  BuildStat(disk, r, finish([b EXCEPT !.keys = keys, !.batch = batch], p))
<1> DEFINE c == [b EXCEPT !.keys = keys, !.batch = batch]
           f == finish(c, p)
<1>1. c \in BuildRecord /\ c.batch = batch /\ c.st = b.st /\ c.pend = b.pend /\ c.own = b.own
  BY DEF BuildRecord
<1>2. Scheduled(c) /\ c.st[p] \in {"ready", "check"}
  BY <1>1 DEF Scheduled, BuildInv
<1> HIDE DEF c, f
<1>3. /\ f = [c EXCEPT !.pend = f.pend, !.st = f.st]
      /\ \A q \in Pkgs : f.st[q] = "check" => c.st[q] = "check"
  BY <1>1, <1>2, FinishParts DEF f
<1>4. f.batch = batch /\ f.own = b.own
  <2> DEFINE pd == f.pend
             s == f.st
  <2>1. f = [c EXCEPT !.pend = pd, !.st = s]
    BY <1>3
  <2> HIDE DEF pd, s
  <2> QED BY <1>1, <2>1 DEF BuildRecord
<1>5. BuildStat(disk, r, f)
  BY <1>1, <1>3, <1>4 DEF BuildStat
<1> QED BY <1>5 DEF f, c

\* buildResults.record writes agreeing pointers.
LEMMA RecordJobStat ==
    ASSUME IndexInv, UnitsAgree(disk, units), BuildsAgree(disk, build),
           NEW r \in Roots, NEW p \in Pkgs, NEW res, build[r].st[p] \in {"ready", "check"},
           Outcome(build[r].keys, p, res), UnitStat(disk, res.unit), recordJob(r, p, res)
    PROVE  UnitsAgree(disk, units') /\ BuildsAgree(disk, build')
<1> DEFINE o == build[r]
           b == [build[r] EXCEPT !.keys[p] = res.api]
           batch == IF res.unit = NoUnit THEN b.batch
                    ELSE [q \in DOMAIN b.batch \cup {p} |-> IF q = p THEN res.unit ELSE b.batch[q]]
           full == Cardinality(DOMAIN batch) >= BatchSize
           left == IF full THEN EmptyBatch ELSE batch
           keys == [o.keys EXCEPT ![p] = res.api]
<1>0. o \in BuildRecord /\ BuildInv(o) /\ o.st[p] \in {"ready", "check"} /\ BuildStat(disk, r, o)
  BY DEF IndexInv, BuildOK, BuildsAgree
<1>1. keys \in KeyTable
  BY <1>0 DEF KeyTable, BuildRecord, Outcome
<1>3. b = [o EXCEPT !.keys = keys] /\ b.batch = o.batch
  BY <1>0 DEF BuildRecord
<1>4. batch = Joined(o, p, res.unit)
  BY <1>3 DEF Joined
<1>5. batch \in Batches
  BY <1>0, <1>4, JoinedOK DEF Outcome
<1>5a. \A q \in DOMAIN batch : UnitStat(disk, batch[q])
  BY <1>0, <1>3 DEF BuildStat
<1>6. left \in Batches /\ \A q \in DOMAIN left : UnitStat(disk, left[q])
  <2> HIDE DEF batch
  <2> QED BY <1>5, <1>5a, EmptyBatchType
<1>7. [b EXCEPT !.batch = left] = [o EXCEPT !.keys = keys, !.batch = left]
  BY <1>3
<1>8. /\ build' = [build EXCEPT ![r] = finish([b EXCEPT !.batch = left], p)]
      /\ \/ PutUnitsBatch(r, batch)
         \/ UNCHANGED <<units, gc>>
  BY DEF recordJob
<1> HIDE DEF b, batch, full, left, keys, o
<1> DEFINE n == finish([o EXCEPT !.keys = keys, !.batch = left], p)
<1>9. BuildStat(disk, r, n)
  BY <1>0, <1>1, <1>6, FinishStat
<1>10. BuildsAgree(disk, build')
  <2>1. build' = [build EXCEPT ![r] = n] /\ build \in [Roots -> BuildOK]
    BY <1>7, <1>8 DEF IndexInv
  <2> HIDE DEF n
  <2> QED BY <2>1, <1>9 DEF BuildsAgree
<1>11. CASE PutUnitsBatch(r, batch)
  <2>1. \A q \in DOMAIN batch : (batch[q] = NoUnit \/ batch[q] \in Pointers(q)) /\ UnitStat(disk, batch[q])
    BY <1>5, <1>5a, BatchParts
  <2> QED BY <1>10, <1>11, <2>1, PutUnitsStat
<1>12. CASE UNCHANGED <<units, gc>>
  BY <1>10, <1>12 DEF UnitsAgree
<1> QED BY <1>8, <1>11, <1>12

\* A call that moves on, or gives up, has nothing in hand.
LEMMA EndedCallStat ==
    ASSUME NEW cl \in CallType, cl.todo # <<>>
    PROVE  /\ CallStat(disk, text, Next1(cl)) /\ CallStat(disk, text, Abort(cl)) /\ CallStat(disk, text, AfterError(cl))
<1>1. ASSUME NEW c \in CallType PROVE CallStat(disk, text, Next1(c)) /\ CallStat(disk, text, Abort(c))
  <2>1. Next1(c).unit = NoUnit /\ Next1(c).pc # "check" /\ Abort(c).unit = NoUnit /\ Abort(c).pc # "check"
    BY DEF Next1, Abort, CallType
  <2> QED BY <2>1 DEF CallStat, UnitStat
<1>2. [cl EXCEPT !.err = TRUE] \in CallType
  BY DEF CallType
<1> QED BY <1>1, <1>2 DEF AfterError

\* A call has in hand what it resolved.
LEMMA AfterResolveStat ==
    ASSUME NEW cl \in CallOK, cl.pc \in {"resolve", "check"}, NEW res, Outcome(cl.keys, Head(cl.todo), res),
           CallStat(disk, text, cl), OutcomeStat(TextRead(disk, text, cl), res)
    PROVE  CallStat(disk, text, afterResolve(cl, res))
<1> DEFINE p == Head(cl.todo)
           chg == IF res.kind \in {"hit", "checked"} THEN cl.changed \cup {p} ELSE cl.changed
           keys == [cl.keys EXCEPT ![p] = res.api]
           c2 == [cl EXCEPT !.keys = keys, !.changed = chg]
<1>0. cl \in CallType /\ CallInv(cl)
  BY DEF CallOK
<1>1. cl.todo # <<>> /\ p \in Pkgs
  BY <1>0, HeadType DEF CallInv
<1>2. cl.keys \in KeyTable /\ cl.changed \subseteq Pkgs
  BY <1>0 DEF CallType, KeyTable
<1>3. chg \subseteq Pkgs /\ keys \in KeyTable
  BY <1>1, <1>2 DEF Outcome, KeyTable
<1>5. [cl EXCEPT !.keys[Head(cl.todo)] = res.api,
                 !.changed = IF res.kind \in {"hit", "checked"} THEN @ \cup {Head(cl.todo)} ELSE @] = c2
  BY <1>0 DEF CallType
<1>6. afterResolve(cl, res) =
        CASE res.kind = "fail"  -> AfterError(c2)
          [] res.kind = "check" -> [cl EXCEPT !.pc = "check", !.key = res.key, !.own = res.own]
          [] res.kind \notin {"fail", "check"} /\ res.unit = NoUnit -> Next1(c2)
          [] res.kind \notin {"fail", "check"} /\ res.unit # NoUnit -> [c2 EXCEPT !.pc = "gate", !.unit = res.unit]
  BY <1>5 DEF afterResolve
<1> HIDE DEF chg, keys, p
<1>7. c2 \in CallType /\ c2.todo = cl.todo
  BY <1>0, <1>3 DEF CallType, KeyTable
<1> HIDE DEF c2
<1>8. CASE res.kind = "fail"
  BY <1>1, <1>6, <1>7, <1>8, EndedCallStat
<1>9. CASE res.kind = "check"
  <2> DEFINE n == [cl EXCEPT !.pc = "check", !.key = res.key, !.own = res.own]
  <2>1. afterResolve(cl, res) = n
    BY <1>6, <1>9
  <2>2. n.own = res.own /\ n.unit = cl.unit /\ n.todo = cl.todo /\ n.first = cl.first
    BY <1>0 DEF CallType
  <2> HIDE DEF n
  <2>3. CallStat(disk, text, n)
    BY <1>9, <2>2 DEF CallStat, OutcomeStat, TextRead
  <2> QED BY <2>1, <2>3
<1>10. CASE res.kind \notin {"fail", "check"} /\ res.unit = NoUnit
  BY <1>1, <1>6, <1>7, <1>10, EndedCallStat
<1>11. CASE res.kind \notin {"fail", "check"} /\ res.unit # NoUnit
  <2> DEFINE n == [c2 EXCEPT !.pc = "gate", !.unit = res.unit]
  <2>1. afterResolve(cl, res) = n
    BY <1>6, <1>11
  <2>2. n.pc = "gate" /\ n.unit = res.unit
    BY <1>7 DEF CallType
  <2> HIDE DEF n
  <2>3. CallStat(disk, text, n)
    BY <2>2 DEF CallStat, OutcomeStat
  <2> QED BY <2>1, <2>3
<1> QED BY <1>8, <1>9, <1>10, <1>11

-----------------------------------------------------------------------------
\* The collector only removes blobs.
LEMMA GCStat ==
    ASSUME StatInv, GCStep, UNCHANGED idxVars
    PROVE  StatInv'
<1>1. UNCHANGED <<disk, units, text, build, call>>
  BY DEF GCStep, collectOtherCASMarks, MaybeGC, sweep, sweepRemove, sweepDone, idxVars
<1>2. \A k \in DOMAIN blobs' : k \in DOMAIN blobs /\ blobs'[k] = blobs[k]
  <2>1. CASE sweepRemove
    BY <2>1 DEF sweepRemove
  <2>2. CASE UNCHANGED blobs
    BY <2>2
  <2> QED BY <2>1, <2>2 DEF GCStep, collectOtherCASMarks, MaybeGC, sweep, sweepDone
<1> QED BY <1>1, <1>2, StatParts, StatPartsNext DEF BlobsAgree

\* One Build changes and still agrees.
LEMMA BuildsFrame ==
    ASSUME IndexInv, BuildsAgree(disk, build), NEW r \in Roots, NEW b, BuildStat(disk, r, b),
           build' = [build EXCEPT ![r] = b]
    PROVE  BuildsAgree(disk, build')
  BY DEF BuildsAgree, IndexInv

\* One call changes and still agrees.
LEMMA CallsFrame ==
    ASSUME IndexInv, CallsAgree(disk, text, call), NEW c \in Calls, NEW cl, CallStat(disk, text, cl),
           call' = [call EXCEPT ![c] = cl]
    PROVE  CallsAgree(disk, text, call')
  BY DEF CallsAgree, IndexInv

\* Nothing StatInv is about changes.
LEMMA StatFrame ==
    ASSUME StatInv, UNCHANGED <<disk, units, blobs, text, build, call>>
    PROVE  StatInv'
  BY StatParts, StatPartsNext

\* The start of a Build preserves StatInv.
LEMMA BuildStartStat ==
    ASSUME IndexInv, StatInv, NEW r \in Roots, Build(r)
    PROVE  StatInv'
<1>1. PICK reg : Open(r, "indexer", reg) /\ build' = [build EXCEPT ![r] = newScheduler(r)] /\ UNCHANGED <<disk, blobs, text, call>>
  BY DEF Build
<1>2. UnitsAgree(disk, units') /\ BuildsAgree(disk, build')
  BY <1>1, StatParts, OpenStat, IdleBuildStat, BuildsFrame
<1> QED BY <1>1, <1>2, StatParts, StatPartsNext

\* runBuildJob preserves StatInv.
LEMMA RunBuildJobStat ==
    ASSUME IndexInv, StatInv, NEW r \in Roots, NEW p \in Pkgs, runBuildJob(r, p)
    PROVE  StatInv'
<1> DEFINE b == build[r]
           res == processUnit(r, p, disk[r][p].ver, TRUE, b.keys)
<1>0. StatsAgree(disk, units, blobs) /\ FactsAgree(units, blobs) /\ UnitsAgree(disk, units) /\ BuildsAgree(disk, build) /\ BuildStat(disk, r, b)
  BY StatParts DEF StatInv
<1>1. b \in BuildOK /\ b \in BuildRecord /\ b.keys \in KeyTable /\ b.st[p] = "ready"
  BY DEF IndexInv, BuildOK, BuildRecord, runBuildJob
<1>2. disk[r][p].ver \in Versions /\ units[r] \in Databases
  BY DEF IndexInv, Disks
<1>3. Outcome(b.keys, p, res) /\ OutcomeStat(disk[r][p].ver, res)
  BY <1>0, <1>1, <1>2, ResolveOutcome, ResolveStat DEF IndexInv
<1>4. /\ IF res.kind = "check"
         THEN /\ build' = [build EXCEPT ![r].st[p] = "check", ![r].key[p] = res.key, ![r].own[p] = res.own]
              /\ UNCHANGED <<units, gc, budget>>
         ELSE recordJob(r, p, res)
      /\ UNCHANGED <<disk, blobs, text, call>>
  BY DEF runBuildJob
<1>5. UnitsAgree(disk, units') /\ BuildsAgree(disk, build')
  <2> HIDE DEF res
  <2>1. CASE res.kind = "check"
    <3> DEFINE st == [b.st EXCEPT ![p] = "check"]
               own == [b.own EXCEPT ![p] = res.own]
               n == [b EXCEPT !.st = st, !.key = [b.key EXCEPT ![p] = res.key], !.own = own]
    <3>1. build' = [build EXCEPT ![r] = n]
      BY <1>1, <1>4, <2>1 DEF IndexInv, BuildRecord
    <3>2. res.own = disk[r][p].ver
      BY <1>3, <2>1 DEF OutcomeStat
    <3>3. \A q \in Pkgs : st[q] = "check" => own[q] = disk[r][q].ver
      BY <1>0, <1>1, <3>2 DEF BuildRecord, BuildStat
    <3> HIDE DEF b, st, own
    <3>4. n.st = st /\ n.own = own /\ n.batch = b.batch
      BY <1>1 DEF BuildRecord
    <3> HIDE DEF n
    <3>5. BuildStat(disk, r, n)
      BY <1>0, <3>3, <3>4 DEF BuildStat
    <3> QED BY ZenonT(60), <1>0, <1>4, <2>1, <3>1, <3>5, BuildsFrame DEF UnitsAgree
  <2>2. CASE res.kind # "check"
    BY <1>0, <1>1, <1>3, <1>4, <2>2, RecordJobStat DEF OutcomeStat
  <2> QED BY <2>1, <2>2
<1> QED BY <1>4, <1>5, StatParts, StatPartsNext

\* finishBuildJob preserves StatInv.
LEMMA FinishBuildJobStat ==
    ASSUME ~TornReads, IndexInv, StatInv, NEW r \in Roots, NEW p \in Pkgs, finishBuildJob(r, p)
    PROVE  StatInv'
<1> DEFINE b == build[r]
           ver == disk[r][p].ver
           res == checkAndStoreOutcome(r, p, ver, TRUE, b.key[p], b.own[p])
<1>0. StatsAgree(disk, units, blobs) /\ FactsAgree(units, blobs) /\ UnitsAgree(disk, units) /\ BuildsAgree(disk, build) /\ BuildStat(disk, r, b)
  BY StatParts DEF StatInv
<1>1. b \in BuildRecord /\ BuildInv(b) /\ b.keys \in KeyTable /\ b.st[p] = "check" /\ b.own[p] \in Versions
  BY DEF IndexInv, BuildOK, BuildRecord, finishBuildJob
<1>2. ver \in Versions
  BY DEF IndexInv, Disks
<1>3. InCheck(b.keys, p, b.key[p], b.own[p]) /\ b.key[p] \in Keys /\ b.key[p].pkg = p /\ b.key[p].own = b.own[p]
  BY <1>1 DEF BuildInv, InCheck
<1>4. b.own[p] = disk[r][p].ver /\ b.own[p] = ver
  BY <1>0, <1>1 DEF BuildStat
<1>5. Outcome(b.keys, p, res) /\ OutcomeStat(disk[r][p].ver, res)
  BY <1>1, <1>2, <1>3, <1>4, CheckOutcome, CheckStat DEF IndexInv
<1>6. /\ StoreBlob(r, p, ver, TRUE, b.key[p]) /\ recordJob(r, p, res)
      /\ UNCHANGED <<disk, text, call>>
  BY DEF finishBuildJob, parseGoFiles
<1> HIDE DEF res, ver
<1>7. BlobsAgree(disk, blobs')
  <2> DEFINE k == b.key[p]
  <2>1. k.pkg = p /\ k.own = ver /\ ver = disk[r][p].ver /\ StoreBlob(r, p, ver, TRUE, k)
    BY <1>3, <1>4, <1>6
  <2> HIDE DEF k
  <2> QED BY <1>0, <2>1, StoreBlobStat DEF BlobsAgree
<1>8. UnitsAgree(disk, units') /\ BuildsAgree(disk, build')
  BY <1>0, <1>1, <1>5, <1>6, RecordJobStat DEF OutcomeStat
<1> QED BY <1>6, <1>7, <1>8, StatParts, StatPartsNext

\* cancelBuild preserves StatInv.
LEMMA CancelBuildStat ==
    ASSUME IndexInv, StatInv, NEW r \in Roots, cancelBuild(r)
    PROVE  StatInv'
<1> DEFINE b == build[r]
           n == [b EXCEPT !.canceled = TRUE]
<1>1. b \in BuildRecord /\ BuildStat(disk, r, b)
  BY DEF IndexInv, BuildOK, StatInv
<1>2. n.st = b.st /\ n.own = b.own /\ n.batch = b.batch
  BY <1>1 DEF BuildRecord
<1>3. BuildStat(disk, r, n)
  BY <1>1, <1>2 DEF BuildStat
<1>4. build' = [build EXCEPT ![r] = n] /\ UNCHANGED <<disk, units, blobs, text, call>>
  BY DEF cancelBuild, storeVars
<1> QED BY <1>3, <1>4, BuildsFrame, StatParts, StatPartsNext

\* recordFatal preserves StatInv.
LEMMA RecordFatalStat ==
    ASSUME IndexInv, StatInv, NEW r \in Roots, NEW p \in Pkgs, recordFatal(r, p)
    PROVE  StatInv'
<1> DEFINE b == build[r]
           f == finish(b, p)
           n == [f EXCEPT !.fatal = TRUE]
<1>1. b \in BuildRecord /\ BuildInv(b) /\ b.st[p] \in {"ready", "check"} /\ b.keys \in KeyTable /\ b.batch \in Batches
      /\ BuildStat(disk, r, b) /\ \A q \in DOMAIN b.batch : UnitStat(disk, b.batch[q])
  BY DEF IndexInv, BuildOK, BuildRecord, recordFatal, StatInv, BuildStat
<1>2. BuildStat(disk, r, finish([b EXCEPT !.keys = b.keys, !.batch = b.batch], p))
  <2> HIDE DEF b
  <2> QED BY <1>1, FinishStat
<1>3. [b EXCEPT !.keys = b.keys, !.batch = b.batch] = b
  BY <1>1 DEF BuildRecord
<1>4. BuildStat(disk, r, f)
  BY <1>2, <1>3
<1>5. n.st = f.st /\ n.own = f.own /\ n.batch = f.batch
  <2>1. f = [b EXCEPT !.pend = f.pend, !.st = f.st]
    BY <1>1, FinishParts DEF BuildInv
  <2> DEFINE pd == f.pend
             s == f.st
  <2>2. f = [b EXCEPT !.pend = pd, !.st = s]
    BY <2>1
  <2> HIDE DEF pd, s, f
  <2>3. f.st = s
    BY <1>1, <2>2 DEF BuildRecord
  <2> QED BY <1>1, <2>2 DEF BuildRecord
<1> HIDE DEF f
<1>6. BuildStat(disk, r, n)
  BY <1>4, <1>5 DEF BuildStat
<1>7. build' = [build EXCEPT ![r] = n] /\ UNCHANGED <<disk, units, blobs, text, call>>
  BY DEF recordFatal, storeVars, f
<1> QED BY <1>6, <1>7, BuildsFrame, StatParts, StatPartsNext

\* endBuild preserves StatInv.
LEMMA EndBuildStat ==
    ASSUME IndexInv, StatInv, NEW r \in Roots, endBuild(r)
    PROVE  StatInv'
<1> DEFINE b == build[r]
           bat == b.batch
<1>1. bat \in Batches /\ \A p \in DOMAIN bat : UnitStat(disk, bat[p])
  BY DEF IndexInv, BuildOK, BuildRecord, StatInv, BuildStat
<1>2. /\ PutUnitsBatch(r, bat) \/ UNCHANGED <<units, gc>>
      /\ build' = [build EXCEPT ![r] = [BuildIdle EXCEPT !.pc = IF b.fatal THEN "close" ELSE "gc", !.recreated = b.recreated]]
      /\ UNCHANGED <<disk, blobs, text, call>>
  BY DEF endBuild
<1>3. BuildsAgree(disk, build')
  BY <1>2, IdleBuildStat, BuildsFrame, StatParts
<1>4. UnitsAgree(disk, units')
  <2>1. CASE PutUnitsBatch(r, bat)
    <3>1. \A q \in DOMAIN bat : (bat[q] = NoUnit \/ bat[q] \in Pointers(q)) /\ UnitStat(disk, bat[q])
      BY <1>1, BatchParts
    <3> HIDE DEF bat
    <3> QED BY <2>1, <3>1, PutUnitsStat, StatParts
  <2>2. CASE UNCHANGED <<units, gc>>
    BY <2>2, StatParts
  <2> QED BY <1>2, <2>1, <2>2
<1> QED BY <1>2, <1>3, <1>4, StatParts, StatPartsNext

\* collectAfterBuild preserves StatInv.
LEMMA CollectAfterBuildStat ==
    ASSUME IndexInv, StatInv, NEW r \in Roots, collectAfterBuild(r)
    PROVE  StatInv'
<1> DEFINE b == build[r]
           n == [b EXCEPT !.pc = "close"]
<1>1. b \in BuildRecord /\ BuildStat(disk, r, b)
  BY DEF IndexInv, BuildOK, StatInv
<1>2. n.st = b.st /\ n.own = b.own /\ n.batch = b.batch
  BY <1>1 DEF BuildRecord
<1>3. BuildStat(disk, r, n)
  BY <1>1, <1>2 DEF BuildStat
<1>4. build' = [build EXCEPT ![r] = n] /\ UNCHANGED <<disk, units, blobs, text, call>>
  BY DEF collectAfterBuild, RunCASGC
<1> QED BY <1>3, <1>4, BuildsFrame, StatParts, StatPartsNext

\* The end of an indexer, orderly or not, preserves StatInv.
LEMMA IndexerGoneStat ==
    ASSUME IndexInv, StatInv, NEW r \in Roots, exitIndexer(r) \/ killIndexer(r)
    PROVE  StatInv'
<1>1. build' = [build EXCEPT ![r] = BuildIdle] /\ UNCHANGED <<disk, units, blobs, text, call>>
  BY DEF exitIndexer, killIndexer
<1> QED BY <1>1, IdleBuildStat, BuildsFrame, StatParts, StatPartsNext

\* openSession preserves StatInv.
LEMMA OpenSessionStat ==
    ASSUME IndexInv, StatInv, openSession
    PROVE  StatInv'
<1>1. Open(Live, "session", FALSE) /\ UNCHANGED <<disk, blobs, text, build, call>>
  BY DEF openSession
<1>2. UnitsAgree(disk, units')
  BY <1>1, OpenStat, StatParts, LiveAssumption
<1> QED BY <1>1, <1>2, StatParts, StatPartsNext

\* The start of a call preserves StatInv.
LEMMA StartStat ==
    ASSUME IndexInv, StatInv, NEW c \in Calls, NEW p, Start(c, p), UNCHANGED <<disk, units, blobs, text, build>>
    PROVE  StatInv'
<1> DEFINE n == [CallIdle EXCEPT !.pc = "resolve", !.gen = gens.next + 1, !.first = p,
                                 !.todo = <<p>> \o orderedReverseClosure(p)]
<1>1. n.pc = "resolve" /\ n.unit = NoUnit
  BY DEF CallIdle
<1>2. CallStat(disk, text, n)
  BY <1>1 DEF CallStat, UnitStat
<1>3. call' = [call EXCEPT ![c] = n]
  BY DEF Start
<1> HIDE DEF n
<1> QED BY <1>2, <1>3, CallsFrame, StatParts, StatPartsNext

\* reindexOne preserves StatInv.
LEMMA ReindexOneStat ==
    ASSUME IndexInv, StatInv, NEW c \in Calls, reindexOne(c)
    PROVE  StatInv'
<1> DEFINE cl == call[c]
           p == Head(cl.todo)
           res == processUnit(Live, p, ReadBy(c), TrustStat(c), cl.keys)
<1>1. cl.pc = "resolve" /\ call' = [call EXCEPT ![c] = afterResolve(cl, res)] /\ UNCHANGED <<disk, units, blobs, text, build>>
  BY DEF reindexOne, storeVars
<1>2. cl \in CallOK /\ p \in Pkgs /\ cl.keys \in KeyTable /\ CallStat(disk, text, cl)
  BY <1>1, CallParts DEF StatInv
<1>3. Outcome(cl.keys, p, res)
  BY <1>1, <1>2, ReadByType, ResolveOutcome, LiveAssumption DEF IndexInv
<1>4. OutcomeStat(TextRead(disk, text, cl), res)
  <2>1. TrustStat(c) => ReadBy(c) = disk[Live][p].ver
    BY DEF TrustStat, ReadBy
  <2>2. ReadBy(c) = TextRead(disk, text, cl)
    BY DEF ReadBy, ReadFile, TextRead
  <2> QED BY <1>1, <1>2, <2>1, <2>2, ReadByType, ResolveStat, LiveAssumption DEF StatInv
<1> HIDE DEF res
<1>5. CallStat(disk, text, afterResolve(cl, res))
  BY <1>1, <1>2, <1>3, <1>4, AfterResolveStat
<1> QED BY <1>1, <1>5, CallsFrame, StatParts, StatPartsNext

\* reindexCheck preserves StatInv.
LEMMA ReindexCheckStat ==
    ASSUME ~TornReads, IndexInv, StatInv, NEW c \in Calls, reindexCheck(c)
    PROVE  StatInv'
<1> DEFINE cl == call[c]
           p == Head(cl.todo)
           res == checkAndStoreOutcome(Live, p, ReadBy(c), TrustStat(c), cl.key, cl.own)
<1>1. cl.pc = "check" /\ call' = [call EXCEPT ![c] = afterResolve(cl, res)]
      /\ StoreBlob(Live, p, ReadBy(c), TrustStat(c), cl.key)
      /\ UNCHANGED <<disk, units, text, build>>
  BY DEF reindexCheck, parseGoFiles
<1>2. cl \in CallOK /\ CallInv(cl) /\ p \in Pkgs /\ cl.keys \in KeyTable /\ cl.own \in Versions /\ CallStat(disk, text, cl)
  BY <1>1, CallParts DEF StatInv
<1>3. InCheck(cl.keys, p, cl.key, cl.own) /\ cl.key \in Keys /\ cl.key.pkg = p /\ cl.key.own = cl.own
  BY <1>1, <1>2 DEF CallInv, InCheck
<1>4. ReadBy(c) = TextRead(disk, text, cl) /\ cl.own = ReadBy(c) /\ (TrustStat(c) => cl.own = disk[Live][p].ver)
  BY <1>1, <1>2 DEF CallStat, TrustStat, ReadBy, ReadFile, TextRead
<1>5. Outcome(cl.keys, p, res)
  BY <1>1, <1>2, <1>3, ReadByType, CheckOutcome, LiveAssumption DEF IndexInv
<1>6. OutcomeStat(ReadBy(c), res)
  BY <1>1, <1>2, <1>3, <1>4, ReadByType, CheckStat, LiveAssumption
<1> HIDE DEF res
<1>7. CallStat(disk, text, afterResolve(cl, res))
  BY <1>1, <1>2, <1>4, <1>5, <1>6, AfterResolveStat
<1>8. BlobsAgree(disk, blobs')
  BY <1>1, <1>2, <1>3, <1>4, ReadByType, StoreBlobStat, LiveAssumption DEF BlobsAgree, StatInv
<1> QED BY <1>1, <1>7, <1>8, CallsFrame, StatParts, StatPartsNext

\* tryCommit preserves StatInv.
LEMMA TryCommitStat ==
    ASSUME IndexInv, StatInv, NEW c \in Calls, tryCommit(c)
    PROVE  StatInv'
<1> DEFINE cl == call[c]
           n == [cl EXCEPT !.pc = "put"]
<1>1. cl.pc = "gate" /\ UNCHANGED <<disk, units, blobs, text, build>>
      /\ \/ call' = [call EXCEPT ![c] = n]
         \/ call' = [call EXCEPT ![c] = Next1(cl)]
  BY DEF tryCommit, storeVars
<1>2. cl \in CallType /\ cl.todo # <<>> /\ CallStat(disk, text, cl)
  BY <1>1, CallParts DEF StatInv
<1>3. n.pc = "put" /\ n.unit = cl.unit
  BY <1>2 DEF CallType
<1>4. CallStat(disk, text, n)
  BY <1>2, <1>3 DEF CallStat
<1>5. CallStat(disk, text, Next1(cl))
  BY <1>2, EndedCallStat
<1> HIDE DEF n
<1> QED BY <1>1, <1>4, <1>5, CallsFrame, StatParts, StatPartsNext

\* PutUnit preserves StatInv.
LEMMA PutUnitStat ==
    ASSUME IndexInv, StatInv, NEW c \in Calls, PutUnit(c)
    PROVE  StatInv'
<1> DEFINE cl == call[c]
           p == Head(cl.todo)
           new == [q \in {p} |-> cl.unit]
<1>1. cl.pc = "put" /\ UNCHANGED <<disk, blobs, text, build>>
      /\ \/ PutUnitsBatch(Live, new)
         \/ UNCHANGED units
      /\ \/ call' = [call EXCEPT ![c] = Next1(cl)]
         \/ call' = [call EXCEPT ![c] = Abort(cl)]
  BY DEF PutUnit
<1>2. cl \in CallType /\ CallInv(cl) /\ cl.todo # <<>> /\ CallStat(disk, text, cl)
  BY <1>1, CallParts DEF StatInv
<1>3. cl.unit \in Pointers(p) /\ UnitStat(disk, cl.unit)
  BY <1>1, <1>2 DEF CallInv, Proper, CallStat
<1>4. \A q \in DOMAIN new : (new[q] = NoUnit \/ new[q] \in Pointers(q)) /\ UnitStat(disk, new[q])
  BY <1>3
<1> HIDE DEF new
<1>5. UnitsAgree(disk, units')
  BY <1>1, <1>4, PutUnitsStat, StatParts, LiveAssumption
<1>6. CallsAgree(disk, text, call')
  BY <1>1, <1>2, EndedCallStat, CallsFrame, StatParts
<1> QED BY <1>1, <1>5, <1>6, StatParts, StatPartsNext

\* The end of a call preserves StatInv.
LEMMA ReindexEndStat ==
    ASSUME IndexInv, StatInv, NEW c \in Calls, reindex(c)
    PROVE  StatInv'
<1>1. CallStat(disk, text, CallIdle)
  BY DEF CallIdle, CallStat, UnitStat
<1>2. call' = [call EXCEPT ![c] = CallIdle] /\ UNCHANGED <<disk, units, blobs, text, build>>
  BY DEF reindex, storeVars
<1> QED BY <1>1, <1>2, CallsFrame, StatParts, StatPartsNext

\* A write of files that no type check is reading.
LEMMA WrittenStat ==
    ASSUME IndexInv, StatInv, NEW r \in Roots, NEW p \in Pkgs, NEW v \in Versions,
           disk[r][p].stat[2] < MaxWrites, ~Reading(r, p),
           disk' = [disk EXCEPT ![r][p] = [ver |-> v, stat |-> <<r, @.stat[2] + 1>>]],
           UNCHANGED <<units, blobs, text, build, call>>
    PROVE  StatInv'
<1>1. \A q \in Pkgs, s \in Stats : \A own : StatAgrees(disk, q, own, s) => StatAgrees(disk', q, own, s)
  BY WriteStat DEF IndexInv
<1>2. \A t \in Roots, q \in Pkgs : (t # r \/ q # p) => disk'[t][q] = disk[t][q]
  BY WriteType DEF IndexInv
<1>3. ASSUME NEW u \in UnitPointer \cup {NoUnit}, UnitStat(disk, u) PROVE UnitStat(disk', u)
  <2>1. u # NoUnit => u.key \in Keys /\ u.files \in Stats
    BY DEF UnitPointer
  <2>2. u # NoUnit => u.key.pkg \in Pkgs
    BY <2>1, KeyParts
  <2> QED BY <1>1, <1>3, <2>1, <2>2 DEF UnitStat
<1>4. UnitsAgree(disk', units')
  <2> SUFFICES ASSUME NEW t \in Roots, NEW q \in Pkgs, IsPointer(units[t][q])
               PROVE  /\ StatAgrees(disk', q, units[t][q].own, units[t][q].files)
                      /\ units[t][q].api = Api[units[t][q].own]
    BY DEF UnitsAgree
  <2>1. units[t][q] \in Pointers(q)
    BY DatabaseParts DEF IndexInv
  <2>2. units[t][q].files \in Stats
    BY <2>1, PointerParts
  <2> QED BY <1>1, <2>2 DEF StatInv, StatsAgree, FactsAgree
<1>5. BlobsAgree(disk', blobs')
  <2> SUFFICES ASSUME NEW k \in DOMAIN blobs
               PROVE  StatAgrees(disk', k.pkg, k.own, blobs[k].files) /\ blobs[k].facts = k.own
    BY DEF BlobsAgree
  <2>1. k \in Keys /\ blobs[k].files \in Stats
    BY DEF IndexInv, IsCAS, BlobRecord
  <2>2. k.pkg \in Pkgs
    BY <2>1, KeyParts
  <2> QED BY <1>1, <2>1, <2>2 DEF StatInv, StatsAgree, FactsAgree
<1>6. BuildsAgree(disk', build')
  <2> SUFFICES ASSUME NEW t \in Roots PROVE BuildStat(disk', t, build[t])
    BY DEF BuildsAgree
  <2>1. BuildStat(disk, t, build[t]) /\ build[t].batch \in Batches
    BY DEF StatInv, IndexInv, BuildOK, BuildRecord
  <2>2. \A q \in DOMAIN build[t].batch : build[t].batch[q] \in UnitPointer
    BY <2>1, BatchParts, PointerParts
  <2>3. \A q \in DOMAIN build[t].batch : UnitStat(disk', build[t].batch[q])
    BY <1>3, <2>1, <2>2 DEF BuildStat
  <2>4. \A q \in Pkgs : build[t].st[q] = "check" => build[t].own[q] = disk'[t][q].ver
    BY <1>2, <2>1 DEF BuildStat, Reading
  <2> QED BY <2>3, <2>4 DEF BuildStat
<1>7. CallsAgree(disk', text', call')
  <2> SUFFICES ASSUME NEW c \in Calls PROVE CallStat(disk', text', call[c])
    BY DEF CallsAgree
  <2>1. CallStat(disk, text, call[c]) /\ call[c].unit \in UnitPointer \cup {NoUnit}
    BY DEF StatInv, IndexInv, CallOK, CallType
  <2>2. UnitStat(disk', call[c].unit)
    BY <1>3, <2>1 DEF CallStat
  <2>3. ASSUME call[c].pc = "check" PROVE call[c].own = TextRead(disk', text', call[c])
    <3>1. Head(call[c].todo) \in Pkgs
      BY <2>3, CallParts
    <3>2. Live # r \/ Head(call[c].todo) # p
      BY <2>3 DEF Reading, InFlight
    <3> QED BY <1>2, <2>1, <2>3, <3>1, <3>2, LiveAssumption DEF CallStat, TextRead
  <2> QED BY <2>2, <2>3 DEF CallStat
<1> QED BY <1>4, <1>5, <1>6, <1>7, StatPartsNext

\* didChange preserves StatInv.
LEMMA DidChangeStat ==
    ASSUME ~TornReads, IndexInv, StatInv, NEW p \in Pkgs, NEW v \in Versions, didChange(p, v)
    PROVE  StatInv'
<1>1. ~Reading(Live, p) /\ text' = [text EXCEPT ![p] = v] /\ UNCHANGED <<disk, units, blobs, build, call>>
  BY DEF didChange, storeVars
<1>2. CallsAgree(disk', text', call')
  <2> SUFFICES ASSUME NEW c \in Calls PROVE CallStat(disk, text', call[c])
    BY <1>1 DEF CallsAgree
  <2>1. CallStat(disk, text, call[c])
    BY DEF StatInv
  <2>2. ASSUME call[c].pc = "check" PROVE TextRead(disk, text', call[c]) = TextRead(disk, text, call[c])
    <3>1. Head(call[c].todo) \in Pkgs
      BY <2>2, CallParts
    <3>2. Head(call[c].todo) # p
      BY <1>1, <2>2 DEF Reading, InFlight
    <3>3. text'[Head(call[c].todo)] = text[Head(call[c].todo)]
      BY <1>1, <3>1, <3>2 DEF IndexInv
    <3> QED BY <3>3 DEF TextRead
  <2> QED BY <2>1, <2>2 DEF CallStat
<1> QED BY <1>1, <1>2, StatParts, StatPartsNext

\* StatInv is inductive when no file changes between its hash and its parse.
LEMMA StatNext ==
    ASSUME ~TornReads, IndexInv, StatInv, [Next]_vars
    PROVE  StatInv'
<1>1. CASE GCStep /\ UNCHANGED idxVars
  BY <1>1, GCStat
<1>2. ASSUME NEW r \in Roots, Build(r) \/ cancelBuild(r) \/ killIndexer(r) PROVE StatInv'
  BY <1>2, BuildStartStat, CancelBuildStat, IndexerGoneStat
<1>3. ASSUME NEW r \in Roots, BuildStep(r) PROVE StatInv'
  BY <1>3, RunBuildJobStat, FinishBuildJobStat, RecordFatalStat, EndBuildStat, CollectAfterBuildStat, IndexerGoneStat
     DEF BuildStep
<1>4. CASE openSession \/ closeSession \/ runStartupCASGC
  <2>1. closeSession \/ runStartupCASGC => UNCHANGED <<disk, units, blobs, text, build, call>>
    BY DEF closeSession, runStartupCASGC, RunCASGC
  <2> QED BY <1>4, <2>1, OpenSessionStat, StatFrame
<1>5. ASSUME NEW c \in Calls, CallStep(c) PROVE StatInv'
  BY <1>5, ReindexOneStat, ReindexCheckStat, TryCommitStat, PutUnitStat, ReindexEndStat DEF CallStep
<1>6. ASSUME NEW c \in Calls, NEW p \in Pkgs, Reindex(c, p) PROVE StatInv'
  BY <1>6, StartStat DEF Reindex, storeVars
<1>7. ASSUME NEW p \in Pkgs, repairNext(p) PROVE StatInv'
  BY <1>7, StartStat, CallsAssumption DEF repairNext, storeVars
<1>8. ASSUME RevalidateStale \/ repairDone \/ \E p \in Pkgs : decode(p)
      PROVE  StatInv'
  <2>1. UNCHANGED <<disk, units, blobs, text, build, call>>
    BY <1>8 DEF RevalidateStale, repairDone, decode, storeVars
  <2> QED BY <2>1, StatFrame
<1>9. ASSUME NEW r \in Roots, NEW p \in Pkgs, NEW v \in Versions, editDisk(r, p, v) PROVE StatInv'
  BY <1>9, WrittenStat DEF editDisk
<1>10. ASSUME NEW p \in Pkgs, didSave(p) PROVE StatInv'
  <2>1. text[p] \in Versions
    BY <1>10 DEF didSave, IndexInv
  <2> QED BY <1>10, <2>1, WrittenStat, LiveAssumption DEF didSave
<1>11. CASE UNCHANGED vars
  BY <1>11, StatFrame DEF vars, storeVars, idxVars
<1> QED BY <1>1, <1>2, <1>3, <1>4, <1>5, <1>6, <1>7, <1>8, <1>9, <1>10, <1>11, DidChangeStat, StepCases

\* StatInv holds of what earlier processes left.
LEMMA StatInit == ASSUME ~TornReads, Init PROVE StatInv
<1>1. PICK l \in Loads : disk = l.disk /\ blobs = l.blobs /\ units = l.units
  BY DEF Init
<1>2. StatsAgree(disk, units, blobs) /\ FactsAgree(units, blobs)
  BY <1>1, LoadsAssumption
<1>3. \A r \in Roots : BuildStat(disk, r, build[r])
  BY IdleBuildStat DEF Init
<1>4. \A c \in Calls : CallStat(disk, text, call[c])
  BY DEF Init, CallIdle, CallStat, UnitStat
<1> QED BY <1>2, <1>3, <1>4 DEF StatInv

\* StatInv makes the fast path sound.
LEMMA StatInvImplies == ASSUME IndexInv, StatInv PROVE StatFastPathIsSound
  BY FastPath DEF StatFastPathIsSound, StatInv

\* When no file changes between its hash and its parse, a recorded stat that is current means that
\* the recorded content is (filesStatMatch), for editors' texts, CAS hits and any number of
\* worktrees.
THEOREM StatFastPathIsSoundHolds ==
    ASSUME ~TornReads
    PROVE  Spec => []StatFastPathIsSound
<1>1. Init => StatInv
  BY StatInit
<1>2. IndexInv /\ StatInv /\ [Next]_vars => StatInv'
  BY StatNext
<1>3. IndexInv /\ StatInv => StatFastPathIsSound
  BY StatInvImplies
<1> QED BY <1>1, <1>2, <1>3, IndexSafe, PTL DEF Spec

-----------------------------------------------------------------------------
\* What the collector has found, or has still to find, for every pinned blob.
PinInv ==
    /\ \A x \in gc.pinned : /\ x[2] \in DOMAIN blobs
                            /\ file[x[1]].state = "current"
                            /\ x[2] \in KeysOf(units[x[1]])
    /\ \A x \in gc.pinned : file[x[1]].member \/ x[2] \in gc.marks
    /\ gc.pc = "mark" => \A x \in gc.pinned : gc.bad \/ x[1] \in gc.left \/ x[2] \in gc.marks
    /\ gc.pc = "sweep" => \A x \in gc.pinned : x[2] \in gc.marks
    /\ gc.victim # NoKey => gc.pc = "sweep" /\ gc.victim \notin gc.marks

\* A database that can be read still can, and is listed if it was.
StaysListed(r) == file'[r].state = "current" /\ (file[r].member => file'[r].member)

\* An idle collector has nothing pinned.
LEMMA GCIdlePins ==
    ASSUME gc' = GCIdle
    PROVE  PinInv'
<1>1. gc'.pc = "idle" /\ gc'.pinned = {} /\ gc'.victim = NoKey
  BY DEF GCIdle
<1> QED BY <1>1 DEF PinInv

\* Steps that leave the pointers and the collector alone.
LEMMA PinFrame ==
    ASSUME PinInv, UNCHANGED <<gc, units>>, DOMAIN blobs \subseteq DOMAIN blobs', IndexInv,
           \A r \in Roots : file[r].state = "current" => StaysListed(r)
    PROVE  PinInv'
<1>1. gc.pinned \subseteq Roots \X Keys
  BY DEF IndexInv, GCType
<1>2. \A x \in gc.pinned : x[1] \in Roots
  BY <1>1
<1> QED BY <1>2 DEF PinInv, StaysListed

\* A transaction unpins what it stops pointing at.
LEMMA PutUnitsPins ==
    ASSUME IndexInv, PinInv, NEW r \in Roots, NEW new, PutUnitsBatch(r, new), DOMAIN blobs \subseteq DOMAIN blobs',
           \A s \in Roots : file[s].state = "current" => StaysListed(s)
    PROVE  PinInv'
<1> DEFINE f == [p \in Pkgs |-> IF p \in DOMAIN new THEN new[p] ELSE units[r][p]]
           pinned == StillPinned(r, f)
<1>1. units' = [units EXCEPT ![r] = f] /\ gc' = [gc EXCEPT !.pinned = pinned] /\ units \in [Roots -> Databases]
      /\ gc \in GCType
  BY DEF PutUnitsBatch, IndexInv
<1>2. \A x \in pinned : x \in gc.pinned /\ (x[1] = r => x[2] \in KeysOf(f))
  BY DEF StillPinned
<1> HIDE DEF f, pinned
<1>3. gc'.pinned = pinned /\ gc'.pc = gc.pc /\ gc'.bad = gc.bad /\ gc'.left = gc.left /\ gc'.marks = gc.marks
      /\ gc'.victim = gc.victim
  BY <1>1 DEF GCType
<1>4. \A x \in gc.pinned : x[1] \in Roots
  BY <1>1 DEF GCType
<1>5. ASSUME NEW x \in pinned
      PROVE  /\ x[2] \in DOMAIN blobs' /\ file'[x[1]].state = "current" /\ x[2] \in KeysOf(units'[x[1]])
             /\ file'[x[1]].member \/ x[2] \in gc.marks
  <2>1. x \in gc.pinned /\ x[1] \in Roots
    BY <1>2, <1>4
  <2>2. units'[x[1]] = IF x[1] = r THEN f ELSE units[x[1]]
    BY <1>1, <2>1
  <2> QED BY <1>2, <2>1, <2>2 DEF PinInv, StaysListed
<1> QED BY <1>2, <1>3, <1>5 DEF PinInv

\* So does an Open that discards the file.
LEMMA OpenPins ==
    ASSUME IndexInv, PinInv, NEW r \in Roots, NEW who, NEW reg, Open(r, who, reg), UNCHANGED blobs
    PROVE  PinInv'
<1>1. \A s \in Roots : file[s].state = "current" => StaysListed(s)
  BY DEF Open, IndexInv, StaysListed
<1>2. CASE Discarded(r)
  BY <1>1, <1>2, PutUnitsPins DEF Open
<1>3. CASE ~Discarded(r)
  BY <1>1, <1>3, PinFrame DEF Open
<1> QED BY <1>2, <1>3

\* At the start, what is pinned is marked already or its database is still to be read.
LEMMA RunGCPins ==
    ASSUME ~ListingFails, IndexInv, NEW r \in Roots, NEW force, RunCASGC(r, force)
    PROVE  PinInv'
<1> DEFINE marks == KeysOf(units[r])
           left == Members \ {r}
           pinned == {x \in (Members \cup {r}) \X DOMAIN blobs : file[x[1]].state = "current" /\ x[2] \in KeysOf(units[x[1]])}
           bad == Unreadable(units[r])
<1>1. gc' = [GCIdle EXCEPT !.pc = "mark", !.root = r, !.force = force, !.marks = marks, !.bad = bad,
                           !.left = left, !.pinned = pinned]
  BY DEF RunCASGC
<1>2. UNCHANGED <<blobs, units, file>>
  BY DEF RunCASGC
<1>3. \A x \in pinned : /\ x[2] \in DOMAIN blobs /\ file[x[1]].state = "current" /\ x[2] \in KeysOf(units[x[1]])
                        /\ x[1] \in left \/ x[2] \in marks
                        /\ file[x[1]].member \/ x[2] \in marks
  BY DEF Members
<1> HIDE DEF marks, left, pinned, bad
<1>4. gc'.pc = "mark" /\ gc'.pinned = pinned /\ gc'.left = left /\ gc'.marks = marks /\ gc'.victim = NoKey
  BY <1>1 DEF GCIdle
<1> QED BY <1>2, <1>3, <1>4 DEF PinInv

\* A database that was read is marked; one that could not be read stops the sweep.
LEMMA MarkPins ==
    ASSUME IndexInv, PinInv, NEW s \in Roots, collectOtherCASMarks(s)
    PROVE  PinInv'
<1> DEFINE bad == gc.bad \/ holder[s] # "none" \/ (Readable(s) /\ Unreadable(units[s]))
           marks == IF holder[s] = "none" /\ Readable(s) THEN gc.marks \cup KeysOf(units[s]) ELSE gc.marks
           left == gc.left \ {s}
<1>1. gc \in GCType /\ gc.pc = "mark" /\ UNCHANGED <<blobs, units, file>>
  BY DEF IndexInv, collectOtherCASMarks
<1>2. gc' = [gc EXCEPT !.left = left, !.bad = bad, !.marks = marks]
  BY DEF collectOtherCASMarks
<1>3. \A x \in gc.pinned : bad \/ x[1] \in left \/ x[2] \in marks
  BY <1>1 DEF PinInv, Readable
<1>a. gc.marks \subseteq marks
  OBVIOUS
<1> HIDE DEF bad, marks, left
<1>4. gc'.pc = "mark" /\ gc'.pinned = gc.pinned /\ gc'.left = left /\ gc'.marks = marks /\ gc'.victim = gc.victim
      /\ gc'.bad = bad
  BY <1>1, <1>2 DEF GCType
<1> QED BY <1>1, <1>3, <1>a, <1>4 DEF PinInv

\* The sweep starts only when every pinned blob is marked.
LEMMA MaybeGCPins ==
    ASSUME IndexInv, PinInv, MaybeGC
    PROVE  PinInv'
<1> DEFINE runs == ~gc.bad /\ (gc.force \/ ~stamp)
<1>1. CASE runs
  <2>1. gc \in GCType /\ gc.pc = "mark" /\ gc.left = {} /\ UNCHANGED <<blobs, units, file>>
        /\ gc' = [gc EXCEPT !.pc = "sweep", !.todo = DOMAIN blobs]
    BY <1>1 DEF IndexInv, MaybeGC
  <2>2. gc'.pc = "sweep" /\ gc'.pinned = gc.pinned /\ gc'.marks = gc.marks /\ gc'.victim = gc.victim
    BY <2>1 DEF GCType
  <2>3. gc.victim = NoKey
    BY <2>1 DEF PinInv
  <2> QED BY <1>1, <2>1, <2>2, <2>3 DEF PinInv
<1>2. CASE ~runs
  BY <1>2, GCIdlePins DEF MaybeGC
<1> QED BY <1>1, <1>2

\* The walk picks unmarked blobs,
LEMMA SweepPins ==
    ASSUME IndexInv, PinInv, NEW k, sweep(k)
    PROVE  PinInv'
<1> DEFINE v == IF Has(k) /\ blobs[k].old /\ k \notin gc.marks THEN k ELSE NoKey
           todo == gc.todo \ {k}
<1>1. gc \in GCType /\ gc.pc = "sweep" /\ UNCHANGED <<blobs, units, file>> /\ gc' = [gc EXCEPT !.todo = todo, !.victim = v]
  BY DEF sweep, IndexInv
<1>2. v # NoKey => v \notin gc.marks
  OBVIOUS
<1> HIDE DEF v, todo
<1>3. gc'.pc = "sweep" /\ gc'.pinned = gc.pinned /\ gc'.marks = gc.marks /\ gc'.victim = v
  BY <1>1 DEF GCType
<1> QED BY <1>1, <1>2, <1>3 DEF PinInv

\* and removes no pinned one.
LEMMA SweepRemovePins ==
    ASSUME IndexInv, PinInv, sweepRemove
    PROVE  PinInv'
<1>1. gc \in GCType /\ UNCHANGED <<units, file>> /\ gc' = [gc EXCEPT !.victim = NoKey] /\ gc.victim # NoKey
      /\ DOMAIN blobs' = DOMAIN blobs \ {gc.victim}
  BY DEF sweepRemove, IndexInv
<1>2. gc'.pc = gc.pc /\ gc'.pinned = gc.pinned /\ gc'.marks = gc.marks /\ gc'.victim = NoKey /\ gc.pc = "sweep"
  BY <1>1 DEF GCType, PinInv
<1>3. \A x \in gc.pinned : x[2] # gc.victim
  BY <1>1, <1>2 DEF PinInv
<1> QED BY <1>1, <1>2, <1>3 DEF PinInv

\* A type check removes no blob.
LEMMA StoreBlobKeeps ==
    ASSUME NEW r, NEW p, NEW v, NEW t, NEW k, StoreBlob(r, p, v, t, k)
    PROVE  DOMAIN blobs \subseteq DOMAIN blobs'
  BY DEF StoreBlob, Put

\* The writes of a Build keep PinInv.
LEMMA RecordJobPins ==
    ASSUME IndexInv, PinInv, NEW r \in Roots, NEW p, NEW res, recordJob(r, p, res), UNCHANGED file,
           DOMAIN blobs \subseteq DOMAIN blobs'
    PROVE  PinInv'
<1>1. (\E new : PutUnitsBatch(r, new)) \/ UNCHANGED <<units, gc>>
  BY DEF recordJob
<1>2. CASE UNCHANGED <<units, gc>>
  BY <1>2, PinFrame DEF StaysListed
<1>3. ASSUME NEW new, PutUnitsBatch(r, new) PROVE PinInv'
  BY <1>3, PutUnitsPins DEF StaysListed
<1> QED BY <1>1, <1>2, <1>3

\* So does every step of a Build,
LEMMA BuildStepPins ==
    ASSUME ~ListingFails, IndexInv, PinInv, NEW r \in Roots, BuildStep(r)
    PROVE  PinInv'
<1>1. ASSUME NEW p \in Pkgs, runBuildJob(r, p) PROVE PinInv'
  <2>1. UNCHANGED <<file, blobs>> /\ (UNCHANGED <<units, gc>> \/ \E res : recordJob(r, p, res))
    BY <1>1 DEF runBuildJob
  <2> QED BY <2>1, PinFrame, RecordJobPins DEF StaysListed
<1>2. ASSUME NEW p \in Pkgs, finishBuildJob(r, p) PROVE PinInv'
  <2>1. UNCHANGED file /\ \E res : recordJob(r, p, res)
    BY <1>2 DEF finishBuildJob
  <2>2. DOMAIN blobs \subseteq DOMAIN blobs'
    BY <1>2, StoreBlobKeeps DEF finishBuildJob
  <2> QED BY <2>1, <2>2, RecordJobPins
<1>3. ASSUME endBuild(r) PROVE PinInv'
  <2>1. UNCHANGED blobs /\ (PutUnitsBatch(r, build[r].batch) \/ UNCHANGED <<units, gc>>)
    BY <1>3 DEF endBuild
  <2>2. \A s \in Roots : file[s].state = "current" => StaysListed(s)
    <3>1. file' = [file EXCEPT ![r].fp = @ \/ ~build[r].fatal] /\ file \in [Roots -> FileType]
      BY <1>3 DEF endBuild, IndexInv
    <3> QED BY <3>1 DEF FileType, StaysListed
  <2> QED BY <2>1, <2>2, PinFrame, PutUnitsPins DEF StaysListed
<1>4. ASSUME collectAfterBuild(r) PROVE PinInv'
  BY <1>4, RunGCPins DEF collectAfterBuild
<1>5. ASSUME NEW p \in Pkgs, recordFatal(r, p) PROVE PinInv'
  BY <1>5, PinFrame DEF recordFatal, storeVars, StaysListed
<1>6. ASSUME exitIndexer(r) PROVE PinInv'
  BY <1>6, PinFrame DEF exitIndexer, StaysListed
<1> QED BY <1>1, <1>2, <1>3, <1>4, <1>5, <1>6 DEF BuildStep

\* and of a Reindex call.
LEMMA CallStepPins ==
    ASSUME IndexInv, PinInv, NEW c \in Calls, CallStep(c)
    PROVE  PinInv'
<1>1. ASSUME reindexOne(c) \/ tryCommit(c) \/ reindex(c) PROVE PinInv'
  BY <1>1, PinFrame DEF reindexOne, tryCommit, reindex, storeVars, StaysListed
<1>2. ASSUME reindexCheck(c) PROVE PinInv'
  <2>1. DOMAIN blobs \subseteq DOMAIN blobs' /\ UNCHANGED <<units, gc, file>>
    BY <1>2, StoreBlobKeeps DEF reindexCheck
  <2> QED BY <2>1, PinFrame DEF StaysListed
<1>3. ASSUME PutUnit(c) PROVE PinInv'
  <2>1. UNCHANGED <<blobs, file>> /\ ((\E new : PutUnitsBatch(Live, new)) \/ UNCHANGED <<units, gc>>)
    BY <1>3 DEF PutUnit
  <2> QED BY <2>1, PinFrame, PutUnitsPins, LiveAssumption DEF StaysListed
<1> QED BY <1>1, <1>2, <1>3 DEF CallStep

\* PinInv is inductive when the member markers can be listed.
LEMMA PinNext ==
    ASSUME ~ListingFails, IndexInv, PinInv, [Next]_vars
    PROVE  PinInv'
<1>1. CASE GCStep
  BY <1>1, MarkPins, MaybeGCPins, SweepPins, SweepRemovePins, GCIdlePins DEF GCStep, sweepDone
<1>2. ASSUME NEW r \in Roots, Build(r) \/ cancelBuild(r) \/ killIndexer(r) PROVE PinInv'
  <2>1. ASSUME Build(r) PROVE PinInv'
    BY <2>1, OpenPins DEF Build
  <2>2. ASSUME cancelBuild(r) PROVE PinInv'
    BY <2>2, PinFrame DEF cancelBuild, storeVars, StaysListed
  <2>3. ASSUME killIndexer(r) PROVE PinInv'
    BY <2>3, PinFrame, GCIdlePins DEF killIndexer, StaysListed
  <2> QED BY <1>2, <2>1, <2>2, <2>3
<1>3. CASE openSession \/ closeSession \/ runStartupCASGC
  <2>1. ASSUME openSession PROVE PinInv'
    BY <2>1, OpenPins, LiveAssumption DEF openSession
  <2>2. ASSUME closeSession PROVE PinInv'
    BY <2>2, PinFrame DEF closeSession, StaysListed
  <2>3. ASSUME runStartupCASGC PROVE PinInv'
    BY <2>3, RunGCPins, LiveAssumption DEF runStartupCASGC
  <2> QED BY <1>3, <2>1, <2>2, <2>3
<1>4. ASSUME \/ \E c \in Calls, p \in Pkgs : Reindex(c, p)
             \/ \E p \in Pkgs : decode(p)
             \/ RevalidateStale \/ repairDone
             \/ \E p \in Pkgs : repairNext(p)
             \/ \E r \in Roots, p \in Pkgs, v \in Versions : editDisk(r, p, v)
             \/ \E p \in Pkgs, v \in Versions : didChange(p, v)
             \/ \E p \in Pkgs : didSave(p)
             \/ UNCHANGED vars
      PROVE  PinInv'
  <2>1. UNCHANGED <<gc, units, blobs, file>>
    BY <1>4 DEF Reindex, decode, RevalidateStale, repairDone, repairNext, editDisk, didChange, didSave, vars, storeVars
  <2> QED BY <2>1, PinFrame DEF StaysListed
<1> QED BY <1>1, <1>2, <1>3, <1>4, StepCases, BuildStepPins, CallStepPins

\* When the member markers can be listed, no collection removes a blob that the collector's own
\* database, or one those markers name, has pointed at since the collection began (MaybeGC, sweep).
THEOREM PinnedBlobsSurviveHolds ==
    ASSUME ~ListingFails
    PROVE  Spec => []PinnedBlobsSurvive
<1>1. Init => PinInv
  BY DEF Init, GCIdle, PinInv
<1>2. IndexInv /\ PinInv /\ [Next]_vars => PinInv'
  BY PinNext
<1>3. PinInv => PinnedBlobsSurvive
  BY DEF PinInv, PinnedBlobsSurvive, Has
<1> QED BY <1>1, <1>2, <1>3, IndexSafe, PTL DEF Spec

-----------------------------------------------------------------------------
\* Somebody is to report p as changed, or the history knows that nobody will.
Reported(p) == p \in decoded.skipped \/ \E c \in InFlight : p \in call[c].changed
\* What the caches hold of p is what the database records, or that is reported.
CachedOK(p) ==
    decoded.api[p] # Unset => /\ IsPointer(units[Live][p])
                              /\ decoded.api[p] = units[Live][p].api \/ Reported(p)
\* Who holds Live's database, and what the caches hold.
CacheInv ==
    /\ build[Live].pc # "idle" => holder[Live] = "indexer"
    /\ InFlight # {} => holder[Live] = "session"
    /\ holder[Live] = "session" => \A p \in Pkgs : CachedOK(p)

\* Steps that leave the database, the calls and the caches alone.
LEMMA CacheFrame ==
    ASSUME CacheInv, UNCHANGED <<build, holder, call, decoded, units>>
    PROVE  CacheInv'
  BY DEF CacheInv, CachedOK, Reported, InFlight

\* A transaction of another root leaves Live's pointers alone.
LEMMA PutUnitsElsewhere ==
    ASSUME NEW r \in Roots, NEW new, PutUnitsBatch(r, new), r # Live, IndexInv
    PROVE  units'[Live] = units[Live]
  BY LiveAssumption DEF PutUnitsBatch, IndexInv

\* Open takes a free lock, and touches no other root.
LEMMA OpenHolder ==
    ASSUME IndexInv, NEW r \in Roots, NEW who, NEW reg, Open(r, who, reg)
    PROVE  /\ holder[r] = "none" /\ holder'[r] = who
           /\ \A s \in Roots : s # r => holder'[s] = holder[s] /\ units'[s] = units[s]
<1>1. holder[r] = "none" /\ holder' = [holder EXCEPT ![r] = who]
  BY DEF Open
<1>2. UNCHANGED units \/ \E f : units' = [units EXCEPT ![r] = f]
  BY DEF Open, PutUnitsBatch
<1> QED BY <1>1, <1>2 DEF IndexInv

\* A Build that writes Live's database holds its lock, so no session is there to be misled.
LEMMA BuildCache ==
    ASSUME IndexInv, CacheInv, NEW r \in Roots, Build(r) \/ cancelBuild(r) \/ killIndexer(r) \/ BuildStep(r)
    PROVE  CacheInv'
<1>1. UNCHANGED <<call, decoded>>
  BY DEF Build, cancelBuild, killIndexer, BuildStep, runBuildJob, finishBuildJob, recordFatal, endBuild,
         collectAfterBuild, exitIndexer
<1>2. \A s \in Roots : s # r => build'[s] = build[s] /\ holder'[s] = holder[s] /\ units'[s] = units[s]
  <2>1. CASE Build(r)
    <3>1. PICK reg : Open(r, "indexer", reg) /\ build' = [build EXCEPT ![r] = newScheduler(r)]
      BY <2>1 DEF Build
    <3> QED BY <3>1, OpenHolder DEF IndexInv
  <2>2. ASSUME NEW p \in Pkgs, runBuildJob(r, p) \/ finishBuildJob(r, p)
        PROVE  \A s \in Roots : s # r => build'[s] = build[s] /\ holder'[s] = holder[s] /\ units'[s] = units[s]
    <3>1. UNCHANGED holder
      BY <2>2 DEF runBuildJob, finishBuildJob
    <3>2. UNCHANGED units \/ \E f : units' = [units EXCEPT ![r] = f]
      BY <2>2 DEF runBuildJob, finishBuildJob, recordJob, PutUnitsBatch
    <3>3. \E f : build' = [build EXCEPT ![r] = f]
      BY <2>2 DEF runBuildJob, finishBuildJob, recordJob
    <3> QED BY <3>1, <3>2, <3>3 DEF IndexInv
  <2>3. CASE endBuild(r)
    BY <2>3 DEF endBuild, PutUnitsBatch, IndexInv
  <2>4. CASE killIndexer(r) \/ exitIndexer(r)
    BY <2>4 DEF killIndexer, exitIndexer, Close, IndexInv
  <2>5. CASE cancelBuild(r) \/ collectAfterBuild(r) \/ \E p \in Pkgs : recordFatal(r, p)
    <3>1. UNCHANGED <<holder, units>>
      BY <2>5 DEF cancelBuild, collectAfterBuild, recordFatal, RunCASGC, storeVars
    <3>2. \E f : build' = [build EXCEPT ![r] = f]
      BY <2>5 DEF cancelBuild, collectAfterBuild, recordFatal
    <3> QED BY <3>1, <3>2 DEF IndexInv
  <2> QED BY <2>1, <2>2, <2>3, <2>4, <2>5 DEF BuildStep
<1>3. CASE r # Live
  <2>1. build'[Live] = build[Live] /\ holder'[Live] = holder[Live] /\ units'[Live] = units[Live]
    BY <1>2, <1>3, LiveAssumption
  <2> QED BY <1>1, <2>1 DEF CacheInv, CachedOK, Reported, InFlight
<1>4. CASE r = Live
  <2>1. /\ holder[Live] # "session"
        /\ \/ holder'[Live] = "indexer"
           \/ holder'[Live] = "none" /\ build'[Live].pc = "idle"
    <3>1. CASE Build(r)
      BY <1>4, <3>1, OpenHolder DEF Build
    <3>2. CASE killIndexer(r) \/ exitIndexer(r)
      <4>1. build[Live].pc # "idle"
        BY <1>4, <3>2 DEF killIndexer, exitIndexer
      <4>2. build' = [build EXCEPT ![Live] = BuildIdle] /\ holder' = [holder EXCEPT ![Live] = "none"]
        BY <1>4, <3>2 DEF killIndexer, exitIndexer, Close
      <4>3. BuildIdle.pc = "idle"
        BY DEF BuildIdle
      <4>4. build'[Live] = BuildIdle /\ holder'[Live] = "none"
        BY <4>2, LiveAssumption DEF IndexInv
      <4> QED BY <4>1, <4>3, <4>4 DEF CacheInv
    <3>3. CASE \/ cancelBuild(r) \/ collectAfterBuild(r) \/ endBuild(r)
               \/ \E p \in Pkgs : recordFatal(r, p) \/ runBuildJob(r, p) \/ finishBuildJob(r, p)
      <4>1. build[Live].pc # "idle" /\ UNCHANGED holder
        BY <1>4, <3>3 DEF cancelBuild, collectAfterBuild, recordFatal, runBuildJob, finishBuildJob, endBuild, RunCASGC, storeVars
      <4> QED BY <4>1 DEF CacheInv
    <3> QED BY <3>1, <3>2, <3>3 DEF BuildStep
  <2>2. InFlight' = InFlight
    BY <1>1 DEF InFlight
  <2> QED BY <2>1, <2>2 DEF CacheInv
<1> QED BY <1>3, <1>4

\* A session starts with empty caches and ends with no call in flight.
LEMMA SessionCache ==
    ASSUME IndexInv, CacheInv, openSession \/ closeSession
    PROVE  CacheInv'
<1>1. CASE openSession
  <2>1. /\ build[Live].pc = "idle" /\ Open(Live, "session", FALSE) /\ decoded' = NoDecodes /\ UNCHANGED <<build, call>>
    BY <1>1 DEF openSession
  <2>2. holder'[Live] = "session"
    BY <2>1, OpenHolder, LiveAssumption
  <2>3. \A p \in Pkgs : decoded'.api[p] = Unset
    BY <2>1 DEF NoDecodes, NoKeys
  <2> QED BY <2>1, <2>2, <2>3 DEF CacheInv, CachedOK, InFlight
<1>2. CASE closeSession
  <2>1. InFlight = {} /\ holder[Live] = "session" /\ holder' = [holder EXCEPT ![Live] = "none"] /\ UNCHANGED <<build, call>>
    BY <1>2 DEF closeSession, Close
  <2>2. holder'[Live] = "none"
    BY <2>1, LiveAssumption DEF IndexInv
  <2> QED BY <2>1, <2>2 DEF CacheInv, InFlight
<1> QED BY <1>1, <1>2

\* A call that keeps going keeps what it changed.
LEMMA CallCacheFrame ==
    ASSUME IndexInv, CacheInv, NEW c \in Calls, NEW n, call' = [call EXCEPT ![c] = n], holder[Live] = "session",
           n.pc # "idle", call[c].pc = "idle" \/ call[c].changed \subseteq n.changed,
           UNCHANGED <<build, holder, decoded, units>>
    PROVE  CacheInv'
<1>1. call'[c] = n /\ \A d \in Calls : d # c => call'[d] = call[d]
  BY DEF IndexInv
<1>2. \A p : Reported(p) => Reported(p)'
  BY <1>1 DEF Reported, InFlight
<1>3. holder'[Live] = "session" /\ build[Live].pc = "idle"
  BY DEF CacheInv
<1> QED BY <1>2, <1>3 DEF CacheInv, CachedOK

\* A call starts with nothing changed.
LEMMA StartCache ==
    ASSUME IndexInv, CacheInv, NEW c \in Calls, NEW p, Start(c, p), UNCHANGED <<build, holder, decoded, units>>
    PROVE  CacheInv'
<1> DEFINE n == [CallIdle EXCEPT !.pc = "resolve", !.gen = gens.next + 1, !.first = p,
                                 !.todo = <<p>> \o orderedReverseClosure(p)]
<1>1. n.pc = "resolve"
  BY DEF CallIdle
<1>2. call' = [call EXCEPT ![c] = n] /\ holder[Live] = "session" /\ call[c].pc = "idle"
  BY DEF Start
<1> HIDE DEF n
<1> QED BY <1>1, <1>2, CallCacheFrame

\* Moving on, or giving up, forgets no change.
LEMMA NextKeepsChanged ==
    ASSUME NEW cl \in CallType
    PROVE  /\ Next1(cl).pc # "idle" /\ Next1(cl).changed = cl.changed
           /\ Abort(cl).pc # "idle" /\ Abort(cl).changed = cl.changed
           /\ AfterError(cl).pc # "idle" /\ AfterError(cl).changed = cl.changed
<1>1. ASSUME NEW c \in CallType
      PROVE  /\ Next1(c).pc # "idle" /\ Next1(c).changed = c.changed
             /\ Abort(c).pc # "idle" /\ Abort(c).changed = c.changed
  BY DEF Next1, Abort, CallType
<1>2. [cl EXCEPT !.err = TRUE] \in CallType /\ [cl EXCEPT !.err = TRUE].changed = cl.changed
  BY DEF CallType
<1> QED BY <1>1, <1>2 DEF AfterError

\* Nor does a result.
LEMMA ResolveKeepsChanged ==
    ASSUME NEW cl \in CallOK, cl.pc \in {"resolve", "check"}, NEW res, Outcome(cl.keys, Head(cl.todo), res)
    PROVE  afterResolve(cl, res).pc # "idle" /\ cl.changed \subseteq afterResolve(cl, res).changed
<1> DEFINE p == Head(cl.todo)
           chg == IF res.kind \in {"hit", "checked"} THEN cl.changed \cup {p} ELSE cl.changed
           keys == [cl.keys EXCEPT ![p] = res.api]
           c2 == [cl EXCEPT !.keys = keys, !.changed = chg]
<1>0. cl \in CallType /\ CallInv(cl)
  BY DEF CallOK
<1>1. cl.todo # <<>> /\ p \in Pkgs
  BY <1>0, HeadType DEF CallInv
<1>2. cl.keys \in KeyTable /\ cl.changed \subseteq Pkgs
  BY <1>0 DEF CallType, KeyTable
<1>3. chg \subseteq Pkgs /\ keys \in KeyTable /\ cl.changed \subseteq chg
  BY <1>1, <1>2 DEF Outcome, KeyTable
<1>5. [cl EXCEPT !.keys[Head(cl.todo)] = res.api,
                 !.changed = IF res.kind \in {"hit", "checked"} THEN @ \cup {Head(cl.todo)} ELSE @] = c2
  BY <1>0 DEF CallType
<1>6. afterResolve(cl, res) =
        CASE res.kind = "fail"  -> AfterError(c2)
          [] res.kind = "check" -> [cl EXCEPT !.pc = "check", !.key = res.key, !.own = res.own]
          [] res.kind \notin {"fail", "check"} /\ res.unit = NoUnit -> Next1(c2)
          [] res.kind \notin {"fail", "check"} /\ res.unit # NoUnit -> [c2 EXCEPT !.pc = "gate", !.unit = res.unit]
  BY <1>5 DEF afterResolve
<1> HIDE DEF chg, keys, p
<1>7. c2 \in CallType /\ c2.changed = chg
  BY <1>0, <1>3 DEF CallType, KeyTable
<1> HIDE DEF c2
<1>8. CASE res.kind = "fail"
  BY <1>3, <1>6, <1>7, <1>8, NextKeepsChanged
<1>9. CASE res.kind = "check"
  <2> DEFINE n == [cl EXCEPT !.pc = "check", !.key = res.key, !.own = res.own]
  <2>1. afterResolve(cl, res) = n
    BY <1>6, <1>9
  <2>2. n.pc = "check" /\ n.changed = cl.changed
    BY <1>0 DEF CallType
  <2> QED BY <2>1, <2>2
<1>10. CASE res.kind \notin {"fail", "check"} /\ res.unit = NoUnit
  BY <1>3, <1>6, <1>7, <1>10, NextKeepsChanged
<1>11. CASE res.kind \notin {"fail", "check"} /\ res.unit # NoUnit
  <2> DEFINE n == [c2 EXCEPT !.pc = "gate", !.unit = res.unit]
  <2>1. afterResolve(cl, res) = n
    BY <1>6, <1>11
  <2>2. n.pc = "gate" /\ n.changed = c2.changed
    BY <1>7 DEF CallType
  <2> QED BY <1>3, <1>7, <2>1, <2>2
<1> QED BY <1>8, <1>9, <1>10, <1>11

\* A call runs in a session that holds the database.
LEMMA InFlightSession ==
    ASSUME CacheInv, NEW c \in Calls, call[c].pc # "idle"
    PROVE  holder[Live] = "session" /\ build[Live].pc = "idle"
  BY DEF CacheInv, InFlight

\* Before its write a call changes neither the database nor the caches.
LEMMA ResolvingCache ==
    ASSUME IndexInv, CacheInv, NEW c \in Calls, reindexOne(c) \/ reindexCheck(c) \/ tryCommit(c)
    PROVE  CacheInv'
<1> DEFINE cl == call[c]
           p == Head(cl.todo)
<1>1. cl.pc \in {"resolve", "check", "gate"} /\ UNCHANGED <<build, holder, decoded, units>>
  BY DEF reindexOne, reindexCheck, tryCommit, storeVars
<1>2. /\ cl \in CallOK /\ cl \in CallType /\ p \in Pkgs /\ cl.keys \in KeyTable /\ cl.own \in Versions
      /\ holder[Live] = "session" /\ CallInv(cl)
  BY <1>1, CallParts, InFlightSession
<1>3. CASE reindexOne(c)
  <2> DEFINE res == processUnit(Live, p, ReadBy(c), TrustStat(c), cl.keys)
  <2>1. cl.pc = "resolve" /\ call' = [call EXCEPT ![c] = afterResolve(cl, res)]
    BY <1>3 DEF reindexOne
  <2>2. Outcome(cl.keys, p, res)
    BY <1>2, <2>1, ReadByType, ResolveOutcome, LiveAssumption DEF IndexInv
  <2> HIDE DEF res
  <2>3. afterResolve(cl, res).pc # "idle" /\ cl.changed \subseteq afterResolve(cl, res).changed
    BY <1>2, <2>1, <2>2, ResolveKeepsChanged
  <2> QED BY <1>1, <1>2, <2>1, <2>3, CallCacheFrame
<1>4. CASE reindexCheck(c)
  <2>0. PICK ver \in parseGoFiles(ReadBy(c)) :
           call' = [call EXCEPT ![c] = afterResolve(cl, checkAndStoreOutcome(Live, p, ver, TrustStat(c), cl.key, cl.own))]
    BY <1>4 DEF reindexCheck
  <2> DEFINE res == checkAndStoreOutcome(Live, p, ver, TrustStat(c), cl.key, cl.own)
  <2>1. cl.pc = "check" /\ call' = [call EXCEPT ![c] = afterResolve(cl, res)]
    BY <1>4, <2>0 DEF reindexCheck
  <2>a. ver \in Versions /\ TrustStat(c) \in BOOLEAN
    BY <2>0, <2>1, ReadByType DEF parseGoFiles
  <2>2. InCheck(cl.keys, p, cl.key, cl.own)
    BY <1>2, <2>1 DEF CallInv
  <2>3. Outcome(cl.keys, p, res)
    BY <1>2, <2>1, <2>2, <2>a, CheckOutcome, LiveAssumption DEF IndexInv
  <2> HIDE DEF res
  <2>4. afterResolve(cl, res).pc # "idle" /\ cl.changed \subseteq afterResolve(cl, res).changed
    BY <1>2, <2>1, <2>3, ResolveKeepsChanged
  <2> QED BY <1>1, <1>2, <2>1, <2>4, CallCacheFrame
<1>5. CASE tryCommit(c)
  <2> DEFINE n == [cl EXCEPT !.pc = "put"]
  <2>1. call' = [call EXCEPT ![c] = n] \/ call' = [call EXCEPT ![c] = Next1(cl)]
    BY <1>5 DEF tryCommit
  <2>2. n.pc = "put" /\ n.changed = cl.changed
    BY <1>2 DEF CallType
  <2> HIDE DEF n
  <2> QED BY <1>1, <1>2, <2>1, <2>2, NextKeepsChanged, CallCacheFrame
<1> QED BY <1>3, <1>4, <1>5

\* A proper pointer is not one of the two non-records.
LEMMA PointersArePointers ==
    ASSUME NEW p, NEW u \in Pointers(p)
    PROVE  IsPointer(u)
<1>1. DOMAIN u = {"key", "own", "api", "files"}
  BY DEF Pointers, UnitPointer
<1>2. DOMAIN NoUnit = {"none"} /\ DOMAIN Garbled = {"garbled"}
  BY DEF NoUnit, Garbled
<1> QED BY <1>1, <1>2 DEF IsPointer

\* PutUnit: the package is one the call will report, or the API is the same, or the write put an
\* older entry back.
LEMMA PutUnitCache ==
    ASSUME IndexInv, CacheInv, NEW c \in Calls, PutUnit(c)
    PROVE  CacheInv'
<1> DEFINE cl == call[c]
           p == Head(cl.todo)
           new == [q \in {p} |-> cl.unit]
           f == [q \in Pkgs |-> IF q \in DOMAIN new THEN new[q] ELSE units[Live][q]]
<1>1. cl.pc = "put" /\ UNCHANGED <<build, holder>>
  BY DEF PutUnit
<1>2. cl \in CallType /\ CallInv(cl) /\ p \in Pkgs /\ holder[Live] = "session"
  BY <1>1, CallParts, InFlightSession
<1>3. cl.unit \in Pointers(p)
  BY <1>1, <1>2 DEF CallInv, Proper
<1>4. CASE UNCHANGED <<units, decoded>>
  <2>1. \/ call' = [call EXCEPT ![c] = Next1(cl)]
        \/ call' = [call EXCEPT ![c] = Abort(cl)]
    BY DEF PutUnit
  <2> QED BY <1>1, <1>2, <1>4, <2>1, NextKeepsChanged, CallCacheFrame
<1>5. CASE /\ PutUnitsBatch(Live, new)
           /\ call' = [call EXCEPT ![c] = Next1(cl)]
           /\ decoded' = [decoded EXCEPT !.skipped = @ \cup PutBack(c)]
  <2>1. units'[Live] = f
    BY <1>5, LiveAssumption DEF PutUnitsBatch, IndexInv
  <2>2. units'[Live][p] = cl.unit /\ \A q \in Pkgs : q # p => units'[Live][q] = units[Live][q]
    BY <1>2, <2>1
  <2>3. decoded'.api = decoded.api /\ decoded'.skipped = decoded.skipped \cup PutBack(c)
    BY <1>5 DEF IndexInv, DecodeType
  <2>4. call'[c] = Next1(cl) /\ \A d \in Calls : d # c => call'[d] = call[d]
    BY <1>5 DEF IndexInv
  <2>5. Next1(cl).pc # "idle" /\ Next1(cl).changed = cl.changed
    BY <1>2, NextKeepsChanged
  <2>6. \A q : Reported(q) => Reported(q)'
    BY <2>3, <2>4, <2>5 DEF Reported, InFlight
  <2>7. ASSUME NEW q \in Pkgs PROVE CachedOK(q)'
    <3>1. CachedOK(q)
      BY <1>2 DEF CacheInv
    <3>2. CASE q # p
      BY <2>2, <2>3, <2>6, <3>1, <3>2 DEF CachedOK
    <3>3. CASE q = p /\ p \in cl.changed
      <4>1. Reported(q)'
        BY <2>4, <2>5, <3>3 DEF Reported, InFlight
      <4>2. IsPointer(cl.unit)
        BY <1>3, PointersArePointers
      <4> QED BY <2>2, <3>3, <4>1, <4>2 DEF CachedOK
    <3>4. CASE q = p /\ p \notin cl.changed
      <4>1. IsPointer(cl.unit)
        BY <1>3, PointersArePointers
      <4>2. CASE decoded.api[p] = Unset
        BY <2>3, <3>4, <4>2 DEF CachedOK
      <4>3. CASE decoded.api[p] # Unset /\ units[Live][p].api = cl.unit.api
        BY <2>2, <2>3, <2>6, <3>1, <3>4, <4>1, <4>3 DEF CachedOK
      <4>4. CASE decoded.api[p] # Unset /\ units[Live][p].api # cl.unit.api
        <5>1. q \in PutBack(c)
          BY <3>1, <3>4, <4>4 DEF PutBack, CachedOK
        <5>2. Reported(q)'
          BY <2>3, <5>1 DEF Reported
        <5> QED BY <2>2, <3>4, <4>1, <5>2 DEF CachedOK
      <4> QED BY <4>2, <4>3, <4>4
    <3> QED BY <3>2, <3>3, <3>4
  <2>8. build'[Live].pc = "idle" /\ holder'[Live] = "session"
    BY <1>1, <1>2 DEF CacheInv
  <2> QED BY <2>7, <2>8 DEF CacheInv
<1> QED BY <1>4, <1>5 DEF PutUnit

\* The end of a call drops what it reports, or leaves it recorded as skipped.
LEMMA ReindexEndCache ==
    ASSUME IndexInv, CacheInv, NEW c \in Calls, reindex(c)
    PROVE  CacheInv'
<1> DEFINE cl == call[c]
           chg == IF cl.changed = {} THEN {cl.first} ELSE cl.changed
<1>1. /\ cl.pc = "end" /\ decoded' = Invalidate(cl, chg) /\ call' = [call EXCEPT ![c] = CallIdle]
      /\ UNCHANGED <<build, holder, units>>
  BY DEF reindex, storeVars
<1>2. cl.changed \subseteq chg
  OBVIOUS
<1> HIDE DEF chg
<1>3. \A d \in Calls : d # c => call'[d] = call[d]
  BY <1>1 DEF IndexInv
<1>4. holder[Live] = "session" /\ build[Live].pc = "idle"
  BY <1>1, InFlightSession
<1>5. ASSUME NEW p \in Pkgs PROVE CachedOK(p)'
  <2>0. CachedOK(p)
    BY <1>4 DEF CacheInv
  <2>1. CASE cl.err
    <3>1. decoded'.api = decoded.api /\ decoded'.skipped = decoded.skipped \cup cl.changed
      BY <1>1, <2>1 DEF Invalidate, IndexInv, DecodeType
    <3>2. Reported(p) => Reported(p)'
      BY <1>3, <3>1 DEF Reported, InFlight
    <3> QED BY <1>1, <2>0, <3>1, <3>2 DEF CachedOK
  <2>2. CASE ~cl.err
    <3>1. decoded' = [api |-> [q \in Pkgs |-> IF q \in chg THEN Unset ELSE decoded.api[q]],
                      skipped |-> decoded.skipped \ chg]
      BY <1>1, <2>2 DEF Invalidate
    <3>2. CASE p \in chg
      <4>1. decoded'.api[p] = Unset
        BY <3>1, <3>2
      <4> QED BY <4>1 DEF CachedOK
    <3>3. CASE p \notin chg
      <4>1. decoded'.api[p] = decoded.api[p] /\ (p \in decoded.skipped => p \in decoded'.skipped)
        BY <3>1, <3>3
      <4>2. Reported(p) => Reported(p)'
        BY <1>2, <1>3, <3>3, <4>1 DEF Reported, InFlight
      <4> QED BY <1>1, <2>0, <4>1, <4>2 DEF CachedOK
    <3> QED BY <3>2, <3>3
  <2> QED BY <2>1, <2>2
<1> QED BY <1>1, <1>4, <1>5 DEF CacheInv

\* A decode caches the API that the pointer records.
LEMMA DecodeCache ==
    ASSUME IndexInv, StatInv, CacheInv, NEW p \in Pkgs, decode(p)
    PROVE  CacheInv'
<1> DEFINE u == units[Live][p]
           a == Api[blobs[u.key].facts]
<1>1. /\ holder[Live] = "session" /\ IsPointer(u) /\ u.key \in DOMAIN blobs
      /\ decoded' = [decoded EXCEPT !.api[p] = a] /\ UNCHANGED <<holder, units, build, call>>
  BY DEF decode, Has, storeVars
<1>2. u \in Pointers(p)
  BY <1>1, DatabaseParts, LiveAssumption DEF IndexInv
<1>3. a = u.api
  <2>1. u.own = u.key.own
    BY <1>2, PointerParts
  <2>2. blobs[u.key].facts = u.key.own /\ u.api = Api[u.own]
    BY <1>1, LiveAssumption DEF StatInv, FactsAgree
  <2> QED BY <2>1, <2>2
<1> HIDE DEF a
<1>4. /\ decoded'.api[p] = a /\ decoded'.skipped = decoded.skipped
      /\ \A q \in Pkgs : q # p => decoded'.api[q] = decoded.api[q]
  BY <1>1 DEF IndexInv, DecodeType
<1>5. ASSUME NEW q \in Pkgs PROVE CachedOK(q)'
  <2>1. Reported(q) => Reported(q)'
    BY <1>1, <1>4 DEF Reported, InFlight
  <2>2. CachedOK(q)
    BY <1>1 DEF CacheInv
  <2> QED BY <1>1, <1>3, <1>4, <2>1, <2>2 DEF CachedOK
<1> QED BY <1>1, <1>5 DEF CacheInv, InFlight

\* CacheInv is inductive, given StatInv.
LEMMA CacheNext ==
    ASSUME IndexInv, StatInv, CacheInv, [Next]_vars
    PROVE  CacheInv'
<1>1. CASE GCStep /\ UNCHANGED idxVars
  <2>1. UNCHANGED <<build, holder, call, decoded, units>>
    BY <1>1 DEF GCStep, collectOtherCASMarks, MaybeGC, sweep, sweepRemove, sweepDone, idxVars
  <2> QED BY <2>1, CacheFrame
<1>2. CASE runStartupCASGC
  BY <1>2, CacheFrame DEF runStartupCASGC, RunCASGC
<1>3. ASSUME NEW c \in Calls, CallStep(c) PROVE CacheInv'
  BY <1>3, ResolvingCache, PutUnitCache, ReindexEndCache DEF CallStep
<1>4. ASSUME NEW c \in Calls, NEW p \in Pkgs, Reindex(c, p) PROVE CacheInv'
  BY <1>4, StartCache DEF Reindex, storeVars
<1>5. ASSUME NEW p \in Pkgs, repairNext(p) PROVE CacheInv'
  BY <1>5, StartCache, CallsAssumption DEF repairNext, storeVars
<1>6. ASSUME \/ RevalidateStale \/ repairDone
             \/ \E r \in Roots, p \in Pkgs, v \in Versions : editDisk(r, p, v)
             \/ \E p \in Pkgs, v \in Versions : didChange(p, v)
             \/ \E p \in Pkgs : didSave(p)
             \/ UNCHANGED vars
      PROVE  CacheInv'
  <2>1. UNCHANGED <<build, holder, call, decoded, units>>
    BY <1>6 DEF RevalidateStale, repairDone, editDisk, didChange, didSave, vars, storeVars, idxVars
  <2> QED BY <2>1, CacheFrame
<1> QED BY <1>1, <1>2, <1>3, <1>4, <1>5, <1>6, StepCases, BuildCache, SessionCache, DecodeCache

\* CacheInv holds initially.
LEMMA CacheInit == ASSUME Init PROVE CacheInv
<1>1. \A r \in Roots : build[r].pc = "idle"
  BY DEF Init, BuildIdle
<1>2. InFlight = {}
  BY DEF Init, InFlight, CallIdle
<1>3. \A p \in Pkgs : decoded.api[p] = Unset
  BY DEF Init, NoDecodes, NoKeys
<1> QED BY <1>1, <1>2, <1>3, LiveAssumption DEF CacheInv, CachedOK

\* When no file changes between its hash and its parse, the decode caches agree with the database
\* whenever no call is in flight, but for packages of calls that failed or put an older entry back
\* (reindex).
THEOREM DecodedIsCurrentHolds ==
    ASSUME ~TornReads
    PROVE  Spec => []DecodedIsCurrent
<1>1. Init => StatInv /\ CacheInv
  BY StatInit, CacheInit
<1>2. IndexInv /\ StatInv /\ CacheInv /\ [Next]_vars => StatInv' /\ CacheInv'
  BY StatNext, CacheNext
<1>3. IndexInv /\ CacheInv => DecodedIsCurrent
  BY DEF CacheInv, CachedOK, Reported, DecodedIsCurrent, StaleDecodes
<1> QED BY <1>1, <1>2, <1>3, IndexSafe, PTL DEF Spec

-----------------------------------------------------------------------------
\* The order has every package once.
LEMMA OrderOnce ==
    /\ DOMAIN Order = 1..Len(Order) /\ Len(Order) \in Nat
    /\ \A i, j \in DOMAIN Order : Order[i] = Order[j] => i = j
<1>1. Order \in Surjection(1..Cardinality(Pkgs), Pkgs)
  BY OrderAssumption DEF Surjection
<1>2. Cardinality(Pkgs) \in Nat
  BY OrderAssumption, FS_CardinalityType
<1>3. IsFiniteSet(1..Cardinality(Pkgs)) /\ Cardinality(1..Cardinality(Pkgs)) = Cardinality(Pkgs)
  BY <1>2, FS_Interval
<1>4. Order \in Injection(1..Cardinality(Pkgs), Pkgs)
  BY <1>1, <1>3, FS_SurjSameCardinalityImpliesInj
<1>5. DOMAIN Order = 1..Cardinality(Pkgs)
  BY OrderAssumption
<1>6. DOMAIN Order = 1..Len(Order) /\ Len(Order) \in Nat
  BY OrderIsSeq, LenProperties
<1> QED BY <1>4, <1>5, <1>6 DEF Injection, IsInjective

\* Pos is where the order has a package.
LEMMA PosOf ==
    /\ \A p \in Pkgs : Pos(p) \in DOMAIN Order /\ Order[Pos(p)] = p
    /\ \A i \in DOMAIN Order : Pos(Order[i]) = i
<1>1. ASSUME NEW p \in Pkgs PROVE Pos(p) \in DOMAIN Order /\ Order[Pos(p)] = p
  BY OrderAssumption DEF Pos
<1>2. \A i \in DOMAIN Order : Order[i] \in Pkgs
  BY OrderAssumption
<1> QED BY <1>1, <1>2, OrderOnce

\* What has been selected after i packages: those of K so far, in order.
Selected(s, K, i) ==
    /\ \A a \in DOMAIN s : s[a] \in K /\ Pos(s[a]) <= i
    /\ \A a, b \in DOMAIN s : a < b => Pos(s[a]) < Pos(s[b])
    /\ \A j \in 1..i : Order[j] \in K => \E a \in DOMAIN s : s[a] = Order[j]

\* One more package.
LEMMA SelectedNext ==
    ASSUME NEW K, NEW n \in DOMAIN Order, NEW s \in Seq(Pkgs), Selected(s, K, n - 1)
    PROVE  Selected(IF Order[n] \in K THEN Append(s, Order[n]) ELSE s, K, n)
<1>0. n \in Nat /\ n >= 1
  BY OrderOnce
<1>1. n \in Nat /\ n >= 1 /\ Order[n] \in Pkgs /\ Pos(Order[n]) = n
  BY <1>0, PosOf, OrderAssumption
<1>2. DOMAIN s = 1..Len(s) /\ Len(s) \in Nat /\ \A a \in DOMAIN s : s[a] \in Pkgs
  BY LenProperties, ElementOfSeq
<1>3. \A a \in DOMAIN s : Pos(s[a]) \in Nat
  BY <1>2, PosType
<1>4. \A j \in 1..n : j = n \/ j \in 1..(n - 1)
  BY <1>1
<1>5. CASE Order[n] \notin K
  BY <1>1, <1>3, <1>4, <1>5 DEF Selected
<1>6. CASE Order[n] \in K
  <2> DEFINE t == Append(s, Order[n])
  <2>1. t \in Seq(Pkgs) /\ Len(t) = Len(s) + 1
    BY <1>1, AppendProperties
  <2>2. DOMAIN t = 1..(Len(s) + 1)
    BY <2>1, LenProperties
  <2>3. (\A a \in DOMAIN s : a \in DOMAIN t /\ t[a] = s[a]) /\ Len(s) + 1 \in DOMAIN t /\ t[Len(s) + 1] = Order[n]
    BY <1>1, <1>2, <2>2, AppendProperties
  <2>4. \A a \in DOMAIN t : a \in DOMAIN s \/ a = Len(s) + 1
    BY <1>2, <2>2
  <2> HIDE DEF t
  <2>5. ASSUME NEW a \in DOMAIN t PROVE t[a] \in K /\ Pos(t[a]) <= n
    <3>1. CASE a \in DOMAIN s BY <1>1, <1>3, <2>3, <3>1 DEF Selected
    <3>2. CASE a = Len(s) + 1 BY <1>1, <1>6, <2>3, <3>2
    <3> QED BY <2>4, <3>1, <3>2
  <2>6. ASSUME NEW a \in DOMAIN t, NEW b \in DOMAIN t, a < b PROVE Pos(t[a]) < Pos(t[b])
    <3>1. a \in DOMAIN s
      BY <1>2, <2>2, <2>4, <2>6
    <3>2. CASE b \in DOMAIN s BY <2>3, <2>6, <3>1, <3>2 DEF Selected
    <3>3. CASE b = Len(s) + 1
      <4>1. Pos(s[a]) <= n - 1 /\ Pos(s[a]) \in Nat
        BY <1>3, <3>1 DEF Selected
      <4> QED BY <1>1, <2>3, <3>1, <3>3, <4>1
    <3> QED BY <2>4, <3>2, <3>3
  <2>7. ASSUME NEW j \in 1..n, Order[j] \in K PROVE \E a \in DOMAIN t : t[a] = Order[j]
    <3>1. CASE j = n BY <2>3, <3>1
    <3>2. CASE j \in 1..(n - 1)
      <4>1. PICK a \in DOMAIN s : s[a] = Order[j]
        BY <2>7, <3>2 DEF Selected
      <4> QED BY <2>3, <4>1
    <3> QED BY <1>4, <3>1, <3>2
  <2>8. Selected(t, K, n)
    BY <2>5, <2>6, <2>7 DEF Selected
  <2> QED BY <1>6, <2>8 DEF t
<1> QED BY <1>5, <1>6

\* InOrder yields every package of K, along the order.
LEMMA InOrderSelects ==
    ASSUME NEW K
    PROVE  Selected(InOrder(K), K, Len(Order))
<1> DEFINE N == Len(Order)
<1>0. N \in Nat /\ DOMAIN Order = 1..N
  BY OrderOnce
<1>1. PICK f \in [0..N -> Seq(Pkgs)] : (\A i \in 0..N : f[i] = Kept(f, K, i)) /\ InOrder(K) = f[N]
  BY InOrderKept
<1> DEFINE T == {i \in 0..N : ~Selected(f[i], K, i)}
<1>2. T = {}
  <2>1. SUFFICES ASSUME T # {} PROVE FALSE
    OBVIOUS
  <2>2. PICK n \in T : \A m \in T : n <= m
    <3>1. T \in SUBSET Nat
      BY <1>0
    <3> HIDE DEF T
    <3> QED BY <2>1, <3>1, Least
  <2>3. CASE n = 0
    <3>1. f[0] = <<>>
      BY <1>0, <1>1 DEF Kept
    <3>2. DOMAIN f[0] = {} /\ 1..0 = {}
      BY <3>1
    <3>3. Selected(f[0], K, 0)
      BY <3>2 DEF Selected
    <3> QED BY <2>2, <2>3, <3>3
  <2>4. CASE n # 0
    <3>1. n - 1 \in 0..N /\ n \in 1..N /\ ~(n <= n - 1) /\ n \in 0..N
      BY <1>0, <2>4
    <3>2. Selected(f[n - 1], K, n - 1)
      BY <2>2, <3>1
    <3>3. f[n - 1] \in Seq(Pkgs)
      BY <1>1, <3>1
    <3>4. Selected(IF Order[n] \in K THEN Append(f[n - 1], Order[n]) ELSE f[n - 1], K, n)
      BY <1>0, <3>1, <3>2, <3>3, SelectedNext
    <3>5. f[n] = IF Order[n] \in K THEN Append(f[n - 1], Order[n]) ELSE f[n - 1]
      BY <1>1, <2>4, <3>1 DEF Kept
    <3>6. Selected(f[n], K, n)
      BY <3>4, <3>5
    <3> QED BY <2>2, <3>6
  <2> QED BY <2>3, <2>4
<1>3. N \in 0..N
  BY <1>0
<1> QED BY <1>1, <1>2, <1>3

\* The packages whose key depends on q's, in any number of steps.
After(q) ==
    {p \in Pkgs : \A S \in SUBSET Pkgs :
        (q \in S /\ \A x \in Pkgs : directDepImports(x) \cap S # {} => x \in S) => p \in S}
\* What the pass has still to reindex reaches p.
Due(p) == \E q \in repair.todo : p \in After(q)
\* p is what a repair leaves.
Healed(p) == IsPointer(units[Live][p]) /\ units[Live][p].key = FreshKey(p) /\ Has(FreshKey(p))
Items(s) == {s[i] : i \in DOMAIN s}
\* The call that is running will come to p.
ToCome(p) ==
    LET cl == call[Repair]
    IN  cl.pc \in {"resolve", "check", "gate", "put"} /\ p \in Items(cl.todo) /\ p \in After(cl.first)

\* A call goes to its first package, and then along the order.
Walk(cl) ==
    \A i, j \in DOMAIN cl.todo : i < j => /\ cl.todo[j] # cl.first
                                          /\ cl.todo[i] = cl.first \/ Pos(cl.todo[i]) < Pos(cl.todo[j])
Clear(p) == Buildable(p) /\ ~Due(p)
\* What it has found of packages that can be right by now is right.
KeysFresh(cl) ==
    \A d \in Pkgs : Clear(d) => cl.keys[d] \in {Unset, Api[disk[Live][d].ver]}
HandFresh(cl) ==
    (cl.pc \in {"check", "gate", "put"} /\ Clear(Head(cl.todo))) =>
        LET key == FreshKey(Head(cl.todo))
        IN  IF cl.pc = "check" THEN cl.key = key ELSE cl.unit.key = key /\ Has(key)
CallHeals(cl) == cl.pc # "idle" => cl.gen = gens.next /\ Walk(cl) /\ KeysFresh(cl) /\ HandFresh(cl)

\* Nobody but the pass changes what it is about.
Alone ==
    /\ holder[Live] = "session" /\ InFlight \subseteq {Repair}
    /\ gc.pc # "sweep" /\ (gc.pc = "mark" => gc.bad \/ Live \in gc.left)
    /\ \A p \in Pkgs : ReadFile(p) = disk[Live][p].ver
\* Every package that can be built is right, or will be made so.
Heals == \A p \in Pkgs : Buildable(p) => Healed(p) \/ Due(p) \/ ToCome(p)
PassInv ==
    (repair.pc # "idle" /\ repair.clean) =>
        /\ Alone /\ Heals /\ CallHeals(call[Repair])
        /\ repair.pc = "done" => repair.todo = {} /\ InFlight = {}
\* A database that is held is open,
HeldOpen == \A r \in Roots : holder[r] # "none" => file[r].state = "current"
\* and generations are handed out in order.
GensOrdered == /\ \A p \in Pkgs : gens.done[p] <= gens.next
               /\ \A c \in InFlight : call[c].gen <= gens.next
\* A pass that nothing disturbs runs in a database the CAS lists.
PassListed == (repair.pc # "idle" /\ repair.clean) => file[Live].member
OpenInv == HeldOpen /\ GensOrdered /\ PassListed

\* A package comes after itself, and after what it depends on,
LEMMA AfterStep ==
    /\ \A q \in Pkgs : q \in After(q)
    /\ \A q \in Pkgs : \A x, d \in Pkgs : d \in After(q) /\ d \in directDepImports(x) => x \in After(q)
<1>1. \A q \in Pkgs : q \in After(q)
  BY DEF After
<1>2. ASSUME NEW q \in Pkgs, NEW x \in Pkgs, NEW d \in Pkgs, d \in After(q), d \in directDepImports(x)
      PROVE  x \in After(q)
  <2>. SUFFICES ASSUME NEW S \in SUBSET Pkgs, q \in S, \A y \in Pkgs : directDepImports(y) \cap S # {} => y \in S
                PROVE  x \in S
    BY DEF After
  <2>1. d \in S
    BY <1>2 DEF After
  <2>. QED BY <1>2, <2>1
<1>. QED BY <1>1, <1>2

\* and whatever comes after one that does.
LEMMA AfterTrans ==
    ASSUME NEW r \in Pkgs, NEW q \in After(r), NEW p \in After(q)
    PROVE  p \in After(r)
<1>1. After(r) \in SUBSET Pkgs
  BY DEF After
<1>2. \A x \in Pkgs : directDepImports(x) \cap After(r) # {} => x \in After(r)
  BY <1>1, AfterStep
<1>. QED BY <1>1, <1>2 DEF After

\* The order respects it,
LEMMA AfterPos ==
    ASSUME NEW q \in Pkgs, NEW p \in After(q)
    PROVE  p \in Pkgs /\ Pos(q) \in Nat /\ Pos(p) \in Nat /\ Pos(q) <= Pos(p)
<1> DEFINE S == {x \in Pkgs : Pos(q) <= Pos(x)}
<1>1. q \in S
  BY PosType
<1>2. ASSUME NEW x \in Pkgs, directDepImports(x) \cap S # {} PROVE x \in S
  <2>1. PICK d \in Pkgs : d \in directDepImports(x) /\ Pos(q) <= Pos(d)
    BY <1>2
  <2>2. Pos(d) < Pos(x)
    BY <2>1 DEF directDepImports, Before
  <2>3. Pos(d) \in Nat /\ Pos(x) \in Nat /\ Pos(q) \in Nat
    BY PosType
  <2>. QED BY <2>1, <2>2, <2>3
<1>3. p \in S /\ p \in Pkgs
  BY <1>1, <1>2 DEF After
<1>. QED BY <1>3, PosType

\* and so does the closure a Reindex visits.
LEMMA AfterClosure ==
    ASSUME NEW q \in Pkgs
    PROVE  After(q) \subseteq ClosureUnits(q)
BY DEF After, ClosureUnits, directDepImports

\* What comes after a package that cannot be built cannot be built.
LEMMA BuildableBefore ==
    ASSUME NEW q \in Pkgs, NEW p \in After(q), Buildable(p)
    PROVE  Buildable(q)
<1>. SUFFICES ASSUME NEW r \in Pkgs, q \in ClosureUnits(r) PROVE disk[Live][r].ver \notin Broken
  BY DEF Buildable
<1>1. p \in ClosureUnits(r)
  <2>1. p \in Pkgs /\ p \in ClosureUnits(q)
    BY AfterClosure, AfterPos
  <2>. SUFFICES ASSUME NEW S \in SUBSET Pkgs, r \in S,
                       \A x \in Pkgs : (Imports[x] \cup TestImports[x]) \cap S # {} => x \in S
                PROVE  p \in S
    BY <2>1 DEF ClosureUnits
  <2>2. q \in S
    BY DEF ClosureUnits
  <2>. QED BY <2>1, <2>2 DEF ClosureUnits
<1>. QED BY <1>1 DEF Buildable

\* What a pass has still to come to reaches what comes after it,
LEMMA DueAfter ==
    ASSUME repair.todo \subseteq Pkgs, NEW q \in Pkgs, NEW p \in After(q), Due(q)
    PROVE  Due(p)
<1>1. PICK r \in repair.todo : q \in After(r)
  BY DEF Due
<1>. QED BY <1>1, AfterTrans DEF Due

\* so that what has to be right by now depends only on such packages.
LEMMA ClearBefore ==
    ASSUME repair.todo \subseteq Pkgs, NEW q \in Pkgs, NEW p \in After(q), Clear(p)
    PROVE  Clear(q)
BY BuildableBefore, DueAfter DEF Clear

\* In particular what it imports.
LEMMA ClearDeps ==
    ASSUME repair.todo \subseteq Pkgs, NEW p \in Pkgs, Clear(p), NEW d \in directDepImports(p)
    PROVE  d \in Pkgs /\ Pos(d) < Pos(p) /\ Pos(d) \in Nat /\ Pos(p) \in Nat /\ p \in After(d) /\ Clear(d)
<1>1. d \in Pkgs
  BY DepsType
<1>2. p \in After(d)
  BY <1>1, AfterStep
<1>3. Pos(d) < Pos(p)
  BY DEF directDepImports, Before
<1>. QED BY <1>1, <1>2, <1>3, ClearBefore, PosType

\* A package that can be built has nothing wrong of its own.
LEMMA BuildableSelf ==
    ASSUME NEW p \in Pkgs, Buildable(p)
    PROVE  disk[Live][p].ver \notin Broken
<1>1. p \in ClosureUnits(p)
  BY DEF ClosureUnits
<1>. QED BY <1>1 DEF Buildable

\* A new call walks along the order, to all that comes after its package.
LEMMA StartWalk ==
    ASSUME NEW p \in Pkgs, NEW cl, cl.first = p, cl.todo = <<p>> \o orderedReverseClosure(p)
    PROVE  Walk(cl) /\ cl.todo \in Seq(Pkgs) /\ \A q \in After(p) : q \in Items(cl.todo)
<1> DEFINE K == ClosureUnits(p) \ {p}
<1> DEFINE s == InOrder(K)
<1>1. s \in Seq(Pkgs) /\ Len(s) \in Nat /\ DOMAIN s = 1..Len(s) /\ Selected(s, K, Len(Order))
  BY InOrderType, InOrderSelects, LenProperties
<1>2. cl.todo = <<p>> \o s
  BY DEF orderedReverseClosure
<1>3. <<p>> \in Seq(Pkgs) /\ Len(<<p>>) = 1 /\ <<p>>[1] = p
  OBVIOUS
<1> HIDE DEF s, K
<1>4. /\ cl.todo \in Seq(Pkgs) /\ Len(cl.todo) = 1 + Len(s)
      /\ \A i \in 1..(1 + Len(s)) : cl.todo[i] = IF i <= 1 THEN <<p>>[i] ELSE s[i - 1]
  <2>1. PICK o : o = <<p>>
    OBVIOUS
  <2>2. o \in Seq(Pkgs) /\ Len(o) = 1
    BY <1>3, <2>1
  <2>3. /\ o \o s \in Seq(Pkgs) /\ Len(o \o s) = Len(o) + Len(s)
        /\ \A i \in 1..(Len(o) + Len(s)) : (o \o s)[i] = IF i <= Len(o) THEN o[i] ELSE s[i - Len(o)]
    BY <1>1, <2>2, ConcatProperties
  <2>4. cl.todo = o \o s
    BY <1>2, <2>1
  <2>5. \A i \in 1..(1 + Len(s)) : cl.todo[i] = IF i <= 1 THEN o[i] ELSE s[i - 1]
    BY <2>2, <2>3, <2>4
  <2>. QED BY <2>1, <2>2, <2>3, <2>4, <2>5
<1>5. DOMAIN cl.todo = 1..(1 + Len(s))
  BY <1>4, LenProperties
<1>6. cl.todo[1] = p
  BY <1>1, <1>3, <1>4
<1>7. ASSUME NEW i \in DOMAIN cl.todo, i # 1 PROVE i - 1 \in DOMAIN s /\ cl.todo[i] = s[i - 1] /\ i \in Nat
  BY <1>1, <1>4, <1>5, <1>7
<1>8. Walk(cl)
  <2>. SUFFICES ASSUME NEW i \in DOMAIN cl.todo, NEW j \in DOMAIN cl.todo, i < j
                PROVE  cl.todo[j] # p /\ (cl.todo[i] = p \/ Pos(cl.todo[i]) < Pos(cl.todo[j]))
    BY DEF Walk
  <2>1. j # 1 /\ j \in Nat /\ i \in Nat
    BY <1>1, <1>5
  <2>2. cl.todo[j] = s[j - 1] /\ j - 1 \in DOMAIN s
    BY <1>7, <2>1
  <2>3. s[j - 1] \in K
    BY <1>1, <2>2 DEF Selected
  <2>4. CASE i = 1 BY <1>6, <2>2, <2>3, <2>4 DEF K
  <2>5. CASE i # 1
    <3>1. cl.todo[i] = s[i - 1] /\ i - 1 \in DOMAIN s
      BY <1>7, <2>5
    <3>2. i - 1 < j - 1
      BY <2>1
    <3>3. Pos(s[i - 1]) < Pos(s[j - 1])
      BY <1>1, <2>2, <3>1, <3>2 DEF Selected
    <3>. QED BY <2>2, <2>3, <3>1, <3>3 DEF K
  <2>. QED BY <2>4, <2>5
<1>9. ASSUME NEW q \in After(p) PROVE q \in Items(cl.todo)
  <2>1. CASE q = p
    <3>1. 1 \in DOMAIN cl.todo
      BY <1>1, <1>5
    <3>. QED BY <1>6, <2>1, <3>1 DEF Items
  <2>2. CASE q # p
    <3>1. q \in K /\ q \in Pkgs
      BY <2>2, AfterClosure, AfterPos DEF K
    <3>2. Pos(q) \in 1..Len(Order) /\ Order[Pos(q)] = q
      BY <3>1, PosOf, OrderOnce
    <3>3. PICK a \in DOMAIN s : s[a] = q
      BY <1>1, <3>1, <3>2 DEF Selected
    <3>4. a \in Nat /\ a >= 1 /\ a <= Len(s)
      BY <1>1
    <3>5. a + 1 \in DOMAIN cl.todo /\ a + 1 # 1 /\ (a + 1) - 1 = a
      BY <1>1, <1>5, <3>4
    <3>6. cl.todo[a + 1] = s[a]
      BY <1>7, <3>5
    <3>. QED BY <3>3, <3>5, <3>6 DEF Items
  <2>. QED BY <2>1, <2>2
<1>. QED BY <1>4, <1>8, <1>9

\* The packages of a call's walk: its head, and the tail.
LEMMA WalkHead ==
    ASSUME NEW cl \in CallType, cl.todo # <<>>
    PROVE  /\ Head(cl.todo) \in Pkgs /\ Tail(cl.todo) \in Seq(Pkgs)
           /\ Head(cl.todo) = cl.todo[1] /\ 1 \in DOMAIN cl.todo
           /\ \A i \in DOMAIN Tail(cl.todo) : i + 1 \in DOMAIN cl.todo /\ Tail(cl.todo)[i] = cl.todo[i + 1] /\ i \in Nat /\ 1 < i + 1
           /\ \A p \in Items(cl.todo) : p = Head(cl.todo) \/ p \in Items(Tail(cl.todo))
<1>1. cl.todo \in Seq(Pkgs)
  BY DEF CallType
<1> DEFINE s == cl.todo
<1>2. Head(s) \in Pkgs /\ Tail(s) \in Seq(Pkgs) /\ Len(Tail(s)) = Len(s) - 1 /\ \A i \in 1..Len(Tail(s)) : Tail(s)[i] = s[i + 1]
  BY <1>1, HeadTailProperties
<1>3. Len(s) \in Nat /\ DOMAIN s = 1..Len(s) /\ DOMAIN Tail(s) = 1..Len(Tail(s)) /\ Len(Tail(s)) \in Nat
  BY <1>1, <1>2, LenProperties
<1>4. Head(s) = s[1]
  BY <1>1
<1>5. \A i \in DOMAIN Tail(s) : i + 1 \in DOMAIN s /\ Tail(s)[i] = s[i + 1] /\ i \in Nat /\ 1 < i + 1
  BY <1>2, <1>3
<1>6. 1 \in DOMAIN s
  BY <1>2, <1>3
<1>7. ASSUME NEW p \in Items(s) PROVE p = Head(s) \/ p \in Items(Tail(s))
  <2>1. PICK i \in DOMAIN s : s[i] = p
    BY <1>7 DEF Items
  <2>2. CASE i = 1 BY <1>4, <2>1, <2>2
  <2>3. CASE i # 1
    <3>1. i - 1 \in DOMAIN Tail(s) /\ (i - 1) + 1 = i
      BY <1>2, <1>3, <2>1, <2>3
    <3>. QED BY <1>5, <2>1, <3>1 DEF Items
  <2>. QED BY <2>2, <2>3
<1>. QED BY <1>2, <1>4, <1>5, <1>6, <1>7

\* What is left of a walk comes later than its head, unless that is the package
\* the call was for,
LEMMA WalkAhead ==
    ASSUME NEW cl \in CallType, cl.todo # <<>>, Walk(cl), NEW p \in Items(Tail(cl.todo))
    PROVE  p # cl.first /\ (Head(cl.todo) = cl.first \/ Pos(Head(cl.todo)) < Pos(p))
<1>1. PICK i \in DOMAIN Tail(cl.todo) : Tail(cl.todo)[i] = p
  BY DEF Items
<1>2. i + 1 \in DOMAIN cl.todo /\ cl.todo[i + 1] = p /\ 1 < i + 1 /\ 1 \in DOMAIN cl.todo /\ Head(cl.todo) = cl.todo[1]
  BY <1>1, WalkHead
<1>. QED BY <1>2 DEF Walk

\* and is a walk.
LEMMA WalkTail ==
    ASSUME NEW cl \in CallType, cl.todo # <<>>, Walk(cl), NEW n, n.first = cl.first, n.todo = Tail(cl.todo)
    PROVE  Walk(n)
<1>1. ASSUME NEW i \in DOMAIN n.todo, NEW j \in DOMAIN n.todo, i < j
      PROVE  n.todo[j] # n.first /\ (n.todo[i] = n.first \/ Pos(n.todo[i]) < Pos(n.todo[j]))
  <2>1. /\ i + 1 \in DOMAIN cl.todo /\ n.todo[i] = cl.todo[i + 1] /\ i \in Nat
        /\ j + 1 \in DOMAIN cl.todo /\ n.todo[j] = cl.todo[j + 1] /\ j \in Nat
    BY <1>1, WalkHead
  <2>2. i + 1 < j + 1
    BY <1>1, <2>1
  <2>. QED BY <2>1, <2>2 DEF Walk
<1>. QED BY <1>1 DEF Walk

\* What a healed package's pointer records.
LEMMA HealedParts ==
    ASSUME IndexInv, StatInv, NEW p \in Pkgs, Healed(p)
    PROVE  IsPointer(units[Live][p]) /\ units[Live][p].own = disk[Live][p].ver /\ units[Live][p].api = Api[disk[Live][p].ver]
<1>1. units[Live][p] \in Pointers(p)
  BY LiveAssumption, DatabaseParts DEF Healed, IndexInv
<1>2. units[Live][p].own = units[Live][p].key.own
  BY <1>1, PointerParts
<1>3. units[Live][p].key.own = disk[Live][p].ver
  BY DEF Healed, FreshKey, UnitKey
<1>4. units[Live][p].api = Api[units[Live][p].own]
  BY LiveAssumption DEF Healed, StatInv, FactsAgree
<1>. QED BY <1>2, <1>3, <1>4 DEF Healed

\* What is on disk is a version, and its API is no mark of the key table.
LEMMA DiskVersion ==
    ASSUME IndexInv, NEW p \in Pkgs
    PROVE  /\ disk[Live][p].ver \in Versions
           /\ Api[disk[Live][p].ver] \in Apis /\ Api[disk[Live][p].ver] \notin {Unset, Failed}
<1>1. disk[Live][p].ver \in Versions
  BY LiveAssumption DEF IndexInv, Disks
<1>. QED BY <1>1, ApiType, MarksAssumption

\* The right key of a package is one.
LEMMA FreshKeyParts ==
    ASSUME IndexInv, NEW p \in Pkgs
    PROVE  FreshKey(p) \in Keys /\ FreshKey(p).pkg = p /\ FreshKey(p).own = disk[Live][p].ver
<1> DEFINE deps == [d \in directDepImports(p) |-> Api[disk[Live][d].ver]]
<1>1. deps \in [directDepImports(p) -> Apis]
  BY DepsType, DiskVersion
<1>2. disk[Live][p].ver \in Versions
  BY DiskVersion
<1> HIDE DEF deps
<1>3. UnitKey(p, disk[Live][p].ver, deps) \in Keys /\ UnitKey(p, disk[Live][p].ver, deps).pkg = p
      /\ UnitKey(p, disk[Live][p].ver, deps).own = disk[Live][p].ver
  BY <1>1, <1>2, KeyType
<1>4. FreshKey(p) = UnitKey(p, disk[Live][p].ver, deps)
  BY DEF FreshKey, deps
<1>. QED BY <1>3, <1>4

\* When a call comes to a package that has to be right by now, what it finds of
\* its dependencies is right: they come earlier, or are right already.
LEMMA DepsFresh ==
    ASSUME IndexInv, StatInv, Heals, CallHeals(call[Repair]), call[Repair].pc \in {"resolve", "check"},
           NEW h, h = Head(call[Repair].todo), Clear(h), NEW d \in directDepImports(h)
    PROVE  keyGet(call[Repair].keys, Live, d) = Api[disk[Live][d].ver]
<1> DEFINE cl == call[Repair]
<1>1. cl \in CallType /\ cl.todo # <<>> /\ h \in Pkgs
  BY CallParts, CallsAssumption
<1>2. repair.todo \subseteq Pkgs
  BY DEF IndexInv, RepairType
<1>3. d \in Pkgs /\ Pos(d) < Pos(h) /\ Pos(d) \in Nat /\ Pos(h) \in Nat /\ h \in After(d) /\ Clear(d)
  BY <1>1, <1>2, ClearDeps
<1>4. Walk(cl) /\ KeysFresh(cl)
  BY DEF CallHeals
<1>5. ~ToCome(d)
  <2>. SUFFICES ASSUME d \in Items(cl.todo), d \in After(cl.first) PROVE FALSE
    BY DEF ToCome
  <2>1. d # h
    BY <1>3
  <2>2. d \in Items(Tail(cl.todo))
    BY <1>1, <2>1, WalkHead
  <2>3. h = cl.first \/ Pos(h) < Pos(d)
    BY <1>1, <1>4, <2>2, WalkAhead
  <2>4. h = cl.first => Pos(h) <= Pos(d)
    BY <1>1, AfterPos
  <2>. QED BY <1>3, <2>3, <2>4
<1>6. Healed(d)
  BY <1>3, <1>5 DEF Heals, Clear
<1>7. IsPointer(units[Live][d]) /\ units[Live][d].api = Api[disk[Live][d].ver]
  BY <1>3, <1>6, HealedParts
<1>8. cl.keys[d] \in {Unset, Api[disk[Live][d].ver]}
  BY <1>3, <1>4 DEF KeysFresh
<1>. QED BY <1>7, <1>8 DEF keyGet

\* processUnit for a package that reads what is on disk and whose dependencies
\* are right: the right key, and nothing to do, or a pointer with that key, or
\* a type check.
LEMMA ResolveFresh ==
    ASSUME IndexInv, StatInv, NEW p \in Pkgs, NEW keys, NEW ver, ver = disk[Live][p].ver, NEW trust \in BOOLEAN,
           \A d \in directDepImports(p) : keyGet(keys, Live, d) = Api[disk[Live][d].ver],
           NEW res, res = processUnit(Live, p, ver, trust, keys)
    PROVE  /\ res.kind \in {"same", "hit", "check"} /\ res.key = FreshKey(p)
           /\ res.kind # "check" => res.api = Api[ver] /\ Has(FreshKey(p))
           /\ (res.kind # "check" /\ res.unit # NoUnit) => res.unit.key = FreshKey(p)
           /\ (res.kind # "check" /\ res.unit = NoUnit) => Healed(p)
<1> DEFINE old == units[Live][p]
           deps == directDepExports(keys, Live, p)
           statOK == filesStatMatch(Live, p, trust)
           own == IF statOK THEN old.own ELSE ver
           key == UnitKey(p, own, deps)
           bad == \E d \in DOMAIN deps : deps[d] = Failed
           same == IsPointer(old) /\ key = old.key
           fail == [kind |-> "fail", key |-> NoKey, own |-> own, unit |-> NoUnit, api |-> Failed]
           fresh == IF statOK \/ ~trust THEN NoUnit ELSE [old EXCEPT !.files = disk[Live][p].stat]
           api == Api[blobs[key].facts]
           hit == [key |-> key, own |-> own, api |-> api, files |-> blobs[key].files]
<1>1. IsPointer(old) => old \in Pointers(p)
  BY DatabaseParts, LiveAssumption DEF IndexInv
<1>2. own = ver
  BY FastPath, LiveAssumption DEF filesStatMatch, StatInv
<1>3. deps = [d \in directDepImports(p) |-> Api[disk[Live][d].ver]]
  BY DEF directDepExports
<1>4. key = FreshKey(p)
  BY <1>2, <1>3 DEF FreshKey
<1>5. ~bad
  <2>. SUFFICES ASSUME NEW d \in directDepImports(p) PROVE Api[disk[Live][d].ver] # Failed
    BY <1>3
  <2>. QED BY DepsType, DiskVersion
<1>6. res = CASE bad -> fail
          [] ~bad /\ Has(key) /\ same -> [fail EXCEPT !.kind = "same", !.key = key, !.api = old.api, !.unit = fresh]
          [] ~bad /\ Has(key) /\ ~same -> [fail EXCEPT !.kind = "hit", !.key = key, !.api = api, !.unit = hit]
          [] ~bad /\ ~Has(key) -> [fail EXCEPT !.kind = "check", !.key = key]
  BY DEF processUnit
<1>7. FreshKey(p) \in Keys /\ FreshKey(p).pkg = p /\ FreshKey(p).own = ver
  BY FreshKeyParts
<1> HIDE DEF bad, same, key, own, deps
<1>8. CASE Has(key) /\ same
  <2>1. res = [fail EXCEPT !.kind = "same", !.key = key, !.api = old.api, !.unit = fresh]
    BY <1>5, <1>6, <1>8
  <2>2. IsPointer(old) /\ key = old.key
    BY <1>8 DEF same
  <2>3. old \in Pointers(p) /\ old.api = Api[old.own]
    BY <1>1, <2>2, LiveAssumption DEF StatInv, FactsAgree
  <2>4. old.own = ver
    BY <1>4, <1>7, <2>2, <2>3, PointerParts
  <2>5. Healed(p)
    BY <1>4, <1>8, <2>2 DEF Healed
  <2>6. fresh # NoUnit => fresh.key = FreshKey(p)
    <3>1. CASE statOK \/ ~trust BY <3>1
    <3>2. CASE ~(statOK \/ ~trust)
      <4>1. old \in [key : Keys, own : Versions, api : Apis, files : Stats]
        BY <2>3 DEF Pointers, UnitPointer
      <4>. QED BY <1>4, <2>2, <3>2, <4>1
    <3>. QED BY <3>1, <3>2
  <2> HIDE DEF fresh, old
  <2>7. res.kind = "same" /\ res.key = key /\ res.api = old.api /\ res.unit = fresh
    BY <2>1
  <2>. QED BY <1>4, <1>8, <2>3, <2>4, <2>5, <2>6, <2>7
<1>9. CASE Has(key) /\ ~same
  <2>1. res = [fail EXCEPT !.kind = "hit", !.key = key, !.api = api, !.unit = hit]
    BY <1>5, <1>6, <1>9
  <2>2. blobs[key].facts = key.own
    BY <1>9 DEF Has, StatInv, FactsAgree
  <2>3. api = Api[ver]
    BY <1>4, <1>7, <2>2
  <2>4. hit \in Pointers(p)
    <3>1. blobs[key] \in BlobRecord
      BY <1>9 DEF IndexInv, IsCAS, Has
    <3>2. ver \in Versions /\ Api[ver] \in Apis
      BY DiskVersion
    <3>3. blobs[key].files \in Stats
      BY <3>1 DEF BlobRecord
    <3>4. hit.key = key /\ hit.own = own /\ hit.api = api /\ hit.files = blobs[key].files
      OBVIOUS
    <3>5. hit \in UnitPointer
      BY <1>2, <1>4, <1>7, <2>3, <3>2, <3>3 DEF UnitPointer
    <3> HIDE DEF hit
    <3>. QED BY <1>2, <1>4, <1>7, <3>4, <3>5 DEF Pointers
  <2>5. hit # NoUnit
    BY <2>4, PointersArePointers DEF IsPointer
  <2>6. hit.key = key
    OBVIOUS
  <2> HIDE DEF hit, api
  <2>7. res.kind = "hit" /\ res.key = key /\ res.api = api /\ res.unit = hit
    BY <2>1
  <2>. QED BY <1>4, <1>9, <2>3, <2>5, <2>6, <2>7
<1>10. CASE ~Has(key)
  <2>1. res = [fail EXCEPT !.kind = "check", !.key = key]
    BY <1>5, <1>6, <1>10
  <2>2. res.kind = "check" /\ res.key = key
    BY <2>1
  <2>. QED BY <1>4, <2>2
<1>. QED BY <1>8, <1>9, <1>10

\* A call stays with its package, goes on to the next one, or gives up.
Same(cl, n) == n.gen = cl.gen /\ n.first = cl.first
Stays(cl, n) == Same(cl, n) /\ n.todo = cl.todo /\ n.pc \in {"check", "gate", "put"}
GoesOn(cl, n) ==
    Same(cl, n) /\ n.todo = Tail(cl.todo) /\ (n.pc = "resolve" \/ (n.pc = "end" /\ Tail(cl.todo) = <<>>))
GivesUp(cl, n) == Same(cl, n) /\ n.todo = cl.todo /\ n.pc = "end" /\ Head(cl.todo) = cl.first

\* Next1 goes on,
LEMMA Next1Moves ==
    ASSUME NEW cl \in CallType, cl.todo # <<>>
    PROVE  GoesOn(cl, Next1(cl)) /\ Next1(cl).keys = cl.keys
<1> DEFINE t == Tail(cl.todo)
           pc == IF Len(cl.todo) > 1 THEN "resolve" ELSE "end"
           n == [cl EXCEPT !.todo = t, !.key = NoKey, !.unit = NoUnit, !.pc = pc]
<1>1. cl.todo \in Seq(Pkgs)
  BY DEF CallType
<1>2. t \in Seq(Pkgs) /\ Len(t) = Len(cl.todo) - 1 /\ Len(cl.todo) \in Nat /\ Len(t) \in Nat
  BY <1>1, HeadTailProperties, LenProperties
<1>3. pc = "resolve" \/ (pc = "end" /\ t = <<>>)
  <2>1. pc = "end" => ~(Len(cl.todo) > 1)
    OBVIOUS
  <2>2. pc \in {"resolve", "end"}
    OBVIOUS
  <2> HIDE DEF t, pc
  <2>3. ASSUME pc = "end" PROVE Len(t) = 0
    <3>1. PICK a \in Nat : a = Len(cl.todo)
      BY <1>2
    <3>2. PICK b \in Nat : b = Len(t)
      BY <1>2
    <3>3. b = a - 1 /\ ~(a > 1)
      BY <1>2, <2>1, <2>3, <3>1, <3>2
    <3>. QED BY <3>2, <3>3
  <2>. QED BY <1>2, <2>2, <2>3, EmptySeq
<1>4. Next1(cl) = n
  BY DEF Next1
<1> HIDE DEF t, pc
<1>5. n.gen = cl.gen /\ n.first = cl.first /\ n.todo = t /\ n.pc = pc /\ n.keys = cl.keys
  BY DEF CallType
<1> HIDE DEF n
<1>. QED BY <1>3, <1>4, <1>5 DEF GoesOn, Same, t

\* and an error makes a call go on, or give up at the package it was for.
LEMMA AfterErrorMoves ==
    ASSUME NEW cl \in CallType, cl.todo # <<>>
    PROVE  (GoesOn(cl, AfterError(cl)) \/ GivesUp(cl, AfterError(cl))) /\ AfterError(cl).keys = cl.keys
<1>1. CASE Head(cl.todo) = cl.first
  <2> DEFINE n == [cl EXCEPT !.pc = "end", !.err = TRUE, !.key = NoKey, !.unit = NoUnit]
  <2>1. AfterError(cl) = n
    BY <1>1 DEF AfterError, Abort
  <2>2. n.gen = cl.gen /\ n.first = cl.first /\ n.todo = cl.todo /\ n.pc = "end" /\ n.keys = cl.keys
    BY DEF CallType
  <2> HIDE DEF n
  <2>. QED BY <1>1, <2>1, <2>2 DEF GivesUp, Same
<1>2. CASE Head(cl.todo) # cl.first
  <2> DEFINE n == [cl EXCEPT !.err = TRUE]
  <2>1. n \in CallType /\ n.todo = cl.todo /\ n.first = cl.first /\ n.gen = cl.gen /\ n.keys = cl.keys
    BY DEF CallType
  <2>2. AfterError(cl) = Next1(n)
    BY <1>2 DEF AfterError
  <2> HIDE DEF n
  <2>. QED BY <2>1, <2>2, Next1Moves DEF GoesOn, Same
<1>. QED BY <1>1, <1>2

\* What a result says of a package that has to be right by now.
Right(h, res) ==
    /\ res.kind # "fail"
    /\ IF res.kind = "check" THEN res.key = FreshKey(h)
       ELSE /\ res.api = Api[disk[Live][h].ver]
            /\ res.unit # NoUnit => res.unit.key = FreshKey(h)

\* What reindexOne does with a result leaves what the call has found right.
LEMMA AfterResolveMoves ==
    ASSUME NEW cl \in CallOK, cl.pc \in {"resolve", "check"}, KeysFresh(cl), NEW h, h = Head(cl.todo),
           NEW res, Outcome(cl.keys, h, res), Clear(h) => Right(h, res)
    PROVE  LET n == afterResolve(cl, res)
           IN  /\ KeysFresh(n)
               /\ \/ Stays(cl, n) /\ (Clear(h) => \/ n.pc = "check" /\ n.key = FreshKey(h)
                                                  \/ n.pc = "gate" /\ n.unit.key = FreshKey(h) /\ res.kind # "check")
                  \/ GoesOn(cl, n) /\ (Clear(h) => res.kind # "check" /\ res.unit = NoUnit)
                  \/ GivesUp(cl, n) /\ ~Clear(h)
<1> DEFINE chg == IF res.kind \in {"hit", "checked"} THEN cl.changed \cup {h} ELSE cl.changed
           keys == [cl.keys EXCEPT ![h] = res.api]
           c2 == [cl EXCEPT !.keys = keys, !.changed = chg]
<1>0. cl \in CallType /\ CallInv(cl)
  BY DEF CallOK
<1>1. cl.todo # <<>> /\ h \in Pkgs
  BY <1>0, HeadType DEF CallInv
<1>2. cl.keys \in KeyTable /\ cl.changed \subseteq Pkgs
  BY <1>0 DEF CallType, KeyTable
<1>3. chg \subseteq Pkgs /\ keys \in KeyTable /\ keys[h] = res.api /\ \A q \in Pkgs : q # h => keys[q] = cl.keys[q]
  BY <1>1, <1>2 DEF Outcome, KeyTable
<1>4. [cl EXCEPT !.keys[Head(cl.todo)] = res.api,
                 !.changed = IF res.kind \in {"hit", "checked"} THEN @ \cup {Head(cl.todo)} ELSE @] = c2
  BY <1>0 DEF CallType
<1>5. afterResolve(cl, res) =
        CASE res.kind = "fail"  -> AfterError(c2)
          [] res.kind = "check" -> [cl EXCEPT !.pc = "check", !.key = res.key, !.own = res.own]
          [] res.kind \notin {"fail", "check"} /\ res.unit = NoUnit -> Next1(c2)
          [] res.kind \notin {"fail", "check"} /\ res.unit # NoUnit -> [c2 EXCEPT !.pc = "gate", !.unit = res.unit]
  BY <1>4 DEF afterResolve
<1> HIDE DEF chg, keys
<1>6. c2 \in CallType /\ c2.keys = keys /\ c2.todo = cl.todo /\ c2.first = cl.first /\ c2.gen = cl.gen
  BY <1>0, <1>3 DEF CallType, KeyTable
<1> HIDE DEF c2
<1>7. ASSUME res.kind # "check", NEW n, n.keys = keys PROVE KeysFresh(n)
  <2>. SUFFICES ASSUME NEW d \in Pkgs, Clear(d) PROVE keys[d] \in {Unset, Api[disk[Live][d].ver]}
    BY <1>7 DEF KeysFresh
  <2>1. CASE d = h BY <1>3, <1>7, <2>1 DEF Right
  <2>2. CASE d # h BY <1>3, <2>2 DEF KeysFresh
  <2>. QED BY <2>1, <2>2
<1> DEFINE N == afterResolve(cl, res)
<1>8. CASE res.kind = "fail"
  <2>1. N = AfterError(c2) /\ ~Clear(h)
    BY <1>5, <1>8 DEF Right
  <2> HIDE DEF N
  <2>2. (GoesOn(c2, N) \/ GivesUp(c2, N)) /\ N.keys = keys
    BY <1>1, <1>6, <2>1, AfterErrorMoves
  <2>3. KeysFresh(N)
    BY <1>7, <1>8, <2>2
  <2>4. GoesOn(cl, N) \/ GivesUp(cl, N)
    BY <1>6, <2>2 DEF GoesOn, GivesUp, Same
  <2>. QED BY <2>1, <2>3, <2>4 DEF N
<1>9. CASE res.kind = "check"
  <2> DEFINE m == [cl EXCEPT !.pc = "check", !.key = res.key, !.own = res.own]
  <2>1. N = m
    BY <1>5, <1>9
  <2>2. m.pc = "check" /\ m.key = res.key /\ m.keys = cl.keys /\ m.todo = cl.todo /\ m.first = cl.first /\ m.gen = cl.gen
    BY <1>0 DEF CallType
  <2> HIDE DEF m, N
  <2>3. KeysFresh(N)
    BY <2>1, <2>2 DEF KeysFresh
  <2>4. Stays(cl, N)
    BY <2>1, <2>2 DEF Stays, Same
  <2>5. Clear(h) => N.pc = "check" /\ N.key = FreshKey(h)
    BY <1>9, <2>1, <2>2 DEF Right
  <2>. QED BY <2>3, <2>4, <2>5 DEF N
<1>10. CASE res.kind \notin {"fail", "check"} /\ res.unit = NoUnit
  <2>1. N = Next1(c2)
    BY <1>5, <1>10
  <2> HIDE DEF N
  <2>2. GoesOn(c2, N) /\ N.keys = keys
    BY <1>1, <1>6, <2>1, Next1Moves
  <2>3. KeysFresh(N)
    BY <1>7, <1>10, <2>2
  <2>4. GoesOn(cl, N)
    BY <1>6, <2>2 DEF GoesOn, Same
  <2>. QED BY <1>10, <2>3, <2>4 DEF N
<1>11. CASE res.kind \notin {"fail", "check"} /\ res.unit # NoUnit
  <2> DEFINE m == [c2 EXCEPT !.pc = "gate", !.unit = res.unit]
  <2>1. N = m
    BY <1>5, <1>11
  <2>2. m.pc = "gate" /\ m.unit = res.unit /\ m.keys = keys /\ m.todo = cl.todo /\ m.first = cl.first /\ m.gen = cl.gen
    BY <1>6 DEF CallType
  <2> HIDE DEF m, N
  <2>3. KeysFresh(N)
    BY <1>7, <1>11, <2>1, <2>2
  <2>4. Stays(cl, N)
    BY <2>1, <2>2 DEF Stays, Same
  <2>5. Clear(h) => N.pc = "gate" /\ N.unit.key = FreshKey(h)
    BY <1>11, <2>1, <2>2 DEF Right
  <2>. QED BY <1>11, <2>3, <2>4, <2>5 DEF N
<1> HIDE DEF N
<1>12. /\ KeysFresh(N)
       /\ \/ Stays(cl, N) /\ (Clear(h) => \/ N.pc = "check" /\ N.key = FreshKey(h)
                                          \/ N.pc = "gate" /\ N.unit.key = FreshKey(h) /\ res.kind # "check")
          \/ GoesOn(cl, N) /\ (Clear(h) => res.kind # "check" /\ res.unit = NoUnit)
          \/ GivesUp(cl, N) /\ ~Clear(h)
  BY <1>8, <1>9, <1>10, <1>11 DEF N
<1>. QED BY <1>12 DEF N

\* A package that is still to come when a call stays, or goes on from another
\* one, still is.
LEMMA StillToCome ==
    ASSUME IndexInv, NEW n, call' = [call EXCEPT ![Repair] = n], NEW p, ToCome(p),
           Stays(call[Repair], n) \/ (GoesOn(call[Repair], n) /\ p # Head(call[Repair].todo))
    PROVE  ToCome(p)'
<1> DEFINE cl == call[Repair]
<1>1. cl \in CallType /\ cl.todo # <<>>
  BY CallParts, CallsAssumption DEF ToCome
<1>2. call'[Repair] = n
  BY CallsAssumption DEF IndexInv
<1>3. p \in Items(cl.todo) /\ p \in After(cl.first)
  BY DEF ToCome
<1>4. CASE Stays(cl, n)
  BY <1>2, <1>3, <1>4 DEF Stays, Same, ToCome
<1>5. CASE GoesOn(cl, n) /\ p # Head(cl.todo)
  <2>1. p \in Items(Tail(cl.todo))
    BY <1>1, <1>3, <1>5, WalkHead
  <2>2. Tail(cl.todo) # <<>>
    BY <2>1 DEF Items
  <2>. QED BY <1>2, <1>3, <1>5, <2>1, <2>2 DEF GoesOn, Same, ToCome
<1>. QED BY <1>4, <1>5

\* When a call gives up, nothing that was to come has to be right by now.
LEMMA NothingToCome ==
    ASSUME IndexInv, ~Clear(call[Repair].first), NEW p \in Pkgs, ToCome(p)
    PROVE  ~Clear(p)
<1>1. call[Repair] \in CallType
  BY CallParts, CallsAssumption DEF ToCome
<1>2. call[Repair].first \in Pkgs /\ p \in After(call[Repair].first)
  BY <1>1 DEF CallType, ToCome
<1>. QED BY <1>2, ClearBefore DEF IndexInv, RepairType

\* A pass is on that nothing has disturbed.
OnPass == repair.pc # "idle" /\ repair.clean
\* A collection that removes nothing as long as the session is there.
Harmless == gc.pc # "sweep" /\ (gc.pc = "mark" => gc.bad \/ Live \in gc.left)

\* Steps that the pass does not notice.
LEMMA PassFrame ==
    ASSUME IndexInv, PassInv, UNCHANGED <<disk, text, call, repair>>, gens'.next = gens.next,
           units'[Live] = units[Live], DOMAIN blobs \subseteq DOMAIN blobs', holder'[Live] = holder[Live],
           OnPass => Harmless'
    PROVE  PassInv'
<1>. SUFFICES ASSUME OnPass' PROVE PassInv'
  BY DEF PassInv, OnPass
<1>1. OnPass /\ Alone /\ Heals /\ CallHeals(call[Repair]) /\ (repair.pc = "done" => repair.todo = {} /\ InFlight = {})
  BY DEF OnPass, PassInv
<1>2. InFlight' = InFlight /\ call'[Repair] = call[Repair]
  BY DEF InFlight
<1>3. Alone'
  BY <1>1, <1>2 DEF Alone, Harmless, ReadFile
<1>4. \A p : Has(p) => Has(p)'
  BY DEF Has
<1>5. Heals'
  <2>. SUFFICES ASSUME NEW p \in Pkgs, Buildable(p)' PROVE Healed(p)' \/ Due(p)' \/ ToCome(p)'
    BY DEF Heals
  <2>1. Healed(p) \/ Due(p) \/ ToCome(p)
    BY <1>1 DEF Heals, Buildable
  <2>2. Healed(p) => Healed(p)'
    BY <1>4 DEF Healed, FreshKey, Has
  <2>3. Due(p) => Due(p)'
    BY DEF Due
  <2>4. ToCome(p) => ToCome(p)'
    BY <1>2 DEF ToCome
  <2>. QED BY <2>1, <2>2, <2>3, <2>4
<1>6. \A p : Clear(p)' = Clear(p)
  BY DEF Clear, Buildable, Due
<1>7. PICK cl : cl = call[Repair]
  OBVIOUS
<1>8. CallHeals(cl)
  BY <1>1, <1>7
<1>9. CallHeals(cl)'
  <2>1. KeysFresh(cl) => KeysFresh(cl)'
    BY <1>6 DEF KeysFresh
  <2>2. HandFresh(cl) => HandFresh(cl)'
    BY <1>4, <1>6 DEF HandFresh, FreshKey
  <2>3. cl.gen = gens.next => cl.gen = gens'.next
    OBVIOUS
  <2>. QED BY <1>8, <2>1, <2>2, <2>3 DEF CallHeals
<1>10. CallHeals(call[Repair])'
  BY <1>2, <1>7, <1>9
<1>. QED BY <1>1, <1>2, <1>3, <1>5, <1>10 DEF PassInv

\* A step of the pass's call.
LEMMA PassStep ==
    ASSUME IndexInv, PassInv, OnPass, repair.pc = "run", UNCHANGED <<disk, text, repair, holder>>, gens'.next = gens.next,
           gc'.pc = gc.pc, gc'.bad = gc.bad, gc'.left = gc.left,
           NEW n, call' = [call EXCEPT ![Repair] = n], n.pc # "idle" => n.gen = gens.next /\ Walk(n) /\ KeysFresh(n),
           HandFresh(n)' \/ n.pc \notin {"check", "gate", "put"},
           \A p \in Pkgs : Clear(p) /\ Healed(p) => Healed(p)',
           \A p \in Pkgs : Clear(p) /\ ToCome(p) => Healed(p)' \/ ToCome(p)'
    PROVE  PassInv'
<1>1. Alone /\ Heals /\ CallHeals(call[Repair])
  BY DEF OnPass, PassInv
<1>2. call'[Repair] = n /\ \A c \in Calls : c # Repair => call'[c] = call[c]
  BY CallsAssumption DEF IndexInv
<1>3. InFlight' \subseteq {Repair}
  BY <1>1, <1>2 DEF Alone, InFlight
<1>4. Alone'
  BY <1>1, <1>3 DEF Alone, ReadFile
<1>5. \A p : Clear(p)' = Clear(p)
  BY DEF Clear, Buildable, Due
<1>6. Heals'
  <2>. SUFFICES ASSUME NEW p \in Pkgs, Buildable(p)' PROVE Healed(p)' \/ Due(p)' \/ ToCome(p)'
    BY DEF Heals
  <2>1. Healed(p) \/ Due(p) \/ ToCome(p)
    BY <1>1 DEF Heals, Buildable
  <2>2. Due(p) => Due(p)'
    BY DEF Due
  <2>3. Buildable(p)
    BY DEF Buildable
  <2>. QED BY <2>1, <2>2, <2>3 DEF Clear
<1>7. CallHeals(n)'
  <2>1. KeysFresh(n) => KeysFresh(n)'
    BY <1>5 DEF KeysFresh
  <2>. QED BY <2>1 DEF CallHeals, HandFresh
<1>8. CallHeals(call[Repair])'
  BY <1>2, <1>7
<1>. QED BY <1>4, <1>6, <1>8 DEF PassInv

\* Who takes a step of a call during a pass, and what it reads.
LEMMA PassCall ==
    ASSUME IndexInv, PassInv, OnPass, NEW c \in Calls, call[c].pc # "idle"
    PROVE  /\ c = Repair /\ repair.pc = "run" /\ Alone /\ Heals /\ CallHeals(call[Repair]) /\ call[Repair] \in CallOK
           /\ call[Repair].gen = gens.next /\ Walk(call[Repair]) /\ KeysFresh(call[Repair]) /\ HandFresh(call[Repair])
<1>1. Alone /\ Heals /\ CallHeals(call[Repair]) /\ (repair.pc = "done" => InFlight = {})
  BY DEF OnPass, PassInv
<1>2. c \in InFlight
  BY DEF InFlight
<1>3. c = Repair /\ repair.pc = "run"
  BY <1>1, <1>2 DEF Alone, OnPass, IndexInv, RepairType
<1>. QED BY <1>1, <1>3 DEF CallHeals, IndexInv

\* During a pass the text of a package is what is on disk, whoever reads it.
LEMMA PassReads ==
    ASSUME IndexInv, Alone, call[Repair].pc \in {"resolve", "check"}
    PROVE  ReadBy(Repair) = disk[Live][Head(call[Repair].todo)].ver /\ TrustStat(Repair) \in BOOLEAN
<1>1. Head(call[Repair].todo) \in Pkgs
  BY CallParts, CallsAssumption
<1>. QED BY <1>1 DEF Alone, ReadBy, TrustStat

\* A walk goes on when its call does.
LEMMA MovesWalk ==
    ASSUME NEW cl \in CallType, cl.todo # <<>>, Walk(cl), NEW n, Stays(cl, n) \/ GoesOn(cl, n) \/ GivesUp(cl, n)
    PROVE  Walk(n)
<1>1. CASE GoesOn(cl, n)
  BY <1>1, WalkTail DEF GoesOn, Same
<1>2. CASE Stays(cl, n) \/ GivesUp(cl, n)
  BY <1>2 DEF Stays, GivesUp, Same, Walk
<1>. QED BY <1>1, <1>2

\* What the call holds stays right while nothing of it changes.
LEMMA HandFreshKept ==
    ASSUME UNCHANGED <<disk, repair>>, DOMAIN blobs \subseteq DOMAIN blobs', NEW n, HandFresh(n)
    PROVE  HandFresh(n)'
<1>1. \A p : Clear(p)' = Clear(p)
  BY DEF Clear, Buildable, Due
<1>2. \A p : FreshKey(p)' = FreshKey(p)
  BY DEF FreshKey
<1>. QED BY <1>1, <1>2 DEF HandFresh, Has

\* The key table has the right APIs for p; a result is right for p.
DepsRight(keys, p) == \A d \in directDepImports(p) : keyGet(keys, Live, d) = Api[disk[Live][d].ver]
ResolvedFresh(p, res) ==
    /\ res.kind \in {"same", "hit", "check"} /\ res.key = FreshKey(p)
    /\ res.kind # "check" => res.api = Api[disk[Live][p].ver] /\ Has(FreshKey(p))
    /\ (res.kind # "check" /\ res.unit # NoUnit) => res.unit.key = FreshKey(p)
    /\ (res.kind # "check" /\ res.unit = NoUnit) => Healed(p)
\* ResolveFresh in these terms.
LEMMA ResolvesFresh ==
    ASSUME IndexInv, StatInv, NEW p \in Pkgs, NEW keys, DepsRight(keys, p), NEW ver, ver = disk[Live][p].ver,
           NEW trust \in BOOLEAN
    PROVE  ResolvedFresh(p, processUnit(Live, p, ver, trust, keys))
<1>1. PICK res : res = processUnit(Live, p, ver, trust, keys)
  OBVIOUS
<1>2. \A d \in directDepImports(p) : keyGet(keys, Live, d) = Api[disk[Live][d].ver]
  BY DEF DepsRight
<1>3. /\ res.kind \in {"same", "hit", "check"} /\ res.key = FreshKey(p)
      /\ res.kind # "check" => res.api = Api[ver] /\ Has(FreshKey(p))
      /\ (res.kind # "check" /\ res.unit # NoUnit) => res.unit.key = FreshKey(p)
      /\ (res.kind # "check" /\ res.unit = NoUnit) => Healed(p)
  BY <1>1, <1>2, ResolveFresh
<1>. QED BY <1>1, <1>3 DEF ResolvedFresh

\* The result of a resolution during a pass, for a package that can be right by now.
LEMMA ResolvesRight ==
    ASSUME IndexInv, StatInv, Heals, CallHeals(call[Repair]), call[Repair].pc = "resolve", Alone,
           NEW h, h = Head(call[Repair].todo), Clear(h),
           NEW res, res = processUnit(Live, h, ReadBy(Repair), TrustStat(Repair), call[Repair].keys)
    PROVE  /\ res.kind \in {"same", "hit", "check"} /\ res.key = FreshKey(h)
           /\ res.kind # "check" => res.api = Api[disk[Live][h].ver] /\ Has(FreshKey(h))
           /\ (res.kind # "check" /\ res.unit # NoUnit) => res.unit.key = FreshKey(h)
           /\ (res.kind # "check" /\ res.unit = NoUnit) => Healed(h)
<1>1. h \in Pkgs
  BY CallParts, CallsAssumption
<1>2. \A d \in directDepImports(h) : keyGet(call[Repair].keys, Live, d) = Api[disk[Live][d].ver]
  BY DepsFresh
<1>3. PICK k : k = call[Repair].keys
  OBVIOUS
<1>4. PICK v : v = ReadBy(Repair)
  OBVIOUS
<1>5. PICK t : t = TrustStat(Repair)
  OBVIOUS
<1>6. v = disk[Live][h].ver /\ t \in BOOLEAN
  BY <1>4, <1>5, PassReads
<1>7. res = processUnit(Live, h, v, t, k)
  BY <1>3, <1>4, <1>5
<1>8. \A d \in directDepImports(h) : keyGet(k, Live, d) = Api[disk[Live][d].ver]
  BY <1>2, <1>3
<1>9. DepsRight(k, h)
  BY <1>8 DEF DepsRight
<1>10. ResolvedFresh(h, processUnit(Live, h, v, t, k))
  BY <1>1, <1>6, <1>9, ResolvesFresh
<1>11. ResolvedFresh(h, res)
  BY <1>7, <1>10
<1>. QED BY <1>11 DEF ResolvedFresh

\* How the call moves on after a result, whatever it is.
LEMMA ResultMoves ==
    ASSUME IndexInv, PassInv, OnPass, repair.pc = "run", call[Repair].pc \in {"resolve", "check"},
           NEW h, h = Head(call[Repair].todo), NEW res, Outcome(call[Repair].keys, h, res), Clear(h) => Right(h, res),
           (Clear(h) /\ res.kind \notin {"check", "checked"} /\ res.unit = NoUnit) => Healed(h),
           Clear(h) /\ res.kind # "check" => Has(FreshKey(h))',
           res.kind = "checked" => res.unit # NoUnit,
           UNCHANGED <<disk, text, repair, holder, gc, units>>, gens'.next = gens.next,
           DOMAIN blobs \subseteq DOMAIN blobs',
           NEW n, n = afterResolve(call[Repair], res), call' = [call EXCEPT ![Repair] = n]
    PROVE  PassInv'
<1>1. /\ Alone /\ Heals /\ call[Repair] \in CallOK
      /\ call[Repair].gen = gens.next /\ Walk(call[Repair]) /\ KeysFresh(call[Repair])
  BY PassCall, CallsAssumption
<1>2. PICK cl : cl = call[Repair]
  OBVIOUS
<1>3. cl \in CallType /\ cl.todo # <<>> /\ h \in Pkgs /\ cl \in CallOK
  BY <1>1, <1>2, CallParts, CallsAssumption
<1>4. /\ KeysFresh(n)
      /\ \/ Stays(cl, n) /\ (Clear(h) => \/ n.pc = "check" /\ n.key = FreshKey(h)
                                         \/ n.pc = "gate" /\ n.unit.key = FreshKey(h) /\ res.kind # "check")
         \/ GoesOn(cl, n) /\ (Clear(h) => res.kind # "check" /\ res.unit = NoUnit)
         \/ GivesUp(cl, n) /\ ~Clear(h)
  <2>1. KeysFresh(cl) /\ cl.pc \in {"resolve", "check"} /\ h = Head(cl.todo) /\ Outcome(cl.keys, h, res)
    BY <1>1, <1>2
  <2>. QED BY <1>2, <1>3, <2>1, AfterResolveMoves
<1>5. Walk(n) /\ n.gen = gens.next
  <2>1. Walk(cl) /\ cl.gen = gens.next
    BY <1>1, <1>2
  <2>2. Walk(n)
    BY <1>3, <1>4, <2>1, MovesWalk
  <2>3. n.gen = cl.gen
    BY <1>4 DEF Stays, GoesOn, GivesUp, Same
  <2>. QED BY <2>1, <2>2, <2>3
<1>6. \A p : Clear(p)' = Clear(p) /\ FreshKey(p)' = FreshKey(p)
  BY DEF Clear, Buildable, Due, FreshKey
<1>7. HandFresh(n)' \/ n.pc \notin {"check", "gate", "put"}
  <2>1. CASE Stays(cl, n)
    <3>1. Head(n.todo) = h
      BY <1>2, <2>1 DEF Stays
    <3>3. Clear(h) => \/ n.pc = "check" /\ n.key = FreshKey(h)
                      \/ n.pc = "gate" /\ n.unit.key = FreshKey(h) /\ Has(FreshKey(h))'
      BY <1>4, <2>1 DEF GoesOn, GivesUp, Stays
    <3>4. Has(FreshKey(h))' => FreshKey(h) \in DOMAIN blobs'
      BY <1>6 DEF Has
    <3>. QED BY <1>6, <3>1, <3>3, <3>4 DEF HandFresh, Has
  <2>2. CASE GoesOn(cl, n) \/ GivesUp(cl, n)
    BY <2>2 DEF GoesOn, GivesUp
  <2>. QED BY <1>4, <2>1, <2>2
<1>8. \A p \in Pkgs : Healed(p) => Healed(p)'
  BY <1>6 DEF Healed, Has
<1>9. ASSUME NEW p \in Pkgs, Clear(p), ToCome(p) PROVE Healed(p)' \/ ToCome(p)'
  <2>1. CASE Stays(cl, n) BY <1>2, <1>9, <2>1, StillToCome
  <2>2. CASE GoesOn(cl, n) /\ p # h BY <1>2, <1>9, <2>2, StillToCome
  <2>3. CASE GoesOn(cl, n) /\ p = h /\ ~Stays(cl, n)
    <3>1. res.kind # "check" /\ res.unit = NoUnit
      BY <1>4, <1>9, <2>3 DEF GoesOn, GivesUp
    <3>. QED BY <1>8, <1>9, <2>3, <3>1
  <2>4. CASE GivesUp(cl, n) /\ ~Clear(h)
    BY <1>2, <1>9, <2>4, NothingToCome DEF GivesUp
  <2>. QED BY <1>4, <2>1, <2>2, <2>3, <2>4
<1>. QED BY <1>4, <1>5, <1>7, <1>8, <1>9, PassStep

\* The resolution of a package during a pass: what has to be right by now gets
\* the right key, and is healed or on its way to be.
LEMMA ReindexOnePass ==
    ASSUME IndexInv, StatInv, PassInv, OnPass, NEW c \in Calls, reindexOne(c)
    PROVE  PassInv'
<1>1. call[c].pc = "resolve"
  BY DEF reindexOne
<1>2. c = Repair /\ repair.pc = "run" /\ Alone /\ Heals /\ CallHeals(call[Repair])
  BY <1>1, PassCall
<1>3. PICK h : h = Head(call[Repair].todo)
  OBVIOUS
<1>4. PICK res : res = processUnit(Live, h, ReadBy(Repair), TrustStat(Repair), call[Repair].keys)
  OBVIOUS
<1>5. PICK n : n = afterResolve(call[Repair], res)
  OBVIOUS
<1>6. call' = [call EXCEPT ![Repair] = n] /\ UNCHANGED <<disk, blobs, units, holder, gc, text, gens, repair>>
  BY <1>2, <1>3, <1>4, <1>5 DEF reindexOne, storeVars
<1>7. h \in Pkgs /\ call[Repair].keys \in KeyTable /\ ReadBy(Repair) \in Versions /\ TrustStat(Repair) \in BOOLEAN
  BY <1>1, <1>2, <1>3, CallParts, CallsAssumption, PassReads, ReadByType
<1>8. Outcome(call[Repair].keys, h, res)
  BY <1>4, <1>7, ResolveOutcome, LiveAssumption DEF IndexInv
<1>9. ASSUME Clear(h)
      PROVE  /\ res.kind \in {"same", "hit", "check"} /\ res.key = FreshKey(h)
             /\ res.kind # "check" => res.api = Api[disk[Live][h].ver] /\ Has(FreshKey(h))
             /\ (res.kind # "check" /\ res.unit # NoUnit) => res.unit.key = FreshKey(h)
             /\ (res.kind # "check" /\ res.unit = NoUnit) => Healed(h)
  BY <1>1, <1>2, <1>3, <1>4, <1>9, ResolvesRight
<1>10. Clear(h) => Right(h, res)
  BY <1>9 DEF Right
<1>11. Clear(h) /\ res.kind # "check" => Has(FreshKey(h))'
  BY <1>6, <1>9 DEF Has, FreshKey
<1>12. res.kind # "checked"
  BY <1>4 DEF processUnit
<1>. QED BY <1>1, <1>2, <1>3, <1>5, <1>6, <1>8, <1>9, <1>10, <1>11, <1>12, ResultMoves

\* A pointer that was made is no missing one.
LEMMA MadePointer ==
    ASSUME NEW k, NEW o, NEW a, NEW f
    PROVE  [key |-> k, own |-> o, api |-> a, files |-> f] # NoUnit
<1>1. DOMAIN [key |-> k, own |-> o, api |-> a, files |-> f] = {"key", "own", "api", "files"}
  OBVIOUS
<1>2. DOMAIN NoUnit = {"none"}
  BY DEF NoUnit
<1>3. "key" \in {"key", "own", "api", "files"} /\ "key" \notin {"none"}
  OBVIOUS
<1>. QED BY <1>1, <1>2, <1>3

\* What a type check returns,
LEMMA CheckResult ==
    ASSUME NEW r, NEW p, NEW ver, NEW t, NEW key, NEW own, NEW res, res = checkAndStoreOutcome(r, p, ver, t, key, own)
    PROVE  /\ res.kind # "check" /\ (res.kind = "checked" => res.unit # NoUnit)
           /\ ver \notin Broken => res.kind = "checked" /\ res.api = Api[ver] /\ res.unit.key = key
           /\ res.kind \in {"fail", "checked"}
<1> DEFINE stat == IF t THEN disk[r][p].stat ELSE NoStat
           unit == [key |-> key, own |-> own, api |-> Api[ver], files |-> stat]
<1>1. unit # NoUnit /\ unit.key = key
  BY MadePointer
<1>2. res = [kind |-> IF ver \in Broken THEN "fail" ELSE "checked", key |-> key, own |-> own,
             api |-> IF ver \in Broken THEN Failed ELSE Api[ver],
             unit |-> IF ver \in Broken THEN NoUnit ELSE unit]
  BY DEF checkAndStoreOutcome
<1> HIDE DEF unit
<1>. QED BY <1>1, <1>2

\* and what it leaves in the store.
LEMMA CheckStores ==
    ASSUME NEW r, NEW p, NEW ver, ver \notin Broken, NEW t, NEW key, StoreBlob(r, p, ver, t, key)
    PROVE  key \in DOMAIN blobs'
BY DEF StoreBlob, Put

\* A type check during a pass: what has to be right by now is stored, and on
\* its way to the gate with the right key.
LEMMA ReindexCheckPass ==
    ASSUME ~TornReads, IndexInv, StatInv, PassInv, OnPass, NEW c \in Calls, reindexCheck(c)
    PROVE  PassInv'
<1>1. call[c].pc = "check"
  BY DEF reindexCheck
<1>2. /\ c = Repair /\ repair.pc = "run" /\ Alone /\ Heals /\ CallHeals(call[Repair]) /\ HandFresh(call[Repair])
      /\ call[Repair] \in CallOK
  BY <1>1, PassCall
<1>3. PICK h : h = Head(call[Repair].todo)
  OBVIOUS
<1>4. PICK v : v = ReadBy(Repair)
  OBVIOUS
<1>5. PICK t : t = TrustStat(Repair)
  OBVIOUS
<1>6. PICK k : k = call[Repair].key
  OBVIOUS
<1>7. PICK own : own = call[Repair].own
  OBVIOUS
<1>8. PICK res : res = checkAndStoreOutcome(Live, h, v, t, k, own)
  OBVIOUS
<1>9. PICK n : n = afterResolve(call[Repair], res)
  OBVIOUS
<1>10. /\ call' = [call EXCEPT ![Repair] = n] /\ StoreBlob(Live, h, v, t, k)
       /\ UNCHANGED <<disk, units, holder, gc, text, gens, repair>>
  BY <1>2, <1>3, <1>4, <1>5, <1>6, <1>7, <1>8, <1>9 DEF reindexCheck, parseGoFiles
<1>11. /\ h \in Pkgs /\ call[Repair].keys \in KeyTable /\ v \in Versions /\ t \in BOOLEAN /\ own \in Versions
       /\ v = disk[Live][h].ver
  <2>1. ReadBy(Repair) = disk[Live][Head(call[Repair].todo)].ver /\ TrustStat(Repair) \in BOOLEAN
    BY <1>1, <1>2, PassReads
  <2>2. ReadBy(Repair) \in Versions
    BY <1>1, <1>2, ReadByType, CallsAssumption
  <2>. QED BY <1>1, <1>2, <1>3, <1>4, <1>5, <1>7, <2>1, <2>2, CallParts, CallsAssumption
<1>12. InCheck(call[Repair].keys, h, k, own)
  <2>1. CallInv(call[Repair])
    BY <1>2 DEF CallOK
  <2>. QED BY <1>1, <1>2, <1>3, <1>6, <1>7, <2>1 DEF CallInv
<1>13. Outcome(call[Repair].keys, h, res)
  <2>1. PICK keys \in KeyTable : keys = call[Repair].keys
    BY <1>11
  <2>2. Outcome(keys, h, checkAndStoreOutcome(Live, h, v, t, k, own))
    BY <1>11, <1>12, <2>1, CheckOutcome, LiveAssumption DEF IndexInv
  <2>. QED BY <1>8, <2>1, <2>2
<1>14. /\ res.kind # "check" /\ (res.kind = "checked" => res.unit # NoUnit)
       /\ v \notin Broken => res.kind = "checked" /\ res.api = Api[v] /\ res.unit.key = k
       /\ res.kind \in {"fail", "checked"}
  BY <1>8, CheckResult
<1>15. ASSUME Clear(h) PROVE v \notin Broken /\ k = FreshKey(h) /\ FreshKey(h) \in DOMAIN blobs'
  <2>1. v \notin Broken
    BY <1>11, <1>15, BuildableSelf DEF Clear
  <2>2. k = FreshKey(h)
    BY <1>1, <1>2, <1>3, <1>6, <1>15 DEF HandFresh
  <2>. QED BY <1>10, <2>1, <2>2, CheckStores
<1>16. Clear(h) => Right(h, res)
  BY <1>11, <1>14, <1>15 DEF Right
<1>17. DOMAIN blobs \subseteq DOMAIN blobs'
  BY <1>10, StoreBlobKeeps
<1>18. (Clear(h) /\ res.kind # "check") => Has(FreshKey(h))'
  <2>1. FreshKey(h)' = FreshKey(h)
    BY <1>10 DEF FreshKey
  <2>. QED BY <1>15, <2>1 DEF Has
<1>19. (Clear(h) /\ res.kind \notin {"check", "checked"} /\ res.unit = NoUnit) => Healed(h)
  BY <1>14, <1>15
<1>. QED BY <1>1, <1>2, <1>3, <1>9, <1>10, <1>13, <1>14, <1>16, <1>17, <1>18, <1>19, ResultMoves

\* A pass that was disturbed promises nothing.
LEMMA OffPass ==
    ASSUME ~OnPass'
    PROVE  PassInv'
BY DEF PassInv, OnPass

\* The gate lets the pass's call through: its generation is the last one.
LEMMA TryCommitPass ==
    ASSUME IndexInv, StatInv, PassInv, OpenInv, OnPass, NEW c \in Calls, tryCommit(c)
    PROVE  PassInv'
<1>1. call[c].pc = "gate"
  BY DEF tryCommit
<1>2. /\ c = Repair /\ repair.pc = "run" /\ HandFresh(call[Repair]) /\ call[Repair] \in CallOK
      /\ call[Repair].gen = gens.next /\ Walk(call[Repair]) /\ KeysFresh(call[Repair])
  BY <1>1, PassCall
<1>3. PICK cl \in CallOK : cl = call[Repair]
  BY <1>2
<1>4. PICK h \in Pkgs : h = Head(cl.todo)
  BY <1>1, <1>2, <1>3, CallParts, CallsAssumption
<1>5. call[c].gen >= gens.done[h]
  <2>1. gens \in GensType /\ gens.done[h] <= gens.next
    BY DEF IndexInv, OpenInv, GensOrdered
  <2>. QED BY <1>2, <2>1 DEF GensType
<1>6. PICK n : n = [cl EXCEPT !.pc = "put"]
  OBVIOUS
<1>7. /\ call' = [call EXCEPT ![Repair] = n] /\ gens' = [gens EXCEPT !.done[h] = cl.gen]
      /\ UNCHANGED <<disk, blobs, units, holder, gc, text, repair>>
  BY <1>2, <1>3, <1>4, <1>5, <1>6 DEF tryCommit, storeVars
<1>8. gens'.next = gens.next
  BY <1>7 DEF IndexInv, GensType
<1>9. /\ n.pc = "put" /\ n.gen = cl.gen /\ n.first = cl.first /\ n.todo = cl.todo /\ n.keys = cl.keys
      /\ n.unit = cl.unit
  BY <1>6 DEF CallOK, CallType
<1>10. Stays(cl, n)
  BY <1>9 DEF Stays, Same
<1>11. Walk(n) /\ KeysFresh(n) /\ n.gen = gens.next
  BY <1>2, <1>3, <1>9 DEF Walk, KeysFresh
<1>12. HandFresh(n)
  BY <1>1, <1>2, <1>3, <1>9 DEF HandFresh
<1>13. HandFresh(n)'
  BY <1>7, <1>12, HandFreshKept
<1>14. \A p \in Pkgs : Healed(p) => Healed(p)'
  BY <1>7 DEF Healed, FreshKey, Has
<1>15. ASSUME NEW p \in Pkgs, ToCome(p) PROVE ToCome(p)'
  BY <1>3, <1>7, <1>10, <1>15, StillToCome
<1>. QED BY <1>2, <1>7, <1>8, <1>11, <1>13, <1>14, <1>15, PassStep

\* The write of the pass heals its package.
LEMMA PutUnitPass ==
    ASSUME IndexInv, StatInv, PassInv, OnPass, NEW c \in Calls, PutUnit(c)
    PROVE  PassInv'
<1>1. call[c].pc = "put"
  BY DEF PutUnit
<1>2. /\ c = Repair /\ repair.pc = "run" /\ HandFresh(call[Repair]) /\ call[Repair] \in CallOK
      /\ call[Repair].gen = gens.next /\ Walk(call[Repair]) /\ KeysFresh(call[Repair])
  BY <1>1, PassCall
<1>3. PICK cl \in CallOK : cl = call[Repair]
  BY <1>2
<1>4. PICK h \in Pkgs : h = Head(cl.todo)
  BY <1>1, <1>2, <1>3, CallParts, CallsAssumption
<1>5. CASE repair' = Disturbed
  BY <1>5, OffPass DEF Disturbed, OnPass, IndexInv, RepairType
<1>6. ASSUME PutUnitsBatch(Live, [p \in {Head(call[c].todo)} |-> call[c].unit]),
             call' = [call EXCEPT ![c] = Next1(@)], gens' = [gens EXCEPT !.wrote[Head(call[c].todo)] = call[c].gen],
             UNCHANGED <<repair, disk, blobs, holder, text>>
      PROVE  PassInv'
  <2>1. PICK n : n = Next1(cl)
    OBVIOUS
  <2>2. call' = [call EXCEPT ![Repair] = n]
    BY <1>2, <1>3, <1>6, <2>1
  <2>3. cl \in CallType /\ cl.todo # <<>> /\ Proper(cl.keys, h, cl.unit)
    BY <1>1, <1>2, <1>3, <1>4 DEF CallOK, CallInv
  <2>4. GoesOn(cl, n) /\ n.keys = cl.keys
    BY <2>1, <2>3, Next1Moves
  <2>5. Walk(n)
    BY <1>2, <1>3, <2>3, <2>4, MovesWalk
  <2>6. KeysFresh(n) /\ n.gen = gens.next /\ n.pc \notin {"check", "gate", "put"}
    BY <1>2, <1>3, <2>4 DEF KeysFresh, GoesOn, Same
  <2>7. gens'.next = gens.next
    BY <1>6 DEF IndexInv, GensType
  <2>8. PICK new : new = [p \in {h} |-> cl.unit]
    OBVIOUS
  <2>9. DOMAIN new = {h} /\ new[h] = cl.unit /\ PutUnitsBatch(Live, new)
    BY <1>2, <1>3, <1>4, <1>6, <2>8
  <2>10. \A p \in Pkgs : units'[Live][p] = IF p = h THEN cl.unit ELSE units[Live][p]
    BY <2>9, LiveAssumption DEF PutUnitsBatch, IndexInv
  <2>11. gc'.pc = gc.pc /\ gc'.bad = gc.bad /\ gc'.left = gc.left
    BY <2>9 DEF PutUnitsBatch, IndexInv, GCType
  <2>12. \A p : FreshKey(p)' = FreshKey(p) /\ Has(p)' = Has(p)
    BY <1>6 DEF FreshKey, Has
  <2>13. ASSUME Clear(h) PROVE Healed(h)'
    <3>1. cl.unit.key = FreshKey(h) /\ Has(FreshKey(h))
      BY <1>1, <1>2, <1>3, <1>4, <2>13 DEF HandFresh
    <3>2. IsPointer(cl.unit)
      BY <2>3, PointersArePointers DEF Proper
    <3>3. Has(FreshKey(h))'
      BY <1>6, <3>1 DEF Has, FreshKey
    <3>. QED BY <2>10, <2>12, <3>1, <3>2, <3>3 DEF Healed
  <2>14. ASSUME NEW p \in Pkgs, p # h, Healed(p) PROVE Healed(p)'
    <3>1. Has(FreshKey(p))'
      BY <1>6, <2>14 DEF Has, FreshKey, Healed
    <3>. QED BY <2>10, <2>12, <2>14, <3>1 DEF Healed
  <2>15. \A p \in Pkgs : Clear(p) /\ Healed(p) => Healed(p)'
    BY <2>13, <2>14
  <2>16. ASSUME NEW p \in Pkgs, Clear(p), ToCome(p) PROVE Healed(p)' \/ ToCome(p)'
    <3>1. CASE p = h BY <2>13, <2>16, <3>1
    <3>2. CASE p # h BY <1>3, <1>4, <2>2, <2>4, <2>16, <3>2, StillToCome
    <3>. QED BY <3>1, <3>2
  <2>. QED BY <1>2, <1>6, <2>2, <2>5, <2>6, <2>7, <2>11, <2>15, <2>16, PassStep
<1>. QED BY <1>5, <1>6 DEF PutUnit

\* The end of the pass's call leaves nothing to come.
LEMMA ReindexEndPass ==
    ASSUME IndexInv, StatInv, PassInv, OnPass, NEW c \in Calls, reindex(c)
    PROVE  PassInv'
<1>1. call[c].pc = "end"
  BY DEF reindex
<1>2. c = Repair /\ repair.pc = "run"
  BY <1>1, PassCall
<1>3. PICK n : n = CallIdle
  OBVIOUS
<1>4. n.pc = "idle"
  BY <1>3, CallIdleOK
<1>5. call' = [call EXCEPT ![Repair] = n] /\ UNCHANGED <<disk, blobs, units, holder, gc, text, gens, repair>>
  BY <1>2, <1>3 DEF reindex, storeVars
<1>6. \A p \in Pkgs : Healed(p) => Healed(p)'
  BY <1>5 DEF Healed, FreshKey, Has
<1>7. \A p \in Pkgs : ~ToCome(p)
  BY <1>1, <1>2 DEF ToCome
<1>. QED BY <1>2, <1>4, <1>5, <1>6, <1>7, PassStep

\* Every step of a call during a pass.
LEMMA CallStepPass ==
    ASSUME ~TornReads, IndexInv, StatInv, PassInv, OpenInv, NEW c \in Calls, CallStep(c)
    PROVE  PassInv'
<1>1. CASE OnPass
  BY <1>1, ReindexOnePass, ReindexCheckPass, TryCommitPass, PutUnitPass, ReindexEndPass DEF CallStep
<1>2. CASE ~OnPass
  <2>1. UNCHANGED repair \/ repair' = Disturbed
    BY DEF CallStep, reindexOne, reindexCheck, tryCommit, PutUnit, reindex
  <2>2. ~OnPass'
    BY <1>2, <2>1 DEF OnPass, Disturbed, IndexInv, RepairType
  <2>. QED BY <2>2, OffPass
<1>. QED BY <1>1, <1>2

\* A collection that runs during a pass cannot read the session's database,
\* and so sweeps nothing.
LEMMA GCPass ==
    ASSUME IndexInv, PinInv, PassInv, GCStep, UNCHANGED idxVars
    PROVE  PassInv'
<1>1. UNCHANGED <<disk, text, call, repair, units, holder, gens>>
  BY DEF GCStep, collectOtherCASMarks, MaybeGC, sweep, sweepRemove, sweepDone, idxVars
<1>2. CASE ~OnPass
  BY <1>1, <1>2, OffPass DEF OnPass
<1>3. ASSUME OnPass PROVE DOMAIN blobs \subseteq DOMAIN blobs' /\ Harmless'
  <2>1. holder[Live] = "session" /\ gc.pc # "sweep" /\ (gc.pc = "mark" => gc.bad \/ Live \in gc.left)
    BY <1>3 DEF PassInv, OnPass, Alone
  <2>2. gc \in GCType
    BY DEF IndexInv
  <2>3. ASSUME NEW s \in Roots, collectOtherCASMarks(s) PROVE DOMAIN blobs \subseteq DOMAIN blobs' /\ Harmless'
    <3>1. /\ gc.pc = "mark" /\ UNCHANGED blobs /\ gc'.pc = "mark" /\ gc'.left = gc.left \ {s}
          /\ gc'.bad = (gc.bad \/ holder[s] # "none" \/ (Readable(s) /\ Unreadable(units[s])))
      BY <2>2, <2>3 DEF collectOtherCASMarks, GCType
    <3>. QED BY <2>1, <3>1 DEF Harmless
  <2>4. CASE MaybeGC
    <3>1. gc.pc = "mark" /\ gc.left = {} /\ UNCHANGED blobs
      BY <2>4 DEF MaybeGC
    <3>2. gc.bad
      BY <2>1, <3>1
    <3>3. gc' = GCIdle
      BY <2>4, <3>2 DEF MaybeGC
    <3>. QED BY <3>1, <3>3 DEF Harmless, GCIdle
  <2>5. ~sweepRemove /\ ~sweepDone /\ \A k \in gc.todo : ~sweep(k)
    BY <2>1 DEF sweepRemove, sweepDone, sweep, PinInv
  <2>. QED BY <2>3, <2>4, <2>5 DEF GCStep
<1>. QED BY <1>1, <1>2, <1>3, PassFrame

\* What an indexer does to another root's database.
LEMMA PutElsewhere ==
    ASSUME IndexInv, Harmless, NEW r \in Roots, r # Live, NEW new, PutUnitsBatch(r, new)
    PROVE  units'[Live] = units[Live] /\ Harmless'
<1>1. gc'.pc = gc.pc /\ gc'.bad = gc.bad /\ gc'.left = gc.left
  BY DEF PutUnitsBatch, IndexInv, GCType
<1>. QED BY <1>1, PutUnitsElsewhere DEF Harmless

\* So it is when it records a job.
LEMMA RecordJobElsewhere ==
    ASSUME IndexInv, Harmless, NEW r \in Roots, r # Live, NEW p, NEW res, recordJob(r, p, res)
    PROVE  units'[Live] = units[Live] /\ Harmless'
<1>1. UNCHANGED <<units, gc>> \/ \E new : PutUnitsBatch(r, new)
  BY DEF recordJob
<1>2. CASE UNCHANGED <<units, gc>>
  BY <1>2 DEF Harmless
<1>3. ASSUME NEW new, PutUnitsBatch(r, new) PROVE units'[Live] = units[Live] /\ Harmless'
  BY <1>3, PutElsewhere
<1>. QED BY <1>1, <1>2, <1>3

\* An indexer of another root does not disturb a pass; Live's own is not there.
LEMMA BuildPass ==
    ASSUME ~ListingFails, IndexInv, CacheInv, OpenInv, PassInv, NEW r \in Roots,
           BuildStep(r) \/ cancelBuild(r) \/ killIndexer(r)
    PROVE  PassInv'
<1>1. UNCHANGED <<disk, text, call, repair, gens>> /\ build[r].pc # "idle"
  BY DEF BuildStep, runBuildJob, finishBuildJob, recordFatal, endBuild, collectAfterBuild, exitIndexer, cancelBuild,
         killIndexer, storeVars, RunCASGC
<1>2. CASE ~OnPass
  BY <1>1, <1>2, OffPass DEF OnPass
<1>3. ASSUME OnPass
      PROVE  DOMAIN blobs \subseteq DOMAIN blobs' /\ Harmless' /\ units'[Live] = units[Live] /\ holder'[Live] = holder[Live]
  <2>1. holder[Live] = "session" /\ Harmless
    BY <1>3 DEF PassInv, OnPass, Alone, Harmless
  <2>2. r # Live
    BY <1>1, <2>1 DEF CacheInv
  <2>3. ASSUME NEW p \in Pkgs, runBuildJob(r, p) PROVE <1>3!2
    <3>1. UNCHANGED <<blobs, holder>>
      BY <2>3 DEF runBuildJob
    <3>2. UNCHANGED <<units, gc>> \/ \E res : recordJob(r, p, res)
      BY <2>3 DEF runBuildJob
    <3>3. CASE UNCHANGED <<units, gc>>
      BY <2>1, <3>1, <3>3 DEF Harmless
    <3>4. CASE \E res : recordJob(r, p, res)
      BY <2>1, <2>2, <3>1, <3>4, RecordJobElsewhere
    <3>. QED BY <3>2, <3>3, <3>4
  <2>4. ASSUME NEW p \in Pkgs, finishBuildJob(r, p) PROVE <1>3!2
    <3>1. UNCHANGED holder
      BY <2>4 DEF finishBuildJob
    <3>2. \E res : recordJob(r, p, res)
      BY <2>4 DEF finishBuildJob
    <3>3. \E v, t, k : StoreBlob(r, p, v, t, k)
      BY <2>4 DEF finishBuildJob
    <3>. QED BY <2>1, <2>2, <3>1, <3>2, <3>3, RecordJobElsewhere, StoreBlobKeeps
  <2>5. ASSUME NEW p \in Pkgs, recordFatal(r, p) PROVE <1>3!2
    BY <2>1, <2>5 DEF recordFatal, storeVars, Harmless
  <2>6. CASE endBuild(r)
    <3>1. UNCHANGED <<blobs, holder>>
      BY <2>6 DEF endBuild
    <3>2. UNCHANGED <<units, gc>> \/ \E new : PutUnitsBatch(r, new)
      BY <2>6 DEF endBuild
    <3>3. CASE UNCHANGED <<units, gc>>
      BY <2>1, <3>1, <3>3 DEF Harmless
    <3>4. CASE \E new : PutUnitsBatch(r, new)
      BY <2>1, <2>2, <3>1, <3>4, PutElsewhere
    <3>. QED BY <3>2, <3>3, <3>4
  <2>7. CASE collectAfterBuild(r)
    <3>1. PICK force : RunCASGC(r, force)
      BY <2>7 DEF collectAfterBuild
    <3>2. UNCHANGED <<blobs, units, holder>> /\ gc'.left = Members \ {r} /\ gc'.pc = "mark"
      BY <3>1 DEF RunCASGC, GCIdle
    <3>3. Live \in Members
      BY <1>3, <2>1, LiveAssumption DEF OpenInv, HeldOpen, PassListed, OnPass, Members
    <3>. QED BY <2>2, <3>2, <3>3 DEF Harmless
  <2>8. CASE exitIndexer(r)
    <3>1. UNCHANGED <<blobs, units, gc>> /\ holder'[Live] = holder[Live]
      BY <2>2, <2>8, LiveAssumption DEF exitIndexer, Close, IndexInv
    <3>. QED BY <2>1, <3>1 DEF Harmless
  <2>9. CASE cancelBuild(r)
    BY <2>1, <2>9 DEF cancelBuild, storeVars, Harmless
  <2>10. CASE killIndexer(r)
    <3>1. UNCHANGED <<blobs, units>> /\ holder'[Live] = holder[Live] /\ (gc' = GCIdle \/ gc' = gc)
      BY <2>2, <2>10, LiveAssumption DEF killIndexer, Close, IndexInv
    <3>. QED BY <2>1, <3>1 DEF Harmless, GCIdle
  <2>. QED BY <2>3, <2>4, <2>5, <2>6, <2>7, <2>8, <2>9, <2>10 DEF BuildStep
<1>. QED BY <1>1, <1>2, <1>3, PassFrame

\* Decoding a package, and no step at all, change nothing that it needs.
LEMMA DecodePass ==
    ASSUME IndexInv, PassInv, (\E p \in Pkgs : decode(p)) \/ UNCHANGED vars
    PROVE  PassInv'
<1>1. UNCHANGED <<disk, text, call, repair, units, holder, gens, blobs, gc>>
  BY DEF decode, vars, storeVars, idxVars
<1>2. OnPass => Harmless'
  BY <1>1 DEF PassInv, OnPass, Alone, Harmless
<1>. QED BY <1>1, <1>2, PassFrame

\* packageChanged misses nothing: a package it passes over, and whose
\* dependencies are right, is right.
LEMMA Unchanged ==
    ASSUME IndexInv, StatInv, NEW p \in Pkgs, ~packageChanged(p), \A d \in directDepImports(p) : Healed(d)
    PROVE  Healed(p)
<1> DEFINE old == units[Live][p]
           own == IF filesStatMatch(Live, p, TRUE) THEN old.own ELSE disk[Live][p].ver
           deps == directDepExports(NoKeys, Live, p)
           fresh == [d \in directDepImports(p) |-> Api[disk[Live][d].ver]]
<1>1. IsPointer(old) /\ UnitKey(p, own, deps) = old.key /\ Has(old.key)
  BY DEF packageChanged
<1>2. own = disk[Live][p].ver
  BY FastPath, LiveAssumption DEF filesStatMatch, StatInv
<1>3. ASSUME NEW d \in directDepImports(p) PROVE keyGet(NoKeys, Live, d) = Api[disk[Live][d].ver]
  <2>1. d \in Pkgs
    BY DepsType
  <2>2. IsPointer(units[Live][d]) /\ units[Live][d].api = Api[disk[Live][d].ver]
    BY <1>3, <2>1, HealedParts
  <2>3. NoKeys[d] = Unset
    BY <2>1 DEF NoKeys
  <2>. QED BY <2>2, <2>3 DEF keyGet
<1>4. deps = fresh
  BY <1>3 DEF directDepExports
<1>5. UnitKey(p, own, deps) = FreshKey(p)
  BY <1>2, <1>4 DEF FreshKey
<1>. QED BY <1>1, <1>5 DEF Healed

\* What RevalidateStale finds reaches everything that can be built and is not right.
LEMMA RevalidateFinds ==
    ASSUME IndexInv, StatInv, NEW T, T = {p \in Pkgs : packageChanged(p)}
    PROVE  \A p \in Pkgs : Buildable(p) => Healed(p) \/ \E q \in T : p \in After(q)
<1> DEFINE Missed(p) == Buildable(p) /\ ~Healed(p) /\ ~\E q \in T : p \in After(q)
<1>. SUFFICES ASSUME NEW x \in Pkgs, Missed(x) PROVE FALSE
  OBVIOUS
<1>1. PICK S : S = {Pos(p) : p \in {q \in Pkgs : Missed(q)}}
  OBVIOUS
<1>2. S \subseteq Nat /\ S # {}
  BY <1>1, PosType
<1>3. PICK m \in S : \A i \in S : m <= i
  BY <1>2, Least
<1>4. PICK p \in Pkgs : Missed(p) /\ m = Pos(p)
  BY <1>1, <1>3
<1>5. ~packageChanged(p)
  BY <1>4, AfterStep
<1>6. ASSUME NEW d \in directDepImports(p) PROVE Healed(d)
  <2>1. d \in Pkgs /\ p \in After(d)
    BY DepsType, AfterStep
  <2>2. Pos(d) < Pos(p) /\ Pos(d) \in Nat /\ Pos(p) \in Nat
    BY <2>1, PosType DEF directDepImports, Before
  <2>3. Buildable(d)
    BY <1>4, <2>1, BuildableBefore
  <2>4. ~\E q \in T : d \in After(q)
    <3>. SUFFICES ASSUME NEW q \in T, d \in After(q) PROVE FALSE
      OBVIOUS
    <3>1. p \in After(q)
      BY <2>1, AfterTrans
    <3>. QED BY <1>4, <3>1
  <2>5. Pos(d) \notin S
    BY <1>3, <1>4, <2>2
  <2>. QED BY <1>1, <2>1, <2>3, <2>4, <2>5
<1>. QED BY <1>4, <1>5, <1>6, Unchanged

\* The start of a pass that nobody is in the way of.
LEMMA RevalidatePass ==
    ASSUME IndexInv, StatInv, RevalidateStale
    PROVE  PassInv'
<1>1. PICK T : T = {p \in Pkgs : packageChanged(p)}
  OBVIOUS
<1>2. /\ holder[Live] = "session" /\ call[Repair].pc = "idle" /\ repair'.pc = "run" /\ repair'.todo = T
      /\ repair'.clean => InFlight = {} /\ gc.pc = "idle" /\ \A p \in Pkgs : ReadFile(p) = disk[Live][p].ver
      /\ UNCHANGED <<disk, blobs, units, holder, gc, text, call, gens>>
  BY <1>1 DEF RevalidateStale, storeVars
<1>. SUFFICES ASSUME OnPass' PROVE PassInv'
  BY OffPass
<1>3. InFlight = {} /\ gc.pc = "idle" /\ \A p \in Pkgs : ReadFile(p) = disk[Live][p].ver
  BY <1>2 DEF OnPass
<1>4. Alone'
  BY <1>2, <1>3 DEF Alone, InFlight, ReadFile
<1>5. Heals'
  <2>. SUFFICES ASSUME NEW p \in Pkgs, Buildable(p)' PROVE Healed(p)' \/ Due(p)'
    BY DEF Heals
  <2>1. Buildable(p)
    BY <1>2 DEF Buildable
  <2>2. CASE Healed(p)
    BY <1>2, <2>2 DEF Healed, FreshKey, Has
  <2>3. CASE \E q \in T : p \in After(q)
    BY <1>2, <2>3 DEF Due
  <2>. QED BY <1>1, <2>1, <2>2, <2>3, RevalidateFinds
<1>6. CallHeals(call[Repair])'
  BY <1>2 DEF CallHeals
<1>. QED BY <1>2, <1>4, <1>5, <1>6 DEF PassInv

\* The pass turns to a package it has found.
LEMMA RepairNextPass ==
    ASSUME IndexInv, PassInv, NEW p \in Pkgs, repairNext(p)
    PROVE  PassInv'
<1> DEFINE n == [CallIdle EXCEPT !.pc = "resolve", !.gen = gens.next + 1, !.first = p,
                                 !.todo = <<p>> \o orderedReverseClosure(p)]
<1>1. /\ repair.pc = "run" /\ p \in repair.todo /\ repair' = [repair EXCEPT !.todo = @ \ {p}]
      /\ call[Repair].pc = "idle" /\ call' = [call EXCEPT ![Repair] = n] /\ gens' = [gens EXCEPT !.next = @ + 1]
      /\ UNCHANGED <<disk, blobs, units, holder, gc, text>>
  BY DEF repairNext, Start, storeVars
<1>2. repair'.pc = "run" /\ repair'.clean = repair.clean /\ repair'.todo = repair.todo \ {p} /\ gens'.next = gens.next + 1
  BY <1>1 DEF IndexInv, RepairType, GensType
<1>. SUFFICES ASSUME OnPass' PROVE PassInv'
  BY OffPass
<1>3. Alone /\ Heals
  BY <1>1, <1>2 DEF OnPass, PassInv
<1>4. PICK m : m = n
  OBVIOUS
<1>5. /\ m.pc = "resolve" /\ m.gen = gens.next + 1 /\ m.first = p /\ m.todo = <<p>> \o orderedReverseClosure(p)
      /\ m.keys = NoKeys
  BY <1>4 DEF CallIdle
<1>6. call'[Repair] = m /\ \A c \in Calls : c # Repair => call'[c] = call[c]
  BY <1>1, <1>4, CallsAssumption DEF IndexInv
<1> HIDE DEF n
<1>7. Walk(m) /\ \A q \in After(p) : q \in Items(m.todo)
  BY <1>5, StartWalk
<1>8. InFlight' \subseteq {Repair}
  BY <1>3, <1>6 DEF Alone, InFlight
<1>9. Alone'
  BY <1>1, <1>3, <1>8 DEF Alone, ReadFile
<1>10. Heals'
  <2>. SUFFICES ASSUME NEW q \in Pkgs, Buildable(q)' PROVE Healed(q)' \/ Due(q)' \/ ToCome(q)'
    BY DEF Heals
  <2>1. Healed(q) \/ Due(q) \/ ToCome(q)
    BY <1>1, <1>3 DEF Heals, Buildable
  <2>2. CASE Healed(q)
    BY <1>1, <2>2 DEF Healed, FreshKey, Has
  <2>3. CASE Due(q)
    <3>1. PICK x \in repair.todo : q \in After(x)
      BY <2>3 DEF Due
    <3>2. CASE x # p
      BY <1>2, <3>1, <3>2 DEF Due
    <3>3. CASE x = p
      BY <1>5, <1>6, <1>7, <3>1, <3>3 DEF ToCome
    <3>. QED BY <3>2, <3>3
  <2>4. ~ToCome(q)
    BY <1>1 DEF ToCome
  <2>. QED BY <2>1, <2>2, <2>3, <2>4
<1>11. KeysFresh(m)'
  BY <1>5 DEF KeysFresh, NoKeys
<1>12. CallHeals(m)'
  BY <1>2, <1>5, <1>7, <1>11 DEF CallHeals, HandFresh
<1>13. CallHeals(call[Repair])'
  BY <1>6, <1>12
<1>. QED BY <1>2, <1>9, <1>10, <1>13 DEF PassInv

\* The end of a pass.
LEMMA RepairDonePass ==
    ASSUME IndexInv, PassInv, repairDone
    PROVE  PassInv'
<1>1. /\ repair.pc = "run" /\ repair.todo = {} /\ call[Repair].pc = "idle" /\ repair' = [repair EXCEPT !.pc = "done"]
      /\ UNCHANGED <<disk, blobs, units, holder, gc, text, call, gens>>
  BY DEF repairDone, storeVars
<1>2. repair'.pc = "done" /\ repair'.todo = {} /\ repair'.clean = repair.clean
  BY <1>1 DEF IndexInv, RepairType
<1>. SUFFICES ASSUME OnPass' PROVE PassInv'
  BY OffPass
<1>3. Alone /\ Heals
  BY <1>1, <1>2 DEF OnPass, PassInv
<1>4. InFlight' = {}
  BY <1>1, <1>3 DEF Alone, InFlight
<1>5. Alone'
  BY <1>1, <1>3, <1>4 DEF Alone, ReadFile
<1>6. Heals'
  <2>. SUFFICES ASSUME NEW p \in Pkgs, Buildable(p)' PROVE Healed(p)' \/ Due(p)' \/ ToCome(p)'
    BY DEF Heals
  <2>1. Healed(p) \/ Due(p) \/ ToCome(p)
    BY <1>1, <1>3 DEF Heals, Buildable
  <2>2. ~Due(p) /\ ~ToCome(p)
    BY <1>1 DEF Due, ToCome
  <2>. QED BY <1>1, <2>1, <2>2 DEF Healed, FreshKey, Has
<1>7. CallHeals(call[Repair])'
  BY <1>1 DEF CallHeals
<1>. QED BY <1>2, <1>4, <1>5, <1>6, <1>7 DEF PassInv

\* What disturbs a pass, or ends the session it is of.
LEMMA DisturbedPass ==
    ASSUME IndexInv, repair' = Disturbed \/ closeSession
    PROVE  PassInv'
<1>1. ~OnPass'
  BY DEF OnPass, Disturbed, closeSession, IndexInv, RepairType
<1>. QED BY <1>1, OffPass

\* Open leaves every held database open, the one it takes included.
LEMMA OpenOpens ==
    ASSUME IndexInv, HeldOpen, NEW r \in Roots, NEW who, NEW reg, Open(r, who, reg)
    PROVE  HeldOpen'
<1>1. \A s \in Roots : s # r => holder'[s] = holder[s] /\ file'[s] = file[s]
  BY DEF Open, IndexInv
<1>2. file'[r].state = "current"
  BY DEF Open, IndexInv
<1>. QED BY <1>1, <1>2 DEF HeldOpen

\* No step takes a database that is not open, or empties the file of one that is held.
LEMMA HeldNext ==
    ASSUME IndexInv, HeldOpen, [Next]_vars
    PROVE  HeldOpen'
<1>1. CASE UNCHANGED <<file, holder>>
  BY <1>1 DEF HeldOpen
<1>2. ASSUME NEW r \in Roots, Close(r), UNCHANGED file PROVE HeldOpen'
  <2>1. \A s \in Roots : holder'[s] # "none" => holder'[s] = holder[s]
    BY <1>2 DEF Close, IndexInv
  <2>. QED BY <1>2, <2>1 DEF HeldOpen
<1>3. ASSUME NEW r \in Roots, Build(r) PROVE HeldOpen'
  BY <1>3, OpenOpens DEF Build
<1>4. ASSUME NEW r \in Roots, endBuild(r) PROVE HeldOpen'
  <2>1. UNCHANGED holder /\ file' = [file EXCEPT ![r].fp = @ \/ ~build[r].fatal]
    BY <1>4 DEF endBuild
  <2>2. \A s \in Roots : file'[s].state = file[s].state
    BY <2>1 DEF IndexInv, FileType
  <2>. QED BY <2>1, <2>2 DEF HeldOpen
<1>5. ASSUME NEW r \in Roots, exitIndexer(r) \/ killIndexer(r) PROVE HeldOpen'
  BY <1>2, <1>5 DEF exitIndexer, killIndexer
<1>6. ASSUME NEW r \in Roots, BuildStep(r) \/ cancelBuild(r), ~endBuild(r), ~exitIndexer(r) PROVE UNCHANGED <<file, holder>>
  BY <1>6 DEF BuildStep, runBuildJob, finishBuildJob, recordFatal, collectAfterBuild, RunCASGC, cancelBuild, storeVars
<1>7. CASE openSession
  BY <1>7, OpenOpens, LiveAssumption DEF openSession
<1>8. CASE closeSession
  BY <1>2, <1>8, LiveAssumption DEF closeSession
<1>9. CASE GCStep
  BY <1>1, <1>9 DEF GCStep, collectOtherCASMarks, MaybeGC, sweep, sweepRemove, sweepDone
<1>10. ASSUME NEW c \in Calls, CallStep(c) PROVE UNCHANGED <<file, holder>>
  BY <1>10 DEF CallStep, reindexOne, reindexCheck, tryCommit, PutUnit, reindex, storeVars
<1>11. ASSUME \/ runStartupCASGC \/ RevalidateStale \/ repairDone \/ UNCHANGED vars
              \/ \E c \in Calls, p \in Pkgs : Reindex(c, p)
              \/ \E p \in Pkgs : decode(p) \/ repairNext(p) \/ didSave(p)
              \/ \E r \in Roots, p \in Pkgs, v \in Versions : editDisk(r, p, v)
              \/ \E p \in Pkgs, v \in Versions : didChange(p, v)
       PROVE  UNCHANGED <<file, holder>>
  BY <1>11 DEF runStartupCASGC, RunCASGC, RevalidateStale, repairDone, vars, Reindex, decode, repairNext, didSave,
               editDisk, didChange, storeVars
<1>. QED BY <1>1, <1>3, <1>4, <1>5, <1>6, <1>7, <1>8, <1>9, <1>10, <1>11, StepCases

\* What a result makes of a call keeps its generation.
LEMMA ResolveKeepsGen ==
    ASSUME NEW cl \in CallType, cl.todo # <<>>, NEW res
    PROVE  afterResolve(cl, res).gen = cl.gen
<1> DEFINE c2 == [cl EXCEPT !.keys[Head(cl.todo)] = res.api,
                            !.changed = IF res.kind \in {"hit", "checked"} THEN @ \cup {Head(cl.todo)} ELSE @]
<1>1. c2.gen = cl.gen /\ c2.first = cl.first /\ c2.todo = cl.todo
  BY DEF CallType
<1>2. /\ DOMAIN c2 = DOMAIN cl /\ "gen" \in DOMAIN cl
  BY DEF CallType
<1>3. [c2 EXCEPT !.pc = "gate", !.unit = res.unit].gen = cl.gen
  BY <1>1, <1>2
<1>4. Next1(c2).gen = cl.gen
  BY <1>1, <1>2 DEF Next1
<1>5. AfterError(c2).gen = cl.gen
  BY <1>1, <1>2 DEF AfterError, Abort, Next1
<1>6. [cl EXCEPT !.pc = "check", !.key = res.key, !.own = res.own].gen = cl.gen
  BY DEF CallType
<1>7. afterResolve(cl, res) \in {AfterError(c2), [cl EXCEPT !.pc = "check", !.key = res.key, !.own = res.own],
                                 Next1(c2), [c2 EXCEPT !.pc = "gate", !.unit = res.unit]}
  BY DEF afterResolve
<1>. QED BY <1>3, <1>4, <1>5, <1>6, <1>7

\* A call keeps its generation to its end.
LEMMA CallKeepsGen ==
    ASSUME IndexInv, NEW c \in Calls, CallStep(c)
    PROVE  /\ call[c].pc # "idle" /\ \A d \in Calls : d # c => call'[d] = call[d]
           /\ call'[c].pc = "idle" \/ call'[c].gen = call[c].gen
<1>1. PICK cl \in CallOK : cl = call[c]
  BY DEF IndexInv
<1>2. cl \in CallType /\ DOMAIN cl = DOMAIN CallIdle
  BY <1>1 DEF CallOK, CallType, CallIdle
<1>3. \A n : call' = [call EXCEPT ![c] = n] => call'[c] = n /\ \A d \in Calls : d # c => call'[d] = call[d]
  BY DEF IndexInv
<1>4. CASE \E res : cl.pc \in {"resolve", "check"} /\ call' = [call EXCEPT ![c] = afterResolve(cl, res)]
  <2>1. PICK res : cl.pc \in {"resolve", "check"} /\ call' = [call EXCEPT ![c] = afterResolve(cl, res)]
    BY <1>4
  <2>2. cl.todo # <<>>
    BY <1>1, <2>1, CallParts
  <2>. QED BY <1>1, <1>2, <1>3, <2>1, <2>2, ResolveKeepsGen
<1>5. CASE tryCommit(c)
  <2>1. cl.pc = "gate" /\ \/ call' = [call EXCEPT ![c] = [cl EXCEPT !.pc = "put"]] \/ call' = [call EXCEPT ![c] = Next1(cl)]
    BY <1>1, <1>5 DEF tryCommit
  <2>2. [cl EXCEPT !.pc = "put"].gen = cl.gen /\ Next1(cl).gen = cl.gen
    BY <1>2 DEF Next1, CallType
  <2>. QED BY <1>1, <1>3, <2>1, <2>2
<1>6. CASE PutUnit(c)
  <2>1. cl.pc = "put" /\ \/ call' = [call EXCEPT ![c] = Abort(cl)] \/ call' = [call EXCEPT ![c] = Next1(cl)]
    BY <1>1, <1>6 DEF PutUnit
  <2>2. Abort(cl).gen = cl.gen /\ Next1(cl).gen = cl.gen
    BY <1>2 DEF Abort, Next1, CallType
  <2>. QED BY <1>1, <1>3, <2>1, <2>2
<1>7. CASE reindex(c)
  <2>1. cl.pc = "end" /\ call' = [call EXCEPT ![c] = CallIdle]
    BY <1>1, <1>7 DEF reindex
  <2>. QED BY <1>1, <1>3, <2>1, CallIdleOK
<1>8. CASE reindexOne(c) \/ reindexCheck(c)
  <2>1. \E res : cl.pc \in {"resolve", "check"} /\ call' = [call EXCEPT ![c] = afterResolve(cl, res)]
    BY <1>1, <1>8 DEF reindexOne, reindexCheck
  <2>. QED BY <1>4, <2>1
<1>. QED BY <1>5, <1>6, <1>7, <1>8 DEF CallStep

\* The steps of a call leave the generations in order,
LEMMA CallStepGens ==
    ASSUME IndexInv, GensOrdered, NEW c \in Calls, CallStep(c)
    PROVE  GensOrdered'
<1>1. /\ c \in InFlight /\ \A d \in Calls : d # c => call'[d] = call[d]
      /\ call'[c].pc = "idle" \/ call'[c].gen = call[c].gen
  BY CallKeepsGen DEF InFlight
<1>2. gens \in GensType
  BY DEF IndexInv
<1>3. call[c].gen <= gens.next
  BY <1>1 DEF GensOrdered
<1>4. gens'.next = gens.next /\ \A p \in Pkgs : gens'.done[p] \in {gens.done[p], call[c].gen}
  <2>1. CASE tryCommit(c)
    <3>1. gens' = gens \/ gens' = [gens EXCEPT !.done[Head(call[c].todo)] = call[c].gen]
      BY <2>1 DEF tryCommit
    <3>. QED BY <1>2, <3>1 DEF GensType
  <2>2. CASE PutUnit(c)
    <3>1. gens' = gens \/ gens' = [gens EXCEPT !.wrote[Head(call[c].todo)] = call[c].gen]
      BY <2>2 DEF PutUnit
    <3>. QED BY <1>2, <3>1 DEF GensType
  <2>3. CASE reindexOne(c) \/ reindexCheck(c) \/ reindex(c)
    BY <2>3 DEF reindexOne, reindexCheck, reindex
  <2>. QED BY <2>1, <2>2, <2>3 DEF CallStep
<1>. QED BY <1>1, <1>3, <1>4 DEF GensOrdered, InFlight

\* and so does a new one.
LEMMA StartGens ==
    ASSUME IndexInv, GensOrdered, NEW c \in Calls, NEW p \in Pkgs, Start(c, p)
    PROVE  GensOrdered'
<1>1. gens \in GensType /\ gens.next \in Nat /\ gens' = [gens EXCEPT !.next = gens.next + 1]
  BY DEF IndexInv, GensType, Start
<1>2. gens'.next = gens.next + 1 /\ gens'.done = gens.done /\ \A q \in Pkgs : gens.done[q] \in Nat
  BY <1>1 DEF GensType
<1> DEFINE n == [CallIdle EXCEPT !.pc = "resolve", !.gen = gens.next + 1, !.first = p,
                                 !.todo = <<p>> \o orderedReverseClosure(p)]
<1>3. call' = [call EXCEPT ![c] = n]
  BY DEF Start
<1>4. n.gen = gens.next + 1
  BY DEF CallIdle
<1> HIDE DEF n
<1>5. call'[c].gen = gens.next + 1 /\ \A d \in Calls : d # c => call'[d] = call[d]
  BY <1>3, <1>4 DEF IndexInv
<1>6. \A d \in Calls : call[d].gen \in Nat
  BY DEF IndexInv, CallOK, CallType
<1>7. \A q \in Pkgs : gens'.done[q] <= gens'.next
  BY <1>1, <1>2 DEF GensOrdered
<1>8. ASSUME NEW d \in Calls, call'[d].pc # "idle" PROVE call'[d].gen <= gens'.next
  <2>1. CASE d = c
    BY <1>1, <1>2, <1>5, <2>1
  <2>2. CASE d # c
    <3>1. call[d].gen <= gens.next
      BY <1>5, <1>8, <2>2 DEF GensOrdered, InFlight
    <3>. QED BY <1>1, <1>2, <1>5, <1>6, <2>2, <3>1
  <2>. QED BY <2>1, <2>2
<1>9. \A d \in InFlight' : call'[d].gen <= gens'.next
  BY <1>8 DEF InFlight
<1>. QED BY ONLY <1>7, <1>9 DEF GensOrdered

\* A database that a pass works in stays listed: whoever opens one disturbs the pass.
LEMMA ListedNext ==
    ASSUME IndexInv, PassListed, [Next]_vars
    PROVE  PassListed'
<1>1. CASE UNCHANGED <<file, repair>>
  BY <1>1 DEF PassListed
<1>2. ASSUME repair' = Disturbed PROVE PassListed'
  <2>1. repair'.clean = FALSE
    BY <1>2 DEF Disturbed, IndexInv, RepairType
  <2>. QED BY <2>1 DEF PassListed
<1>3. ASSUME NEW r \in Roots, Build(r) \/ cancelBuild(r) \/ killIndexer(r) PROVE PassListed'
  BY <1>1, <1>2, <1>3 DEF Build, cancelBuild, killIndexer, storeVars
<1>4. ASSUME NEW r \in Roots, endBuild(r) PROVE PassListed'
  <2>1. UNCHANGED repair /\ file' = [file EXCEPT ![r].fp = @ \/ ~build[r].fatal]
    BY <1>4 DEF endBuild
  <2>2. file'[Live].member = file[Live].member
    BY <2>1, LiveAssumption DEF IndexInv, FileType
  <2>. QED BY <2>1, <2>2 DEF PassListed
<1>5. ASSUME NEW r \in Roots, BuildStep(r), ~endBuild(r) PROVE UNCHANGED <<file, repair>>
  BY <1>5 DEF BuildStep, runBuildJob, finishBuildJob, recordFatal, collectAfterBuild, exitIndexer, RunCASGC, storeVars
<1>6. CASE openSession \/ runStartupCASGC
  BY <1>2, <1>6 DEF openSession, runStartupCASGC
<1>7. CASE closeSession
  BY <1>7 DEF closeSession, PassListed
<1>8. CASE GCStep /\ UNCHANGED idxVars
  BY <1>1, <1>8 DEF GCStep, collectOtherCASMarks, MaybeGC, sweep, sweepRemove, sweepDone, idxVars
<1>9. ASSUME NEW c \in Calls, CallStep(c) PROVE PassListed'
  <2>1. UNCHANGED <<file, repair>> \/ repair' = Disturbed
    BY <1>9 DEF CallStep, reindexOne, reindexCheck, tryCommit, PutUnit, reindex, storeVars
  <2>. QED BY <1>1, <1>2, <2>1
<1>10. CASE RevalidateStale
  BY <1>10 DEF RevalidateStale, storeVars, PassListed
<1>11. CASE repairDone \/ \E p \in Pkgs : repairNext(p)
  <2>1. repair.pc = "run" /\ UNCHANGED file
    BY <1>11 DEF repairDone, repairNext, storeVars
  <2>2. repair'.clean = repair.clean
    BY <1>11 DEF repairDone, repairNext, IndexInv, RepairType
  <2>. QED BY <2>1, <2>2 DEF PassListed
<1>12. ASSUME \/ \E c \in Calls, p \in Pkgs : Reindex(c, p)
              \/ \E p \in Pkgs : decode(p) \/ didSave(p)
              \/ \E r \in Roots, p \in Pkgs, v \in Versions : editDisk(r, p, v)
              \/ \E p \in Pkgs, v \in Versions : didChange(p, v)
              \/ UNCHANGED vars
       PROVE  UNCHANGED <<file, repair>> \/ repair' = Disturbed
  BY <1>12 DEF Reindex, decode, didSave, editDisk, didChange, vars, storeVars, idxVars
<1>. QED BY <1>1, <1>2, <1>3, <1>4, <1>5, <1>6, <1>7, <1>8, <1>9, <1>10, <1>11, <1>12, StepCases

\* No step takes them out of order.
LEMMA GensNext ==
    ASSUME IndexInv, CacheInv, GensOrdered, [Next]_vars
    PROVE  GensOrdered'
<1>1. CASE UNCHANGED <<gens, call>>
  BY <1>1 DEF GensOrdered, InFlight
<1>2. CASE openSession
  <2>1. holder[Live] = "none" /\ UNCHANGED call
    BY <1>2 DEF openSession, Open
  <2>2. InFlight' = {}
    BY <2>1 DEF CacheInv, InFlight
  <2>3. gens'.next = 0 /\ \A p \in Pkgs : gens'.done[p] = 0
    BY <1>2 DEF openSession
  <2>. QED BY <2>2, <2>3 DEF GensOrdered
<1>3. CASE \E r \in Roots : Build(r) \/ cancelBuild(r) \/ killIndexer(r)
  BY <1>1, <1>3 DEF Build, cancelBuild, killIndexer
<1>4. CASE \E r \in Roots : BuildStep(r)
  <2>1. PICK r \in Roots : BuildStep(r)
    BY <1>4
  <2>2. ASSUME NEW p \in Pkgs, runBuildJob(r, p) \/ finishBuildJob(r, p) \/ recordFatal(r, p)
        PROVE  UNCHANGED <<gens, call>>
    BY <2>2 DEF runBuildJob, finishBuildJob, recordFatal
  <2>3. CASE endBuild(r) \/ collectAfterBuild(r) \/ exitIndexer(r)
    BY <1>1, <2>3 DEF endBuild, collectAfterBuild, exitIndexer
  <2>. QED BY <1>1, <2>1, <2>2, <2>3 DEF BuildStep
<1>5. CASE \E c \in Calls : CallStep(c)
  BY <1>5, CallStepGens
<1>6. CASE \E c \in Calls, p \in Pkgs : Reindex(c, p)
  BY <1>6, StartGens DEF Reindex
<1>7. CASE \E p \in Pkgs : repairNext(p)
  BY <1>7, StartGens, CallsAssumption DEF repairNext
<1>8. CASE \/ closeSession \/ runStartupCASGC \/ RevalidateStale \/ repairDone \/ UNCHANGED vars
           \/ UNCHANGED idxVars
  BY <1>1, <1>8 DEF closeSession, runStartupCASGC, RevalidateStale, repairDone, vars, idxVars
<1>9. CASE \/ \E p \in Pkgs : decode(p) \/ didSave(p)
           \/ \E r \in Roots, p \in Pkgs, v \in Versions : editDisk(r, p, v)
           \/ \E p \in Pkgs, v \in Versions : didChange(p, v)
  BY <1>1, <1>9 DEF decode, didSave, editDisk, didChange
<1>. QED BY <1>2, <1>3, <1>4, <1>5, <1>6, <1>7, <1>8, <1>9, StepCases

\* The whole invariant: every step keeps it,
LEMMA PassNext ==
    ASSUME ~TornReads, ~ListingFails, IndexInv, StatInv, PinInv, CacheInv, OpenInv, PassInv, [Next]_vars
    PROVE  PassInv'
<1>1. CASE GCStep /\ UNCHANGED idxVars
  BY <1>1, GCPass
<1>2. CASE \E r \in Roots : BuildStep(r) \/ cancelBuild(r) \/ killIndexer(r)
  BY <1>2, BuildPass
<1>3. CASE \E c \in Calls : CallStep(c)
  BY <1>3, CallStepPass
<1>4. CASE (\E p \in Pkgs : decode(p)) \/ UNCHANGED vars
  BY <1>4, DecodePass
<1>5. CASE RevalidateStale \/ repairDone \/ \E p \in Pkgs : repairNext(p)
  BY <1>5, RevalidatePass, RepairDonePass, RepairNextPass
<1>6. ASSUME \/ \E r \in Roots : Build(r)
             \/ openSession \/ closeSession \/ runStartupCASGC
             \/ \E c \in Calls, p \in Pkgs : Reindex(c, p)
             \/ \E r \in Roots, p \in Pkgs, v \in Versions : editDisk(r, p, v)
             \/ \E p \in Pkgs, v \in Versions : didChange(p, v)
             \/ \E p \in Pkgs : didSave(p)
      PROVE  repair' = Disturbed \/ closeSession
  BY <1>6 DEF Build, openSession, runStartupCASGC, Reindex, editDisk, didChange, didSave
<1>. QED BY <1>1, <1>2, <1>3, <1>4, <1>5, <1>6, DisturbedPass, StepCases

\* it holds at the start,
LEMMA PassInit == ASSUME Init PROVE OpenInv /\ PassInv
<1>1. HeldOpen
  BY LoadsAssumption DEF Init, HeldOpen
<1>2. \A c \in Calls : call[c] = CallIdle
  BY DEF Init
<1>3. InFlight = {}
  BY <1>2, CallIdleOK DEF InFlight
<1>4. gens.next = 0 /\ \A p \in Pkgs : gens.done[p] = 0
  BY DEF Init
<1>5. repair.pc = "idle"
  BY DEF Init
<1>. QED BY <1>1, <1>3, <1>4, <1>5 DEF OpenInv, GensOrdered, PassListed, PassInv

\* and it says that a pass that is done has healed everything.
LEMMA PassHeals == ASSUME IndexInv, StatInv, PassInv PROVE RepairHeals
<1>. SUFFICES ASSUME repair.pc = "done", repair.clean, NEW p \in Pkgs, Buildable(p)
              PROVE  /\ IsPointer(units[Live][p]) /\ units[Live][p].key = FreshKey(p)
                     /\ Has(FreshKey(p)) /\ blobs[FreshKey(p)].facts = disk[Live][p].ver
  BY DEF RepairHeals
<1>1. Heals /\ repair.todo = {} /\ InFlight = {}
  BY DEF PassInv
<1>2. ~Due(p) /\ ~ToCome(p)
  BY <1>1, CallsAssumption DEF Due, ToCome, InFlight
<1>3. Healed(p)
  BY <1>1, <1>2 DEF Heals
<1>4. blobs[FreshKey(p)].facts = disk[Live][p].ver
  BY <1>3, FreshKeyParts DEF Healed, Has, StatInv, FactsAgree
<1>. QED BY <1>3, <1>4 DEF Healed

\* A revalidation pass that nothing disturbed leaves every buildable package
\* with a pointer to a blob that exists and was made from what is on disk, for
\* any number of packages, calls, worktrees and indexers, as long as no file
\* changes between its hash and its parse and the members can be listed
\* (Revalidate, reindexChanged and RunCASGC).
THEOREM RepairHealsHolds ==
    ASSUME ~TornReads, ~ListingFails
    PROVE  Spec => []RepairHeals
<1>1. Init => StatInv /\ PinInv /\ CacheInv /\ OpenInv /\ PassInv
  BY StatInit, PassInit, CacheInit DEF Init, PinInv, GCIdle
<1>2. /\ IndexInv /\ StatInv /\ PinInv /\ CacheInv /\ OpenInv /\ PassInv /\ [Next]_vars
      => StatInv' /\ PinInv' /\ CacheInv' /\ OpenInv' /\ PassInv'
  BY StatNext, PinNext, CacheNext, HeldNext, GensNext, ListedNext, PassNext DEF OpenInv
<1>3. IndexInv /\ StatInv /\ PassInv => RepairHeals
  BY PassHeals
<1>. QED BY <1>1, <1>2, <1>3, IndexSafe, PTL DEF Spec
=============================================================================
