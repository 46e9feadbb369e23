--------------------------- MODULE WorkspaceProofs ---------------------------
(***************************************************************************)
(* Theorems about the workspace of a session: types, with what the locks   *)
(* and flags of its goroutines imply, and that the decode cache never      *)
(* serves export data made from another file set than the one the package  *)
(* source answers from.                                                    *)
(***************************************************************************)
EXTENDS Workspace, SequenceTheorems, FiniteSetTheorems, TLAPS

-----------------------------------------------------------------------------
(* Types of the documents and their diagnostics.                           *)

Said == {Gate} \cup Nat
HandlerRecord == [at : {"idle", "mark", "reread", "focus", "arm", "clear", "notify"}, engine : {NoEngine} \cup Engine]
RecheckRecord == [at : {"none", "checked", "publish", "notify"}, found : [Doc -> SUBSET Said], open : SUBSET Doc,
                  tell : SUBSET Doc, says : [Doc -> SUBSET Said]]
HandlerType ==
    /\ overlay \in [Doc -> {Closed} \cup Nat] /\ handler \in [Doc -> HandlerRecord]
    /\ \A f \in Doc : handler[f].at \in {"focus", "arm"} => handler[f].engine \in Engine
EngineType ==
    /\ engine \in {NoEngine} \cup Engine /\ pendingOpens \subseteq Doc /\ retired \subseteq Engine
    /\ known \subseteq Engine \X Unit /\ armed \subseteq Engine \X Unit
    /\ idxReady \in BOOLEAN
RecheckType ==
    /\ recheck \in [Engine \X Unit -> RecheckRecord]
    /\ \A e \in Engine, u \in Unit : recheck[<<e, u>>].tell \subseteq FilesOf(u)
SaidType ==
    /\ diagFiles \in [Unit -> SUBSET Doc] /\ \A u \in Unit : diagFiles[u] \subseteq FilesOf(u)
    /\ shown \in [Doc -> {Unseen} \cup SUBSET Said]
DiagType == HandlerType /\ EngineType /\ RecheckType /\ SaidType

\* The engines are numbered from one.
LEMMA NoEngineIsNone == NoEngine \notin Engine
BY DocsAreTyped DEF NoEngine, Engine

\* A state with the types below has the types the runs check.
LEMMA DiagTypeImplies == DiagType => DiagTypeOK
<1>. SUFFICES ASSUME DiagType PROVE DiagTypeOK
  OBVIOUS
<1>1. \A e \in Engine, u \in Unit : /\ recheck[<<e, u>>].at \in {"none", "checked", "publish", "notify"}
                                    /\ recheck[<<e, u>>].tell \subseteq FilesOf(u)
  <2>. SUFFICES ASSUME NEW e \in Engine, NEW u \in Unit
                PROVE  recheck[<<e, u>>].at \in {"none", "checked", "publish", "notify"} /\ recheck[<<e, u>>].tell \subseteq FilesOf(u)
    OBVIOUS
  <2>1. recheck[<<e, u>>] \in RecheckRecord
    BY DEF DiagType, RecheckType
  <2>. QED  BY <2>1 DEF DiagType, RecheckType, RecheckRecord
<1>2. \A f \in Doc : shown[f] = Unseen \/ shown[f] \subseteq {Gate} \cup Nat
  BY DEF DiagType, SaidType, Said
<1>. QED  BY <1>1, <1>2 DEF DiagType, DiagTypeOK, HandlerType, HandlerRecord, EngineType, SaidType

\* The texts of documents and their errors.
LEMMA TextTypes ==
    ASSUME HandlerType, NEW f \in Doc
    PROVE  ReadFile(f) \in Nat /\ ErrorsIn(ReadFile(f)) \subseteq Nat
<1>1. OnDisk[f] \in Nat /\ overlay[f] \in {Closed} \cup Nat
  BY DocsAreTyped DEF HandlerType
<1>2. ReadFile(f) \in Nat
  BY <1>1 DEF ReadFile
<1>. QED  BY <1>2 DEF ErrorsIn

\* What focusing or invalidating documents arms.
LEMMA RechecksTyped ==
    ASSUME NEW e \in Engine, NEW files \in SUBSET Doc, NEW k
    PROVE  Rechecks(e, files, k) \subseteq Engine \X Unit
<1>1. \A f \in files : BaseOf[UnitOf[f]] \in Unit
  BY DocsAreTyped
<1>2. {<<e, BaseOf[UnitOf[f]]>> : f \in files} \subseteq Engine \X Unit
  BY <1>1
<1>. DEFINE X == {x \in Unit : <<e, x>> \in k /\ \E f \in files : BaseOf[x] = BaseOf[UnitOf[f]]}
<1>3. X \subseteq Unit
  OBVIOUS
<1>. HIDE DEF X
<1>4. {<<e, u>> : u \in X} \subseteq Engine \X Unit
  BY <1>3
<1>. QED  BY <1>2, <1>4, Zenon DEF Rechecks, X

LEMMA FocusTyped ==
    ASSUME EngineType, NEW e \in Engine, NEW files \in SUBSET Doc, FocusAndInvalidate(e, files)
    PROVE  known' \subseteq Engine \X Unit /\ armed' \subseteq Engine \X Unit
<1>. DEFINE mine == InWorkspace(files)
            k == known \cup {<<e, UnitOf[f]>> : f \in mine}
<1>1. mine \in SUBSET Doc
  BY DEF InWorkspace
<1>2. known' = k /\ armed' = armed \cup Rechecks(e, mine, k)
  BY Zenon DEF FocusAndInvalidate
<1>3. k \subseteq Engine \X Unit
  BY <1>1, DocsAreTyped DEF EngineType
<1>. HIDE DEF k, mine
<1>. QED  BY <1>1, <1>2, <1>3, RechecksTyped DEF EngineType

\* Idle handlers and rechecks.
LEMMA RestingTyped == Idle \in HandlerRecord /\ NoRecheck \in RecheckRecord /\ NoRecheck.tell = {}
BY DEF Idle, HandlerRecord, NoRecheck, RecheckRecord, Said

-----------------------------------------------------------------------------
(* The steps of the documents, one lemma each.                             *)

LEMMA handleDidOpenType ==
    ASSUME DiagType, NEW f \in Doc, handleDidOpen(f)
    PROVE  DiagType'
<1>1. UNCHANGED <<engine, pendingOpens, known, armed, recheck, retired, idxReady, diagFiles, shown>>
  BY DEF handleDidOpen
<1>2. HandlerType'
  <2>. DEFINE h == IF engine = NoEngine THEN [at |-> "mark", engine |-> NoEngine] ELSE [at |-> "focus", engine |-> engine]
  <2>1. overlay' = [overlay EXCEPT ![f] = OnDisk[f]] /\ handler' = [handler EXCEPT ![f] = h]
    BY DEF handleDidOpen
  <2>2. h \in HandlerRecord /\ (h.at \in {"focus", "arm"} => h.engine \in Engine)
    BY DEF DiagType, EngineType, HandlerRecord
  <2>3. OnDisk[f] \in Nat
    BY DocsAreTyped
  <2>. HIDE DEF h
  <2>. QED  BY <2>1, <2>2, <2>3 DEF DiagType, HandlerType
<1>. QED  BY <1>1, <1>2 DEF DiagType, EngineType, RecheckType, SaidType

LEMMA markPendingOpenType ==
    ASSUME DiagType, NEW f \in Doc, markPendingOpen(f)
    PROVE  DiagType'
<1>1. /\ UNCHANGED <<overlay, engine, known, armed, recheck, retired, idxReady, diagFiles, shown>>
      /\ pendingOpens' = pendingOpens \cup {f}
      /\ handler' = [handler EXCEPT ![f].at = "reread"]
  BY DEF markPendingOpen
<1>2. HandlerType'
  BY <1>1 DEF DiagType, HandlerType, HandlerRecord
<1>. QED  BY <1>1, <1>2 DEF DiagType, EngineType, RecheckType, SaidType

\* A handler that has done its work rests.
LEMMA HandlerRests ==
    ASSUME HandlerType, NEW f \in Doc, UNCHANGED overlay, handler' = [handler EXCEPT ![f] = Idle]
    PROVE  HandlerType'
BY RestingTyped DEF HandlerType, Idle

LEMMA rereadWorkspaceType ==
    ASSUME DiagType, NEW f \in Doc, rereadWorkspace(f)
    PROVE  DiagType'
<1>1. /\ UNCHANGED <<overlay, engine, recheck, retired, idxReady, diagFiles, shown>>
      /\ handler' = [handler EXCEPT ![f] = Idle]
  BY DEF rereadWorkspace
<1>2. EngineType'
  <2>1. CASE engine = NoEngine
    BY <1>1, <2>1 DEF rereadWorkspace, DiagType, EngineType
  <2>2. CASE engine # NoEngine
    <3>1. pendingOpens' = {} /\ FocusAndInvalidate(engine, pendingOpens)
      BY <2>2 DEF rereadWorkspace, drainPendingOpens
    <3>2. engine \in Engine /\ pendingOpens \in SUBSET Doc
      BY <2>2 DEF DiagType, EngineType
    <3>. QED  BY <1>1, <3>1, <3>2, FocusTyped DEF DiagType, EngineType
  <2>. QED  BY <2>1, <2>2
<1>. QED  BY <1>1, <1>2, HandlerRests DEF DiagType, RecheckType, SaidType

LEMMA focusOpenedType ==
    ASSUME DiagType, NEW f \in Doc, focusOpened(f)
    PROVE  DiagType'
<1>1. /\ UNCHANGED <<overlay, engine, pendingOpens, recheck, retired, idxReady, diagFiles, shown>>
      /\ handler' = [handler EXCEPT ![f] = Idle] /\ FocusAndInvalidate(handler[f].engine, {f})
      /\ handler[f].engine \in Engine
  BY DEF focusOpened, DiagType, HandlerType
<1>2. EngineType'
  BY <1>1, FocusTyped DEF DiagType, EngineType
<1>. QED  BY <1>1, <1>2, HandlerRests DEF DiagType, RecheckType, SaidType

LEMMA handleDidChangeType ==
    ASSUME DiagType, NEW f \in Doc, NEW v \in Nat, handleDidChange(f, v)
    PROVE  DiagType'
<1>1. UNCHANGED <<engine, pendingOpens, known, armed, recheck, retired, idxReady, diagFiles, shown>>
  BY DEF handleDidChange
<1>2. HandlerType'
  <2>. DEFINE h == IF engine = NoEngine \/ InWorkspace({f}) = {} THEN Idle ELSE [at |-> "arm", engine |-> engine]
  <2>1. overlay' = [overlay EXCEPT ![f] = v] /\ handler' = [handler EXCEPT ![f] = h]
    BY DEF handleDidChange
  <2>2. h \in HandlerRecord /\ (h.at \in {"focus", "arm"} => h.engine \in Engine)
    BY DEF DiagType, EngineType, HandlerRecord, Idle
  <2>. HIDE DEF h
  <2>. QED  BY <2>1, <2>2 DEF DiagType, HandlerType
<1>. QED  BY <1>1, <1>2 DEF DiagType, EngineType, RecheckType, SaidType

LEMMA armChangedType ==
    ASSUME DiagType, NEW f \in Doc, armChanged(f)
    PROVE  DiagType'
<1>1. /\ UNCHANGED <<overlay, engine, pendingOpens, known, recheck, retired, idxReady, diagFiles, shown>>
      /\ handler' = [handler EXCEPT ![f] = Idle]
      /\ armed' = armed \cup Rechecks(handler[f].engine, InWorkspace({f}), known)
      /\ handler[f].engine \in Engine
  BY DEF armChanged, Invalidate, DiagType, HandlerType
<1>2. Rechecks(handler[f].engine, InWorkspace({f}), known) \subseteq Engine \X Unit
  <2>1. InWorkspace({f}) \in SUBSET Doc
    BY DEF InWorkspace
  <2>. QED  BY <1>1, <2>1, RechecksTyped
<1>3. EngineType'
  BY <1>1, <1>2 DEF DiagType, EngineType
<1>. QED  BY <1>1, <1>3, HandlerRests DEF DiagType, RecheckType, SaidType

LEMMA handleDidCloseType ==
    ASSUME DiagType, NEW f \in Doc, handleDidClose(f)
    PROVE  DiagType'
<1>1. /\ UNCHANGED <<engine, pendingOpens, known, armed, recheck, retired, idxReady, diagFiles, shown>>
      /\ overlay' = [overlay EXCEPT ![f] = Closed] /\ handler' = [handler EXCEPT ![f].at = "clear"]
  BY DEF handleDidClose
<1>2. HandlerType'
  BY <1>1 DEF DiagType, HandlerType, HandlerRecord
<1>. QED  BY <1>1, <1>2 DEF DiagType, EngineType, RecheckType, SaidType

LEMMA clearDiagnosticsType ==
    ASSUME DiagType, NEW f \in Doc, clearDiagnosticsForClosedFile(f)
    PROVE  DiagType'
<1>. DEFINE h == IF \E u \in Unit : f \in diagFiles[u] THEN [at |-> "notify", engine |-> NoEngine] ELSE Idle
<1>1. /\ UNCHANGED <<overlay, engine, pendingOpens, known, armed, recheck, retired, idxReady, shown>>
      /\ diagFiles' = [u \in Unit |-> diagFiles[u] \ {f}] /\ handler' = [handler EXCEPT ![f] = h]
  BY DEF clearDiagnosticsForClosedFile
<1>2. h \in HandlerRecord /\ h.at \notin {"focus", "arm"}
  BY DEF HandlerRecord, Idle
<1>. HIDE DEF h
<1>3. HandlerType'
  BY <1>1, <1>2 DEF DiagType, HandlerType
<1>4. SaidType'
  BY <1>1 DEF DiagType, SaidType
<1>. QED  BY <1>1, <1>3, <1>4 DEF DiagType, EngineType, RecheckType

LEMMA notifyClosedType ==
    ASSUME DiagType, NEW f \in Doc, notifyClosed(f)
    PROVE  DiagType'
<1>1. /\ UNCHANGED <<overlay, engine, pendingOpens, known, armed, recheck, retired, idxReady, diagFiles>>
      /\ shown' = [shown EXCEPT ![f] = {}] /\ handler' = [handler EXCEPT ![f] = Idle]
  BY DEF notifyClosed
<1>2. SaidType'
  BY <1>1 DEF DiagType, SaidType
<1>. QED  BY <1>1, <1>2, HandlerRests DEF DiagType, EngineType, RecheckType

-----------------------------------------------------------------------------
(* The steps of the check units.                                           *)

\* One recheck record is replaced by another.
LEMMA RecheckReplaced ==
    ASSUME RecheckType, NEW e \in Engine, NEW u \in Unit, NEW r \in RecheckRecord, r.tell \subseteq FilesOf(u),
           recheck' = [recheck EXCEPT ![<<e, u>>] = r]
    PROVE  RecheckType'
<1>1. recheck' \in [Engine \X Unit -> RecheckRecord]
  BY DEF RecheckType
<1>2. ASSUME NEW d \in Engine, NEW v \in Unit
      PROVE  recheck'[<<d, v>>].tell \subseteq FilesOf(v)
  <2>1. CASE d = e /\ v = u
    BY <2>1 DEF RecheckType
  <2>2. CASE ~(d = e /\ v = u)
    <3>1. recheck'[<<d, v>>] = recheck[<<d, v>>]
      BY <2>2 DEF RecheckType
    <3>. QED  BY <3>1 DEF RecheckType
  <2>. QED  BY <2>1, <2>2
<1>. QED  BY <1>1, <1>2 DEF RecheckType, FilesOf

\* What a unit's recheck holds.
LEMMA RecheckFields ==
    ASSUME RecheckType, NEW e \in Engine, NEW u \in Unit
    PROVE  LET r == recheck[<<e, u>>]
           IN  /\ r \in RecheckRecord /\ r.tell \subseteq FilesOf(u)
               /\ r.found \in [Doc -> SUBSET Said] /\ r.says \in [Doc -> SUBSET Said] /\ r.tell \in SUBSET Doc
<1>1. recheck[<<e, u>>] \in RecheckRecord
  BY DEF RecheckType
<1>. QED  BY <1>1 DEF RecheckType, RecheckRecord

LEMMA fireRecheckType ==
    ASSUME DiagType, NEW e \in Engine, NEW u \in Unit, fireRecheck(e, u)
    PROVE  DiagType'
<1>. DEFINE found == [f \in Doc |-> IF f \notin FilesOf(u) THEN {}
                                    ELSE ErrorsIn(ReadFile(f)) \cup (IF HeldBack(f) THEN {Gate} ELSE {})]
            r == [at |-> "checked", tell |-> {}, says |-> [f \in Doc |-> {}], open |-> Open \cap FilesOf(u), found |-> found]
<1>1. /\ UNCHANGED <<overlay, handler, engine, pendingOpens, retired, idxReady, diagFiles, shown>>
      /\ armed' = armed \ {<<e, u>>} /\ known' = known \cup {<<e, u>>}
      /\ recheck' = [recheck EXCEPT ![<<e, u>>] = r]
  BY Zenon DEF fireRecheck
<1>2. found \in [Doc -> SUBSET Said]
  <2>1. \A f \in Doc : ErrorsIn(ReadFile(f)) \subseteq Said /\ {Gate} \subseteq Said
    BY TextTypes DEF Said, DiagType
  <2>. QED  BY <2>1
<1>. HIDE DEF found
<1>3. r \in RecheckRecord /\ r.tell \subseteq FilesOf(u)
  BY <1>2 DEF RecheckRecord, Open
<1>. HIDE DEF r
<1>4. RecheckType'
  BY <1>1, <1>3, RecheckReplaced DEF DiagType
<1>5. EngineType'
  BY <1>1 DEF DiagType, EngineType
<1>. QED  BY <1>1, <1>4, <1>5 DEF DiagType, HandlerType, SaidType

LEMMA commitType ==
    ASSUME DiagType, NEW e \in Engine, NEW u \in Unit, commit(e, u)
    PROVE  DiagType'
<1>. DEFINE r == [recheck[<<e, u>>] EXCEPT !.at = "publish"]
<1>1. /\ UNCHANGED <<overlay, handler, engine, pendingOpens, known, armed, retired, idxReady, diagFiles, shown>>
      /\ \/ recheck' = [recheck EXCEPT ![<<e, u>>] = NoRecheck]
         \/ recheck' = [recheck EXCEPT ![<<e, u>>] = r]
  BY DEF commit
<1>2. r \in RecheckRecord /\ r.tell \subseteq FilesOf(u)
  BY RecheckFields DEF DiagType, RecheckRecord
<1>. HIDE DEF r
<1>3. RecheckType'
  BY <1>1, <1>2, RestingTyped, RecheckReplaced DEF DiagType
<1>. QED  BY <1>1, <1>3 DEF DiagType, HandlerType, EngineType, SaidType

LEMMA updateDiagFilesType ==
    ASSUME DiagType, NEW e \in Engine, NEW u \in Unit, updateDiagFiles(e, u)
    PROVE  DiagType'
<1>. DEFINE r == recheck[<<e, u>>]
            told == emptyFiles(u, r.found) \cup {f \in FilesOf(u) : byFile(r.found)[f] # {}}
            next == nextDiagFiles(u, r.found)
            s == [r EXCEPT !.at = "notify", !.tell = told, !.says = byFile(r.found)]
<1>1. /\ UNCHANGED <<overlay, handler, engine, pendingOpens, known, armed, retired, idxReady, shown>>
      /\ diagFiles' = [diagFiles EXCEPT ![u] = next]
      /\ recheck' = [recheck EXCEPT ![<<e, u>>] = IF told = {} THEN NoRecheck ELSE s]
  BY Zenon DEF updateDiagFiles
<1>2. /\ r \in RecheckRecord /\ r.tell \subseteq FilesOf(u)
      /\ r.found \in [Doc -> SUBSET Said]
  BY RecheckFields DEF DiagType
<1>3. byFile(r.found) \in [Doc -> SUBSET Said]
  BY <1>2 DEF byFile
<1>4. diagFiles[u] \subseteq FilesOf(u) /\ FilesOf(u) \subseteq Doc
  BY DEF DiagType, SaidType, FilesOf
<1>5. next \subseteq FilesOf(u)
  BY <1>4 DEF nextDiagFiles
<1>6. told \subseteq FilesOf(u)
  <2>1. emptyFiles(u, r.found) \subseteq FilesOf(u)
    BY <1>4 DEF emptyFiles
  <2>. QED  BY <2>1
<1>7. SaidType'
  <2>. HIDE DEF next
  <2>. QED  BY <1>1, <1>4, <1>5 DEF DiagType, SaidType, FilesOf
<1>8. s \in RecheckRecord /\ s.tell = told
  <2>. DEFINE by == byFile(r.found)
  <2>1. told \in SUBSET Doc
    BY <1>4, <1>6
  <2>. HIDE DEF told, by, r
  <2>2. by \in [Doc -> SUBSET Said]
    BY <1>3 DEF by
  <2>3. [r EXCEPT !.at = "notify", !.tell = told, !.says = by] \in RecheckRecord
        /\ [r EXCEPT !.at = "notify", !.tell = told, !.says = by].tell = told
    BY <1>2, <2>1, <2>2 DEF RecheckRecord
  <2>. QED  BY <2>3 DEF by
<1>. HIDE DEF s, told, next, r
<1>9. RecheckType'
  <2>1. CASE told = {}
    BY <1>1, <2>1, RestingTyped, RecheckReplaced DEF DiagType
  <2>2. CASE told # {}
    BY <1>1, <1>6, <1>8, <2>2, RecheckReplaced DEF DiagType
  <2>. QED  BY <2>1, <2>2
<1>. QED  BY <1>1, <1>7, <1>9 DEF DiagType, HandlerType, EngineType

LEMMA notifyDiagnosticsType ==
    ASSUME DiagType, NEW e \in Engine, NEW u \in Unit, NEW f \in Doc, notifyDiagnostics(e, u, f)
    PROVE  DiagType'
<1>. DEFINE r == recheck[<<e, u>>]
            s == [r EXCEPT !.tell = @ \ {f}]
<1>1. /\ UNCHANGED <<overlay, handler, engine, pendingOpens, known, armed, retired, idxReady, diagFiles>>
      /\ shown' = [shown EXCEPT ![f] = r.says[f]]
      /\ recheck' = [recheck EXCEPT ![<<e, u>>] = IF r.tell = {f} THEN NoRecheck ELSE s]
  BY Zenon DEF notifyDiagnostics
<1>2. /\ r \in RecheckRecord /\ r.tell \subseteq FilesOf(u) /\ r.tell \in SUBSET Doc
      /\ r.says \in [Doc -> SUBSET Said]
  BY RecheckFields DEF DiagType
<1>3. SaidType'
  <2>1. r.says[f] \in SUBSET Said
    BY <1>2
  <2>. HIDE DEF r
  <2>. QED  BY <1>1, <2>1 DEF DiagType, SaidType
<1>4. s \in RecheckRecord /\ s.tell \subseteq FilesOf(u)
  <2>. HIDE DEF r
  <2>. QED  BY <1>2 DEF RecheckRecord
<1>. HIDE DEF s
<1>5. RecheckType'
  <2>1. CASE r.tell = {f}
    BY <1>1, <2>1, RestingTyped, RecheckReplaced DEF DiagType
  <2>2. CASE r.tell # {f}
    BY <1>1, <1>4, <2>2, RecheckReplaced DEF DiagType
  <2>. QED  BY <2>1, <2>2
<1>. QED  BY <1>1, <1>3, <1>5 DEF DiagType, HandlerType, EngineType

LEMMA RetireType ==
    ASSUME DiagType, NEW e \in Engine, Retire(e)
    PROVE  RecheckType' /\ armed' \subseteq Engine \X Unit /\ retired' \subseteq Engine
<1>1. armed' \subseteq Engine \X Unit /\ retired' \subseteq Engine
  BY DEF Retire, DiagType, EngineType
<1>2. recheck' = [eu \in Engine \X Unit |->
                     IF eu[1] = e /\ recheck[eu].at = "checked" THEN NoRecheck ELSE recheck[eu]]
  BY DEF Retire
<1>3. recheck' \in [Engine \X Unit -> RecheckRecord]
  <2>1. \A eu \in Engine \X Unit : recheck[eu] \in RecheckRecord
    BY DEF DiagType, RecheckType
  <2>. QED  BY <1>2, <2>1, RestingTyped
<1>4. ASSUME NEW d \in Engine, NEW v \in Unit
      PROVE  recheck'[<<d, v>>].tell \subseteq FilesOf(v)
  <2>1. recheck'[<<d, v>>] \in {NoRecheck, recheck[<<d, v>>]}
    BY <1>2
  <2>. QED  BY <2>1, RestingTyped DEF DiagType, RecheckType
<1>. QED  BY <1>1, <1>3, <1>4 DEF RecheckType, FilesOf

-----------------------------------------------------------------------------
(* Types of the workspace, and what its locks and flags imply.             *)

At == {"idle", "read", "load", "save", "set", "drop", "store", "drain", "open", "index",
       "build", "rebuild", "recheck", "discard", "done"}
Inside == {"drop", "store", "drain"}
Snapshot == [files : SUBSET File, mod : {0, 1}, read : Nat]
ThreadRecord == [at : At, snap : Snapshot, engine : {NoEngine} \cup Engine]
WatchRecord == [timer : BOOLEAN, reload : BOOLEAN, fired : Seq(BOOLEAN), running : BOOLEAN,
                rerun : BOOLEAN, rerunReload : BOOLEAN]
EventRecord == [kind : {"written", "deleted", "module"}, file : File]
DecodedRecord == [done : BOOLEAN, files : SUBSET File, late : BOOLEAN]
ImportRecord == [pkg : Pkg, files : SUBSET File, overtaken : BOOLEAN]

DiskType ==
    /\ disk \in [File -> [exists : BOOLEAN, text : Nat, mtime : Nat]] /\ mod \in {0, 1}
    /\ cacheFile \in [saved : BOOLEAN, snap : Snapshot, digest : {0, 1}, touched : BOOLEAN]
    /\ serving \in {"down", "up", "stopping"} /\ reads \in Nat
ClientType == mail \in Seq(EventRecord) /\ "edits" \in DOMAIN load /\ load.edits \in Nat

\* setWorkspaceMu: its holder is the one inside setWorkspace; the source and
\* the installed snapshot differ only while a goroutine is between
\* retargeting the one and storing the other.
ThreadType ==
    /\ thr \in [Thread -> ThreadRecord] /\ wsMu \in Thread \cup {None}
    /\ snap \in Snapshot /\ target \in Snapshot
    /\ \A t \in Thread : thr[t].at \in Inside <=> wsMu = t
    /\ \A t \in Thread : thr[t].at \in {"drop", "store"} => thr[t].snap = target /\ thr[t].engine \in Engine
    /\ \A t \in Thread : thr[t].at = "drain" => engine \in Engine
    /\ (\A t \in Thread : thr[t].at \notin {"drop", "store"}) => target = snap
WatchType ==
    /\ watch \in WatchRecord
    /\ watch.running <=> thr["watch"].at # "idle"
    /\ watch.rerun => watch.running

\* The decode cache.
Held == {p \in Pkg : decoded[p].done}
Dropping == \E t \in Thread : thr[t].at = "drop"
MadeFor(q, files) == files = ClosureFiles(target, q) \/ (Dropping /\ files = ClosureFiles(snap, q))
DecodedType ==
    /\ decoded \in [Pkg -> DecodedRecord] /\ imp \in {NoImport} \cup ImportRecord
    /\ Cardinality(Held) <= MaxDecoded + 1
    /\ imp # NoImport => Cardinality(Held) <= MaxDecoded
DecodedFresh ==
    /\ \A q \in Pkg : decoded[q].done => ForTest[q] = None /\ (~decoded[q].late => MadeFor(q, decoded[q].files))
    /\ imp # NoImport => ForTest[imp.pkg] = None /\ (~imp.overtaken => MadeFor(imp.pkg, imp.files))

WsInv == DiagType /\ DiskType /\ ClientType /\ ThreadType /\ WatchType /\ DecodedType /\ DecodedFresh

\* The invariant implies the properties the runs check.
LEMMA WsInvImplies == WsInv => TypeOK /\ DecodedIsFresh
<1>. SUFFICES ASSUME WsInv PROVE TypeOK /\ DecodedIsFresh
  OBVIOUS
<1>1. \A i \in DOMAIN mail : mail[i] \in EventRecord
  BY LenProperties, ElementOfSeq DEF WsInv, ClientType
<1>2. \A t \in Thread : thr[t].at \in At
  BY DEF WsInv, ThreadType, ThreadRecord
<1>3. \A t \in Thread : thr[t].at \in {"drop", "store", "drain"} <=> wsMu = t
  BY DEF WsInv, ThreadType, Inside
<1>4. TypeOK
  BY <1>1, <1>2, <1>3, DiagTypeImplies
     DEF TypeOK, WsInv, DiskType, WatchType, DecodedType, Held, At, EventRecord
<1>5. DecodedIsFresh
  BY DEF DecodedIsFresh, WsInv, DecodedFresh, MadeFor, Dropping
<1>. QED  BY <1>4, <1>5

-----------------------------------------------------------------------------
(* What leaves a part of the invariant alone.                              *)

LEMMA DiagSame == ASSUME DiagType, UNCHANGED diagVars PROVE DiagType'
BY DEF DiagType, HandlerType, EngineType, RecheckType, SaidType, diagVars, FilesOf

LEMMA DiskSame == ASSUME DiskType, UNCHANGED <<diskVars, serving, reads>> PROVE DiskType'
BY DEF DiskType, diskVars

LEMMA ClientSame == ASSUME ClientType, UNCHANGED <<mail, load>> PROVE ClientType'
BY DEF ClientType

LEMMA ThreadSame == ASSUME ThreadType, UNCHANGED <<thr, wsMu, snap, target>>,
                           engine \in Engine => engine' \in Engine
                    PROVE  ThreadType'
BY DEF ThreadType

LEMMA WatchSame == ASSUME WatchType, UNCHANGED <<watch, thr>> PROVE WatchType'
BY DEF WatchType

LEMMA DecodedSame ==
    ASSUME DecodedType, DecodedFresh, UNCHANGED <<decoded, imp, snap, target>>, Dropping => Dropping'
    PROVE  DecodedType' /\ DecodedFresh'
<1>1. \A q, files : MadeFor(q, files) => (files = ClosureFiles(target, q) \/ (Dropping' /\ files = ClosureFiles(snap, q)))
  BY DEF MadeFor
<1>2. \A q, files : MadeFor(q, files) => MadeFor(q, files)'
  BY <1>1 DEF MadeFor, ClosureFiles, GoFiles
<1>. QED  BY <1>2 DEF DecodedType, DecodedFresh, Held

\* The rest of a step that only the client, the disk or a document takes.
LEMMA WsSame ==
    ASSUME WsInv, UNCHANGED wsVars
    PROVE  DecodedType' /\ DecodedFresh'
           /\ ((engine \in Engine => engine' \in Engine) => ThreadType')
           /\ (UNCHANGED watch => WatchType')
<1>1. UNCHANGED <<thr, wsMu, snap, target, decoded, imp>>
  BY DEF wsVars
<1>2. Dropping => Dropping'
  BY <1>1 DEF Dropping
<1>. QED  BY <1>1, <1>2, DecodedSame, ThreadSame, WatchSame DEF WsInv

\* The client's budgets.
LEMMA SpendType ==
    ASSUME "edits" \in DOMAIN load, load.edits \in Nat, NEW what, Spend(what)
    PROVE  "edits" \in DOMAIN load' /\ load'.edits \in Nat
<1>1. load[what] > 0 /\ load' = [load EXCEPT ![what] = load[what] - 1]
  BY DEF Spend
<1>2. CASE what = "edits"
  BY <1>1, <1>2
<1>3. CASE what # "edits"
  BY <1>1, <1>3
<1>. QED  BY <1>2, <1>3

\* A step that fails, or not, in one of the ways a scenario allows.
LEMMA FailType ==
    ASSUME ClientType, UNCHANGED mail, UNCHANGED load \/ Spend("fails")
    PROVE  ClientType'
BY SpendType DEF ClientType

\* An event of the client's watcher.
LEMMA PostType ==
    ASSUME mail \in Seq(EventRecord), NEW kind \in {"written", "deleted", "module"}, NEW f \in File, Post(kind, f)
    PROVE  mail' \in Seq(EventRecord)
<1>. DEFINE ev == [kind |-> kind, file |-> f]
<1>1. ev \in EventRecord
  BY DEF EventRecord
<1>2. mail' = mail \/ mail' = Append(mail, ev)
  BY DEF Post
<1>. HIDE DEF ev
<1>. QED  BY <1>1, <1>2, AppendProperties

-----------------------------------------------------------------------------
(* The disk and the client.                                                *)

LEMMA WriteFileKeeps ==
    ASSUME WsInv, NEW f \in File, NEW stamped \in BOOLEAN, WriteFile(f, stamped)
    PROVE  WsInv'
<1>1. /\ UNCHANGED <<diagVars, wsVars, mod, cacheFile, watch, serving, reads>> /\ Spend("writes") /\ Post("written", f)
      /\ disk' = [disk EXCEPT ![f] = [exists |-> TRUE, text |-> @.text + 1, mtime |-> IF stamped THEN @.text + 1 ELSE @.mtime]]
  BY DEF WriteFile
<1>2. DiskType'
  BY <1>1 DEF WsInv, DiskType
<1>3. ClientType'
  BY <1>1, SpendType, PostType DEF WsInv, ClientType
<1>4. engine' = engine
  BY <1>1 DEF diagVars
<1>. QED  BY <1>1, <1>2, <1>3, <1>4, WsSame, DiagSame DEF WsInv

LEMMA RemoveFileKeeps ==
    ASSUME WsInv, NEW f \in File, RemoveFile(f)
    PROVE  WsInv'
<1>1. /\ UNCHANGED <<diagVars, wsVars, mod, cacheFile, watch, serving, reads>> /\ Spend("removes") /\ Post("deleted", f)
      /\ disk' = [disk EXCEPT ![f].exists = FALSE]
  BY DEF RemoveFile
<1>2. DiskType'
  BY <1>1 DEF WsInv, DiskType
<1>3. ClientType'
  BY <1>1, SpendType, PostType DEF WsInv, ClientType
<1>4. engine' = engine
  BY <1>1 DEF diagVars
<1>. QED  BY <1>1, <1>2, <1>3, <1>4, WsSame, DiagSame DEF WsInv

LEMMA EditModuleKeeps ==
    ASSUME WsInv, EditModule
    PROVE  WsInv'
<1>1. /\ UNCHANGED <<diagVars, wsVars, disk, watch, serving, reads>> /\ Spend("mods")
      /\ Post("module", CHOOSE f \in File : TRUE) \/ UNCHANGED mail
      /\ mod' = 1 - mod
      /\ cacheFile' = [cacheFile EXCEPT !.touched = TRUE]
  BY DEF EditModule
<1>2. (CHOOSE f \in File : TRUE) \in File
  BY PackagesAssumption
<1>3. DiskType'
  <2>1. mod' \in {0, 1}
    BY <1>1 DEF WsInv, DiskType
  <2>2. cacheFile' \in [saved : BOOLEAN, snap : Snapshot, digest : {0, 1}, touched : BOOLEAN]
    BY <1>1 DEF WsInv, DiskType
  <2>. QED  BY <1>1, <2>1, <2>2 DEF WsInv, DiskType
<1>4. ClientType'
  BY <1>1, <1>2, SpendType, PostType DEF WsInv, ClientType
<1>5. engine' = engine
  BY <1>1 DEF diagVars
<1>. QED  BY <1>1, <1>3, <1>4, <1>5, WsSame, DiagSame DEF WsInv

LEMMA ResendKeeps ==
    ASSUME WsInv, NEW f \in File, Resend(f)
    PROVE  WsInv'
<1>1. UNCHANGED <<diagVars, wsVars, diskVars, watch, serving, reads>> /\ Spend("resends") /\ Post("written", f)
  BY DEF Resend
<1>2. ClientType'
  BY <1>1, SpendType, PostType DEF WsInv, ClientType
<1>3. engine' = engine
  BY <1>1 DEF diagVars
<1>. QED  BY <1>1, <1>2, <1>3, WsSame, DiagSame, DiskSame DEF WsInv

LEMMA ClientDocKeeps ==
    ASSUME WsInv, ClientDoc
    PROVE  WsInv'
<1>1. UNCHANGED <<diskVars, watchVars, wsVars, serving, reads>>
  BY DEF ClientDoc
<1>2. PICK f \in Doc :
         \/ load' = [load EXCEPT !.opens = load.opens \ {f}] /\ handleDidOpen(f)
         \/ Spend("edits") /\ \E v \in {0, load.edits} : handleDidChange(f, v)
         \/ Spend("closes") /\ handleDidClose(f)
  BY DEF ClientDoc
<1>3. ClientType'
  <2>1. CASE load' = [load EXCEPT !.opens = load.opens \ {f}]
    BY <1>1, <2>1 DEF WsInv, ClientType, watchVars
  <2>2. CASE Spend("edits") \/ Spend("closes")
    BY <1>1, <2>2, SpendType DEF WsInv, ClientType, watchVars
  <2>. QED  BY <1>2, <2>1, <2>2
<1>4. DiagType' /\ engine' = engine
  <2>1. CASE handleDidOpen(f)
    BY <2>1, handleDidOpenType DEF WsInv, handleDidOpen
  <2>2. CASE \E v \in {0, load.edits} : handleDidChange(f, v)
    BY <2>2, handleDidChangeType DEF WsInv, ClientType, handleDidChange
  <2>3. CASE handleDidClose(f)
    BY <2>3, handleDidCloseType DEF WsInv, handleDidClose
  <2>. QED  BY <1>2, <2>1, <2>2, <2>3
<1>. QED  BY <1>1, <1>3, <1>4, WsSame, DiskSame DEF WsInv, watchVars

-----------------------------------------------------------------------------
(* Watched files.                                                          *)

\* A goroutine moves on, outside setWorkspace.
LEMMA ThreadMoves ==
    ASSUME ThreadType, NEW t \in Thread, NEW r \in ThreadRecord, thr' = [thr EXCEPT ![t] = r],
           thr[t].at \notin Inside, r.at \notin Inside,
           UNCHANGED <<wsMu, snap, target, engine>>
    PROVE  ThreadType' /\ (Dropping => Dropping')
<1>1. thr' \in [Thread -> ThreadRecord] /\ \A x \in Thread : thr'[x] = IF x = t THEN r ELSE thr[x]
  BY DEF ThreadType
<1>2. \A x \in Thread : thr'[x].at \in Inside <=> wsMu' = x
  BY <1>1 DEF ThreadType
<1>3. \A x \in Thread : thr'[x].at \in Inside => thr'[x] = thr[x]
  BY <1>1
<1>4. \A x \in Thread : thr[x].at \in Inside => thr'[x] = thr[x]
  BY <1>1
<1>5. \A x \in Thread : thr'[x].at \in {"drop", "store"} => thr'[x].snap = target' /\ thr'[x].engine \in Engine
  BY <1>3 DEF ThreadType, Inside
<1>6. \A x \in Thread : thr'[x].at = "drain" => engine' \in Engine
  BY <1>3 DEF ThreadType, Inside
<1>7. (\A x \in Thread : thr'[x].at \notin {"drop", "store"}) => target' = snap'
  BY <1>4 DEF ThreadType, Inside
<1>8. Dropping => Dropping'
  BY <1>4 DEF Dropping, Inside
<1>. QED  BY <1>1, <1>2, <1>5, <1>6, <1>7, <1>8 DEF ThreadType

\* Where a goroutine goes, as a record.
LEMMA ThreadAt ==
    ASSUME ThreadType, NEW t \in Thread, NEW a \in At
    PROVE  LET r == [thr[t] EXCEPT !.at = a]
           IN  r \in ThreadRecord /\ r.at = a /\ r.snap = thr[t].snap /\ r.engine = thr[t].engine
<1>1. thr[t] \in ThreadRecord
  BY DEF ThreadType
<1>. QED  BY <1>1 DEF ThreadRecord

LEMMA RestingThread == Resting \in ThreadRecord /\ Resting.at = "idle" /\ NoSnap \in Snapshot
BY DEF Resting, ThreadRecord, At, NoSnap, Snapshot

\* The debouncer's flag follows its goroutine.
LEMMA WatchFollows ==
    ASSUME WatchType, ThreadType, NEW t \in Thread, NEW r \in ThreadRecord, thr' = [thr EXCEPT ![t] = r], UNCHANGED watch,
           t = "watch" => (thr[t].at # "idle" /\ r.at # "idle")
    PROVE  WatchType'
<1>1. \A x \in Thread : thr'[x] = IF x = t THEN r ELSE thr[x]
  BY DEF ThreadType
<1>2. "watch" \in Thread
  BY DEF Thread
<1>3. thr'["watch"].at # "idle" <=> thr["watch"].at # "idle"
  BY <1>1, <1>2
<1>. QED  BY <1>3 DEF WatchType

\* A goroutine moves on outside setWorkspace, and touches nothing else of
\* the workspace.
LEMMA Moves ==
    ASSUME WsInv, NEW t \in Thread, NEW r \in ThreadRecord, thr' = [thr EXCEPT ![t] = r],
           thr[t].at \notin Inside, r.at \notin Inside,
           t = "watch" => (thr[t].at # "idle" /\ r.at # "idle"),
           UNCHANGED <<wsMu, snap, target, decoded, imp, watch>>, engine' = engine
    PROVE  ThreadType' /\ WatchType' /\ DecodedType' /\ DecodedFresh'
<1>1. ThreadType' /\ (Dropping => Dropping')
  BY ThreadMoves DEF WsInv
<1>2. WatchType'
  BY WatchFollows DEF WsInv
<1>3. DecodedType' /\ DecodedFresh'
  BY <1>1, DecodedSame DEF WsInv
<1>. QED  BY <1>1, <1>2, <1>3

LEMMA handleDidChangeWatchedFilesKeeps ==
    ASSUME WsInv, NEW n \in 1..Len(mail), handleDidChangeWatchedFiles(n)
    PROVE  WsInv'
<1>. DEFINE batch == SubSeq(mail, 1, n)
            module == \E i \in 1..n : batch[i].kind = "module"
            acted == Acted(batch)
            r == [thr["mod"] EXCEPT !.at = "load"]
            w == [watch EXCEPT !.timer = TRUE, !.reload = watch.reload \/ acted.reload]
<1>1. /\ UNCHANGED <<diagVars, diskVars, wsMu, snap, target, decoded, imp, unit, serving, reads, load>>
      /\ mail' = SubSeq(mail, n + 1, Len(mail))
  BY DEF handleDidChangeWatchedFiles
<1>2. \/ UNCHANGED <<watch, thr>>
      \/ thr["mod"].at = "idle" /\ thr' = [thr EXCEPT !["mod"] = r] /\ UNCHANGED watch
      \/ watch' = w /\ UNCHANGED thr
  BY DEF handleDidChangeWatchedFiles, onEvent
<1>3. ClientType'
  <2>1. mail \in Seq(EventRecord) /\ Len(mail) \in Nat
    BY LenProperties DEF WsInv, ClientType
  <2>2. \A i \in (n + 1)..Len(mail) : mail[i] \in EventRecord
    BY <2>1, ElementOfSeq
  <2>3. n + 1 \in Int /\ Len(mail) \in Int
    BY <2>1
  <2>4. SubSeq(mail, n + 1, Len(mail)) \in Seq(EventRecord)
    BY <2>2, <2>3, SubSeqProperties
  <2>. QED  BY <1>1, <2>4 DEF WsInv, ClientType
<1>4. engine' = engine
  BY <1>1 DEF diagVars
<1>5. DiagType' /\ DiskType'
  BY <1>1, DiagSame, DiskSame DEF WsInv
<1>6. CASE UNCHANGED <<watch, thr>>
  <2>1. Dropping => Dropping'
    BY <1>6 DEF Dropping
  <2>. QED  BY <1>1, <1>3, <1>4, <1>5, <1>6, <2>1, ThreadSame, WatchSame, DecodedSame DEF WsInv
<1>7. CASE thr["mod"].at = "idle" /\ thr' = [thr EXCEPT !["mod"] = r] /\ UNCHANGED watch
  <2>1. "mod" \in Thread /\ "load" \in At
    BY DEF Thread, At
  <2>2. r \in ThreadRecord /\ r.at = "load"
    BY <2>1, ThreadAt DEF WsInv
  <2>. HIDE DEF r
  <2>3. ThreadType' /\ WatchType' /\ DecodedType' /\ DecodedFresh'
    BY <1>1, <1>4, <1>7, <2>1, <2>2, Moves DEF Inside
  <2>. QED  BY <1>3, <1>5, <2>3 DEF WsInv
<1>8. CASE watch' = w /\ UNCHANGED thr
  <2>1. Dropping => Dropping'
    BY <1>8 DEF Dropping
  <2>. HIDE DEF acted
  <2>2. WatchType'
    BY <1>8 DEF WsInv, WatchType, WatchRecord
  <2>. QED  BY <1>1, <1>3, <1>4, <1>5, <1>8, <2>1, <2>2, ThreadSame, DecodedSame DEF WsInv
<1>. QED  BY <1>2, <1>6, <1>7, <1>8

LEMMA fireTimerKeeps ==
    ASSUME WsInv, fireTimer
    PROVE  WsInv'
<1>1. /\ UNCHANGED <<diagVars, diskVars, mail, wsVars, serving, reads, load>>
      /\ watch' = [watch EXCEPT !.timer = FALSE, !.reload = FALSE, !.fired = Append(watch.fired, watch.reload)]
  BY DEF fireTimer
<1>2. watch \in WatchRecord
  BY DEF WsInv, WatchType
<1>3. Append(watch.fired, watch.reload) \in Seq(BOOLEAN)
  BY <1>2, AppendProperties DEF WatchRecord
<1>. DEFINE q == Append(watch.fired, watch.reload)
<1>. HIDE DEF q
<1>4. watch' = [watch EXCEPT !.timer = FALSE, !.reload = FALSE, !.fired = q] /\ q \in Seq(BOOLEAN)
  BY <1>1, <1>3 DEF q
<1>5. watch' \in WatchRecord /\ watch'.running = watch.running /\ watch'.rerun = watch.rerun
  BY <1>2, <1>4 DEF WatchRecord
<1>6. WatchType'
  BY <1>1, <1>5 DEF WsInv, WatchType, wsVars
<1>7. engine' = engine
  BY <1>1 DEF diagVars
<1>. QED  BY <1>1, <1>6, <1>7, WsSame, DiagSame, DiskSame, ClientSame DEF WsInv

LEMMA fireKeeps ==
    ASSUME WsInv, NEW i \in 1..Len(watch.fired), fire(i)
    PROVE  WsInv'
<1>. DEFINE a == Pass(watch.fired[i])
            r == [thr["watch"] EXCEPT !.at = a]
            q == RemoveAt(watch.fired, i)
            rr == watch.rerunReload \/ watch.fired[i]
<1>1. UNCHANGED <<diagVars, diskVars, mail, wsMu, snap, target, decoded, imp, unit, serving, reads, load>>
  BY DEF fire
<1>2. watch \in WatchRecord
  BY DEF WsInv, WatchType
<1>3. q \in Seq(BOOLEAN)
  <2>. DEFINE s == watch.fired
  <2>1. s \in Seq(BOOLEAN)
    BY <1>2 DEF WatchRecord
  <2>. HIDE DEF s
  <2>2. Len(s) \in Nat /\ \A k \in 1..Len(s) : s[k] \in BOOLEAN
    BY <2>1, LenProperties, ElementOfSeq
  <2>3. i \in 1..Len(s)
    BY DEF s
  <2>4. 1 \in Int /\ i - 1 \in Int /\ \A k \in 1..(i - 1) : s[k] \in BOOLEAN
    BY <2>2, <2>3
  <2>5. i + 1 \in Int /\ Len(s) \in Int /\ \A k \in (i + 1)..Len(s) : s[k] \in BOOLEAN
    BY <2>2, <2>3
  <2>6. SubSeq(s, 1, i - 1) \in Seq(BOOLEAN)
    BY <2>4, SubSeqProperties
  <2>7. SubSeq(s, i + 1, Len(s)) \in Seq(BOOLEAN)
    BY <2>5, SubSeqProperties
  <2>8. SubSeq(s, 1, i - 1) \o SubSeq(s, i + 1, Len(s)) \in Seq(BOOLEAN)
    BY <2>6, <2>7, ConcatProperties
  <2>. QED  BY <2>8 DEF RemoveAt, s
<1>4. engine' = engine
  BY <1>1 DEF diagVars
<1>5. DiagType' /\ DiskType' /\ ClientType'
  BY <1>1, DiagSame, DiskSame, ClientSame DEF WsInv
<1>6. CASE watch.running
  <2>1. watch' = [watch EXCEPT !.fired = q, !.rerun = TRUE, !.rerunReload = rr] /\ UNCHANGED thr
    BY <1>6 DEF fire
  <2>2. rr \in BOOLEAN
    OBVIOUS
  <2>. HIDE DEF q, rr
  <2>3. watch' \in WatchRecord /\ watch'.running = watch.running
    BY <1>2, <1>3, <2>1, <2>2 DEF WatchRecord
  <2>4. WatchType'
    BY <1>6, <2>1, <2>3 DEF WsInv, WatchType
  <2>5. Dropping => Dropping'
    BY <2>1 DEF Dropping
  <2>. QED  BY <1>1, <1>4, <1>5, <2>1, <2>4, <2>5, ThreadSame, DecodedSame DEF WsInv
<1>7. CASE ~watch.running
  <2>1. /\ watch' = [watch EXCEPT !.fired = q, !.running = TRUE]
        /\ thr' = [thr EXCEPT !["watch"] = r]
    BY <1>7 DEF fire
  <2>2. "watch" \in Thread /\ a \in {"load", "index"} /\ a \in At
    BY DEF Thread, At, Pass
  <2>3. r \in ThreadRecord /\ r.at = a
    BY <2>2, ThreadAt DEF WsInv
  <2>. HIDE DEF q, r, a
  <2>4. watch' \in WatchRecord /\ watch'.running
    BY <1>2, <1>3, <2>1 DEF WatchRecord
  <2>5. thr["watch"].at = "idle"
    BY <1>7 DEF WsInv, WatchType
  <2>6. ThreadType' /\ (Dropping => Dropping')
    BY <1>1, <1>4, <2>1, <2>2, <2>3, <2>5, ThreadMoves DEF WsInv, Inside
  <2>7. thr'["watch"] = r
    BY <2>1, <2>2 DEF WsInv, ThreadType
  <2>8. WatchType'
    BY <2>2, <2>3, <2>4, <2>7 DEF WatchType
  <2>9. DecodedType' /\ DecodedFresh'
    BY <1>1, <2>6, DecodedSame DEF WsInv
  <2>. QED  BY <1>5, <2>6, <2>8, <2>9 DEF WsInv
<1>. QED  BY <1>6, <1>7

LEMMA passDoneKeeps ==
    ASSUME WsInv, passDone
    PROVE  WsInv'
<1>. DEFINE a == Pass(watch.rerunReload)
            r == [thr["watch"] EXCEPT !.at = a]
<1>1. /\ UNCHANGED <<diagVars, diskVars, mail, wsMu, snap, target, decoded, imp, unit, serving, reads, load>>
      /\ thr["watch"].at = "done"
  BY DEF passDone
<1>2. watch \in WatchRecord
  BY DEF WsInv, WatchType
<1>3. engine' = engine
  BY <1>1 DEF diagVars
<1>4. DiagType' /\ DiskType' /\ ClientType'
  BY <1>1, DiagSame, DiskSame, ClientSame DEF WsInv
<1>5. "watch" \in Thread /\ a \in {"load", "index"} /\ a \in At
  BY DEF Thread, At, Pass
<1>6. r \in ThreadRecord /\ r.at = a
  BY <1>5, ThreadAt DEF WsInv
<1>. HIDE DEF r, a
<1>7. CASE watch.rerun
  <2>1. thr' = [thr EXCEPT !["watch"] = r] /\ watch' = [watch EXCEPT !.rerun = FALSE, !.rerunReload = FALSE]
    BY <1>7 DEF passDone, r, a
  <2>2. ThreadType' /\ (Dropping => Dropping')
    BY <1>1, <1>3, <1>5, <1>6, <2>1, ThreadMoves DEF WsInv, Inside
  <2>3. thr'["watch"] = r
    BY <1>5, <2>1 DEF WsInv, ThreadType
  <2>4. WatchType'
    BY <1>2, <1>5, <1>6, <1>7, <2>1, <2>3 DEF WsInv, WatchType, WatchRecord
  <2>5. DecodedType' /\ DecodedFresh'
    BY <1>1, <2>2, DecodedSame DEF WsInv
  <2>. QED  BY <1>4, <2>2, <2>4, <2>5 DEF WsInv
<1>8. CASE ~watch.rerun
  <2>1. thr' = [thr EXCEPT !["watch"] = Resting] /\ watch' = [watch EXCEPT !.running = FALSE]
    BY <1>8 DEF passDone
  <2>2. ThreadType' /\ (Dropping => Dropping')
    BY <1>1, <1>3, <1>5, <2>1, RestingThread, ThreadMoves DEF WsInv, Inside
  <2>3. thr'["watch"] = Resting
    BY <1>5, <2>1 DEF WsInv, ThreadType
  <2>4. WatchType'
    BY <1>2, <1>8, <2>1, <2>3, RestingThread DEF WsInv, WatchType, WatchRecord
  <2>5. DecodedType' /\ DecodedFresh'
    BY <1>1, <2>2, DecodedSame DEF WsInv
  <2>. QED  BY <1>4, <2>2, <2>4, <2>5 DEF WsInv
<1>. QED  BY <1>7, <1>8

-----------------------------------------------------------------------------
(* Loading the graph.                                                      *)

\* A session starts with its goroutines at rest, and the background
\* revalidation is started by the load of the cache alone.
StartInv ==
    /\ serving = "down" => thr["init"].at = "idle"
    /\ (serving = "down" \/ thr["init"].at = "read") => thr["bg"].at = "idle"

LEMMA GraphLoadType == ASSUME DiskType, NEW n \in Nat PROVE GraphLoad(n) \in Snapshot
BY DEF GraphLoad, OnDiskNow, Snapshot, DiskType

LEMMA FinishedThread ==
    ASSUME ThreadType, NEW t \in Thread
    PROVE  Finished(t) \in ThreadRecord /\ Finished(t).at = (IF t = "watch" THEN "done" ELSE "idle")
<1>1. "done" \in At
  BY DEF At
<1>. QED  BY <1>1, ThreadAt, RestingThread DEF Finished

\* Goto, for a goroutine outside setWorkspace.
LEMMA GotoMoves ==
    ASSUME WsInv, NEW t \in Thread, NEW a \in At \ (Inside \cup {"idle"}), Goto(t, a),
           thr[t].at \notin Inside \cup {"idle"},
           UNCHANGED <<wsMu, snap, target, decoded, imp, watch>>, engine' = engine
    PROVE  ThreadType' /\ WatchType' /\ DecodedType' /\ DecodedFresh'
<1>. DEFINE r == [thr[t] EXCEPT !.at = a]
<1>1. r \in ThreadRecord /\ r.at = a
  BY ThreadAt DEF WsInv
<1>2. thr' = [thr EXCEPT ![t] = r]
  BY DEF Goto
<1>. HIDE DEF r
<1>. QED  BY <1>1, <1>2, Moves

LEMMA loadWorkspaceAsyncKeeps ==
    ASSUME WsInv, StartInv, loadWorkspaceAsync
    PROVE  WsInv'
<1>1. UNCHANGED <<diagVars, diskVars, watchVars, wsMu, snap, target, decoded, imp, unit, serving, reads, load>>
  BY DEF loadWorkspaceAsync
<1>2. engine' = engine /\ UNCHANGED <<mail, watch>>
  BY <1>1 DEF diagVars, watchVars
<1>3. DiagType' /\ DiskType' /\ ClientType'
  BY <1>1, <1>2, DiagSame, DiskSame, ClientSame DEF WsInv
<1>4. thr["init"].at = "read" /\ thr["bg"].at = "idle"
  BY DEF loadWorkspaceAsync, StartInv
<1>5. "init" \in Thread /\ "bg" \in Thread /\ "watch" \in Thread
  BY DEF Thread
<1>6. CASE cacheHit
  <2>. DEFINE a == IF Shared \/ Stale THEN "load" ELSE "idle"
              c == cacheFile.snap
              ri == [thr["init"] EXCEPT !.at = "set", !.snap = c]
              rb == [thr["bg"] EXCEPT !.at = a]
  <2>1. thr' = [thr EXCEPT !["init"].at = "set", !["init"].snap = c, !["bg"].at = a]
    BY <1>6 DEF loadWorkspaceAsync
  <2>2. c \in Snapshot /\ a \in {"load", "idle"} /\ a \in At
    BY DEF WsInv, DiskType, At
  <2>. HIDE DEF a, c
  <2>3. thr \in [Thread -> ThreadRecord]
    BY DEF WsInv, ThreadType
  <2>4. \A x \in Thread : thr[x] \in ThreadRecord
    BY <2>3
  <2>5. ri \in ThreadRecord /\ ri.at = "set"
    BY <1>5, <2>2, <2>4 DEF ThreadRecord, At
  <2>6. rb \in ThreadRecord /\ rb.at = a
    BY <1>5, <2>2, ThreadAt DEF WsInv
  <2>7. thr' = [[thr EXCEPT !["init"] = ri] EXCEPT !["bg"] = rb]
    BY <1>5, <2>1, <2>3, <2>4 DEF ThreadRecord
  <2>. HIDE DEF ri, rb
  <2>8. thr' \in [Thread -> ThreadRecord] /\ \A x \in Thread : thr'[x] = IF x = "init" THEN ri ELSE IF x = "bg" THEN rb ELSE thr[x]
    BY <1>5, <2>3, <2>5, <2>6, <2>7
  <2>9. /\ \A x \in Thread : thr'[x].at \in Inside => thr'[x] = thr[x]
        /\ \A x \in Thread : thr[x].at \in Inside => thr'[x] = thr[x]
    BY <1>4, <2>2, <2>5, <2>6, <2>8 DEF Inside
  <2>10. Dropping => Dropping'
    BY <2>9 DEF Dropping, Inside
  <2>11. \A x \in Thread : thr'[x].at \in Inside <=> wsMu' = x
    BY <1>1, <2>9 DEF WsInv, ThreadType
  <2>12. \A x \in Thread : thr'[x].at \in {"drop", "store"} => thr'[x].snap = target' /\ thr'[x].engine \in Engine
    BY <1>1, <2>9 DEF WsInv, ThreadType, Inside
  <2>13. \A x \in Thread : thr'[x].at = "drain" => engine' \in Engine
    BY <1>2, <2>9 DEF WsInv, ThreadType, Inside
  <2>14. (\A x \in Thread : thr'[x].at \notin {"drop", "store"}) => target' = snap'
    BY <1>1, <2>9 DEF WsInv, ThreadType, Inside
  <2>15. ThreadType'
    BY <1>1, <2>8, <2>11, <2>12, <2>13, <2>14 DEF WsInv, ThreadType
  <2>16. WatchType'
    BY <1>2, <1>5, <2>8 DEF WsInv, WatchType
  <2>17. DecodedType' /\ DecodedFresh'
    BY <1>1, <2>10, DecodedSame DEF WsInv
  <2>. QED  BY <1>3, <2>15, <2>16, <2>17 DEF WsInv
<1>7. CASE ~cacheHit
  <2>1. Goto("init", "load")
    BY <1>7 DEF loadWorkspaceAsync
  <2>2. "load" \in At \ (Inside \cup {"idle"}) /\ thr["init"].at \notin Inside \cup {"idle"}
    BY <1>4 DEF At, Inside
  <2>3. ThreadType' /\ WatchType' /\ DecodedType' /\ DecodedFresh'
    BY <1>1, <1>2, <1>5, <2>1, <2>2, GotoMoves
  <2>. QED  BY <1>3, <2>3 DEF WsInv
<1>. QED  BY <1>6, <1>7

LEMMA LoadKeeps ==
    ASSUME WsInv, NEW t \in Thread, Load(t)
    PROVE  WsInv'
<1>1. UNCHANGED <<diagVars, diskVars, watchVars, wsMu, snap, target, decoded, imp, unit, serving>> /\ thr[t].at = "load"
  BY DEF Load
<1>2. engine' = engine /\ UNCHANGED <<mail, watch>>
  BY <1>1 DEF diagVars, watchVars
<1>3. DiagType'
  BY <1>1, DiagSame DEF WsInv
<1>4. CASE reads' = reads + 1 /\ thr' = [thr EXCEPT ![t].at = "save", ![t].snap = GraphLoad(reads + 1)] /\ UNCHANGED load
  <2>. DEFINE g == GraphLoad(reads + 1)
              r == [thr[t] EXCEPT !.at = "save", !.snap = g]
  <2>1. reads + 1 \in Nat
    BY DEF WsInv, DiskType
  <2>2. g \in Snapshot
    BY <2>1, GraphLoadType DEF WsInv
  <2>3. thr[t] \in ThreadRecord /\ thr \in [Thread -> ThreadRecord]
    BY DEF WsInv, ThreadType
  <2>. HIDE DEF g
  <2>4. r \in ThreadRecord /\ r.at = "save"
    BY <2>2, <2>3 DEF ThreadRecord, At
  <2>5. thr' = [thr EXCEPT ![t] = r]
    BY <1>4, <2>3 DEF g, ThreadRecord
  <2>. HIDE DEF r
  <2>6. ThreadType' /\ WatchType' /\ DecodedType' /\ DecodedFresh'
    BY <1>1, <1>2, <2>4, <2>5, Moves DEF Inside
  <2>7. DiskType' /\ ClientType'
    BY <1>1, <1>2, <1>4, <2>1 DEF WsInv, DiskType, ClientType, diskVars
  <2>. QED  BY <1>3, <2>6, <2>7 DEF WsInv
<1>5. CASE Spend("fails") /\ thr' = [thr EXCEPT ![t] = Finished(t)] /\ UNCHANGED reads
  <2>1. Finished(t) \in ThreadRecord /\ Finished(t).at = (IF t = "watch" THEN "done" ELSE "idle")
    BY FinishedThread DEF WsInv
  <2>2. ThreadType' /\ WatchType' /\ DecodedType' /\ DecodedFresh'
    BY <1>1, <1>2, <1>5, <2>1, Moves DEF Inside
  <2>3. DiskType' /\ ClientType'
    BY <1>1, <1>2, <1>5, SpendType, DiskSame DEF WsInv, ClientType
  <2>. QED  BY <1>3, <2>2, <2>3 DEF WsInv
<1>. QED  BY <1>4, <1>5 DEF Load, Fails, NoFailure

LEMMA SaveCacheKeeps ==
    ASSUME WsInv, NEW t \in Thread, SaveCache(t)
    PROVE  WsInv'
<1>1. /\ UNCHANGED <<diagVars, disk, mod, onDiskDB, watchVars, wsMu, snap, target, decoded, imp, unit, serving, reads>>
      /\ thr[t].at = "save" /\ Goto(t, "set")
      /\ UNCHANGED load \/ Spend("fails")
      /\ \/ cacheFile' = [saved |-> TRUE, snap |-> thr[t].snap, digest |-> mod, touched |-> FALSE]
         \/ UNCHANGED cacheFile
  BY DEF SaveCache, moduleContentDigest, Fails, NoFailure
<1>2. engine' = engine /\ UNCHANGED <<mail, watch>>
  BY <1>1 DEF diagVars, watchVars
<1>3. DiagType' /\ ClientType'
  BY <1>1, <1>2, DiagSame, FailType DEF WsInv
<1>4. thr[t].snap \in Snapshot
  BY DEF WsInv, ThreadType, ThreadRecord
<1>5. DiskType'
  <2>1. CASE cacheFile' = [saved |-> TRUE, snap |-> thr[t].snap, digest |-> mod, touched |-> FALSE]
    BY <1>1, <1>4, <2>1 DEF WsInv, DiskType
  <2>2. CASE UNCHANGED cacheFile
    BY <1>1, <2>2 DEF WsInv, DiskType
  <2>. QED  BY <1>1, <2>1, <2>2
<1>6. "set" \in At \ (Inside \cup {"idle"}) /\ thr[t].at \notin Inside \cup {"idle"}
  BY <1>1 DEF At, Inside
<1>7. ThreadType' /\ WatchType' /\ DecodedType' /\ DecodedFresh'
  BY <1>1, <1>2, <1>6, GotoMoves
<1>. QED  BY <1>3, <1>5, <1>7 DEF WsInv

-----------------------------------------------------------------------------
(* The decode cache.                                                       *)

LEMMA NothingDecoded == Undecoded \in DecodedRecord /\ ~Undecoded.done
BY DEF Undecoded, DecodedRecord

LEMMA HeldIsFinite == IsFiniteSet(Held) /\ Cardinality(Held) \in Nat
<1>1. Held \in SUBSET Pkg /\ IsFiniteSet(Pkg)
  BY PackagesAssumption DEF Held
<1>2. IsFiniteSet(Held)
  BY <1>1, FS_Subset
<1>. QED  BY <1>2, FS_CardinalityType

\* An importer under way is a record with a package.
LEMMA ImportPackage ==
    ASSUME DecodedType, imp # NoImport
    PROVE  imp \in ImportRecord /\ imp.pkg \in Pkg /\ imp.pkg # None
BY PackagesAssumption DEF DecodedType, ImportRecord

LEMMA OvertakenImport ==
    ASSUME DecodedType, imp # NoImport
    PROVE  LET r == [imp EXCEPT !.overtaken = TRUE]
           IN  r \in ImportRecord /\ r.pkg = imp.pkg /\ r.files = imp.files /\ r.overtaken
BY ImportPackage DEF ImportRecord

\* Dropping entries, and marking a blob read before as overtaken, never
\* makes the cache larger.
LEMMA CacheShrinks ==
    ASSUME DecodedType, decoded' \in [Pkg -> DecodedRecord],
           \A p \in Pkg : decoded'[p] = decoded[p] \/ decoded'[p] = Undecoded,
           imp' = NoImport \/ imp' = imp \/ (imp # NoImport /\ imp' = [imp EXCEPT !.overtaken = TRUE])
    PROVE  DecodedType'
<1>1. Held' \in SUBSET Held
  BY NothingDecoded DEF Held
<1>2. Cardinality(Held') <= Cardinality(Held)
  BY <1>1, HeldIsFinite, FS_Subset
<1>3. IsFiniteSet(Held')
  BY <1>1, HeldIsFinite, FS_Subset
<1>4. Cardinality(Held') \in Nat /\ Cardinality(Held) \in Nat /\ MaxDecoded \in Nat
  BY <1>3, HeldIsFinite, FS_CardinalityType, PackagesAssumption
<1>5. imp' \in {NoImport} \cup ImportRecord /\ (imp' # NoImport => imp # NoImport)
  BY OvertakenImport DEF DecodedType
<1>. DEFINE n == Cardinality(Held)
            m == Cardinality(Held)'
<1>6. n \in Nat /\ m \in Nat /\ m <= n /\ n <= MaxDecoded + 1 /\ (imp # NoImport => n <= MaxDecoded)
  BY <1>2, <1>4 DEF DecodedType
<1>. HIDE DEF n, m
<1>7. m <= MaxDecoded + 1 /\ (imp' # NoImport => m <= MaxDecoded)
  BY <1>4, <1>5, <1>6
<1>. QED  BY <1>5, <1>7 DEF DecodedType, m

\* What is left of a cache whose entries stay right is right.
LEMMA CacheStaysFresh ==
    ASSUME DecodedFresh, DecodedType,
           \A p \in Pkg : decoded'[p] = decoded[p] \/ decoded'[p] = Undecoded,
           imp' = NoImport \/ imp' = imp \/ (imp # NoImport /\ imp' = [imp EXCEPT !.overtaken = TRUE]),
           \A q \in Pkg : (decoded[q].done /\ ~decoded[q].late /\ decoded'[q] = decoded[q] /\ decoded'[q].done)
                            => MadeFor(q, decoded[q].files)',
           (imp # NoImport /\ ~imp.overtaken /\ imp' = imp) => MadeFor(imp.pkg, imp.files)'
    PROVE  DecodedFresh'
<1>1. ASSUME NEW q \in Pkg, decoded'[q].done
      PROVE  ForTest[q] = None /\ (~decoded'[q].late => MadeFor(q, decoded[q].files)') /\ decoded'[q] = decoded[q]
  BY <1>1, NothingDecoded DEF DecodedFresh
<1>2. ASSUME imp' # NoImport
      PROVE  ForTest[imp'.pkg] = None /\ (~imp'.overtaken => (imp' = imp /\ MadeFor(imp.pkg, imp.files)'))
  BY <1>2, OvertakenImport DEF DecodedFresh
<1>. QED  BY <1>1, <1>2 DEF DecodedFresh

\* Entries that are dropped, with nothing else of the workspace touched.
LEMMA CacheDropped ==
    ASSUME DecodedType, DecodedFresh, decoded' \in [Pkg -> DecodedRecord],
           \A p \in Pkg : decoded'[p] = decoded[p] \/ decoded'[p] = Undecoded,
           imp' = NoImport \/ imp' = imp \/ (imp # NoImport /\ imp' = [imp EXCEPT !.overtaken = TRUE]),
           UNCHANGED <<snap, target>>, Dropping => Dropping'
    PROVE  DecodedType' /\ DecodedFresh'
<1>1. \A q, files : MadeFor(q, files) => (files = ClosureFiles(target, q) \/ (Dropping' /\ files = ClosureFiles(snap, q)))
  BY DEF MadeFor
<1>2. \A q, files : (files = ClosureFiles(target, q) \/ (Dropping' /\ files = ClosureFiles(snap, q)))
                        => (files = ClosureFiles(target, q)' \/ (Dropping' /\ files = ClosureFiles(snap, q)'))
  BY DEF ClosureFiles, GoFiles
<1>3. \A q \in Pkg : (decoded[q].done /\ ~decoded[q].late /\ decoded'[q] = decoded[q] /\ decoded'[q].done)
                            => MadeFor(q, decoded[q].files)'
  BY <1>1, <1>2 DEF DecodedFresh, MadeFor
<1>4. (imp # NoImport /\ ~imp.overtaken /\ imp' = imp) => MadeFor(imp.pkg, imp.files)'
  BY <1>1, <1>2 DEF DecodedFresh, MadeFor
<1>5. DecodedType'
  BY CacheShrinks
<1>6. DecodedFresh'
  BY <1>3, <1>4, CacheStaysFresh
<1>. QED  BY <1>5, <1>6

LEMMA InvalidatedCache ==
    ASSUME DecodedType, NEW ps, decoded' = Invalidated(ps)
    PROVE  /\ decoded' \in [Pkg -> DecodedRecord]
           /\ \A p \in Pkg : decoded'[p] = decoded[p] \/ decoded'[p] = Undecoded
           /\ \A p \in Pkg : decoded'[p].done => Closure(p) \cap ps = {}
<1>1. decoded' = [q \in Pkg |-> IF Closure(q) \cap ps = {} THEN decoded[q] ELSE Undecoded]
  BY DEF Invalidated
<1>2. \A q \in Pkg : decoded[q] \in DecodedRecord
  BY DEF DecodedType
<1>. QED  BY <1>1, <1>2, NothingDecoded

LEMMA OvertakenBlob ==
    ASSUME DecodedType, NEW ps, imp' = Overtaken(ps)
    PROVE  /\ imp' = NoImport \/ imp' = imp \/ (imp # NoImport /\ imp' = [imp EXCEPT !.overtaken = TRUE])
           /\ (imp # NoImport /\ ~imp.overtaken /\ imp' = imp) => Closure(imp.pkg) \cap ps = {}
<1>1. NoImport.pkg = None
  BY DEF NoImport
<1>2. imp' = imp \/ (imp # NoImport /\ imp' = [imp EXCEPT !.overtaken = TRUE])
  BY <1>1 DEF Overtaken
<1>3. (imp # NoImport /\ ~imp.overtaken /\ imp' = imp) => Closure(imp.pkg) \cap ps = {}
  BY ImportPackage, OvertakenImport DEF Overtaken
<1>. QED  BY <1>2, <1>3, Zenon

LEMMA DiscardedCache ==
    Discarded \in [Pkg -> DecodedRecord] /\ \A p \in Pkg : Discarded[p] = Undecoded
BY NothingDecoded DEF Discarded

-----------------------------------------------------------------------------
(* What a package imports, and what a reload changes.                      *)

LEMMA ClosureHasNoTests ==
    ASSUME NEW q \in Pkg, ForTest[q] = None, NEW x \in Closure(q)
    PROVE  x \in Pkg /\ ForTest[x] = None
<1>. DEFINE down == {y \in Pkg : ForTest[y] = None}
<1>1. down \in SUBSET Pkg /\ q \in down /\ \A y \in down : Imports[y] \subseteq down
  BY PackagesAssumption
<1>. HIDE DEF down
<1>2. x \in Pkg /\ x \in down
  BY <1>1 DEF Closure
<1>. QED  BY <1>2 DEF down

\* A package is one of its own reverse closure.
LEMMA ClosureUnitsHasSelf == ASSUME NEW s, NEW p \in Pkg PROVE p \in ClosureUnits(s, p)
BY DEF ClosureUnits

\* changedExportSet misses nothing: a package none of whose imports, nor
\* itself, is in it has the same files behind it in both snapshots.
LEMMA UnchangedClosure ==
    ASSUME NEW old \in Snapshot, NEW new \in Snapshot, NEW q \in Pkg, ForTest[q] = None,
           Closure(q) \cap changedExportSet(old, new) = {}
    PROVE  ClosureFiles(old, q) = ClosureFiles(new, q)
<1>. DEFINE differ == {p \in Packages(old) \cup Packages(new) : ForTest[p] = None /\ GoFiles(old, p) # GoFiles(new, p)}
<1>1. ASSUME NEW p \in differ, NEW z
      PROVE  /\ (p \in Packages(new) /\ z \in ClosureUnits(new, p)) => z \in changedExportSet(old, new)
             /\ (p \in Packages(old) /\ z \in ClosureUnits(old, p)) => z \in changedExportSet(old, new)
  <2>. HIDE DEF differ
  <2>1. changedExportSet(old, new) = (UNION {ClosureUnits(new, y) : y \in differ \cap Packages(new)}) \cup
                                     (UNION {ClosureUnits(old, y) : y \in differ \cap Packages(old)})
    BY DEF changedExportSet, differ
  <2>2. (p \in Packages(new) /\ z \in ClosureUnits(new, p)) => z \in UNION {ClosureUnits(new, y) : y \in differ \cap Packages(new)}
    OBVIOUS
  <2>3. (p \in Packages(old) /\ z \in ClosureUnits(old, p)) => z \in UNION {ClosureUnits(old, y) : y \in differ \cap Packages(old)}
    OBVIOUS
  <2>. QED  BY <2>1, <2>2, <2>3
<1>2. ASSUME NEW x \in Closure(q) PROVE GoFiles(old, x) = GoFiles(new, x)
  <2>1. x \in Pkg /\ ForTest[x] = None
    BY ClosureHasNoTests
  <2>2. SUFFICES ASSUME GoFiles(old, x) # GoFiles(new, x) PROVE FALSE
    OBVIOUS
  <2>3. x \in Packages(old) \/ x \in Packages(new)
    BY <2>2 DEF GoFiles, Packages
  <2>4. x \in differ
    BY <2>1, <2>2, <2>3
  <2>. HIDE DEF differ
  <2>5. x \in ClosureUnits(new, x) /\ x \in ClosureUnits(old, x)
    BY <2>1, ClosureUnitsHasSelf
  <2>6. x \in changedExportSet(old, new)
    BY <1>1, <2>3, <2>4, <2>5
  <2>. QED  BY <2>6
<1>. QED  BY <1>2 DEF ClosureFiles

-----------------------------------------------------------------------------
(* setWorkspace, under setWorkspaceMu.                                     *)

\* What only a goroutine inside setWorkspace does to the goroutines: the rest
\* stay outside and where they are.
LEMMA Alone ==
    ASSUME ThreadType, NEW t \in Thread, NEW r \in ThreadRecord, thr' = [thr EXCEPT ![t] = r],
           thr[t].at \in Inside \/ wsMu = None
    PROVE  /\ thr' \in [Thread -> ThreadRecord] /\ thr'[t] = r
           /\ \A x \in Thread \ {t} : thr'[x] = thr[x] /\ thr[x].at \notin Inside
<1>1. thr' \in [Thread -> ThreadRecord] /\ thr'[t] = r /\ \A x \in Thread \ {t} : thr'[x] = thr[x]
  BY DEF ThreadType
<1>2. \A x \in Thread \ {t} : wsMu # x
  BY PackagesAssumption DEF ThreadType
<1>. QED  BY <1>1, <1>2 DEF ThreadType

LEMMA setWorkspaceKeeps ==
    ASSUME WsInv, NEW t \in Thread, setWorkspace(t)
    PROVE  WsInv'
<1>. DEFINE new == thr[t].snap
            reuse == SameDependencies(new)
            a == IF reuse THEN "drop" ELSE "store"
            e == IF reuse THEN engine ELSE engine + 1
            r == [thr[t] EXCEPT !.at = a, !.engine = e]
<1>1. /\ UNCHANGED <<overlay, handler, engine, pendingOpens, known, idxReady, diagFiles, shown, latest, outOfOrder,
                     diskVars, watchVars, snap, unit, serving, reads, gaps, load>>
      /\ thr[t].at = "set" /\ wsMu = None /\ wsMu' = t /\ target' = new
      /\ reuse \/ engine < MaxEngine
      /\ thr' = [thr EXCEPT ![t].at = a, ![t].engine = e]
  BY DEF setWorkspace
<1>2. /\ reuse => UNCHANGED <<decoded, imp, retired, armed, recheck, unrechecked>>
      /\ ~reuse => decoded' = Discarded /\ imp' = NoImport
                    /\ (UNCHANGED <<retired, armed, recheck>> \/ (engine # NoEngine /\ Retire(engine)))
  BY DEF setWorkspace
<1>3. thr[t] \in ThreadRecord /\ thr \in [Thread -> ThreadRecord] /\ new \in Snapshot
  BY DEF WsInv, ThreadType, ThreadRecord
<1>4. engine \in {NoEngine} \cup Engine /\ (reuse => engine # NoEngine)
  BY DEF WsInv, DiagType, EngineType, SameDependencies
<1>5. e \in Engine
  BY <1>1, <1>4, DocsAreTyped DEF Engine, NoEngine
<1>6. a \in At /\ a \in {"drop", "store"} /\ (a = "drop" <=> reuse)
  BY DEF At
<1>. HIDE DEF e, a, reuse
<1>7. r \in ThreadRecord /\ r.at = a /\ r.engine = e /\ r.snap = new
  BY <1>3, <1>5, <1>6 DEF ThreadRecord
<1>8. thr' = [thr EXCEPT ![t] = r]
  BY <1>1, <1>3 DEF ThreadRecord
<1>. HIDE DEF r, new
<1>9. /\ thr' \in [Thread -> ThreadRecord] /\ thr'[t] = r
      /\ \A x \in Thread \ {t} : thr'[x] = thr[x] /\ thr[x].at \notin Inside
  BY <1>1, <1>7, <1>8, Alone DEF WsInv
<1>10. target = snap
  <2>1. \A x \in Thread : thr[x].at \notin {"drop", "store"}
    BY <1>1, <1>9 DEF Inside
  <2>. QED  BY <2>1 DEF WsInv, ThreadType
<1>11. ThreadType'
  <2>1. \A x \in Thread : thr'[x].at \in Inside <=> wsMu' = x
    BY <1>1, <1>6, <1>7, <1>9 DEF Inside
  <2>2. \A x \in Thread : thr'[x].at \in {"drop", "store"} => thr'[x].snap = target' /\ thr'[x].engine \in Engine
    BY <1>1, <1>5, <1>7, <1>9 DEF Inside
  <2>3. \A x \in Thread : thr'[x].at # "drain"
    BY <1>6, <1>7, <1>9 DEF Inside
  <2>4. (\A x \in Thread : thr'[x].at \notin {"drop", "store"}) => target' = snap'
    BY <1>6, <1>7, <1>9
  <2>5. wsMu' \in Thread \cup {None} /\ snap' \in Snapshot /\ target' \in Snapshot
    BY <1>1, <1>3 DEF WsInv, ThreadType
  <2>. QED  BY <1>9, <2>1, <2>2, <2>3, <2>4, <2>5 DEF ThreadType
<1>12. WatchType'
  <2>1. t = "watch" => (thr[t].at # "idle" /\ r.at # "idle")
    BY <1>1, <1>6, <1>7
  <2>. QED  BY <1>1, <1>7, <1>8, <2>1, WatchFollows DEF WsInv, watchVars
<1>13. DiagType'
  <2>1. UNCHANGED <<overlay, handler, engine, pendingOpens, known, idxReady, diagFiles, shown>>
    BY <1>1
  <2>2. CASE UNCHANGED <<retired, armed, recheck>>
    BY <2>1, <2>2 DEF WsInv, DiagType, HandlerType, EngineType, RecheckType, SaidType, FilesOf
  <2>3. CASE engine # NoEngine /\ Retire(engine)
    <3>1. engine \in Engine
      BY <1>4, <2>3
    <3>. QED  BY <2>1, <2>3, <3>1, RetireType DEF WsInv, DiagType, HandlerType, EngineType, SaidType, FilesOf
  <2>. QED  BY <1>2, <2>2, <2>3
<1>14. DiskType' /\ ClientType'
  BY <1>1, DiskSame, ClientSame DEF WsInv, watchVars
<1>15. DecodedType' /\ DecodedFresh'
  <2>1. CASE reuse
    <3>1. Dropping' /\ UNCHANGED <<decoded, imp, snap>>
      BY <1>1, <1>2, <1>6, <1>7, <1>9, <2>1 DEF Dropping
    <3>2. \A q, files : MadeFor(q, files) => files = ClosureFiles(snap, q)
      BY <1>10 DEF MadeFor
    <3>3. \A q, files : files = ClosureFiles(snap, q) => files = ClosureFiles(snap', q)
      BY <3>1
    <3>4. \A q, files : files = ClosureFiles(snap', q) => MadeFor(q, files)'
      BY <3>1 DEF MadeFor, ClosureFiles, GoFiles
    <3>. QED  BY <3>1, <3>2, <3>3, <3>4 DEF WsInv, DecodedType, DecodedFresh, Held
  <2>2. CASE ~reuse
    <3>1. decoded' = Discarded /\ imp' = NoImport
      BY <1>2, <2>2
    <3>2. DecodedType'
      BY <3>1, DiscardedCache, CacheShrinks DEF WsInv
    <3>3. DecodedFresh'
      BY <3>1, DiscardedCache, NothingDecoded DEF DecodedFresh
    <3>. QED  BY <3>2, <3>3
  <2>. QED  BY <2>1, <2>2
<1>. QED  BY <1>11, <1>12, <1>13, <1>14, <1>15 DEF WsInv

\* A step inside setWorkspace that keeps the lock.
LEMMA InsideMoves ==
    ASSUME ThreadType, NEW t \in Thread, NEW a \in Inside, Goto(t, a), thr[t].at \in Inside, wsMu' = wsMu
    PROVE  /\ thr' \in [Thread -> ThreadRecord]
           /\ thr'[t].at = a /\ thr'[t].snap = thr[t].snap /\ thr'[t].engine = thr[t].engine
           /\ \A x \in Thread \ {t} : thr'[x] = thr[x] /\ thr[x].at \notin Inside
           /\ \A x \in Thread : thr'[x].at \in Inside <=> wsMu' = x
<1>. DEFINE r == [thr[t] EXCEPT !.at = a]
<1>1. a \in At
  BY DEF At, Inside
<1>2. r \in ThreadRecord /\ r.at = a /\ r.snap = thr[t].snap /\ r.engine = thr[t].engine
  BY <1>1, ThreadAt
<1>3. thr' = [thr EXCEPT ![t] = r]
  BY DEF Goto
<1>. HIDE DEF r
<1>4. /\ thr' \in [Thread -> ThreadRecord] /\ thr'[t] = r
      /\ \A x \in Thread \ {t} : thr'[x] = thr[x] /\ thr[x].at \notin Inside
  BY <1>2, <1>3, Alone
<1>5. \A x \in Thread : thr'[x].at \in Inside <=> wsMu' = x
  BY <1>2, <1>4 DEF ThreadType
<1>. QED  BY <1>2, <1>4, <1>5

\* The debouncer's goroutine stays at work inside setWorkspace.
LEMMA WatchInside ==
    ASSUME WatchType, NEW t \in Thread, thr[t].at # "idle", thr'[t].at # "idle",
           \A x \in Thread \ {t} : thr'[x] = thr[x], UNCHANGED watch
    PROVE  WatchType'
<1>1. "watch" \in Thread
  BY DEF Thread
<1>2. thr'["watch"].at # "idle" <=> thr["watch"].at # "idle"
  BY <1>1
<1>. QED  BY <1>2 DEF WatchType

LEMMA dropChangedKeeps ==
    ASSUME WsInv, NEW t \in Thread, dropChanged(t)
    PROVE  WsInv'
<1>. DEFINE ps == changedExportSet(snap, thr[t].snap)
<1>1. /\ UNCHANGED <<diagVars, diskVars, watchVars, wsMu, snap, target, unit, serving, reads, gaps, load>>
      /\ thr[t].at = "drop" /\ Goto(t, "store")
      /\ decoded' = Invalidated(ps) /\ imp' = Overtaken(ps)
  BY DEF dropChanged
<1>2. engine' = engine /\ UNCHANGED <<mail, watch>>
  BY <1>1 DEF diagVars, watchVars
<1>3. DiagType' /\ DiskType' /\ ClientType'
  BY <1>1, <1>2, DiagSame, DiskSame, ClientSame DEF WsInv
<1>4. /\ thr' \in [Thread -> ThreadRecord]
      /\ thr'[t].at = "store" /\ thr'[t].snap = thr[t].snap /\ thr'[t].engine = thr[t].engine
      /\ \A x \in Thread \ {t} : thr'[x] = thr[x] /\ thr[x].at \notin Inside
      /\ \A x \in Thread : thr'[x].at \in Inside <=> wsMu' = x
  <2>1. "store" \in Inside /\ thr[t].at \in Inside
    BY <1>1 DEF Inside
  <2>. QED  BY <1>1, <2>1, InsideMoves DEF WsInv
<1>5. thr[t].snap = target /\ thr[t].engine \in Engine /\ snap \in Snapshot /\ target \in Snapshot
  BY <1>1 DEF WsInv, ThreadType
<1>6. ThreadType'
  <2>1. \A x \in Thread : thr'[x].at \in {"drop", "store"} => thr'[x].snap = target' /\ thr'[x].engine \in Engine
    BY <1>1, <1>4, <1>5 DEF Inside
  <2>2. \A x \in Thread : thr'[x].at # "drain"
    BY <1>4 DEF Inside
  <2>3. (\A x \in Thread : thr'[x].at \notin {"drop", "store"}) => target' = snap'
    BY <1>4
  <2>. QED  BY <1>1, <1>4, <2>1, <2>2, <2>3 DEF WsInv, ThreadType
<1>7. WatchType'
  BY <1>1, <1>2, <1>4, WatchInside DEF WsInv
<1>8. \A q \in Pkg : \A files : (ForTest[q] = None /\ Closure(q) \cap ps = {} /\ MadeFor(q, files)) => files = ClosureFiles(target, q)
  BY <1>5, UnchangedClosure DEF MadeFor
<1>9. \A q, files : files = ClosureFiles(target, q) => MadeFor(q, files)'
  BY <1>1 DEF MadeFor, ClosureFiles, GoFiles
<1>10. DecodedType' /\ DecodedFresh'
  <2>. HIDE DEF ps
  <2>1. /\ decoded' \in [Pkg -> DecodedRecord]
        /\ \A p \in Pkg : decoded'[p] = decoded[p] \/ decoded'[p] = Undecoded
        /\ \A p \in Pkg : decoded'[p].done => Closure(p) \cap ps = {}
    BY <1>1, InvalidatedCache DEF WsInv
  <2>6. /\ imp' = NoImport \/ imp' = imp \/ (imp # NoImport /\ imp' = [imp EXCEPT !.overtaken = TRUE])
        /\ (imp # NoImport /\ ~imp.overtaken /\ imp' = imp) => Closure(imp.pkg) \cap ps = {}
    BY <1>1, OvertakenBlob DEF WsInv
  <2>2. DecodedType'
    BY <2>1, <2>6, CacheShrinks DEF WsInv
  <2>3. ASSUME NEW q \in Pkg, decoded[q].done, ~decoded[q].late, decoded'[q] = decoded[q]
        PROVE  MadeFor(q, decoded[q].files)'
    <3>1. ForTest[q] = None /\ MadeFor(q, decoded[q].files) /\ Closure(q) \cap ps = {}
      BY <2>1, <2>3 DEF WsInv, DecodedFresh
    <3>2. decoded[q].files = ClosureFiles(target, q)
      BY <1>8, <3>1
    <3>. QED  BY <1>9, <2>3, <3>2
  <2>4. ASSUME imp # NoImport, ~imp.overtaken, imp' = imp PROVE MadeFor(imp.pkg, imp.files)'
    <3>1. ForTest[imp.pkg] = None /\ MadeFor(imp.pkg, imp.files) /\ Closure(imp.pkg) \cap ps = {} /\ imp.pkg \in Pkg
      BY <2>4, <2>6, ImportPackage DEF WsInv, DecodedFresh
    <3>2. imp.files = ClosureFiles(target, imp.pkg)
      BY <1>8, <3>1
    <3>. QED  BY <1>9, <2>4, <3>2
  <2>5. DecodedFresh'
    BY <2>1, <2>3, <2>4, <2>6, CacheStaysFresh DEF WsInv
  <2>. QED  BY <2>2, <2>5
<1>. QED  BY <1>3, <1>6, <1>7, <1>10 DEF WsInv

LEMMA storeWorkspaceKeeps ==
    ASSUME WsInv, NEW t \in Thread, storeWorkspace(t)
    PROVE  WsInv'
<1>1. /\ UNCHANGED <<overlay, handler, pendingOpens, known, armed, recheck, retired, idxReady, diagFiles, shown,
                     diskVars, watchVars, wsMu, target, decoded, imp, unit, serving, reads, load>>
      /\ thr[t].at = "store" /\ Goto(t, "drain")
      /\ snap' = thr[t].snap /\ engine' = thr[t].engine
  BY DEF storeWorkspace
<1>2. UNCHANGED <<mail, watch>>
  BY <1>1 DEF watchVars
<1>3. thr[t].snap = target /\ thr[t].engine \in Engine /\ target \in Snapshot
  BY <1>1 DEF WsInv, ThreadType
<1>4. DiagType'
  BY <1>1, <1>3 DEF WsInv, DiagType, HandlerType, EngineType, RecheckType, SaidType, FilesOf
<1>5. DiskType' /\ ClientType'
  BY <1>1, <1>2, DiskSame, ClientSame DEF WsInv
<1>6. /\ thr' \in [Thread -> ThreadRecord] /\ thr'[t].at = "drain"
      /\ \A x \in Thread \ {t} : thr'[x] = thr[x] /\ thr[x].at \notin Inside
      /\ \A x \in Thread : thr'[x].at \in Inside <=> wsMu' = x
  <2>1. "drain" \in Inside /\ thr[t].at \in Inside
    BY <1>1 DEF Inside
  <2>. QED  BY <1>1, <2>1, InsideMoves DEF WsInv
<1>7. ThreadType'
  <2>1. \A x \in Thread : thr'[x].at \notin {"drop", "store"}
    BY <1>6 DEF Inside
  <2>2. target' = snap' /\ snap' \in Snapshot /\ engine' \in Engine
    BY <1>1, <1>3
  <2>. QED  BY <1>1, <1>3, <1>6, <2>1, <2>2 DEF WsInv, ThreadType
<1>8. WatchType'
  BY <1>1, <1>2, <1>6, WatchInside DEF WsInv
<1>9. ~Dropping
  BY <1>1, <1>6 DEF Dropping, Inside
<1>10. \A q, files : MadeFor(q, files) => files = ClosureFiles(target, q)
  BY <1>9 DEF MadeFor
<1>11. \A q, files : files = ClosureFiles(target, q) => MadeFor(q, files)'
  BY <1>1 DEF MadeFor, ClosureFiles, GoFiles
<1>12. DecodedType' /\ DecodedFresh'
  BY <1>1, <1>10, <1>11 DEF WsInv, DecodedType, DecodedFresh, Held
<1>. QED  BY <1>4, <1>5, <1>7, <1>8, <1>12 DEF WsInv

\* The documents opened while there was no workspace are handed to an engine.
LEMMA DrainType ==
    ASSUME DiagType, NEW e \in Engine, drainPendingOpens(e),
           UNCHANGED <<overlay, handler, engine, recheck, retired, idxReady, diagFiles, shown>>
    PROVE  DiagType'
<1>1. pendingOpens' = {} /\ FocusAndInvalidate(e, pendingOpens)
  BY DEF drainPendingOpens
<1>2. pendingOpens \subseteq Doc /\ known \subseteq Engine \X Unit /\ armed \subseteq Engine \X Unit
  BY DEF DiagType, EngineType
<1>3. known' \subseteq Engine \X Unit /\ armed' \subseteq Engine \X Unit
  BY <1>1, <1>2, FocusTyped DEF DiagType
<1>. QED  BY <1>1, <1>3 DEF DiagType, HandlerType, EngineType, RecheckType, SaidType, FilesOf

LEMMA drainOpensKeeps ==
    ASSUME WsInv, NEW t \in Thread, drainOpens(t)
    PROVE  WsInv'
<1>. DEFINE a == IF t = "init" THEN "open" ELSE "index"
            r == [thr[t] EXCEPT !.at = a]
<1>1. /\ UNCHANGED <<overlay, handler, engine, recheck, retired, idxReady, diagFiles, shown,
                     diskVars, watchVars, snap, target, decoded, imp, unit, serving, reads, load>>
      /\ thr[t].at = "drain" /\ Goto(t, a) /\ drainPendingOpens(engine) /\ wsMu' = None
  BY DEF drainOpens
<1>2. UNCHANGED <<mail, watch>>
  BY <1>1 DEF watchVars
<1>3. engine \in Engine
  BY <1>1 DEF WsInv, ThreadType
<1>4. DiagType' /\ DiskType' /\ ClientType'
  BY <1>1, <1>2, <1>3, DrainType, DiskSame, ClientSame DEF WsInv
<1>5. a \in At /\ a \in {"open", "index"}
  BY DEF At
<1>6. thr' = [thr EXCEPT ![t] = r]
  BY <1>1 DEF Goto
<1>. HIDE DEF a
<1>7. r \in ThreadRecord /\ r.at = a
  BY <1>5, ThreadAt DEF WsInv
<1>. HIDE DEF r
<1>8. /\ thr' \in [Thread -> ThreadRecord] /\ thr'[t] = r
      /\ \A x \in Thread \ {t} : thr'[x] = thr[x] /\ thr[x].at \notin Inside
  <2>1. thr[t].at \in Inside
    BY <1>1 DEF Inside
  <2>. QED  BY <1>6, <1>7, <2>1, Alone DEF WsInv
<1>9. \A x \in Thread : thr'[x].at \notin Inside /\ thr[x].at \notin {"drop", "store"}
  BY <1>1, <1>5, <1>7, <1>8 DEF Inside
<1>10. ThreadType'
  <2>1. target = snap
    BY <1>9 DEF WsInv, ThreadType
  <2>2. \A x \in Thread : wsMu' # x
    BY <1>1, PackagesAssumption
  <2>3. \A x \in Thread : thr'[x].at \notin {"drop", "store", "drain"}
    BY <1>9 DEF Inside
  <2>. QED  BY <1>1, <1>8, <1>9, <2>1, <2>2, <2>3 DEF WsInv, ThreadType
<1>11. WatchType'
  BY <1>1, <1>2, <1>5, <1>7, <1>8, WatchInside DEF WsInv
<1>12. ~Dropping
  BY <1>9 DEF Dropping
<1>13. DecodedType' /\ DecodedFresh'
  BY <1>1, <1>12, DecodedSame DEF WsInv
<1>. QED  BY <1>4, <1>10, <1>11, <1>13 DEF WsInv

-----------------------------------------------------------------------------
(* The facts index.                                                        *)

\* What a pass over the index changes of the documents: more rechecks are
\* armed, and the index is or is no longer open.
LEMMA ArmsMore ==
    ASSUME DiagType, armed' \subseteq Engine \X Unit, idxReady' \in BOOLEAN,
           UNCHANGED <<overlay, handler, engine, pendingOpens, known, recheck, retired, diagFiles, shown>>
    PROVE  DiagType'
BY DEF DiagType, HandlerType, EngineType, RecheckType, SaidType, FilesOf

\* A goroutine outside setWorkspace moves on and drops entries of the cache.
LEMMA MovesDropping ==
    ASSUME WsInv, NEW t \in Thread, NEW r \in ThreadRecord, thr' = [thr EXCEPT ![t] = r],
           thr[t].at \notin Inside \cup {"idle"}, r.at \notin Inside, t = "watch" => r.at # "idle",
           UNCHANGED <<wsMu, snap, target, watch>>, engine' = engine,
           decoded' \in [Pkg -> DecodedRecord],
           \A p \in Pkg : decoded'[p] = decoded[p] \/ decoded'[p] = Undecoded,
           imp' = NoImport \/ imp' = imp \/ (imp # NoImport /\ imp' = [imp EXCEPT !.overtaken = TRUE])
    PROVE  ThreadType' /\ WatchType' /\ DecodedType' /\ DecodedFresh'
<1>1. ThreadType' /\ (Dropping => Dropping')
  BY ThreadMoves DEF WsInv
<1>2. WatchType'
  BY WatchFollows DEF WsInv
<1>3. DecodedType' /\ DecodedFresh'
  BY <1>1, CacheDropped DEF WsInv
<1>. QED  BY <1>1, <1>2, <1>3

LEMMA openIndexKeeps ==
    ASSUME WsInv, openIndex
    PROVE  WsInv'
<1>1. /\ UNCHANGED <<overlay, handler, engine, pendingOpens, known, armed, recheck, retired, diagFiles, shown,
                     diskVars, watchVars, wsMu, snap, target, decoded, imp, unit, serving, reads>>
      /\ thr["init"].at = "open" /\ (UNCHANGED load \/ Spend("fails"))
      /\ idxReady' = TRUE \/ idxReady' = idxReady
      /\ Goto("init", "index") \/ Goto("init", "build")
  BY DEF openIndex, Fails, NoFailure
<1>. PICK a \in {"index", "build"} : Goto("init", a)
  BY <1>1
<1>2. UNCHANGED <<mail, watch>>
  BY <1>1 DEF watchVars
<1>3. DiagType'
  BY <1>1, ArmsMore DEF WsInv, DiagType, EngineType
<1>4. DiskType' /\ ClientType'
  BY <1>1, <1>2, DiskSame, FailType DEF WsInv
<1>5. "init" \in Thread /\ a \in At \ (Inside \cup {"idle"}) /\ thr["init"].at \notin Inside \cup {"idle"}
  BY <1>1 DEF Thread, At, Inside
<1>6. ThreadType' /\ WatchType' /\ DecodedType' /\ DecodedFresh'
  BY <1>1, <1>2, <1>5, GotoMoves
<1>. QED  BY <1>3, <1>4, <1>6 DEF WsInv

LEMMA revalidateIndexKeeps ==
    ASSUME WsInv, NEW t \in Thread, revalidateIndex(t)
    PROVE  WsInv'
<1>1. /\ UNCHANGED <<overlay, handler, engine, pendingOpens, known, recheck, retired, diagFiles, shown,
                     diskVars, watchVars, wsMu, snap, target, serving, reads>>
      /\ thr[t].at = "index"
  BY DEF revalidateIndex
<1>2. PICK touched :
        /\ UNCHANGED load \/ Spend("fails")
        /\ \/ thr' = [thr EXCEPT ![t] = Finished(t)] /\ UNCHANGED <<decoded, imp, armed, idxReady>>
           \/ /\ decoded' = Invalidated(touched) /\ imp' = Overtaken(touched) /\ InvalidateDependency(touched)
              /\ thr' = [thr EXCEPT ![t] = Finished(t)] /\ UNCHANGED idxReady
           \/ idxReady' = FALSE /\ Goto(t, "rebuild") /\ UNCHANGED <<decoded, imp, armed>>
  <2>1. CASE repairIndexPackages(staleIndexPackages) /\ thr' = [thr EXCEPT ![t] = Finished(t)] /\ UNCHANGED idxReady
    BY <2>1, Zenon DEF repairIndexPackages, Fails, NoFailure
  <2>2. CASE /\ UNCHANGED load \/ Spend("fails")
             /\ \/ thr' = [thr EXCEPT ![t] = Finished(t)] /\ UNCHANGED <<decoded, imp, armed, idxReady>>
                \/ idxReady' = FALSE /\ Goto(t, "rebuild") /\ UNCHANGED <<decoded, imp, armed>>
    BY <2>2
  <2>. QED  BY <2>1, <2>2, Zenon DEF revalidateIndex, Fails, NoFailure
<1>3. UNCHANGED <<mail, watch>>
  BY <1>1 DEF watchVars
<1>4. DiskType' /\ ClientType'
  BY <1>1, <1>2, <1>3, DiskSame, FailType DEF WsInv
<1>5. DiagType'
  <2>1. armed \subseteq Engine \X Unit /\ known \subseteq Engine \X Unit /\ idxReady \in BOOLEAN
    BY DEF WsInv, DiagType, EngineType
  <2>2. armed' \subseteq Engine \X Unit
    BY <1>2, <2>1 DEF InvalidateDependency
  <2>3. idxReady' \in BOOLEAN
    BY <1>2, <2>1
  <2>. QED  BY <1>1, <2>2, <2>3, ArmsMore DEF WsInv
<1>6. Finished(t) \in ThreadRecord /\ Finished(t).at = (IF t = "watch" THEN "done" ELSE "idle")
  BY FinishedThread DEF WsInv
<1>7. CASE thr' = [thr EXCEPT ![t] = Finished(t)] /\ UNCHANGED <<decoded, imp, armed, idxReady>>
  BY <1>1, <1>3, <1>4, <1>5, <1>6, <1>7, Moves DEF WsInv, Inside
<1>8. CASE /\ decoded' = Invalidated(touched) /\ imp' = Overtaken(touched)
           /\ thr' = [thr EXCEPT ![t] = Finished(t)]
  <2>1. /\ decoded' \in [Pkg -> DecodedRecord]
        /\ \A p \in Pkg : decoded'[p] = decoded[p] \/ decoded'[p] = Undecoded
        /\ imp' = NoImport \/ imp' = imp \/ (imp # NoImport /\ imp' = [imp EXCEPT !.overtaken = TRUE])
    BY <1>8, InvalidatedCache, OvertakenBlob, Zenon DEF WsInv
  <2>2. thr[t].at \notin Inside \cup {"idle"} /\ Finished(t).at \notin Inside /\ (t = "watch" => Finished(t).at # "idle")
    BY <1>1, <1>6 DEF Inside
  <2>3. ThreadType' /\ WatchType' /\ DecodedType' /\ DecodedFresh'
    BY <1>1, <1>3, <1>6, <1>8, <2>1, <2>2, MovesDropping
  <2>. QED  BY <1>4, <1>5, <2>3 DEF WsInv
<1>9. CASE Goto(t, "rebuild") /\ UNCHANGED <<decoded, imp>>
  <2>1. "rebuild" \in At \ (Inside \cup {"idle"}) /\ thr[t].at \notin Inside \cup {"idle"}
    BY <1>1 DEF At, Inside
  <2>2. ThreadType' /\ WatchType' /\ DecodedType' /\ DecodedFresh'
    BY <1>1, <1>3, <1>9, <2>1, GotoMoves
  <2>. QED  BY <1>4, <1>5, <2>2 DEF WsInv
<1>. QED  BY <1>2, <1>7, <1>8, <1>9

\* Where a build leaves its goroutine.
LEMMA AfterBuildThread ==
    ASSUME WsInv, NEW t \in Thread, thr[t].at \in {"build", "rebuild"}, NEW opened \in BOOLEAN
    PROVE  /\ AfterBuild(t, opened) \in ThreadRecord /\ AfterBuild(t, opened).snap \in {thr[t].snap, NoSnap}
           /\ AfterBuild(t, opened).at \in IF opened THEN IF thr[t].at = "build" THEN {"recheck"} ELSE {"discard"}
                                           ELSE IF thr[t].at = "build" THEN {"index"} ELSE {"idle", "done"}
           /\ t = "watch" => AfterBuild(t, opened).at # "idle"
<1>1. thr[t] \in ThreadRecord /\ engine \in {NoEngine} \cup Engine
  BY DEF WsInv, ThreadType, DiagType, EngineType
<1>2. CASE opened
  <2>. DEFINE a == IF thr[t].at = "build" THEN "recheck" ELSE "discard"
  <2>1. AfterBuild(t, opened) = [thr[t] EXCEPT !.at = a, !.engine = engine]
    BY <1>1, <1>2 DEF AfterBuild, ThreadRecord
  <2>2. a \in At /\ a \in IF thr[t].at = "build" THEN {"recheck"} ELSE {"discard"}
    BY DEF At
  <2>. HIDE DEF a
  <2>. QED  BY <1>1, <1>2, <2>1, <2>2 DEF ThreadRecord
<1>3. CASE ~opened /\ thr[t].at = "build"
  <2>1. AfterBuild(t, opened) = [thr[t] EXCEPT !.at = "index"]
    BY <1>3 DEF AfterBuild
  <2>2. "index" \in At
    BY DEF At
  <2>. QED  BY <1>1, <1>3, <2>1, <2>2 DEF ThreadRecord
<1>4. CASE ~opened /\ thr[t].at # "build"
  <2>1. AfterBuild(t, opened) = Finished(t)
    BY <1>4, Zenon DEF AfterBuild
  <2>2. Finished(t) \in ThreadRecord /\ Finished(t).at = (IF t = "watch" THEN "done" ELSE "idle")
    BY FinishedThread DEF WsInv
  <2>3. Finished(t).snap \in {thr[t].snap, NoSnap}
    BY <1>1 DEF Finished, Resting, ThreadRecord
  <2>. QED  BY <1>4, <2>1, <2>2, <2>3
<1>. QED  BY <1>2, <1>3, <1>4

\* What a build leaves: an index that is open, or none.
LEMMA buildIndexGoesOn ==
    ASSUME WsInv, NEW t \in Thread, buildIndex(t)
    PROVE  /\ UNCHANGED load \/ Spend("fails")
           /\ idxReady' \in BOOLEAN /\ onDiskDB' \in BOOLEAN
           /\ \E r \in ThreadRecord : /\ thr' = [thr EXCEPT ![t] = r]
                                      /\ r.at \in {"recheck", "discard", "index", "idle", "done"}
                                      /\ t = "watch" => r.at # "idle"
<1>1. PICK built \in SUBSET Packages(snap), opened \in BOOLEAN :
        /\ UNCHANGED load \/ Spend("fails")
        /\ idxReady' = opened /\ onDiskDB' = (onDiskDB \/ opened \/ built # {})
        /\ thr' = [thr EXCEPT ![t] = AfterBuild(t, opened)]
  BY Zenon DEF buildIndex, Fails, NoFailure
<1>2. thr[t].at \in {"build", "rebuild"}
  BY DEF buildIndex
<1>3. PICK r : r = AfterBuild(t, opened)
  OBVIOUS
<1>4. /\ r \in ThreadRecord /\ thr' = [thr EXCEPT ![t] = r]
      /\ r.at \in {"recheck", "discard", "index", "idle", "done"} /\ (t = "watch" => r.at # "idle")
  BY <1>1, <1>2, <1>3, AfterBuildThread
<1>. QED  BY <1>1, <1>4 DEF WsInv, DiskType

LEMMA buildIndexKeeps ==
    ASSUME WsInv, NEW t \in Thread, buildIndex(t)
    PROVE  WsInv'
<1>1. /\ UNCHANGED <<overlay, handler, engine, pendingOpens, known, armed, recheck, retired, diagFiles, shown,
                     disk, mod, cacheFile, watchVars, wsMu, snap, target, decoded, imp, serving, reads>>
      /\ thr[t].at \in {"build", "rebuild"}
  BY DEF buildIndex
<1>2. UNCHANGED <<mail, watch>>
  BY <1>1 DEF watchVars
<1>3. DiagType'
  BY <1>1, buildIndexGoesOn, ArmsMore DEF WsInv, DiagType, EngineType
<1>4. DiskType' /\ ClientType'
  BY <1>1, <1>2, buildIndexGoesOn, FailType DEF WsInv, DiskType
<1>5. PICK r \in ThreadRecord : /\ thr' = [thr EXCEPT ![t] = r]
                                /\ r.at \in {"recheck", "discard", "index", "idle", "done"}
                                /\ t = "watch" => r.at # "idle"
  BY buildIndexGoesOn
<1>6. thr[t].at \notin Inside /\ thr[t].at # "idle" /\ r.at \notin Inside
  BY <1>1, <1>5 DEF Inside
<1>7. ThreadType' /\ WatchType' /\ DecodedType' /\ DecodedFresh'
  BY <1>1, <1>2, <1>5, <1>6, Moves
<1>. QED  BY <1>3, <1>4, <1>7 DEF WsInv

LEMMA indexReadyKeeps ==
    ASSUME WsInv, NEW t \in Thread, indexReady(t)
    PROVE  WsInv'
<1>1. /\ UNCHANGED <<overlay, handler, engine, pendingOpens, known, recheck, retired, idxReady, diagFiles, shown,
                     diskVars, watchVars, wsMu, snap, target, unit, serving, reads, load>>
      /\ thr[t].at \in {"recheck", "discard"} /\ recheckOpenFilesAfterIndexReady(thr[t].engine)
  BY DEF indexReady
<1>2. \/ decoded' = Discarded /\ imp' = Overtaken(Pkg) /\ thr' = [thr EXCEPT ![t] = Finished(t)]
      \/ Goto(t, "index") /\ UNCHANGED <<decoded, imp>>
  BY DEF indexReady
<1>3. UNCHANGED <<mail, watch>>
  BY <1>1 DEF watchVars
<1>4. DiagType'
  <2>1. armed \subseteq Engine \X Unit /\ known \subseteq Engine \X Unit /\ idxReady \in BOOLEAN
    BY DEF WsInv, DiagType, EngineType
  <2>2. armed' \subseteq Engine \X Unit
    BY <1>1, <2>1 DEF recheckOpenFilesAfterIndexReady
  <2>. QED  BY <1>1, <2>1, <2>2, ArmsMore DEF WsInv
<1>5. DiskType' /\ ClientType'
  BY <1>1, <1>3, DiskSame, ClientSame DEF WsInv
<1>6. CASE decoded' = Discarded /\ imp' = Overtaken(Pkg) /\ thr' = [thr EXCEPT ![t] = Finished(t)]
  <2>1. Finished(t) \in ThreadRecord /\ Finished(t).at = (IF t = "watch" THEN "done" ELSE "idle")
    BY FinishedThread DEF WsInv
  <2>2. /\ decoded' \in [Pkg -> DecodedRecord]
        /\ \A p \in Pkg : decoded'[p] = decoded[p] \/ decoded'[p] = Undecoded
        /\ imp' = NoImport \/ imp' = imp \/ (imp # NoImport /\ imp' = [imp EXCEPT !.overtaken = TRUE])
    BY <1>6, DiscardedCache, OvertakenBlob DEF WsInv
  <2>3. thr[t].at \notin Inside \cup {"idle"} /\ Finished(t).at \notin Inside /\ (t = "watch" => Finished(t).at # "idle")
    BY <1>1, <2>1 DEF Inside
  <2>4. ThreadType' /\ WatchType' /\ DecodedType' /\ DecodedFresh'
    BY <1>1, <1>3, <1>6, <2>1, <2>2, <2>3, MovesDropping
  <2>. QED  BY <1>4, <1>5, <2>4 DEF WsInv
<1>7. CASE Goto(t, "index") /\ UNCHANGED <<decoded, imp>>
  <2>1. "index" \in At \ (Inside \cup {"idle"}) /\ thr[t].at \notin Inside \cup {"idle"}
    BY <1>1 DEF At, Inside
  <2>2. ThreadType' /\ WatchType' /\ DecodedType' /\ DecodedFresh'
    BY <1>1, <1>3, <1>7, <2>1, GotoMoves
  <2>. QED  BY <1>4, <1>5, <2>2 DEF WsInv
<1>. QED  BY <1>2, <1>6, <1>7

-----------------------------------------------------------------------------
(* Importing a workspace package.                                          *)

LEMMA blobKeeps ==
    ASSUME WsInv, NEW q \in Pkg, blob(q)
    PROVE  WsInv'
<1>. DEFINE files == ClosureFiles(target, q)
            r == [pkg |-> q, files |-> files, overtaken |-> FALSE]
<1>1. /\ UNCHANGED <<diagVars, diskVars, watchVars, thr, wsMu, snap, target, unit, serving, reads>>
      /\ Spend("imports") /\ imp = NoImport /\ ForTest[q] = None /\ imp' = r /\ decoded' = Fitting
  BY DEF blob
<1>2. engine' = engine /\ UNCHANGED <<mail, watch>>
  BY <1>1 DEF diagVars, watchVars
<1>3. DiagType' /\ DiskType'
  BY <1>1, DiagSame, DiskSame DEF WsInv
<1>4. ClientType'
  BY <1>1, <1>2, SpendType DEF WsInv, ClientType
<1>5. ThreadType' /\ WatchType'
  BY <1>1, <1>2, ThreadSame, WatchSame DEF WsInv
<1>6. MadeFor(q, files) /\ files \in SUBSET File
  <2>1. target \in Snapshot
    BY DEF WsInv, ThreadType
  <2>2. files \in SUBSET File
    BY <2>1 DEF ClosureFiles, GoFiles, Snapshot
  <2>. QED  BY <2>2 DEF MadeFor
<1>. HIDE DEF files
<1>7. imp' \in ImportRecord /\ imp'.pkg = q /\ imp'.files = files
  BY <1>1, <1>6 DEF ImportRecord
<1>8. \A x, fs : MadeFor(x, fs) => MadeFor(x, fs)'
  <2>1. \A x, fs : MadeFor(x, fs) => (fs = ClosureFiles(target, x) \/ (Dropping /\ fs = ClosureFiles(snap, x)))
    BY DEF MadeFor
  <2>2. Dropping' = Dropping
    BY <1>1 DEF Dropping
  <2>. QED  BY <1>1, <2>1, <2>2 DEF MadeFor, ClosureFiles, GoFiles
<1>9. decoded' = Discarded \/ (decoded' = decoded /\ ~(Cardinality(Held) > MaxDecoded))
  BY <1>1 DEF Fitting, Held
<1>10. decoded' \in [Pkg -> DecodedRecord] /\ \A p \in Pkg : decoded'[p] = decoded[p] \/ decoded'[p] = Undecoded
  BY <1>9, DiscardedCache DEF WsInv, DecodedType
<1>11. Cardinality(Held)' <= MaxDecoded
  <2>1. CASE decoded' = Discarded
    <3>1. Held' = {}
      BY <2>1, DiscardedCache, NothingDecoded DEF Held
    <3>. QED  BY <3>1, FS_EmptySet, PackagesAssumption
  <2>2. CASE decoded' = decoded /\ ~(Cardinality(Held) > MaxDecoded)
    <3>1. Cardinality(Held)' = Cardinality(Held)
      BY <2>2 DEF Held
    <3>. QED  BY <2>2, <3>1, HeldIsFinite, PackagesAssumption
  <2>. QED  BY <1>9, <2>1, <2>2
<1>12. DecodedType'
  <2>1. Cardinality(Held)' \in Nat
    <3>1. Held' \in SUBSET Pkg
      BY DEF Held
    <3>. QED  BY <3>1, FS_Subset, FS_CardinalityType, PackagesAssumption
  <2>2. Cardinality(Held)' <= MaxDecoded + 1
    BY <1>11, <2>1, PackagesAssumption
  <2>. QED  BY <1>7, <1>10, <1>11, <2>2 DEF DecodedType
<1>13. DecodedFresh'
  <2>1. ASSUME NEW p \in Pkg, decoded'[p].done
        PROVE  ForTest[p] = None /\ (~decoded'[p].late => MadeFor(p, decoded[p].files)')
    BY <1>8, <1>10, <2>1, NothingDecoded DEF WsInv, DecodedFresh
  <2>2. ForTest[imp'.pkg] = None /\ MadeFor(imp.pkg, imp.files)'
    <3>1. MadeFor(q, files)'
      <4>1. target' = target
        BY <1>1
      <4>. QED  BY <4>1 DEF MadeFor, files, ClosureFiles, GoFiles
    <3>2. files' = files
      BY <1>1 DEF files, ClosureFiles, GoFiles
    <3>. QED  BY <1>1, <1>7, <3>1, <3>2 DEF MadeFor
  <2>. QED  BY <2>1, <2>2 DEF DecodedFresh
<1>. QED  BY <1>3, <1>4, <1>5, <1>12, <1>13 DEF WsInv

LEMMA decodeExportKeeps ==
    ASSUME WsInv, decodeExport
    PROVE  WsInv'
<1>. DEFINE q == imp.pkg
            new == [done |-> TRUE, files |-> imp.files, late |-> imp.overtaken]
<1>1. /\ UNCHANGED <<diagVars, diskVars, watchVars, thr, wsMu, snap, target, unit, serving, reads, load>>
      /\ imp # NoImport /\ imp' = NoImport /\ decoded' = ReadExport(q, new)
  BY DEF decodeExport
<1>2. engine' = engine /\ UNCHANGED <<mail, watch>>
  BY <1>1 DEF diagVars, watchVars
<1>3. DiagType' /\ DiskType' /\ ClientType' /\ ThreadType' /\ WatchType'
  BY <1>1, <1>2, DiagSame, DiskSame, ClientSame, ThreadSame, WatchSame DEF WsInv
<1>4. imp \in ImportRecord /\ q \in Pkg
  BY <1>1, ImportPackage DEF WsInv
<1>5. new \in DecodedRecord /\ new.files = imp.files /\ new.late = imp.overtaken
  BY <1>4 DEF ImportRecord, DecodedRecord
<1>6. decoded \in [Pkg -> DecodedRecord]
  BY DEF WsInv, DecodedType
<1>7. decoded' = decoded \/ decoded' = [decoded EXCEPT ![q] = new]
  BY <1>1 DEF ReadExport
<1>8. ForTest[q] = None /\ (~imp.overtaken => MadeFor(q, imp.files))
  BY <1>1 DEF WsInv, DecodedFresh
<1>. HIDE DEF new, q
<1>9. decoded' \in [Pkg -> DecodedRecord] /\ \A p \in Pkg : decoded'[p] = decoded[p] \/ (p = q /\ decoded'[p] = new)
  BY <1>4, <1>5, <1>6, <1>7
<1>10. DecodedType'
  <2>1. Held' \in SUBSET (Held \cup {q})
    BY <1>9 DEF Held
  <2>2. IsFiniteSet(Held \cup {q}) /\ Cardinality(Held \cup {q}) <= Cardinality(Held) + 1
    BY HeldIsFinite, FS_AddElement
  <2>3. Cardinality(Held') <= Cardinality(Held \cup {q}) /\ IsFiniteSet(Held')
    BY <2>1, <2>2, FS_Subset
  <2>4. Cardinality(Held) <= MaxDecoded
    BY <1>1 DEF WsInv, DecodedType
  <2>5. Cardinality(Held') \in Nat /\ Cardinality(Held \cup {q}) \in Nat /\ Cardinality(Held) \in Nat /\ MaxDecoded \in Nat
    BY <2>2, <2>3, HeldIsFinite, FS_CardinalityType, PackagesAssumption
  <2>6. Cardinality(Held') <= MaxDecoded + 1
    BY <2>2, <2>3, <2>4, <2>5
  <2>. QED  BY <1>1, <1>9, <2>6 DEF DecodedType
<1>11. DecodedFresh'
  <2>1. \A x, fs : MadeFor(x, fs) => MadeFor(x, fs)'
    <3>1. \A x, fs : MadeFor(x, fs) => (fs = ClosureFiles(target, x) \/ (Dropping /\ fs = ClosureFiles(snap, x)))
      BY DEF MadeFor
    <3>2. Dropping' = Dropping
      BY <1>1 DEF Dropping
    <3>. QED  BY <1>1, <3>1, <3>2 DEF MadeFor, ClosureFiles, GoFiles
  <2>2. \A p \in Pkg : decoded'[p].done =>
            ForTest[p] = None /\ (~decoded'[p].late => \E fs : fs = decoded'[p].files /\ MadeFor(p, fs))
    BY <1>5, <1>8, <1>9 DEF WsInv, DecodedFresh
  <2>3. \A p \in Pkg : decoded'[p].done =>
            ForTest[p] = None /\ (~decoded'[p].late => MadeFor(p, decoded[p].files)')
    BY <2>1, <2>2 DEF MadeFor
  <2>. QED  BY <1>1, <2>3 DEF DecodedFresh
<1>. QED  BY <1>3, <1>10, <1>11 DEF WsInv

-----------------------------------------------------------------------------
(* The life of the process.                                                *)

\* Nothing in memory: a process that has not started, or is gone.
Blank ==
    /\ DiagInit /\ mail = <<>> /\ watch = QuietWatch
    /\ thr = [t \in Thread |-> Resting] /\ wsMu = None /\ snap = NoSnap /\ target = NoSnap
    /\ decoded = Discarded /\ imp = NoImport

LEMMA BlankIsFine ==
    Blank => DiagType /\ ThreadType /\ WatchType /\ DecodedType /\ DecodedFresh /\ StartInv /\ mail \in Seq(EventRecord)
<1>. SUFFICES ASSUME Blank
              PROVE  DiagType /\ ThreadType /\ WatchType /\ DecodedType /\ DecodedFresh /\ StartInv /\ mail \in Seq(EventRecord)
  OBVIOUS
<1>1. DiagType
  <2>1. HandlerType
    BY RestingTyped DEF Blank, DiagInit, HandlerType, Idle
  <2>2. EngineType
    BY DEF Blank, DiagInit, EngineType
  <2>3. RecheckType
    <3>1. recheck = [eu \in Engine \X Unit |-> NoRecheck]
      BY DEF Blank, DiagInit
    <3>2. \A e \in Engine, u \in Unit : recheck[<<e, u>>] = NoRecheck
      BY <3>1
    <3>. QED  BY <3>1, <3>2, RestingTyped DEF RecheckType
  <2>4. SaidType
    BY DEF Blank, DiagInit, SaidType
  <2>. QED  BY <2>1, <2>2, <2>3, <2>4 DEF DiagType
<1>2. thr \in [Thread -> ThreadRecord] /\ \A t \in Thread : thr[t].at = "idle"
  BY RestingThread DEF Blank
<1>3. ThreadType
  <2>1. wsMu = None /\ snap = NoSnap /\ target = NoSnap /\ \A t \in Thread : wsMu # t
    BY PackagesAssumption DEF Blank
  <2>. QED  BY <1>2, <2>1, RestingThread DEF ThreadType, Inside
<1>4. WatchType
  <2>1. "watch" \in Thread
    BY DEF Thread
  <2>2. watch = QuietWatch /\ QuietWatch \in WatchRecord
    BY DEF Blank, QuietWatch, WatchRecord
  <2>. QED  BY <1>2, <2>1, <2>2 DEF WatchType, QuietWatch
<1>5. decoded \in [Pkg -> DecodedRecord] /\ \A p \in Pkg : ~decoded[p].done
  BY DiscardedCache, NothingDecoded DEF Blank
<1>6. DecodedType
  <2>1. Held = {}
    BY <1>5 DEF Held
  <2>2. Cardinality(Held) = 0
    BY <2>1, FS_EmptySet
  <2>. QED  BY <1>5, <2>2, PackagesAssumption DEF DecodedType, Blank
<1>7. DecodedFresh
  BY <1>5 DEF DecodedFresh, Blank
<1>8. StartInv
  <2>1. "init" \in Thread /\ "bg" \in Thread
    BY DEF Thread
  <2>. QED  BY <1>2, <2>1 DEF StartInv
<1>9. mail \in Seq(EventRecord)
  BY DEF Blank
<1>. QED  BY <1>1, <1>3, <1>4, <1>6, <1>7, <1>8, <1>9

LEMMA GoneKeeps ==
    ASSUME DiskType, "edits" \in DOMAIN load', load'.edits \in Nat, Gone
    PROVE  WsInv' /\ StartInv'
<1>1. Blank'
  BY DEF Gone, Blank, DiagInit
<1>2. Blank' => (DiagType /\ ThreadType /\ WatchType /\ DecodedType /\ DecodedFresh /\ StartInv /\ mail \in Seq(EventRecord))'
  BY BlankIsFine, PTL
<1>3. DiskType'
  BY DEF Gone, DiskType, diskVars
<1>4. ClientType'
  BY <1>1, <1>2 DEF ClientType
<1>. QED  BY <1>1, <1>2, <1>3, <1>4 DEF WsInv

LEMMA handleInitializeKeeps ==
    ASSUME WsInv, StartInv, handleInitialize
    PROVE  WsInv' /\ StartInv'
<1>. DEFINE r == [thr["init"] EXCEPT !.at = "read"]
<1>1. /\ UNCHANGED <<diagVars, diskVars, watchVars, wsMu, snap, target, decoded, imp, unit, reads>>
      /\ serving = "down" /\ Spend("starts") /\ serving' = "up" /\ thr' = [thr EXCEPT !["init"] = r]
  BY DEF handleInitialize, Goto
<1>2. engine' = engine /\ UNCHANGED <<mail, watch>>
  BY <1>1 DEF diagVars, watchVars
<1>3. DiagType'
  BY <1>1, DiagSame DEF WsInv
<1>4. DiskType'
  BY <1>1 DEF WsInv, DiskType, diskVars
<1>5. ClientType'
  BY <1>1, <1>2, SpendType DEF WsInv, ClientType
<1>6. "init" \in Thread /\ "bg" \in Thread /\ "read" \in At /\ thr["init"].at = "idle" /\ thr["bg"].at = "idle"
  BY <1>1 DEF Thread, At, StartInv
<1>7. r \in ThreadRecord /\ r.at = "read"
  BY <1>6, ThreadAt DEF WsInv
<1>. HIDE DEF r
<1>8. ThreadType' /\ WatchType' /\ DecodedType' /\ DecodedFresh'
  BY <1>1, <1>2, <1>6, <1>7, Moves DEF Inside
<1>9. thr'["bg"] = thr["bg"]
  BY <1>1, <1>6 DEF WsInv, ThreadType
<1>10. StartInv'
  BY <1>1, <1>6, <1>9 DEF StartInv
<1>. QED  BY <1>3, <1>4, <1>5, <1>8, <1>10 DEF WsInv

LEMMA StopWatchKeeps ==
    ASSUME WsInv, StartInv, StopWatch
    PROVE  WsInv' /\ StartInv'
<1>1. /\ UNCHANGED <<diagVars, diskVars, mail, wsVars, reads>> /\ Spend("stops") /\ serving' = "stopping"
      /\ watch' = [watch EXCEPT !.timer = FALSE]
  BY DEF StopWatch
<1>2. engine' = engine /\ UNCHANGED <<mail, thr>>
  BY <1>1 DEF diagVars, wsVars
<1>3. DiagType' /\ DecodedType' /\ DecodedFresh' /\ ThreadType'
  BY <1>1, <1>2, DiagSame, WsSame DEF WsInv
<1>4. DiskType'
  BY <1>1 DEF WsInv, DiskType, diskVars
<1>5. ClientType'
  BY <1>1, <1>2, SpendType DEF WsInv, ClientType
<1>6. WatchType'
  BY <1>1, <1>2 DEF WsInv, WatchType, WatchRecord
<1>7. StartInv'
  BY <1>1, <1>2 DEF StartInv
<1>. QED  BY <1>3, <1>4, <1>5, <1>6, <1>7 DEF WsInv

LEMMA DocStepType ==
    ASSUME DiagType, NEW f \in Doc, DocStep(f)
    PROVE  DiagType' /\ engine' = engine
<1>1. engine' = engine
  BY DEF DocStep, markPendingOpen, rereadWorkspace, focusOpened, armChanged, clearDiagnosticsForClosedFile, notifyClosed
<1>2. DiagType'
  BY markPendingOpenType, rereadWorkspaceType, focusOpenedType, armChangedType, clearDiagnosticsType, notifyClosedType DEF DocStep
<1>. QED  BY <1>1, <1>2

LEMMA UnitStepType ==
    ASSUME DiagType, NEW e \in Engine, NEW u \in Unit, UnitStep(e, u)
    PROVE  DiagType' /\ engine' = engine
<1>1. CASE fireRecheck(e, u)
  BY <1>1, fireRecheckType DEF fireRecheck
<1>2. CASE commit(e, u)
  BY <1>2, commitType DEF commit
<1>3. CASE updateDiagFiles(e, u)
  <2>1. engine' = engine
    BY <1>3 DEF updateDiagFiles
  <2>. QED  BY <1>3, <2>1, updateDiagFilesType
<1>4. CASE \E f \in Doc : notifyDiagnostics(e, u, f)
  <2>1. PICK f \in Doc : notifyDiagnostics(e, u, f)
    BY <1>4
  <2>2. engine' = engine
    BY <2>1 DEF notifyDiagnostics
  <2>. QED  BY <2>1, <2>2, notifyDiagnosticsType
<1>. QED  BY <1>1, <1>2, <1>3, <1>4 DEF UnitStep

LEMMA PublishKeeps ==
    ASSUME WsInv, Publish
    PROVE  WsInv'
<1>1. UNCHANGED <<diskVars, watchVars, wsVars, serving, reads, load>>
  BY DEF Publish
<1>2. DiagType' /\ engine' = engine
  BY DocStepType, UnitStepType DEF Publish, WsInv
<1>3. UNCHANGED <<mail, watch>>
  BY <1>1 DEF watchVars
<1>. QED  BY <1>1, <1>2, <1>3, WsSame, DiskSame, ClientSame DEF WsInv

-----------------------------------------------------------------------------
(* The start of a session.                                                 *)

LEMMA StartSame == ASSUME StartInv, UNCHANGED <<thr, serving>> PROVE StartInv'
BY DEF StartInv

\* The goroutines of the debouncer and of module changes do not matter.
LEMMA StartElsewhere ==
    ASSUME StartInv, ThreadType, NEW t \in {"watch", "mod"}, NEW r, thr' = [thr EXCEPT ![t] = r], serving' = serving
    PROVE  StartInv'
<1>1. "init" \in Thread /\ "bg" \in Thread /\ t # "init" /\ t # "bg"
  BY DEF Thread
<1>2. thr'["init"] = thr["init"] /\ thr'["bg"] = thr["bg"]
  BY <1>1 DEF ThreadType
<1>. QED  BY <1>2 DEF StartInv

\* A goroutine at work goes on, and never back to reading the cache.
LEMMA StartGoesOn ==
    ASSUME StartInv, ThreadType, NEW t \in Thread, thr[t].at \notin {"idle", "read"}, NEW r, r.at # "read",
           thr' = [thr EXCEPT ![t] = r], serving' = serving
    PROVE  StartInv'
<1>1. "init" \in Thread /\ "bg" \in Thread
  BY DEF Thread
<1>2. \A x \in Thread : thr'[x] = IF x = t THEN r ELSE thr[x]
  BY DEF ThreadType
<1>3. serving # "down" \/ t \notin {"init", "bg"}
  BY DEF StartInv
<1>4. t = "bg" => thr["init"].at # "read"
  BY DEF StartInv
<1>5. thr'["init"].at = "read" => thr["init"].at = "read"
  BY <1>1, <1>2
<1>. QED  BY <1>1, <1>2, <1>3, <1>4, <1>5 DEF StartInv

\* The same with the fields that change.
LEMMA StartField ==
    ASSUME StartInv, ThreadType, NEW t \in Thread, thr[t].at \notin {"idle", "read"}, NEW a, a # "read",
           Goto(t, a), serving' = serving
    PROVE  StartInv'
<1>. DEFINE r == [thr[t] EXCEPT !.at = a]
<1>1. thr' = [thr EXCEPT ![t] = r]
  BY DEF Goto
<1>2. r.at = a
  BY DEF ThreadType, ThreadRecord
<1>. HIDE DEF r
<1>. QED  BY <1>1, <1>2, StartGoesOn

LEMMA StartThread ==
    ASSUME StartInv, WsInv, NEW t \in Thread, ThreadStep(t)
    PROVE  StartInv'
<1>1. thr[t] \in ThreadRecord /\ thr \in [Thread -> ThreadRecord] /\ ThreadType
  BY DEF WsInv, ThreadType
<1>2. Finished(t).at # "read"
  BY <1>1, FinishedThread
<1>3. CASE Load(t)
  <2>. DEFINE r == [thr[t] EXCEPT !.at = "save", !.snap = GraphLoad(reads + 1)]
  <2>1. thr[t].at = "load" /\ serving' = serving
    BY <1>3 DEF Load
  <2>2. thr' = [thr EXCEPT ![t].at = "save", ![t].snap = GraphLoad(reads + 1)] \/ thr' = [thr EXCEPT ![t] = Finished(t)]
    BY <1>3 DEF Load
  <2>3. thr' = [thr EXCEPT ![t] = r] \/ thr' = [thr EXCEPT ![t] = Finished(t)]
    BY <1>1, <2>2 DEF ThreadRecord
  <2>4. r.at = "save"
    BY <1>1 DEF ThreadRecord
  <2>. HIDE DEF r
  <2>. QED  BY <1>1, <1>2, <2>1, <2>3, <2>4, StartGoesOn
<1>4. CASE SaveCache(t)
  <2>1. thr[t].at = "save" /\ serving' = serving /\ Goto(t, "set")
    BY <1>4 DEF SaveCache
  <2>. QED  BY <1>1, <2>1, StartField
<1>5. CASE setWorkspace(t)
  <2>. DEFINE a == IF SameDependencies(thr[t].snap) THEN "drop" ELSE "store"
              e == IF SameDependencies(thr[t].snap) THEN engine ELSE engine + 1
              r == [thr[t] EXCEPT !.at = a, !.engine = e]
  <2>1. thr[t].at = "set" /\ serving' = serving /\ thr' = [thr EXCEPT ![t].at = a, ![t].engine = e]
    BY <1>5 DEF setWorkspace
  <2>2. a # "read"
    OBVIOUS
  <2>. HIDE DEF a, e
  <2>3. thr' = [thr EXCEPT ![t] = r] /\ r.at = a
    BY <1>1, <2>1 DEF ThreadRecord
  <2>. HIDE DEF r
  <2>. QED  BY <1>1, <2>1, <2>2, <2>3, StartGoesOn
<1>6. CASE dropChanged(t)
  <2>1. thr[t].at = "drop" /\ serving' = serving /\ Goto(t, "store")
    BY <1>6 DEF dropChanged
  <2>. QED  BY <1>1, <2>1, StartField
<1>7. CASE storeWorkspace(t)
  <2>1. thr[t].at = "store" /\ serving' = serving /\ Goto(t, "drain")
    BY <1>7 DEF storeWorkspace
  <2>. QED  BY <1>1, <2>1, StartField
<1>8. CASE drainOpens(t)
  <2>. DEFINE a == IF t = "init" THEN "open" ELSE "index"
  <2>1. thr[t].at = "drain" /\ serving' = serving /\ Goto(t, a) /\ a # "read"
    BY <1>8 DEF drainOpens
  <2>. HIDE DEF a
  <2>. QED  BY <1>1, <2>1, StartField
<1>9. CASE revalidateIndex(t)
  <2>1. thr[t].at = "index" /\ serving' = serving /\ (Goto(t, "rebuild") \/ thr' = [thr EXCEPT ![t] = Finished(t)])
    BY <1>9 DEF revalidateIndex
  <2>. QED  BY <1>1, <1>2, <2>1, StartField, StartGoesOn
<1>10. CASE buildIndex(t)
  <2>1. thr[t].at \in {"build", "rebuild"} /\ serving' = serving
    BY <1>10 DEF buildIndex
  <2>2. PICK r \in ThreadRecord : thr' = [thr EXCEPT ![t] = r] /\ r.at \in {"recheck", "discard", "index", "idle", "done"}
    BY <1>10, buildIndexGoesOn
  <2>3. r.at # "read"
    BY <2>2
  <2>. QED  BY <1>1, <2>1, <2>2, <2>3, StartGoesOn
<1>11. CASE indexReady(t)
  <2>1. thr[t].at \in {"recheck", "discard"} /\ serving' = serving /\ (Goto(t, "index") \/ thr' = [thr EXCEPT ![t] = Finished(t)])
    BY <1>11 DEF indexReady
  <2>. QED  BY <1>1, <1>2, <2>1, StartField, StartGoesOn
<1>. QED  BY <1>3, <1>4, <1>5, <1>6, <1>7, <1>8, <1>9, <1>10, <1>11 DEF ThreadStep

LEMMA StartLoads ==
    ASSUME StartInv, WsInv, loadWorkspaceAsync
    PROVE  StartInv'
<1>1. thr["init"].at = "read" /\ serving' = serving /\ serving # "down"
  BY DEF loadWorkspaceAsync, StartInv
<1>2. thr'["init"].at # "read"
  <2>1. thr \in [Thread -> ThreadRecord] /\ thr["init"] \in ThreadRecord /\ "init" \in Thread /\ "bg" \in Thread
    BY DEF WsInv, ThreadType, Thread
  <2>2. CASE cacheHit
    <3>. DEFINE a == IF Shared \/ Stale THEN "load" ELSE "idle"
    <3>1. thr' = [thr EXCEPT !["init"].at = "set", !["init"].snap = cacheFile.snap, !["bg"].at = a]
      BY <2>2 DEF loadWorkspaceAsync
    <3>. HIDE DEF a
    <3>. QED  BY <2>1, <3>1 DEF ThreadRecord
  <2>3. CASE ~cacheHit
    <3>1. thr' = [thr EXCEPT !["init"].at = "load"]
      BY <2>3 DEF loadWorkspaceAsync, Goto
    <3>. QED  BY <2>1, <3>1 DEF ThreadRecord
  <2>. QED  BY <2>2, <2>3
<1>. QED  BY <1>1, <1>2 DEF StartInv

-----------------------------------------------------------------------------
(* The theorems.                                                           *)

LEMMA ThreadStepKeeps ==
    ASSUME WsInv, StartInv, NEW t \in Thread, ThreadStep(t)
    PROVE  WsInv' /\ StartInv'
<1>1. WsInv'
  BY LoadKeeps, SaveCacheKeeps, setWorkspaceKeeps, dropChangedKeeps, storeWorkspaceKeeps, drainOpensKeeps,
     revalidateIndexKeeps, buildIndexKeeps, indexReadyKeeps
     DEF ThreadStep
<1>. QED  BY <1>1, StartThread

LEMMA ClientKeeps ==
    ASSUME WsInv, StartInv, Client
    PROVE  WsInv' /\ StartInv'
<1>1. CASE \E f \in File, stamped \in BOOLEAN : WriteFile(f, stamped)
  <2>1. UNCHANGED <<thr, serving>>
    BY <1>1 DEF WriteFile, wsVars
  <2>. QED  BY <1>1, <2>1, WriteFileKeeps, StartSame
<1>2. CASE \E f \in File : RemoveFile(f) \/ Resend(f)
  <2>1. UNCHANGED <<thr, serving>>
    BY <1>2 DEF RemoveFile, Resend, wsVars
  <2>. QED  BY <1>2, <2>1, RemoveFileKeeps, ResendKeeps, StartSame
<1>3. CASE EditModule
  <2>1. UNCHANGED <<thr, serving>>
    BY <1>3 DEF EditModule, wsVars
  <2>. QED  BY <1>3, <2>1, EditModuleKeeps, StartSame
<1>4. CASE ClientDoc
  <2>1. UNCHANGED <<thr, serving>>
    BY <1>4 DEF ClientDoc, wsVars
  <2>. QED  BY <1>4, <2>1, ClientDocKeeps, StartSame
<1>5. CASE Kill
  <2>1. "edits" \in DOMAIN load' /\ load'.edits \in Nat
    BY <1>5, SpendType DEF Kill, WsInv, ClientType
  <2>. QED  BY <1>5, <2>1, GoneKeeps DEF Kill, WsInv
<1>6. CASE StopWatch
  BY <1>6, StopWatchKeeps
<1>7. CASE \E q \in Pkg : blob(q)
  <2>1. UNCHANGED <<thr, serving>>
    BY <1>7 DEF blob
  <2>. QED  BY <1>7, <2>1, blobKeeps, StartSame
<1>. QED  BY <1>1, <1>2, <1>3, <1>4, <1>5, <1>6, <1>7 DEF Client

LEMMA SystemKeeps ==
    ASSUME WsInv, StartInv, System
    PROVE  WsInv' /\ StartInv'
<1>. ThreadType
  BY DEF WsInv
<1>1. CASE handleInitialize
  BY <1>1, handleInitializeKeeps
<1>2. CASE Exit
  <2>1. Gone /\ load' = load
    BY <1>2 DEF Exit
  <2>. QED  BY <2>1, GoneKeeps DEF WsInv, ClientType
<1>3. CASE Deliver
  <2>1. PICK n \in 1..Len(mail) : handleDidChangeWatchedFiles(n)
    BY <1>3 DEF Deliver
  <2>2. serving' = serving /\ (thr' = thr \/ thr' = [thr EXCEPT !["mod"] = [thr["mod"] EXCEPT !.at = "load"]])
    BY <2>1 DEF handleDidChangeWatchedFiles
  <2>3. StartInv'
    BY <2>2, StartSame, StartElsewhere
  <2>. QED  BY <2>1, <2>3, handleDidChangeWatchedFilesKeeps
<1>4. CASE fireTimer
  <2>1. UNCHANGED <<thr, serving>>
    BY <1>4 DEF fireTimer, wsVars
  <2>. QED  BY <1>4, <2>1, fireTimerKeeps, StartSame
<1>5. CASE Fire
  <2>1. PICK i \in 1..Len(watch.fired) : fire(i)
    BY <1>5 DEF Fire
  <2>2. serving' = serving /\ (thr' = thr \/ thr' = [thr EXCEPT !["watch"] = [thr["watch"] EXCEPT !.at = Pass(watch.fired[i])]])
    BY <2>1 DEF fire
  <2>3. StartInv'
    BY <2>2, StartSame, StartElsewhere
  <2>. QED  BY <2>1, <2>3, fireKeeps
<1>6. CASE passDone
  <2>1. serving' = serving /\ (\/ thr' = [thr EXCEPT !["watch"] = [thr["watch"] EXCEPT !.at = Pass(watch.rerunReload)]]
                              \/ thr' = [thr EXCEPT !["watch"] = Resting])
    BY <1>6 DEF passDone
  <2>2. StartInv'
    BY <2>1, StartElsewhere
  <2>. QED  BY <1>6, <2>2, passDoneKeeps
<1>7. CASE loadWorkspaceAsync
  BY <1>7, loadWorkspaceAsyncKeeps, StartLoads
<1>8. CASE openIndex
  <2>1. thr["init"].at = "open" /\ serving' = serving /\ (Goto("init", "index") \/ Goto("init", "build")) /\ "init" \in Thread
    BY <1>8 DEF openIndex, Thread
  <2>. QED  BY <1>8, <2>1, openIndexKeeps, StartField
<1>9. CASE \E t \in Thread : ThreadStep(t)
  BY <1>9, ThreadStepKeeps
<1>10. CASE decodeExport
  <2>1. UNCHANGED <<thr, serving>>
    BY <1>10 DEF decodeExport
  <2>. QED  BY <1>10, <2>1, decodeExportKeeps, StartSame
<1>11. CASE Publish
  <2>1. UNCHANGED <<thr, serving>>
    BY <1>11 DEF Publish, wsVars
  <2>. QED  BY <1>11, <2>1, PublishKeeps, StartSame
<1>. QED  BY <1>1, <1>2, <1>3, <1>4, <1>5, <1>6, <1>7, <1>8, <1>9, <1>10, <1>11 DEF System, InitStep

LEMMA StutterKeeps == ASSUME WsInv, StartInv, UNCHANGED vars PROVE WsInv' /\ StartInv'
<1>1. /\ UNCHANGED <<diagVars, diskVars, wsVars, serving, reads, load>>
      /\ UNCHANGED <<mail, watch>>
  BY DEF vars, watchVars
<1>2. UNCHANGED <<thr, engine>>
  BY <1>1 DEF wsVars, diagVars
<1>. QED  BY <1>1, <1>2, WsSame, DiagSame, DiskSame, ClientSame, StartSame DEF WsInv

LEMMA WsStep == WsInv /\ StartInv /\ [Next]_vars => WsInv' /\ StartInv'
BY ClientKeeps, SystemKeeps, StutterKeeps DEF Next

LEMMA WsInit == Init => WsInv /\ StartInv
<1>. SUFFICES ASSUME Init PROVE WsInv /\ StartInv
  OBVIOUS
<1>1. Blank
  BY DEF Init, Blank, Discarded
<1>2. "edits" \in DOMAIN load /\ load.edits \in Nat /\ load.files \in SUBSET File
  BY LoadsAssumption DEF Init
<1>3. DiskType
  <2>1. disk = [f \in File |-> [exists |-> f \in load.files, text |-> 0, mtime |-> 0]]
    BY DEF Init
  <2>2. disk \in [File -> [exists : BOOLEAN, text : Nat, mtime : Nat]] /\ mod = 0 /\ reads = 0 /\ serving = "down"
    BY <2>1 DEF Init
  <2>3. GraphLoad(0) \in Snapshot
    BY <2>2 DEF GraphLoad, OnDiskNow, Snapshot
  <2>4. cacheFile = [saved |-> TRUE, snap |-> GraphLoad(0), digest |-> mod, touched |-> FALSE] \/ cacheFile = NoCache
    BY DEF Init
  <2>5. NoCache \in [saved : BOOLEAN, snap : Snapshot, digest : {0, 1}, touched : BOOLEAN]
    BY RestingThread DEF NoCache
  <2>6. cacheFile \in [saved : BOOLEAN, snap : Snapshot, digest : {0, 1}, touched : BOOLEAN]
    <3>. DEFINE g == GraphLoad(0)
    <3>1. g \in Snapshot
      BY <2>3
    <3>2. cacheFile = [saved |-> TRUE, snap |-> g, digest |-> mod, touched |-> FALSE] \/ cacheFile = NoCache
      BY <2>4
    <3>. HIDE DEF g
    <3>3. [saved |-> TRUE, snap |-> g, digest |-> mod, touched |-> FALSE] \in [saved : BOOLEAN, snap : Snapshot, digest : {0, 1}, touched : BOOLEAN]
      BY <2>2, <3>1
    <3>. QED  BY <2>5, <3>2, <3>3, Zenon
  <2>. QED  BY <2>2, <2>6 DEF DiskType
<1>. QED  BY <1>1, <1>2, <1>3, BlankIsFine DEF WsInv, ClientType

\* The invariant holds throughout.
LEMMA WsAlways == Spec => [](WsInv /\ StartInv)
BY WsInit, WsStep, PTL DEF Spec

\* The workspace is well typed for every set of packages, documents and
\* scenarios; only the holder of setWorkspaceMu is inside setWorkspace, the
\* debouncer's goroutine works exactly while it is marked running, and the
\* decode cache is at most one entry over its limit (importer, setWorkspace,
\* onWatchFlush).
THEOREM TypeCorrect == Spec => []TypeOK
BY WsAlways, WsInvImplies, PTL

\* What is decoded was made from the files the package source answers from,
\* whatever the loads, reloads, index repairs and importers do meanwhile
\* (retarget, changedExportSet, Cache.Invalidate, reset).
THEOREM DecodedIsFreshHolds == Spec => []DecodedIsFresh
BY WsAlways, WsInvImplies, PTL
=============================================================================
