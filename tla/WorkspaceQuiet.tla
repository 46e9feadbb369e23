---------------------------- MODULE WorkspaceQuiet ----------------------------
(***************************************************************************)
(* The theorem that a client at rest shows the diagnostics of the current  *)
(* texts (QuietIsAccurate).  Of an open document something is always under *)
(* way that will make it so, or its answer is on the way or was given; of  *)
(* a closed one whatever is still said was found in its saved text.  And   *)
(* the theorem that the graph and the index of a workspace at rest are     *)
(* those of the disk (SettledIsCurrent): until they are, an event is still *)
(* to be delivered, or a load or a pass over the index is still to come.   *)
(***************************************************************************)
EXTENDS WorkspaceProofs, NaturalsInduction, WellFoundedInduction

-----------------------------------------------------------------------------
(* The invariant.                                                          *)

Slot(e, f) == recheck[<<e, UnitOf[f]>>]
Telling(e, f) == Slot(e, f).at = "notify" /\ f \in Slot(e, f).tell
TextErrors(f) == ErrorsIn(ReadFile(f))
SavedErrors(f) == ErrorsIn(OnDisk[f])
Draining == \E t \in Thread : thr[t].at = "drain"
IndexIsBack == \E t \in Thread : thr[t].at \in {"recheck", "discard"}

\* Engines come one after another: one not yet installed has done nothing, and
\* one that was replaced is retired, as the installed one is once a goroutine
\* is about to replace it.
EnginesInOrder ==
    \A e \in Engine :
        /\ e > engine => e \notin retired /\ \A u \in Unit : recheck[<<e, u>>].at = "none" /\ <<e, u>> \notin armed \cup known
        /\ e < engine => e \in retired
HandlersInOrder == \A f \in Doc : handler[f].at \in {"focus", "arm"} => handler[f].engine <= engine
ThreadsInOrder ==
    \A t \in Thread :
        /\ thr[t].at = "drop" => thr[t].engine = engine
        /\ thr[t].at = "store" => \/ thr[t].engine = engine
                                  \/ thr[t].engine = engine + 1 /\ (engine # NoEngine => engine \in retired)
InOrder == EnginesInOrder /\ HandlersInOrder /\ ThreadsInOrder
LatestType == latest \in [Doc -> {NoEngine} \cup Engine]

\* A recheck of the document is asked for, or its want is recorded.
AskedFor(f) ==
    \/ handler[f].at \in {"mark", "focus", "arm"}
    \/ f \in pendingOpens /\ (handler[f].at = "reread" \/ Draining)
    \/ \E e \in Engine : <<e, UnitOf[f]>> \in armed \/ (e \in retired /\ Slot(e, f).at = "checked")
    \/ UnitOf[f] \in unrechecked
    \/ IndexIsBack
\* What the installed engine's recheck found, and is telling, is of the text.
FoundOk(f) ==
    LET r == Slot(engine, f)
    IN  /\ r.at \in {"checked", "publish"} => r.found[f] \ {Gate} = TextErrors(f) /\ (idxReady => Gate \notin r.found[f])
        /\ Telling(engine, f) => r.says[f] = TextErrors(f)
Coming(f) == Slot(engine, f).at = "checked" \/ \E e \in Engine : Slot(e, f).at = "publish" \/ Telling(e, f)
Answered(f) ==
    /\ \E e \in Engine : <<e, UnitOf[f]>> \in known
    /\ FoundOk(f)
    /\ Coming(f) \/ f \in outOfOrder \/ (idxReady => shown[f] = TextErrors(f))

\* A document is closed while its close is handled.
ClosingFine(f) == handler[f].at \in {"clear", "notify"} => f \notin Open
\* A document opened while there is no workspace is not forgotten.
KeptFine(f) == (engine = NoEngine /\ f \in Open) => handler[f].at = "mark" \/ f \in pendingOpens
OpenFine(f) == (engine # NoEngine /\ f \in Open \ Outside) => AskedFor(f) \/ Answered(f)

\* What is being told of a document, if it is the last word, is credited to its
\* unit; and what was found while it was closed was found in the saved text.
Credited(f) == f \in diagFiles[UnitOf[f]]
Doubtful(f) == f \in outOfOrder \/ handler[f].at = "notify" \/ \E e \in Engine : Telling(e, f)
TellFine(f) ==
    \A e \in Engine :
        /\ (Telling(e, f) /\ latest[f] = e) => Slot(e, f).says[f] = {} \/ Credited(f)
        /\ f \notin Slot(e, f).open =>
              /\ Slot(e, f).at \in {"checked", "publish"} => Slot(e, f).found[f] \ {Gate} = SavedErrors(f)
              /\ Telling(e, f) => Slot(e, f).says[f] \ {Gate} = SavedErrors(f)
ShownFine(f) ==
    /\ shown[f] \in {Unseen, {}} \/ Credited(f) \/ Doubtful(f)
    /\ f \notin Open => \/ handler[f].at = "clear" \/ Doubtful(f)
                        \/ shown[f] = Unseen \/ shown[f] \ {Gate} \in {{}, SavedErrors(f)}

DocFine(f) == ClosingFine(f) /\ KeptFine(f) /\ OpenFine(f) /\ TellFine(f) /\ ShownFine(f)
QuietInv == InOrder /\ LatestType /\ \A f \in Doc : DocFine(f)

\* The invariant implies the property the runs check.
LEMMA QuietInvImplies == WsInv /\ QuietInv => QuietIsAccurate
<1>. SUFFICES ASSUME WsInv, QuietInv, DiagQuiet, Settled, engine # NoEngine,
                     NEW f \in Doc \ (Outside \cup outOfOrder), UnitOf[f] \notin unrechecked
              PROVE  IF f \in Open THEN idxReady => shown[f] = ErrorsIn(ReadFile(f))
                     ELSE shown[f] = Unseen \/ shown[f] \ {Gate} \in {{}, ErrorsIn(OnDisk[f])}
  BY DEF QuietIsAccurate
<1>1. /\ handler[f].at = "idle" /\ armed = {} /\ \A t \in Thread : thr[t].at = "idle"
      /\ \A e \in Engine : Slot(e, f).at = "none"
  BY DocsAreTyped DEF DiagQuiet, Settled, WorkQuiet, Slot
<1>2. engine \in Engine
  BY DEF WsInv, DiagType, EngineType
<1>3. ~Draining /\ ~IndexIsBack
  BY <1>1 DEF Draining, IndexIsBack
<1>4. \A e \in Engine : ~Telling(e, f)
  BY <1>1 DEF Telling
<1>5. CASE f \in Open
  <2>1. ~AskedFor(f)
    BY <1>1, <1>3 DEF AskedFor
  <2>2. ~Coming(f)
    BY <1>1, <1>2, <1>4 DEF Coming
  <2>3. Answered(f)
    BY <1>5, <2>1 DEF QuietInv, DocFine, OpenFine
  <2>. QED  BY <1>5, <2>2, <2>3 DEF Answered, TextErrors
<1>6. CASE f \notin Open
  <2>1. ~Doubtful(f)
    BY <1>1, <1>4 DEF Doubtful
  <2>2. ShownFine(f)
    BY DEF QuietInv, DocFine
  <2>. QED  BY <1>1, <1>6, <2>1, <2>2 DEF ShownFine, SavedErrors
<1>. QED  BY <1>5, <1>6

-----------------------------------------------------------------------------
(* What a step leaves alone.                                               *)

\* Of a document everything that its part of the invariant is about.
SameFor(f) ==
    /\ handler'[f] = handler[f] /\ overlay'[f] = overlay[f] /\ shown'[f] = shown[f] /\ latest'[f] = latest[f]
    /\ \A e \in Engine : Slot(e, f)' = Slot(e, f)
    /\ Credited(f)' = Credited(f) /\ (f \in outOfOrder' <=> f \in outOfOrder)
\* Whatever rechecks of the document are asked for stay asked for.
AsksKept(f) ==
    /\ f \in pendingOpens => f \in pendingOpens'
    /\ \A e \in Engine : <<e, UnitOf[f]>> \in armed => <<e, UnitOf[f]>> \in armed'
    /\ UnitOf[f] \in unrechecked => UnitOf[f] \in unrechecked'
ThreadsKept == (Draining => Draining') /\ (IndexIsBack => IndexIsBack')

\* An untouched text.
LEMMA OpenSame ==
    ASSUME NEW f \in Doc, overlay'[f] = overlay[f]
    PROVE  (f \in Open' <=> f \in Open) /\ TextErrors(f)' = TextErrors(f)
BY DEF Open, TextErrors, ReadFile, ErrorsIn

\* What is being told of a document stays what it was.
LEMMA TellSame ==
    ASSUME NEW f \in Doc, TellFine(f), \A e \in Engine : Slot(e, f)' = Slot(e, f), latest'[f] = latest[f], Credited(f) => Credited(f)'
    PROVE  TellFine(f)'
BY DEF TellFine, Telling, SavedErrors

\* What is shown of a document stays what it was.
LEMMA ShownSame ==
    ASSUME NEW f \in Doc, ShownFine(f), SameFor(f)
    PROVE  ShownFine(f)'
<1>1. Doubtful(f)' <=> Doubtful(f)
  BY DEF Doubtful, Telling, SameFor
<1>2. f \in Open' <=> f \in Open
  BY OpenSame DEF SameFor
<1>. QED  BY <1>1, <1>2 DEF ShownFine, SameFor, SavedErrors

\* What was asked for stays asked for.
LEMMA AskedSame ==
    ASSUME NEW f \in Doc, AskedFor(f), AsksKept(f), ThreadsKept, handler'[f].at = handler[f].at, retired \subseteq retired',
           \A e \in Engine : Slot(e, f).at = "checked" => Slot(e, f)'.at = "checked"
    PROVE  AskedFor(f)'
BY DEF AskedFor, AsksKept, ThreadsKept

\* An answer stays an answer while the installed engine and its rechecks do.
LEMMA AnsweredSame ==
    ASSUME NEW f \in Doc, Answered(f), engine' = engine, engine \in Engine, known \subseteq known', idxReady' => idxReady,
           overlay'[f] = overlay[f], shown'[f] = shown[f], f \in outOfOrder => f \in outOfOrder',
           \A e \in Engine : Slot(e, f)' = Slot(e, f)
    PROVE  Answered(f)'
<1>1. TextErrors(f)' = TextErrors(f)
  BY OpenSame
<1>2. \A e \in Engine : Telling(e, f)' <=> Telling(e, f)
  BY DEF Telling
<1>3. Slot(engine, f)' = Slot(engine, f) /\ (Telling(engine, f)' <=> Telling(engine, f))
  BY <1>2
<1>4. FoundOk(f)'
  BY <1>1, <1>3 DEF Answered, FoundOk
<1>5. Coming(f)' <=> Coming(f)
  BY <1>2, <1>3 DEF Coming
<1>. QED  BY <1>1, <1>4, <1>5 DEF Answered

\* A step that leaves a document alone keeps its part of the invariant.
LEMMA DocSame ==
    ASSUME WsInv, NEW f \in Doc, DocFine(f), SameFor(f), AsksKept(f), ThreadsKept,
           engine' = engine, known \subseteq known', retired \subseteq retired', idxReady' => idxReady
    PROVE  DocFine(f)'
<1>1. f \in Open' <=> f \in Open
  BY OpenSame DEF SameFor
<1>2. ClosingFine(f)' /\ KeptFine(f)'
  BY <1>1 DEF DocFine, ClosingFine, KeptFine, SameFor, AsksKept
<1>3. TellFine(f)' /\ ShownFine(f)'
  BY TellSame, ShownSame DEF DocFine, SameFor
<1>4. OpenFine(f)'
  <2>. SUFFICES ASSUME engine # NoEngine, f \in Open \ Outside
                PROVE  AskedFor(f)' \/ Answered(f)'
    BY <1>1 DEF OpenFine
  <2>1. engine \in Engine
    BY DEF WsInv, DiagType, EngineType
  <2>2. CASE AskedFor(f)
    BY <2>2, AskedSame DEF SameFor
  <2>3. CASE Answered(f)
    BY <2>1, <2>3, AnsweredSame DEF SameFor
  <2>. QED  BY <2>2, <2>3 DEF DocFine, OpenFine
<1>. QED  BY <1>2, <1>3, <1>4 DEF DocFine

\* Engines stay in order when what is armed or resolved is of an engine that
\* was built.
LEMMA EnginesSame ==
    ASSUME EnginesInOrder, engine' = engine, retired \subseteq retired', \A e \in Engine : e > engine => e \notin retired',
           \A e \in Engine, u \in Unit : (e > engine /\ <<e, u>> \notin armed \cup known) => <<e, u>> \notin armed' \cup known',
           \A e \in Engine, u \in Unit : (e > engine /\ recheck[<<e, u>>].at = "none") => recheck'[<<e, u>>].at = "none"
    PROVE  EnginesInOrder'
BY DEF EnginesInOrder

\* Threads that neither are nor come to be where the invariant looks.
Aside == {"drop", "store", "drain", "recheck", "discard"}
\* Goroutines that move elsewhere keep the order of engines.
LEMMA ThreadsSame ==
    ASSUME ThreadsInOrder, \A t \in Thread : thr'[t] = thr[t] \/ (thr[t].at \notin Aside /\ thr'[t].at \notin Aside),
           engine' = engine, retired \subseteq retired'
    PROVE  ThreadsInOrder' /\ ThreadsKept
<1>1. ThreadsKept
  BY DEF ThreadsKept, Draining, IndexIsBack, Aside
<1>2. ThreadsInOrder'
  BY DEF ThreadsInOrder, Aside
<1>. QED  BY <1>1, <1>2

\* A step that leaves the documents alone.
LEMMA DocsStill ==
    ASSUME WsInv, QuietInv, UNCHANGED diagVars, ThreadsInOrder', ThreadsKept
    PROVE  QuietInv'
<1>1. UNCHANGED <<overlay, handler, engine, pendingOpens, known, armed, recheck, retired, idxReady, diagFiles, shown, latest, outOfOrder, unrechecked>>
  BY DEF diagVars
<1>2. EnginesInOrder' /\ HandlersInOrder' /\ LatestType'
  BY <1>1 DEF QuietInv, InOrder, EnginesInOrder, HandlersInOrder, LatestType
<1>3. ASSUME NEW f \in Doc PROVE DocFine(f)'
  <2>1. SameFor(f) /\ AsksKept(f)
    BY <1>1 DEF SameFor, AsksKept, Slot, Credited
  <2>. QED  BY <1>1, <2>1, DocSame DEF QuietInv
<1>. QED  BY <1>2, <1>3 DEF QuietInv, InOrder

\* So does a goroutine that is outside what the invariant looks at.
LEMMA DocsUntouched ==
    ASSUME WsInv, QuietInv, UNCHANGED diagVars,
           \A t \in Thread : thr'[t] = thr[t] \/ (thr[t].at \notin Aside /\ thr'[t].at \notin Aside)
    PROVE  QuietInv'
<1>1. engine' = engine /\ retired' = retired
  BY DEF diagVars
<1>2. ThreadsInOrder' /\ ThreadsKept
  BY <1>1, ThreadsSame DEF QuietInv, InOrder
<1>. QED  BY <1>2, DocsStill

-----------------------------------------------------------------------------
(* The handlers of documents.                                              *)

\* A handler's step is about its own document: what it changes of the others
\* is that more may be armed or asked for.
LEMMA HandlerElsewhere ==
    ASSUME WsInv, QuietInv, NEW g \in Doc,
           \A f \in Doc \ {g} : /\ handler'[f] = handler[f] /\ overlay'[f] = overlay[f] /\ shown'[f] = shown[f]
                                /\ latest'[f] = latest[f] /\ Credited(f)' = Credited(f)
                                /\ f \in outOfOrder' <=> f \in outOfOrder
                                /\ AsksKept(f),
           UNCHANGED <<engine, recheck, retired, idxReady, thr>>, known \subseteq known',
           \A e \in Engine, u \in Unit : (e > engine /\ <<e, u>> \notin armed \cup known) => <<e, u>> \notin armed' \cup known',
           handler'[g].at \in {"focus", "arm"} => handler'[g].engine <= engine,
           latest' = latest \/ latest' = [latest EXCEPT ![g] = NoEngine], DocFine(g)'
    PROVE  QuietInv'
<1>1. EnginesInOrder'
  BY EnginesSame DEF QuietInv, InOrder, EnginesInOrder
<1>2. HandlersInOrder'
  BY DEF QuietInv, InOrder, HandlersInOrder
<1>3. ThreadsInOrder' /\ ThreadsKept
  BY ThreadsSame DEF QuietInv, InOrder
<1>4. ASSUME NEW f \in Doc \ {g} PROVE DocFine(f)'
  <2>1. SameFor(f)
    BY DEF SameFor, Slot
  <2>. QED  BY <1>3, <2>1, DocSame DEF QuietInv
<1>5. LatestType'
  BY DEF QuietInv, LatestType
<1>. QED  BY <1>1, <1>2, <1>3, <1>4, <1>5 DEF QuietInv, InOrder

\* What is under way at the engines of a document, when no recheck moves.
LEMMA SlotsSame ==
    ASSUME NEW f \in Doc, UNCHANGED recheck
    PROVE  \A e \in Engine : Slot(e, f)' = Slot(e, f) /\ (Telling(e, f)' <=> Telling(e, f))
BY DEF Slot, Telling

\* An opened document is on its way to the engine.
LEMMA handleDidOpenQuiet ==
    ASSUME WsInv, QuietInv, NEW g \in Doc, handleDidOpen(g), UNCHANGED thr
    PROVE  QuietInv'
<1>. DEFINE h == IF engine = NoEngine THEN [at |-> "mark", engine |-> NoEngine] ELSE [at |-> "focus", engine |-> engine]
<1>1. /\ handler[g].at = "idle" /\ overlay[g] = Closed /\ overlay' = [overlay EXCEPT ![g] = OnDisk[g]]
      /\ handler' = [handler EXCEPT ![g] = h]
      /\ UNCHANGED <<engine, pendingOpens, known, armed, recheck, retired, idxReady, diagFiles, shown, latest, outOfOrder, unrechecked>>
  BY DEF handleDidOpen, histVars
<1>2. handler \in [Doc -> HandlerRecord] /\ overlay \in [Doc -> {Closed} \cup Nat] /\ engine \in {NoEngine} \cup Engine
  BY DEF WsInv, DiagType, HandlerType, EngineType
<1>3. h.engine <= engine /\ (engine = NoEngine => h.at = "mark") /\ (engine # NoEngine => h.at = "focus")
  BY <1>2, DocsAreTyped DEF Engine, NoEngine
<1>. HIDE DEF h
<1>4. handler'[g] = h /\ \A f \in Doc \ {g} : handler'[f] = handler[f] /\ overlay'[f] = overlay[f]
  BY <1>1, <1>2
<1>5. g \in Open'
  BY <1>1, <1>2, DocsAreTyped DEF Open, Closed
<1>6. ClosingFine(g)' /\ KeptFine(g)' /\ OpenFine(g)'
  BY <1>1, <1>3, <1>4, <1>5 DEF ClosingFine, KeptFine, OpenFine, AskedFor
<1>7. TellFine(g)'
  BY <1>1, SlotsSame, TellSame DEF QuietInv, DocFine, Credited
<1>8. ShownFine(g)'
  <2>1. Doubtful(g) => Doubtful(g)'
    BY <1>1, SlotsSame DEF Doubtful
  <2>. QED  BY <1>1, <1>5, <2>1 DEF QuietInv, DocFine, ShownFine, Credited
<1>9. \A f \in Doc \ {g} : AsksKept(f) /\ Credited(f)' = Credited(f)
  BY <1>1 DEF AsksKept, Credited
<1>. QED  BY <1>1, <1>3, <1>4, <1>6, <1>7, <1>8, <1>9, HandlerElsewhere DEF DocFine

\* A document kept for later is pending, or goes on to the engine it saw.
LEMMA markPendingOpenQuiet ==
    ASSUME WsInv, QuietInv, NEW g \in Doc, markPendingOpen(g), UNCHANGED thr
    PROVE  QuietInv'
<1>1. /\ handler[g].at = "mark" /\ pendingOpens' = pendingOpens \cup {g}
      /\ handler' = [handler EXCEPT ![g].at = "reread"]
      /\ UNCHANGED <<overlay, engine, known, armed, recheck, retired, idxReady, diagFiles, shown, latest, outOfOrder, unrechecked>>
  BY DEF markPendingOpen, histVars
<1>2. handler \in [Doc -> HandlerRecord]
  BY DEF WsInv, DiagType, HandlerType
<1>3. handler'[g].at = "reread" /\ \A f \in Doc \ {g} : handler'[f] = handler[f]
  BY <1>1, <1>2 DEF HandlerRecord
<1>4. ClosingFine(g)' /\ KeptFine(g)' /\ OpenFine(g)'
  BY <1>1, <1>3 DEF ClosingFine, KeptFine, OpenFine, AskedFor
<1>5. TellFine(g)'
  BY <1>1, SlotsSame, TellSame DEF QuietInv, DocFine, Credited
<1>6. ShownFine(g)'
  <2>1. Doubtful(g) => Doubtful(g)'
    BY <1>1, SlotsSame DEF Doubtful
  <2>2. g \in Open' <=> g \in Open
    BY <1>1, OpenSame
  <2>. QED  BY <1>1, <2>1, <2>2 DEF QuietInv, DocFine, ShownFine, Credited, SavedErrors
<1>7. \A f \in Doc \ {g} : AsksKept(f) /\ Credited(f)' = Credited(f)
  BY <1>1 DEF AsksKept, Credited
<1>. QED  BY <1>1, <1>3, <1>4, <1>5, <1>6, <1>7, HandlerElsewhere DEF DocFine

\* A handler that was neither clearing nor about to tell comes to rest: what is
\* shown of its document and told of it is as before.
LEMMA RestsQuietly ==
    ASSUME NEW g \in Doc, DocFine(g), handler[g].at \notin {"clear", "notify"}, handler'[g] = Idle,
           UNCHANGED <<overlay, recheck, diagFiles, shown, latest, outOfOrder>>
    PROVE  ClosingFine(g)' /\ TellFine(g)' /\ ShownFine(g)'
<1>1. ClosingFine(g)' /\ handler'[g].at = "idle"
  BY DEF ClosingFine, Idle
<1>2. TellFine(g)'
  BY SlotsSame, TellSame DEF DocFine, Credited
<1>3. ShownFine(g)'
  <2>1. Doubtful(g) => Doubtful(g)'
    BY SlotsSame DEF Doubtful
  <2>2. g \in Open' <=> g \in Open
    BY OpenSame
  <2>. QED  BY <2>1, <2>2 DEF DocFine, ShownFine, Credited, SavedErrors
<1>. QED  BY <1>1, <1>2, <1>3

\* Documents handed to an engine: each is resolved and its unit armed.
LEMMA FocusArms ==
    ASSUME EngineType, NEW e \in Engine, NEW files \in SUBSET Doc, FocusAndInvalidate(e, files)
    PROVE  /\ known \subseteq known' /\ armed \subseteq armed'
           /\ \A f \in files \ Outside : <<e, UnitOf[f]>> \in armed'
           /\ \A d \in Engine, u \in Unit : (d # e /\ <<d, u>> \notin armed \cup known) => <<d, u>> \notin armed' \cup known'
<1>. DEFINE mine == InWorkspace(files)
            k == known \cup {<<e, UnitOf[f]>> : f \in mine}
<1>1. known' = k /\ armed' = armed \cup Rechecks(e, mine, k)
  BY Zenon DEF FocusAndInvalidate
<1>2. \A f \in files \ Outside : <<e, UnitOf[f]>> \in Rechecks(e, mine, k)
  <2>. SUFFICES ASSUME NEW f \in files \ Outside PROVE <<e, UnitOf[f]>> \in Rechecks(e, mine, k)
    OBVIOUS
  <2>1. f \in mine /\ <<e, UnitOf[f]>> \in k /\ UnitOf[f] \in Unit
    BY DocsAreTyped DEF InWorkspace
  <2>2. UnitOf[f] \in {x \in Unit : <<e, x>> \in k /\ \E g \in mine : BaseOf[x] = BaseOf[UnitOf[g]]}
    BY <2>1
  <2>. HIDE DEF k, mine
  <2>. QED  BY <2>2, Zenon DEF Rechecks
<1>3. \A d \in Engine, u \in Unit : d # e => <<d, u>> \notin Rechecks(e, mine, k)
  <2>. HIDE DEF k, mine
  <2>. QED  BY DEF Rechecks
<1>4. \A d \in Engine, u \in Unit : (d # e /\ <<d, u>> \notin known) => <<d, u>> \notin k
  OBVIOUS
<1>. HIDE DEF k, mine
<1>5. known \subseteq k
  BY DEF k
<1>. QED  BY <1>1, <1>2, <1>3, <1>4, <1>5

\* Focusing a document arms its unit, in the installed engine or a retired one.
LEMMA focusOpenedQuiet ==
    ASSUME WsInv, QuietInv, NEW g \in Doc, focusOpened(g), UNCHANGED thr
    PROVE  QuietInv'
<1>1. /\ handler[g].at = "focus" /\ FocusAndInvalidate(handler[g].engine, {g}) /\ handler' = [handler EXCEPT ![g] = Idle]
      /\ UNCHANGED <<overlay, engine, pendingOpens, recheck, retired, idxReady, diagFiles, shown, latest, outOfOrder, unrechecked>>
  BY DEF focusOpened, histVars
<1>2. handler \in [Doc -> HandlerRecord] /\ handler[g].engine \in Engine /\ engine \in {NoEngine} \cup Engine /\ EngineType
  BY <1>1 DEF WsInv, DiagType, HandlerType, EngineType
<1>3. handler[g].engine <= engine
  BY <1>1 DEF QuietInv, InOrder, HandlersInOrder
<1>4. handler'[g] = Idle /\ \A f \in Doc \ {g} : handler'[f] = handler[f]
  BY <1>1, <1>2
<1>5. /\ known \subseteq known' /\ armed \subseteq armed' /\ (g \notin Outside => <<handler[g].engine, UnitOf[g]>> \in armed')
      /\ \A e \in Engine, u \in Unit : (e > engine /\ <<e, u>> \notin armed \cup known) => <<e, u>> \notin armed' \cup known'
  <2>1. /\ known \subseteq known' /\ armed \subseteq armed' /\ \A f \in {g} \ Outside : <<handler[g].engine, UnitOf[f]>> \in armed'
        /\ \A d \in Engine, u \in Unit : (d # handler[g].engine /\ <<d, u>> \notin armed \cup known) => <<d, u>> \notin armed' \cup known'
    BY <1>1, <1>2, FocusArms
  <2>2. \A e \in Engine : e > engine => e # handler[g].engine
    BY <1>2, <1>3, DocsAreTyped DEF Engine, NoEngine
  <2>. QED  BY <2>1, <2>2
<1>6. ClosingFine(g)' /\ TellFine(g)' /\ ShownFine(g)'
  BY <1>1, <1>4, RestsQuietly DEF QuietInv
<1>7. KeptFine(g)'
  <2>1. engine # NoEngine
    BY <1>2, <1>3, DocsAreTyped DEF Engine, NoEngine
  <2>. QED  BY <1>1, <2>1 DEF KeptFine
<1>8. OpenFine(g)'
  BY <1>2, <1>5 DEF OpenFine, AskedFor
<1>9. \A f \in Doc \ {g} : AsksKept(f) /\ Credited(f)' = Credited(f)
  BY <1>1, <1>5 DEF AsksKept, Credited
<1>10. handler'[g].at = "idle"
  BY <1>4 DEF Idle
<1>. QED  BY <1>1, <1>4, <1>5, <1>6, <1>7, <1>8, <1>9, <1>10, HandlerElsewhere DEF DocFine

\* The documents opened while there was no workspace are handed to the
\* installed engine.
LEMMA DrainArms ==
    ASSUME WsInv, QuietInv, engine \in Engine, drainPendingOpens(engine),
           UNCHANGED <<overlay, engine, recheck, retired, idxReady, diagFiles, shown, outOfOrder, unrechecked>>,
           IndexIsBack => IndexIsBack'
    PROVE  /\ \A f \in Doc : (handler[f].at \in {"mark", "focus", "arm"} => handler'[f].at = handler[f].at)
                             => KeptFine(f)' /\ OpenFine(f)'
           /\ EnginesInOrder'
<1>1. EngineType /\ pendingOpens \in SUBSET Doc
  BY DEF WsInv, DiagType, EngineType
<1>2. /\ known \subseteq known' /\ armed \subseteq armed'
      /\ \A f \in pendingOpens \ Outside : <<engine, UnitOf[f]>> \in armed'
      /\ \A d \in Engine, u \in Unit : (d # engine /\ <<d, u>> \notin armed \cup known) => <<d, u>> \notin armed' \cup known'
  BY <1>1, FocusArms DEF drainPendingOpens
<1>3. EnginesInOrder'
  <2>1. \A e \in Engine : e > engine => e # engine
    BY DEF Engine
  <2>. QED  BY <1>2, <2>1, EnginesSame DEF QuietInv, InOrder, EnginesInOrder
<1>4. ASSUME NEW f \in Doc, handler[f].at \in {"mark", "focus", "arm"} => handler'[f].at = handler[f].at
      PROVE  KeptFine(f)' /\ OpenFine(f)'
  <2>1. engine # NoEngine
    BY NoEngineIsNone
  <2>2. f \in Open' <=> f \in Open
    BY OpenSame
  <2>3. KeptFine(f)'
    BY <2>1 DEF KeptFine
  <2>4. SUFFICES ASSUME f \in Open \ Outside PROVE AskedFor(f)' \/ Answered(f)'
    BY <2>2, <2>3 DEF OpenFine
  <2>5. CASE AskedFor(f)
    <3>1. CASE f \in pendingOpens
      BY <1>2, <2>4, <3>1 DEF AskedFor
    <3>2. CASE f \notin pendingOpens
      BY <1>2, <1>4, <2>5, <3>2, SlotsSame DEF AskedFor
    <3>. QED  BY <3>1, <3>2
  <2>6. CASE Answered(f)
    BY <1>2, <2>6, SlotsSame, AnsweredSame
  <2>. QED  BY <2>1, <2>4, <2>5, <2>6 DEF QuietInv, DocFine, OpenFine
<1>. QED  BY <1>3, <1>4

\* A pending document is drained here or by the goroutine that installed the
\* engine.
LEMMA rereadWorkspaceQuiet ==
    ASSUME WsInv, QuietInv, NEW g \in Doc, rereadWorkspace(g), UNCHANGED thr
    PROVE  QuietInv'
<1>1. /\ handler[g].at = "reread" /\ handler' = [handler EXCEPT ![g] = Idle]
      /\ IF engine = NoEngine THEN UNCHANGED <<pendingOpens, known, armed>> ELSE drainPendingOpens(engine)
      /\ UNCHANGED <<overlay, engine, recheck, retired, idxReady, diagFiles, shown, latest, outOfOrder, unrechecked>>
  BY DEF rereadWorkspace, histVars
<1>2. handler \in [Doc -> HandlerRecord] /\ engine \in {NoEngine} \cup Engine
  BY DEF WsInv, DiagType, HandlerType, EngineType
<1>3. handler'[g] = Idle /\ \A f \in Doc \ {g} : handler'[f] = handler[f]
  BY <1>1, <1>2
<1>4. ClosingFine(g)' /\ TellFine(g)' /\ ShownFine(g)' /\ handler'[g].at = "idle"
  BY <1>1, <1>3, RestsQuietly DEF QuietInv, Idle
<1>5. CASE engine = NoEngine
  <2>1. UNCHANGED <<pendingOpens, known, armed>>
    BY <1>1, <1>5
  <2>2. g \in Open' <=> g \in Open
    BY <1>1, OpenSame
  <2>3. KeptFine(g)' /\ OpenFine(g)'
    BY <1>1, <1>5, <2>1, <2>2 DEF KeptFine, OpenFine, QuietInv, DocFine
  <2>4. \A f \in Doc \ {g} : AsksKept(f) /\ Credited(f)' = Credited(f)
    BY <1>1, <2>1 DEF AsksKept, Credited
  <2>. QED  BY <1>1, <1>3, <1>4, <2>1, <2>3, <2>4, HandlerElsewhere DEF DocFine
<1>6. CASE engine # NoEngine
  <2>1. drainPendingOpens(engine) /\ engine \in Engine
    BY <1>1, <1>2, <1>6
  <2>2. IndexIsBack => IndexIsBack'
    BY DEF IndexIsBack
  <2>3. \A f \in Doc : handler[f].at \in {"mark", "focus", "arm"} => handler'[f].at = handler[f].at
    BY <1>1, <1>3
  <2>4. EnginesInOrder' /\ \A f \in Doc : KeptFine(f)' /\ OpenFine(f)'
    BY <1>1, <2>1, <2>2, <2>3, DrainArms
  <2>5. HandlersInOrder' /\ ThreadsInOrder'
    BY <1>1, <1>3, <1>4, ThreadsSame DEF QuietInv, InOrder, HandlersInOrder
  <2>6. ASSUME NEW f \in Doc \ {g} PROVE ClosingFine(f)' /\ TellFine(f)' /\ ShownFine(f)'
    <3>1. SameFor(f)
      BY <1>1, <1>3 DEF SameFor, Slot, Credited
    <3>. QED  BY <3>1, OpenSame, TellSame, ShownSame DEF QuietInv, DocFine, ClosingFine, SameFor
  <2>. QED  BY <1>1, <1>4, <2>4, <2>5, <2>6 DEF QuietInv, InOrder, LatestType, DocFine
<1>. QED  BY <1>5, <1>6

\* An edited document is on its way to the engine it saw.
LEMMA handleDidChangeQuiet ==
    ASSUME WsInv, QuietInv, NEW g \in Doc, NEW v \in Nat, handleDidChange(g, v), UNCHANGED thr
    PROVE  QuietInv'
<1>. DEFINE h == IF engine = NoEngine \/ InWorkspace({g}) = {} THEN Idle ELSE [at |-> "arm", engine |-> engine]
<1>1. /\ handler[g].at = "idle" /\ overlay[g] # Closed /\ overlay' = [overlay EXCEPT ![g] = v]
      /\ handler' = [handler EXCEPT ![g] = h]
      /\ UNCHANGED <<engine, pendingOpens, known, armed, recheck, retired, idxReady, diagFiles, shown, latest, outOfOrder, unrechecked>>
  BY DEF handleDidChange, histVars
<1>2. handler \in [Doc -> HandlerRecord] /\ overlay \in [Doc -> {Closed} \cup Nat] /\ engine \in {NoEngine} \cup Engine
  BY DEF WsInv, DiagType, HandlerType, EngineType
<1>3. /\ h.at \in {"idle", "arm"} /\ (h.at = "arm" => h.engine <= engine)
      /\ (engine # NoEngine /\ g \notin Outside => h.at = "arm")
  BY <1>2, DocsAreTyped DEF Engine, NoEngine, Idle, InWorkspace
<1>. HIDE DEF h
<1>4. handler'[g] = h /\ \A f \in Doc \ {g} : handler'[f] = handler[f] /\ overlay'[f] = overlay[f]
  BY <1>1, <1>2
<1>5. g \in Open /\ g \in Open'
  BY <1>1, <1>2 DEF Open, Closed
<1>6. ClosingFine(g)' /\ KeptFine(g)' /\ OpenFine(g)'
  BY <1>1, <1>3, <1>4, <1>5 DEF ClosingFine, KeptFine, OpenFine, AskedFor, QuietInv, DocFine
<1>7. TellFine(g)'
  BY <1>1, SlotsSame, TellSame DEF QuietInv, DocFine, Credited
<1>8. ShownFine(g)'
  <2>1. Doubtful(g) => Doubtful(g)'
    BY <1>1, SlotsSame DEF Doubtful
  <2>. QED  BY <1>1, <1>5, <2>1 DEF QuietInv, DocFine, ShownFine, Credited
<1>9. \A f \in Doc \ {g} : AsksKept(f) /\ Credited(f)' = Credited(f)
  BY <1>1 DEF AsksKept, Credited
<1>. QED  BY <1>1, <1>3, <1>4, <1>6, <1>7, <1>8, <1>9, HandlerElsewhere DEF DocFine

\* Invalidate arms the unit, or the missed recheck is recorded.
LEMMA armChangedQuiet ==
    ASSUME WsInv, QuietInv, NEW g \in Doc, armChanged(g), UNCHANGED thr
    PROVE  QuietInv'
<1>. DEFINE e == handler[g].engine
<1>1. /\ handler[g].at = "arm" /\ handler' = [handler EXCEPT ![g] = Idle]
      /\ armed' = armed \cup Rechecks(e, InWorkspace({g}), known)
      /\ unrechecked' = IF <<e, UnitOf[g]>> \in armed' THEN unrechecked ELSE unrechecked \cup {UnitOf[g]}
      /\ UNCHANGED <<overlay, engine, pendingOpens, known, recheck, retired, idxReady, diagFiles, shown, latest, outOfOrder>>
  BY DEF armChanged, Invalidate
<1>2. handler \in [Doc -> HandlerRecord] /\ e \in Engine /\ engine \in {NoEngine} \cup Engine
  BY <1>1 DEF WsInv, DiagType, HandlerType, EngineType
<1>3. e <= engine
  BY <1>1 DEF QuietInv, InOrder, HandlersInOrder
<1>4. handler'[g] = Idle /\ \A f \in Doc \ {g} : handler'[f] = handler[f]
  BY <1>1, <1>2
<1>5. \A d \in Engine, u \in Unit : (d > engine /\ <<d, u>> \notin armed \cup known) => <<d, u>> \notin armed' \cup known'
  <2>1. \A d \in Engine : d > engine => d # e
    BY <1>2, <1>3, DocsAreTyped DEF Engine, NoEngine
  <2>2. \A d \in Engine, u \in Unit : d # e => <<d, u>> \notin Rechecks(e, InWorkspace({g}), known)
    BY DEF Rechecks
  <2>. QED  BY <1>1, <2>1, <2>2
<1>. HIDE DEF e
<1>6. ClosingFine(g)' /\ TellFine(g)' /\ ShownFine(g)' /\ handler'[g].at = "idle"
  BY <1>1, <1>4, RestsQuietly DEF QuietInv, Idle
<1>7. KeptFine(g)'
  <2>1. engine # NoEngine
    BY <1>2, <1>3, DocsAreTyped DEF Engine, NoEngine
  <2>. QED  BY <1>1, <2>1 DEF KeptFine
<1>8. OpenFine(g)'
  BY <1>1, <1>2 DEF OpenFine, AskedFor
<1>9. \A f \in Doc \ {g} : AsksKept(f) /\ Credited(f)' = Credited(f)
  BY <1>1 DEF AsksKept, Credited
<1>. QED  BY <1>1, <1>4, <1>5, <1>6, <1>7, <1>8, <1>9, HandlerElsewhere DEF DocFine

\* A closed document is about to be cleared.
LEMMA handleDidCloseQuiet ==
    ASSUME WsInv, QuietInv, NEW g \in Doc, handleDidClose(g), UNCHANGED thr
    PROVE  QuietInv'
<1>1. /\ handler[g].at = "idle" /\ overlay' = [overlay EXCEPT ![g] = Closed] /\ handler' = [handler EXCEPT ![g].at = "clear"]
      /\ UNCHANGED <<engine, pendingOpens, known, armed, recheck, retired, idxReady, diagFiles, shown, latest, outOfOrder, unrechecked>>
  BY DEF handleDidClose, histVars
<1>2. handler \in [Doc -> HandlerRecord] /\ overlay \in [Doc -> {Closed} \cup Nat]
  BY DEF WsInv, DiagType, HandlerType
<1>3. handler'[g].at = "clear" /\ \A f \in Doc \ {g} : handler'[f] = handler[f] /\ overlay'[f] = overlay[f]
  BY <1>1, <1>2 DEF HandlerRecord
<1>4. g \notin Open'
  BY <1>1, <1>2 DEF Open
<1>5. ClosingFine(g)' /\ KeptFine(g)' /\ OpenFine(g)'
  BY <1>4 DEF ClosingFine, KeptFine, OpenFine
<1>6. TellFine(g)'
  BY <1>1, SlotsSame, TellSame DEF QuietInv, DocFine, Credited
<1>7. ShownFine(g)'
  <2>1. Doubtful(g) => Doubtful(g)'
    BY <1>1, SlotsSame DEF Doubtful
  <2>. QED  BY <1>1, <1>3, <2>1 DEF QuietInv, DocFine, ShownFine, Credited
<1>8. \A f \in Doc \ {g} : AsksKept(f) /\ Credited(f)' = Credited(f)
  BY <1>1 DEF AsksKept, Credited
<1>. QED  BY <1>1, <1>3, <1>5, <1>6, <1>7, <1>8, HandlerElsewhere DEF DocFine

\* A closed document loses its credit, and its clearing is the last word.
LEMMA clearDiagnosticsQuiet ==
    ASSUME WsInv, QuietInv, NEW g \in Doc, clearDiagnosticsForClosedFile(g), UNCHANGED thr
    PROVE  QuietInv'
<1>. DEFINE found == \E u \in Unit : g \in diagFiles[u]
            h == IF found THEN [at |-> "notify", engine |-> NoEngine] ELSE Idle
<1>1. /\ handler[g].at = "clear" /\ handler' = [handler EXCEPT ![g] = h]
      /\ diagFiles' = [u \in Unit |-> diagFiles[u] \ {g}]
      /\ latest' = [latest EXCEPT ![g] = IF found THEN NoEngine ELSE @]
      /\ UNCHANGED <<overlay, engine, pendingOpens, known, armed, recheck, retired, idxReady, shown, outOfOrder, unrechecked>>
  BY DEF clearDiagnosticsForClosedFile
<1>2. handler \in [Doc -> HandlerRecord] /\ \A f \in Doc : UnitOf[f] \in Unit
  BY DocsAreTyped DEF WsInv, DiagType, HandlerType
<1>3. (found => h.at = "notify") /\ (~found => h.at = "idle")
  BY DEF Idle
<1>4. ~found => ~Credited(g)
  BY <1>2 DEF Credited
<1>. HIDE DEF h, found
<1>5. handler'[g] = h /\ \A f \in Doc \ {g} : handler'[f] = handler[f] /\ latest'[f] = latest[f]
  BY <1>1, <1>2
<1>6. g \notin Open /\ g \notin Open'
  BY <1>1, OpenSame DEF QuietInv, DocFine, ClosingFine
<1>7. ClosingFine(g)' /\ KeptFine(g)' /\ OpenFine(g)'
  BY <1>6 DEF ClosingFine, KeptFine, OpenFine
<1>8. TellFine(g)'
  <2>1. CASE found
    <3>1. \A e \in Engine : latest'[g] # e
      BY <1>1, <2>1, NoEngineIsNone DEF QuietInv, LatestType
    <3>. QED  BY <1>1, <3>1, SlotsSame DEF QuietInv, DocFine, TellFine, SavedErrors
  <2>2. CASE ~found
    <3>1. latest'[g] = latest[g]
      BY <1>1, <2>2
    <3>. QED  BY <1>1, <1>4, <2>2, <3>1, SlotsSame DEF QuietInv, DocFine, TellFine, SavedErrors
  <2>. QED  BY <2>1, <2>2
<1>9. ShownFine(g)'
  <2>1. CASE found
    BY <1>3, <1>5, <2>1 DEF ShownFine, Doubtful
  <2>2. CASE ~found
    <3>1. Doubtful(g) => Doubtful(g)'
      BY <1>1, SlotsSame DEF Doubtful
    <3>2. shown[g] \in {Unseen, {}} \/ Doubtful(g)
      BY <1>4, <2>2 DEF QuietInv, DocFine, ShownFine
    <3>. QED  BY <1>1, <3>1, <3>2 DEF ShownFine
  <2>. QED  BY <2>1, <2>2
<1>10. ASSUME NEW f \in Doc \ {g} PROVE AsksKept(f) /\ Credited(f)' = Credited(f)
  BY <1>1, <1>2 DEF AsksKept, Credited
<1>11. latest' = latest \/ latest' = [latest EXCEPT ![g] = NoEngine]
  BY <1>1 DEF QuietInv, LatestType
<1>. QED  BY <1>1, <1>3, <1>5, <1>7, <1>8, <1>9, <1>10, <1>11, HandlerElsewhere DEF DocFine

\* The clearing is shown, or is out of order.
LEMMA notifyClosedQuiet ==
    ASSUME WsInv, QuietInv, NEW g \in Doc, notifyClosed(g), UNCHANGED thr
    PROVE  QuietInv'
<1>1. /\ handler[g].at = "notify" /\ handler' = [handler EXCEPT ![g] = Idle] /\ shown' = [shown EXCEPT ![g] = {}]
      /\ outOfOrder' = IF latest[g] # NoEngine THEN outOfOrder \cup {g} ELSE outOfOrder \ {g}
      /\ UNCHANGED <<overlay, engine, pendingOpens, known, armed, recheck, retired, idxReady, diagFiles, latest, unrechecked>>
  BY DEF notifyClosed
<1>2. handler \in [Doc -> HandlerRecord] /\ shown \in [Doc -> {Unseen} \cup SUBSET Said]
  BY DEF WsInv, DiagType, HandlerType, SaidType
<1>3. /\ handler'[g] = Idle /\ handler'[g].at = "idle" /\ shown'[g] = {}
      /\ \A f \in Doc \ {g} : handler'[f] = handler[f] /\ shown'[f] = shown[f]
  BY <1>1, <1>2 DEF Idle
<1>4. g \notin Open /\ g \notin Open'
  BY <1>1, OpenSame DEF QuietInv, DocFine, ClosingFine
<1>5. ClosingFine(g)' /\ KeptFine(g)' /\ OpenFine(g)'
  BY <1>4 DEF ClosingFine, KeptFine, OpenFine
<1>6. TellFine(g)'
  BY <1>1, SlotsSame, TellSame DEF QuietInv, DocFine, Credited
<1>7. ShownFine(g)'
  BY <1>3 DEF ShownFine
<1>8. \A f \in Doc \ {g} : AsksKept(f) /\ Credited(f)' = Credited(f) /\ (f \in outOfOrder' <=> f \in outOfOrder)
  BY <1>1 DEF AsksKept, Credited
<1>. QED  BY <1>1, <1>3, <1>5, <1>6, <1>7, <1>8, HandlerElsewhere DEF DocFine

-----------------------------------------------------------------------------
(* The steps of the check units.                                           *)

\* One recheck record is replaced.
LEMMA SlotReplaced ==
    ASSUME WsInv, NEW e \in Engine, NEW u \in Unit, NEW r, recheck' = [recheck EXCEPT ![<<e, u>>] = r]
    PROVE  /\ \A f \in FilesOf(u) : Slot(e, f)' = r
           /\ \A d \in Engine, f \in Doc : ~(d = e /\ f \in FilesOf(u)) => Slot(d, f)' = Slot(d, f)
           /\ \A d \in Engine, v \in Unit : d # e => recheck'[<<d, v>>] = recheck[<<d, v>>]
<1>1. recheck \in [Engine \X Unit -> RecheckRecord] /\ \A f \in Doc : UnitOf[f] \in Unit
  BY DocsAreTyped DEF WsInv, DiagType, RecheckType
<1>. QED  BY <1>1 DEF Slot, FilesOf

\* A step of a unit is about its files.
LEMMA UnitElsewhere ==
    ASSUME WsInv, QuietInv, NEW e \in Engine, NEW u \in Unit, NEW r, recheck' = [recheck EXCEPT ![<<e, u>>] = r], ~(e > engine),
           UNCHANGED <<overlay, handler, engine, pendingOpens, retired, idxReady, thr>>,
           known \subseteq known', \A d \in Engine, v \in Unit : (d # e /\ <<d, v>> \notin armed \cup known) => <<d, v>> \notin armed' \cup known',
           \A f \in Doc \ FilesOf(u) : /\ shown'[f] = shown[f] /\ latest'[f] = latest[f] /\ Credited(f)' = Credited(f)
                                       /\ f \in outOfOrder' <=> f \in outOfOrder
                                       /\ AsksKept(f),
           LatestType', \A f \in FilesOf(u) : OpenFine(f)' /\ TellFine(f)' /\ ShownFine(f)'
    PROVE  QuietInv'
<1>1. /\ \A d \in Engine, f \in Doc : ~(d = e /\ f \in FilesOf(u)) => Slot(d, f)' = Slot(d, f)
      /\ \A d \in Engine, v \in Unit : d # e => recheck'[<<d, v>>] = recheck[<<d, v>>]
  BY SlotReplaced
<1>2. \A d \in Engine : d > engine => d # e
  OBVIOUS
<1>3. EnginesInOrder'
  BY <1>1, <1>2, EnginesSame DEF QuietInv, InOrder, EnginesInOrder
<1>4. HandlersInOrder' /\ ThreadsInOrder' /\ ThreadsKept
  BY ThreadsSame DEF QuietInv, InOrder, HandlersInOrder
<1>5. ASSUME NEW f \in Doc \ FilesOf(u) PROVE DocFine(f)'
  <2>1. SameFor(f)
    BY <1>1 DEF SameFor
  <2>. QED  BY <1>4, <2>1, DocSame DEF QuietInv
<1>6. ASSUME NEW f \in FilesOf(u) PROVE DocFine(f)'
  <2>1. f \in Doc
    BY DEF FilesOf
  <2>2. f \in Open' <=> f \in Open
    BY <2>1, OpenSame
  <2>. QED  BY <2>1, <2>2 DEF DocFine, ClosingFine, KeptFine, QuietInv
<1>. QED  BY <1>3, <1>4, <1>5, <1>6 DEF QuietInv, InOrder, FilesOf

\* What a file of a unit is told by the units of other engines.
LEMMA SlotsElsewhere ==
    ASSUME WsInv, NEW e \in Engine, NEW u \in Unit, NEW r, recheck' = [recheck EXCEPT ![<<e, u>>] = r], NEW f \in FilesOf(u)
    PROVE  /\ f \in Doc /\ UnitOf[f] = u /\ Slot(e, f) = recheck[<<e, u>>] /\ Slot(e, f)' = r
           /\ \A d \in Engine \ {e} : Slot(d, f)' = Slot(d, f) /\ (Telling(d, f)' <=> Telling(d, f))
<1>1. f \in Doc /\ UnitOf[f] = u
  BY DEF FilesOf
<1>2. Slot(e, f)' = r
  BY SlotReplaced, Zenon
<1>3. ASSUME NEW d \in Engine \ {e} PROVE Slot(d, f)' = Slot(d, f)
  <2>1. \A x \in Engine, g \in Doc : ~(x = e /\ g \in FilesOf(u)) => Slot(x, g)' = Slot(x, g)
    BY SlotReplaced, Zenon
  <2>. QED  BY <1>1, <2>1
<1>. QED  BY <1>1, <1>2, <1>3 DEF Telling, Slot

\* What a recheck finds now in an open file is of its text, and in a closed one
\* of the saved text.
LEMMA FoundNow ==
    ASSUME HandlerType, NEW f \in Doc, NEW x, x = ErrorsIn(ReadFile(f)) \cup (IF HeldBack(f) THEN {Gate} ELSE {})
    PROVE  /\ x \ {Gate} = TextErrors(f) /\ (idxReady => Gate \notin x)
           /\ f \notin Open => x \ {Gate} = SavedErrors(f)
<1>1. Gate \notin ErrorsIn(ReadFile(f))
  BY TextTypes DEF Gate
<1>2. f \notin Open => ReadFile(f) = OnDisk[f]
  BY DEF Open, ReadFile
<1>. QED  BY <1>1, <1>2 DEF TextErrors, SavedErrors, HeldBack

\* A recheck that starts has what its files say now.
LEMMA fireRecheckQuiet ==
    ASSUME WsInv, QuietInv, NEW e \in Engine, NEW u \in Unit, fireRecheck(e, u), UNCHANGED thr
    PROVE  QuietInv'
<1>. DEFINE found == [f \in Doc |-> IF f \notin FilesOf(u) THEN {}
                                    ELSE ErrorsIn(ReadFile(f)) \cup (IF HeldBack(f) THEN {Gate} ELSE {})]
            r == [at |-> "checked", tell |-> {}, says |-> [f \in Doc |-> {}], open |-> Open \cap FilesOf(u), found |-> found]
<1>1. /\ UNCHANGED <<overlay, handler, engine, pendingOpens, retired, idxReady, diagFiles, shown, latest, outOfOrder>>
      /\ <<e, u>> \in armed /\ recheck[<<e, u>>].at \in {"none", "checked"}
      /\ armed' = armed \ {<<e, u>>} /\ known' = known \cup {<<e, u>>}
      /\ unrechecked' = IF e = engine THEN unrechecked \ {u} ELSE unrechecked
      /\ recheck' = [recheck EXCEPT ![<<e, u>>] = r]
  BY Zenon DEF fireRecheck
<1>2. HandlerType /\ engine \in {NoEngine} \cup Engine /\ \A f \in Doc : UnitOf[f] \in Unit
  BY DocsAreTyped DEF WsInv, DiagType, EngineType
<1>3. ~(e > engine) /\ (e # engine => e \in retired)
  <2>1. ~(e > engine) /\ (e < engine => e \in retired)
    BY <1>1 DEF QuietInv, InOrder, EnginesInOrder
  <2>. QED  BY <1>2, <2>1, DocsAreTyped DEF Engine, NoEngine
<1>4. ASSUME NEW f \in FilesOf(u)
      PROVE  /\ found[f] \ {Gate} = TextErrors(f) /\ (idxReady => Gate \notin found[f])
             /\ f \notin Open => found[f] \ {Gate} = SavedErrors(f)
  <2>1. f \in Doc /\ found[f] = ErrorsIn(ReadFile(f)) \cup (IF HeldBack(f) THEN {Gate} ELSE {})
    BY DEF FilesOf
  <2>. HIDE DEF found
  <2>. QED  BY <1>2, <2>1, FoundNow
<1>. HIDE DEF found
<1>5. r.at = "checked" /\ r.tell = {} /\ r.open = Open \cap FilesOf(u) /\ r.found = found
  OBVIOUS
<1>. HIDE DEF r
<1>6. ASSUME NEW f \in FilesOf(u)
      PROVE  OpenFine(f)' /\ TellFine(f)' /\ ShownFine(f)'
  <2>1. /\ f \in Doc /\ UnitOf[f] = u /\ Slot(e, f) = recheck[<<e, u>>] /\ Slot(e, f)' = r
        /\ \A d \in Engine \ {e} : Slot(d, f)' = Slot(d, f) /\ (Telling(d, f)' <=> Telling(d, f))
    BY <1>1, SlotsElsewhere
  <2>2. ~Telling(e, f) /\ ~Telling(e, f)'
    BY <1>1, <1>5, <2>1 DEF Telling
  <2>3. (f \in Open' <=> f \in Open) /\ TextErrors(f)' = TextErrors(f)
    BY <1>1, <2>1, OpenSame
  <2>4. OpenFine(f)'
    <3>1. CASE e = engine
      <4>1. FoundOk(f)'
        BY <1>1, <1>4, <1>5, <2>1, <2>2, <2>3, <3>1 DEF FoundOk
      <4>. QED  BY <1>1, <1>5, <2>1, <3>1, <4>1 DEF OpenFine, Answered, Coming
    <3>2. CASE e # engine
      BY <1>1, <1>3, <1>5, <2>1, <3>2 DEF OpenFine, AskedFor
    <3>. QED  BY <3>1, <3>2
  <2>5. TellFine(f)'
    <3>1. f \notin r.open => r.found[f] \ {Gate} = SavedErrors(f)
      BY <1>4, <1>5
    <3>2. TellFine(f)
      BY <2>1 DEF QuietInv, DocFine
    <3>3. Credited(f)' <=> Credited(f)
      BY <1>1 DEF Credited
    <3>. QED  BY <1>1, <2>1, <2>2, <3>1, <3>2, <3>3 DEF TellFine, SavedErrors
  <2>6. ShownFine(f)'
    <3>1. Doubtful(f) => Doubtful(f)'
      BY <1>1, <2>1, <2>2 DEF Doubtful
    <3>2. ShownFine(f)
      BY <2>1 DEF QuietInv, DocFine
    <3>3. Credited(f)' <=> Credited(f)
      BY <1>1 DEF Credited
    <3>. QED  BY <1>1, <2>3, <3>1, <3>2, <3>3 DEF ShownFine, SavedErrors
  <2>. QED  BY <2>4, <2>5, <2>6
<1>7. \A f \in Doc \ FilesOf(u) : AsksKept(f) /\ Credited(f)' = Credited(f)
  BY <1>1 DEF AsksKept, Credited, FilesOf
<1>8. LatestType'
  BY <1>1 DEF QuietInv, LatestType
<1>9. known \subseteq known' /\ \A d \in Engine, v \in Unit : (d # e /\ <<d, v>> \notin armed \cup known) => <<d, v>> \notin armed' \cup known'
  BY <1>1
<1>. QED  BY <1>1, <1>3, <1>6, <1>7, <1>8, <1>9, UnitElsewhere

\* A recheck found out of date is armed again; the others are published.
LEMMA commitQuiet ==
    ASSUME WsInv, QuietInv, NEW e \in Engine, NEW u \in Unit, commit(e, u), UNCHANGED thr
    PROVE  QuietInv'
<1>. DEFINE s == [recheck[<<e, u>>] EXCEPT !.at = "publish"]
            r == IF e \in retired THEN NoRecheck ELSE s
<1>1. /\ UNCHANGED <<overlay, handler, engine, pendingOpens, known, armed, retired, idxReady, diagFiles, shown, latest, outOfOrder>>
      /\ recheck[<<e, u>>].at = "checked" /\ recheck' = [recheck EXCEPT ![<<e, u>>] = r]
      /\ unrechecked \subseteq unrechecked' /\ (e \in retired => u \in unrechecked')
  BY DEF commit
<1>2. recheck[<<e, u>>] \in RecheckRecord
  BY RecheckFields DEF WsInv, DiagType
<1>3. /\ e \in retired => r.at = "none"
      /\ e \notin retired => r.at = "publish" /\ r.found = recheck[<<e, u>>].found /\ r.open = recheck[<<e, u>>].open
  BY <1>2 DEF NoRecheck, RecheckRecord
<1>. HIDE DEF s, r
<1>4. ~(e > engine)
  BY <1>1 DEF QuietInv, InOrder, EnginesInOrder
<1>5. ASSUME NEW f \in FilesOf(u)
      PROVE  OpenFine(f)' /\ TellFine(f)' /\ ShownFine(f)'
  <2>1. /\ f \in Doc /\ UnitOf[f] = u /\ Slot(e, f) = recheck[<<e, u>>] /\ Slot(e, f)' = r
        /\ \A d \in Engine \ {e} : Slot(d, f)' = Slot(d, f) /\ (Telling(d, f)' <=> Telling(d, f))
    BY <1>1, SlotsElsewhere
  <2>2. ~Telling(e, f) /\ ~Telling(e, f)'
    BY <1>1, <1>3, <2>1 DEF Telling
  <2>3. (f \in Open' <=> f \in Open) /\ TextErrors(f)' = TextErrors(f)
    BY <1>1, <2>1, OpenSame
  <2>4. OpenFine(f)'
    <3>. SUFFICES ASSUME e \notin retired, engine # NoEngine, f \in Open \ Outside
                  PROVE  AskedFor(f)' \/ Answered(f)'
      BY <1>1, <2>1, <2>3 DEF OpenFine, AskedFor
    <3>1. engine \in Engine
      BY DEF WsInv, DiagType, EngineType
    <3>2. CASE AskedFor(f)
      BY <1>1, <2>1, <3>2 DEF AskedFor, Draining, IndexIsBack
    <3>3. CASE Answered(f)
      <4>1. FoundOk(f)'
        BY <1>1, <1>3, <2>1, <2>2, <2>3, <3>1, <3>3 DEF Answered, FoundOk
      <4>2. Coming(f)'
        BY <1>3, <2>1 DEF Coming
      <4>. QED  BY <1>1, <3>3, <4>1, <4>2 DEF Answered
    <3>. QED  BY <2>1, <3>2, <3>3 DEF QuietInv, DocFine, OpenFine
  <2>5. TellFine(f)'
    <3>1. TellFine(f)
      BY <2>1 DEF QuietInv, DocFine
    <3>2. Credited(f)' <=> Credited(f)
      BY <1>1 DEF Credited
    <3>. QED  BY <1>1, <1>3, <2>1, <2>2, <3>1, <3>2 DEF TellFine, SavedErrors
  <2>6. ShownFine(f)'
    <3>1. Doubtful(f) => Doubtful(f)'
      BY <1>1, <2>1, <2>2 DEF Doubtful
    <3>2. ShownFine(f)
      BY <2>1 DEF QuietInv, DocFine
    <3>3. Credited(f)' <=> Credited(f)
      BY <1>1 DEF Credited
    <3>. QED  BY <1>1, <2>3, <3>1, <3>2, <3>3 DEF ShownFine, SavedErrors
  <2>. QED  BY <2>4, <2>5, <2>6
<1>6. \A f \in Doc \ FilesOf(u) : AsksKept(f) /\ Credited(f)' = Credited(f)
  BY <1>1 DEF AsksKept, Credited
<1>7. LatestType'
  BY <1>1 DEF QuietInv, LatestType
<1>. QED  BY <1>1, <1>4, <1>5, <1>6, <1>7, UnitElsewhere

\* What a publication decides of a file: who is told something is credited with
\* it, who is told nothing keeps its credit, and once the index is ready every
\* open file is told.
LEMMA ToldOf ==
    ASSUME NEW u \in Unit, NEW found, NEW f \in FilesOf(u)
    PROVE  LET told == emptyFiles(u, found) \cup {g \in FilesOf(u) : byFile(found)[g] # {}}
               next == nextDiagFiles(u, found)
           IN  /\ byFile(found)[f] = IF idxReady THEN found[f] ELSE found[f] \ {Gate}
               /\ byFile(found)[f] # {} => f \in next
               /\ (f \in diagFiles[u] /\ f \notin told) => f \in next
               /\ (idxReady /\ f \in Open) => f \in told
<1>. DEFINE said == byFile(found)[f]
            gated == gatedFiles(found)
<1>1. f \in Doc
  BY DEF FilesOf
<1>2. said = IF idxReady THEN found[f] ELSE found[f] \ {Gate}
  BY <1>1 DEF byFile
<1>3. idxReady => f \notin gated
  BY DEF gatedFiles
<1>4. f \in nextDiagFiles(u, found) <=> (said # {} \/ (f \in gated /\ f \in diagFiles[u]))
  BY DEF nextDiagFiles
<1>5. f \in emptyFiles(u, found) <=>
        \/ f \in diagFiles[u] /\ f \notin nextDiagFiles(u, found) /\ f \notin gated
        \/ f \in Open /\ f \notin nextDiagFiles(u, found) /\ f \notin diagFiles[u] /\ f \notin gated
  BY DEF emptyFiles
<1>6. f \in {g \in FilesOf(u) : byFile(found)[g] # {}} <=> said # {}
  OBVIOUS
<1>. HIDE DEF said, gated
<1>. QED  BY <1>2, <1>3, <1>4, <1>5, <1>6 DEF said

\* A publication credits the unit with whom it tells something.
LEMMA updateDiagFilesQuiet ==
    ASSUME WsInv, QuietInv, NEW e \in Engine, NEW u \in Unit, updateDiagFiles(e, u), UNCHANGED thr
    PROVE  QuietInv'
<1>. DEFINE old == recheck[<<e, u>>]
            said == byFile(old.found)
            told == emptyFiles(u, old.found) \cup {f \in FilesOf(u) : byFile(old.found)[f] # {}}
            next == nextDiagFiles(u, old.found)
            s == [old EXCEPT !.at = "notify", !.tell = told, !.says = said]
            r == IF told = {} THEN NoRecheck ELSE s
<1>1. /\ UNCHANGED <<overlay, handler, engine, pendingOpens, known, armed, retired, idxReady, shown, outOfOrder, unrechecked>>
      /\ old.at = "publish" /\ diagFiles' = [diagFiles EXCEPT ![u] = next]
      /\ recheck' = [recheck EXCEPT ![<<e, u>>] = r]
      /\ latest' = [f \in Doc |-> IF f \in told THEN e ELSE latest[f]]
  BY Zenon DEF updateDiagFiles
<1>2. /\ recheck[<<e, u>>] \in RecheckRecord /\ diagFiles \in [Unit -> SUBSET Doc] /\ told \subseteq FilesOf(u)
      /\ \A f \in Doc : UnitOf[f] \in Unit
  <2>1. recheck[<<e, u>>] \in RecheckRecord /\ diagFiles \in [Unit -> SUBSET Doc] /\ diagFiles[u] \subseteq FilesOf(u)
    BY RecheckFields DEF WsInv, DiagType, SaidType
  <2>2. emptyFiles(u, old.found) \subseteq FilesOf(u)
    BY <2>1 DEF emptyFiles
  <2>. QED  BY <2>1, <2>2, DocsAreTyped
<1>3. ASSUME NEW f \in FilesOf(u)
      PROVE  /\ said[f] = IF idxReady THEN old.found[f] ELSE old.found[f] \ {Gate}
             /\ said[f] # {} => f \in next
             /\ (f \in diagFiles[u] /\ f \notin told) => f \in next
             /\ (idxReady /\ f \in Open) => f \in told
  BY ToldOf
<1>. HIDE DEF told, next, said
<1>4. /\ told = {} => r.at = "none"
      /\ told # {} => r.at = "notify" /\ r.tell = told /\ r.says = said /\ r.open = old.open
  BY <1>2 DEF NoRecheck, RecheckRecord
<1>. HIDE DEF s, r
<1>5. ~(e > engine)
  BY <1>1 DEF QuietInv, InOrder, EnginesInOrder
<1>6. ASSUME NEW f \in FilesOf(u)
      PROVE  OpenFine(f)' /\ TellFine(f)' /\ ShownFine(f)'
  <2>1. /\ f \in Doc /\ UnitOf[f] = u /\ Slot(e, f) = old /\ Slot(e, f)' = r
        /\ \A d \in Engine \ {e} : Slot(d, f)' = Slot(d, f) /\ (Telling(d, f)' <=> Telling(d, f))
    BY <1>1, SlotsElsewhere
  <2>2. ~Telling(e, f) /\ (Telling(e, f)' <=> f \in told) /\ (f \in told => r.says[f] = said[f] /\ r.open = old.open)
    BY <1>1, <1>4, <2>1 DEF Telling
  <2>3. (f \in Open' <=> f \in Open) /\ TextErrors(f)' = TextErrors(f)
    BY <1>1, <2>1, OpenSame
  <2>4. /\ Credited(f)' <=> f \in next
        /\ Credited(f) <=> f \in diagFiles[u]
        /\ latest'[f] = IF f \in told THEN e ELSE latest[f]
    BY <1>1, <1>2, <2>1 DEF Credited
  <2>5. r.at \in {"none", "notify"}
    BY <1>4
  <2>6. OpenFine(f)'
    <3>. SUFFICES ASSUME engine # NoEngine, f \in Open \ Outside
                  PROVE  AskedFor(f)' \/ Answered(f)'
      BY <1>1, <2>1, <2>3 DEF OpenFine, AskedFor
    <3>1. engine \in Engine
      BY DEF WsInv, DiagType, EngineType
    <3>2. CASE AskedFor(f)
      BY <1>1, <2>1, <3>2 DEF AskedFor, Draining, IndexIsBack
    <3>3. CASE Answered(f)
      <4>1. FoundOk(f)'
        <5>1. CASE e = engine
          <6>1. old.found[f] \ {Gate} = TextErrors(f) /\ (idxReady => Gate \notin old.found[f])
            BY <1>1, <2>1, <3>3, <5>1 DEF Answered, FoundOk
          <6>2. said[f] = TextErrors(f)
            BY <1>3, <6>1
          <6>. QED  BY <1>1, <2>1, <2>2, <2>3, <2>5, <5>1, <6>2 DEF FoundOk
        <5>2. CASE e # engine
          BY <1>1, <2>1, <2>3, <3>1, <3>3, <5>2 DEF Answered, FoundOk
        <5>. QED  BY <5>1, <5>2
      <4>2. Coming(f)' \/ (idxReady' => shown'[f] = TextErrors(f)')
        BY <1>1, <1>3, <2>2 DEF Coming
      <4>. QED  BY <1>1, <3>3, <4>1, <4>2 DEF Answered
    <3>. QED  BY <2>1, <3>2, <3>3 DEF QuietInv, DocFine, OpenFine
  <2>7. TellFine(f)
    BY <2>1 DEF QuietInv, DocFine
  <2>8. TellFine(f)'
    <3>1. ASSUME NEW d \in Engine \ {e}, Telling(d, f)', latest'[f] = d PROVE Slot(d, f)'.says[f] = {} \/ Credited(f)'
      <4>1. f \notin told /\ latest[f] = d
        BY <2>4, <3>1
      <4>. QED  BY <1>3, <2>1, <2>4, <2>7, <3>1, <4>1 DEF TellFine
    <3>2. Telling(e, f)' => Slot(e, f)'.says[f] = {} \/ Credited(f)'
      BY <1>3, <2>1, <2>2, <2>4
    <3>3. (f \notin Slot(e, f)'.open /\ Telling(e, f)') => Slot(e, f)'.says[f] \ {Gate} = SavedErrors(f)
      BY <1>1, <1>3, <2>1, <2>2, <2>7 DEF TellFine
    <3>4. Slot(e, f)'.at \notin {"checked", "publish"}
      BY <2>1, <2>5
    <3>. QED  BY <2>1, <2>7, <3>1, <3>2, <3>3, <3>4 DEF TellFine, SavedErrors
  <2>9. ShownFine(f)'
    <3>1. (Doubtful(f) => Doubtful(f)') /\ (f \in told => Doubtful(f)')
      BY <1>1, <2>1, <2>2 DEF Doubtful
    <3>2. ShownFine(f)
      BY <2>1 DEF QuietInv, DocFine
    <3>3. Credited(f) /\ f \notin told => Credited(f)'
      BY <1>3, <2>4
    <3>. QED  BY <1>1, <2>3, <3>1, <3>2, <3>3 DEF ShownFine, SavedErrors
  <2>. QED  BY <2>6, <2>8, <2>9
<1>7. ASSUME NEW f \in Doc \ FilesOf(u) PROVE AsksKept(f) /\ Credited(f)' = Credited(f) /\ latest'[f] = latest[f]
  <2>1. f \notin told /\ UnitOf[f] # u
    BY <1>2 DEF FilesOf
  <2>. QED  BY <1>1, <1>2, <2>1 DEF AsksKept, Credited
<1>8. LatestType'
  BY <1>1 DEF QuietInv, LatestType
<1>. QED  BY <1>1, <1>5, <1>6, <1>7, <1>8, UnitElsewhere

\* A file that is told is shown what it was told, or is out of order.
LEMMA notifyDiagnosticsQuiet ==
    ASSUME WsInv, QuietInv, NEW e \in Engine, NEW u \in Unit, NEW g \in Doc, notifyDiagnostics(e, u, g), UNCHANGED thr
    PROVE  QuietInv'
<1>. DEFINE old == recheck[<<e, u>>]
            stale == latest[g] # e \/ e \in retired \/ (g \in old.open) # (g \in Open)
            s == [old EXCEPT !.tell = @ \ {g}]
            r == IF old.tell = {g} THEN NoRecheck ELSE s
<1>1. /\ UNCHANGED <<overlay, handler, engine, pendingOpens, known, armed, retired, idxReady, diagFiles, latest, unrechecked>>
      /\ old.at = "notify" /\ g \in old.tell /\ shown' = [shown EXCEPT ![g] = old.says[g]]
      /\ recheck' = [recheck EXCEPT ![<<e, u>>] = r]
      /\ outOfOrder' = IF stale THEN outOfOrder \cup {g} ELSE outOfOrder \ {g}
  BY Zenon DEF notifyDiagnostics
<1>2. recheck[<<e, u>>] \in RecheckRecord /\ g \in FilesOf(u) /\ shown \in [Doc -> {Unseen} \cup SUBSET Said]
  BY <1>1, RecheckFields DEF WsInv, DiagType, SaidType
<1>3. /\ r.at \in {"none", "notify"} /\ (r.at = "notify" => r.tell = old.tell \ {g} /\ r.says = old.says /\ r.open = old.open)
      /\ r.at = "none" => old.tell = {g}
  BY <1>1, <1>2 DEF NoRecheck, RecheckRecord
<1>4. ~(e > engine) /\ (~stale => e = engine)
  <2>1. ~(e > engine) /\ (e < engine => e \in retired)
    BY <1>1 DEF QuietInv, InOrder, EnginesInOrder
  <2>2. engine \in {NoEngine} \cup Engine
    BY DEF WsInv, DiagType, EngineType
  <2>. QED  BY <2>1, <2>2, DocsAreTyped DEF Engine, NoEngine
<1>5. shown'[g] = old.says[g] /\ \A f \in Doc \ {g} : shown'[f] = shown[f] /\ (f \in outOfOrder' <=> f \in outOfOrder)
  BY <1>1, <1>2
<1>6. ~stale => latest[g] = e /\ (g \in old.open <=> g \in Open)
  OBVIOUS
<1>. HIDE DEF s, r, stale
<1>7. ASSUME NEW f \in FilesOf(u)
      PROVE  OpenFine(f)' /\ TellFine(f)' /\ ShownFine(f)'
  <2>1. /\ f \in Doc /\ UnitOf[f] = u /\ Slot(e, f) = old /\ Slot(e, f)' = r
        /\ \A d \in Engine \ {e} : Slot(d, f)' = Slot(d, f) /\ (Telling(d, f)' <=> Telling(d, f))
    BY <1>1, SlotsElsewhere
  <2>2. /\ Telling(e, f)' <=> (Telling(e, f) /\ f # g)
        /\ Telling(e, f)' => r.says = old.says /\ r.open = old.open
    BY <1>1, <1>3, <2>1 DEF Telling
  <2>3. (f \in Open' <=> f \in Open) /\ TextErrors(f)' = TextErrors(f)
    BY <1>1, <2>1, OpenSame
  <2>4. Credited(f)' <=> Credited(f)
    BY <1>1 DEF Credited
  <2>5. f = g => Telling(e, f)
    BY <1>1, <2>1 DEF Telling
  <2>6. OpenFine(f)'
    <3>. SUFFICES ASSUME engine # NoEngine, f \in Open \ Outside
                  PROVE  AskedFor(f)' \/ Answered(f)'
      BY <1>1, <2>1, <2>3 DEF OpenFine, AskedFor
    <3>1. engine \in Engine
      BY DEF WsInv, DiagType, EngineType
    <3>2. CASE AskedFor(f)
      BY <1>1, <2>1, <3>2 DEF AskedFor, Draining, IndexIsBack
    <3>3. CASE Answered(f)
      <4>1. FoundOk(f)'
        BY <1>1, <1>3, <2>1, <2>2, <2>3, <3>1, <3>3 DEF Answered, FoundOk
      <4>2. CASE f = g
        <5>1. CASE stale
          BY <1>1, <3>3, <4>1, <4>2, <5>1 DEF Answered
        <5>2. CASE ~stale
          <6>1. shown'[f] = TextErrors(f)'
            BY <1>4, <1>5, <2>1, <2>3, <2>5, <3>3, <4>2, <5>2 DEF Answered, FoundOk
          <6>. QED  BY <1>1, <3>3, <4>1, <6>1 DEF Answered
        <5>. QED  BY <5>1, <5>2
      <4>3. CASE f # g
        <5>1. Coming(f) => Coming(f)'
          BY <1>1, <2>1, <2>2, <3>1, <4>3 DEF Coming
        <5>. QED  BY <1>1, <1>5, <2>1, <2>3, <3>3, <4>1, <4>3, <5>1 DEF Answered
      <4>. QED  BY <4>2, <4>3
    <3>. QED  BY <2>1, <3>2, <3>3 DEF QuietInv, DocFine, OpenFine
  <2>7. TellFine(f)
    BY <2>1 DEF QuietInv, DocFine
  <2>8. TellFine(f)'
    BY <1>1, <1>3, <2>1, <2>2, <2>4, <2>7 DEF TellFine, SavedErrors
  <2>9. ShownFine(f)'
    <3>1. ShownFine(f)
      BY <2>1 DEF QuietInv, DocFine
    <3>2. CASE f = g
      <4>1. CASE stale
        BY <1>1, <3>2, <4>1 DEF ShownFine, Doubtful
      <4>2. CASE ~stale
        BY <1>4, <1>5, <1>6, <2>1, <2>3, <2>4, <2>5, <2>7, <3>2, <4>2 DEF ShownFine, TellFine, SavedErrors
      <4>. QED  BY <4>1, <4>2
    <3>3. CASE f # g
      <4>1. Doubtful(f) => Doubtful(f)'
        BY <1>1, <1>5, <2>1, <2>2, <3>3 DEF Doubtful
      <4>. QED  BY <1>1, <1>5, <2>1, <2>3, <2>4, <3>1, <3>3, <4>1 DEF ShownFine, SavedErrors
    <3>. QED  BY <3>2, <3>3
  <2>. QED  BY <2>6, <2>8, <2>9
<1>8. ASSUME NEW f \in Doc \ FilesOf(u) PROVE AsksKept(f) /\ Credited(f)' = Credited(f) /\ f # g
  BY <1>1, <1>2 DEF AsksKept, Credited
<1>9. LatestType'
  BY <1>1 DEF QuietInv, LatestType
<1>. QED  BY <1>1, <1>4, <1>5, <1>7, <1>8, <1>9, UnitElsewhere

-----------------------------------------------------------------------------
(* The goroutines.                                                         *)

\* A reload keeps the engine, or retires it and records what it still owed.
LEMMA setWorkspaceQuiet ==
    ASSUME WsInv, QuietInv, NEW t \in Thread, setWorkspace(t)
    PROVE  QuietInv'
<1>. DEFINE reuse == SameDependencies(thr[t].snap)
            a == IF reuse THEN "drop" ELSE "store"
            e == IF reuse THEN engine ELSE engine + 1
            r == [thr[t] EXCEPT !.at = a, !.engine = e]
<1>1. /\ UNCHANGED <<overlay, handler, engine, pendingOpens, known, idxReady, diagFiles, shown, latest, outOfOrder>>
      /\ thr[t].at = "set" /\ wsMu = None
      /\ thr' = [thr EXCEPT ![t].at = a, ![t].engine = e]
  BY DEF setWorkspace
<1>2. /\ reuse \/ engine = NoEngine => UNCHANGED <<retired, armed, recheck, unrechecked>>
      /\ ~(reuse \/ engine = NoEngine) => Retire(engine)
  BY DEF setWorkspace
<1>3. /\ thr[t] \in ThreadRecord /\ thr \in [Thread -> ThreadRecord] /\ engine \in {NoEngine} \cup Engine
      /\ \A f \in Doc : UnitOf[f] \in Unit
      /\ recheck \in [Engine \X Unit -> RecheckRecord]
  BY DocsAreTyped DEF WsInv, ThreadType, DiagType, EngineType, RecheckType
<1>4. engine \in Nat /\ NoEngine = 0 /\ \A d \in Engine : d \in Nat
  BY <1>3, DocsAreTyped DEF Engine, NoEngine
<1>5. /\ thr'[t].at = a /\ thr'[t].engine = e /\ \A x \in Thread \ {t} : thr'[x] = thr[x]
      /\ \A x \in Thread \ {t} : thr[x].at \notin Inside
  <2>1. r.at = a /\ r.engine = e
    BY <1>3 DEF ThreadRecord
  <2>2. thr' = [thr EXCEPT ![t] = r]
    BY <1>1, <1>3 DEF ThreadRecord
  <2>. HIDE DEF r, a, e
  <2>3. \A x \in Thread \ {t} : wsMu # x
    BY <1>1, PackagesAssumption
  <2>. QED  BY <1>3, <2>1, <2>2, <2>3 DEF WsInv, ThreadType
<1>. (reuse => a = "drop" /\ e = engine) /\ (~reuse => a = "store" /\ e = engine + 1)
  OBVIOUS
<1>. HIDE DEF r, a, e, reuse
<1>6. CASE reuse \/ engine = NoEngine
  <2>1. UNCHANGED <<retired, armed, recheck, unrechecked>>
    BY <1>2, <1>6
  <2>2. EnginesInOrder' /\ HandlersInOrder' /\ LatestType'
    BY <1>1, <2>1 DEF QuietInv, InOrder, EnginesInOrder, HandlersInOrder, LatestType
  <2>3. ThreadsInOrder'
    <3>1. \/ thr'[t].at = "drop" /\ thr'[t].engine = engine
          \/ thr'[t].at = "store" /\ thr'[t].engine = engine + 1 /\ engine = NoEngine
      BY <1>5, <1>6
    <3>2. \A x \in Thread \ {t} : thr'[x].at \notin {"drop", "store"}
      BY <1>5 DEF Inside
    <3>. QED  BY <1>1, <3>1, <3>2 DEF ThreadsInOrder
  <2>4. ThreadsKept
    BY <1>1, <1>5 DEF ThreadsKept, Draining, IndexIsBack
  <2>5. ASSUME NEW f \in Doc PROVE DocFine(f)'
    <3>1. SameFor(f) /\ AsksKept(f)
      BY <1>1, <2>1 DEF SameFor, AsksKept, Slot, Credited
    <3>. QED  BY <1>1, <2>1, <2>4, <3>1, DocSame DEF QuietInv
  <2>. QED  BY <2>2, <2>3, <2>5 DEF QuietInv, InOrder
<1>7. CASE ~(reuse \/ engine = NoEngine)
  <2>1. /\ retired' = retired \cup {engine} /\ armed' = {eu \in armed : eu[1] # engine}
        /\ recheck' = [eu \in Engine \X Unit |->
                         IF eu[1] = engine /\ recheck[eu].at = "checked" THEN NoRecheck ELSE recheck[eu]]
        /\ unrechecked' = unrechecked \cup {u \in Unit : <<engine, u>> \in armed \/ recheck[<<engine, u>>].at = "checked"}
        /\ engine \in Engine
    BY <1>2, <1>3, <1>7 DEF Retire
  <2>2. \A d \in Engine, u \in Unit :
          recheck'[<<d, u>>] = IF d = engine /\ recheck[<<d, u>>].at = "checked" THEN NoRecheck ELSE recheck[<<d, u>>]
    BY <2>1
  <2>3. EnginesInOrder'
    <3>1. \A d \in Engine : d > engine => d # engine
      BY <1>4
    <3>. QED  BY <1>1, <2>1, <2>2, <3>1, EnginesSame DEF QuietInv, InOrder, EnginesInOrder
  <2>4. HandlersInOrder' /\ LatestType'
    BY <1>1 DEF QuietInv, InOrder, HandlersInOrder, LatestType
  <2>5. ThreadsInOrder'
    BY <1>1, <1>5, <1>7, <2>1 DEF QuietInv, InOrder, ThreadsInOrder, Inside
  <2>6. ThreadsKept
    BY <1>1, <1>5 DEF ThreadsKept, Draining, IndexIsBack
  <2>7. ASSUME NEW f \in Doc PROVE DocFine(f)'
    <3>1. /\ \A d \in Engine : Slot(d, f)' = IF d = engine /\ Slot(d, f).at = "checked" THEN NoRecheck ELSE Slot(d, f)
          /\ (<<engine, UnitOf[f]>> \in armed \/ Slot(engine, f).at = "checked") => UnitOf[f] \in unrechecked'
          /\ \A d \in Engine : (d # engine /\ <<d, UnitOf[f]>> \in armed) => <<d, UnitOf[f]>> \in armed'
          /\ UnitOf[f] \in unrechecked => UnitOf[f] \in unrechecked'
          /\ Credited(f)' <=> Credited(f)
      BY <1>1, <1>3, <2>1, <2>2 DEF Slot, Credited
    <3>2. NoRecheck.at = "none" /\ NoRecheck.tell = {}
      BY DEF NoRecheck
    <3>3. \A d \in Engine : (Telling(d, f)' <=> Telling(d, f)) /\ (Slot(d, f)'.at = "none" \/ Slot(d, f)' = Slot(d, f))
      BY <3>1, <3>2 DEF Telling
    <3>4. (f \in Open' <=> f \in Open) /\ TextErrors(f)' = TextErrors(f)
      BY <1>1, OpenSame
    <3>5. ClosingFine(f)' /\ KeptFine(f)'
      BY <1>1, <3>4 DEF ClosingFine, KeptFine, QuietInv, DocFine
    <3>6. OpenFine(f)'
      <4>. SUFFICES ASSUME f \in Open \ Outside, UnitOf[f] \notin unrechecked'
                    PROVE  AskedFor(f)' \/ Answered(f)'
        BY <1>1, <3>4 DEF OpenFine, AskedFor
      <4>1. Slot(engine, f).at # "checked" /\ <<engine, UnitOf[f]>> \notin armed /\ \A d \in Engine : Slot(d, f)' = Slot(d, f)
        BY <3>1
      <4>2. CASE AskedFor(f)
        BY <1>1, <2>1, <2>6, <3>1, <4>1, <4>2 DEF AskedFor, ThreadsKept
      <4>3. CASE Answered(f)
        BY <1>1, <2>1, <4>1, <4>3, AnsweredSame
      <4>. QED  BY <1>7, <4>2, <4>3 DEF QuietInv, DocFine, OpenFine
    <3>7. TellFine(f)'
      <4>1. TellFine(f)
        BY DEF QuietInv, DocFine
      <4>2. ASSUME NEW d \in Engine, Telling(d, f)' PROVE Slot(d, f)' = Slot(d, f) /\ Telling(d, f)
        BY <3>3, <4>2 DEF Telling
      <4>3. ASSUME NEW d \in Engine, Slot(d, f)'.at \in {"checked", "publish"} PROVE Slot(d, f)' = Slot(d, f)
        BY <3>3, <4>3
      <4>. QED  BY <1>1, <3>1, <4>1, <4>2, <4>3 DEF TellFine, SavedErrors
    <3>8. ShownFine(f)'
      <4>1. Doubtful(f)' <=> Doubtful(f)
        BY <1>1, <3>3 DEF Doubtful
      <4>. QED  BY <1>1, <3>1, <3>4, <4>1 DEF QuietInv, DocFine, ShownFine, SavedErrors
    <3>. QED  BY <3>5, <3>6, <3>7, <3>8 DEF DocFine
  <2>. QED  BY <2>3, <2>4, <2>5, <2>7 DEF QuietInv, InOrder
<1>. QED  BY <1>6, <1>7

\* Forgetting decoded packages leaves the documents alone.
LEMMA dropChangedQuiet ==
    ASSUME WsInv, QuietInv, NEW t \in Thread, dropChanged(t)
    PROVE  QuietInv'
<1>1. UNCHANGED diagVars /\ thr[t].at = "drop" /\ Goto(t, "store") /\ wsMu' = wsMu
  BY DEF dropChanged
<1>2. engine' = engine /\ retired' = retired
  BY <1>1 DEF diagVars
<1>3. /\ thr'[t].at = "store" /\ thr'[t].engine = thr[t].engine
      /\ \A x \in Thread \ {t} : thr'[x] = thr[x]
  <2>1. "store" \in Inside /\ thr[t].at \in Inside
    BY <1>1 DEF Inside
  <2>. QED  BY <1>1, <2>1, InsideMoves DEF WsInv
<1>4. ThreadsInOrder'
  BY <1>1, <1>2, <1>3 DEF QuietInv, InOrder, ThreadsInOrder
<1>5. ThreadsKept
  BY <1>1, <1>3 DEF ThreadsKept, Draining, IndexIsBack
<1>. QED  BY <1>1, <1>4, <1>5, DocsStill

\* Before the engine that is installed is a new one its predecessor retired.
LEMMA storeWorkspaceQuiet ==
    ASSUME WsInv, QuietInv, NEW t \in Thread, storeWorkspace(t)
    PROVE  QuietInv'
<1>1. /\ UNCHANGED <<overlay, handler, pendingOpens, known, armed, recheck, retired, idxReady, diagFiles, shown, latest, outOfOrder, unrechecked>>
      /\ thr[t].at = "store" /\ Goto(t, "drain") /\ engine' = thr[t].engine /\ wsMu' = wsMu
  BY DEF storeWorkspace, histVars
<1>2. /\ thr'[t].at = "drain"
      /\ \A x \in Thread \ {t} : thr'[x] = thr[x] /\ thr[x].at \notin Inside
  <2>1. "drain" \in Inside /\ thr[t].at \in Inside
    BY <1>1 DEF Inside
  <2>. QED  BY <1>1, <2>1, InsideMoves DEF WsInv
<1>3. /\ engine \in Nat /\ NoEngine = 0 /\ engine' \in Engine /\ (\A d \in Engine : d \in Nat /\ d # 0)
      /\ engine \in {NoEngine} \cup Engine
  <2>1. engine \in {NoEngine} \cup Engine /\ thr[t].engine \in Engine
    BY <1>1 DEF WsInv, ThreadType, DiagType, EngineType
  <2>. QED  BY <1>1, <2>1, DocsAreTyped DEF Engine, NoEngine
<1>4. engine' = engine \/ (engine' = engine + 1 /\ (engine # NoEngine => engine \in retired))
  BY <1>1 DEF QuietInv, InOrder, ThreadsInOrder
<1>5. EnginesInOrder'
  <2>1. ASSUME NEW d \in Engine, d > engine' PROVE d > engine
    BY <1>3, <1>4, <2>1
  <2>2. ASSUME NEW d \in Engine, d < engine' PROVE d < engine \/ (d = engine /\ engine \in retired)
    BY <1>3, <1>4, <2>2
  <2>. QED  BY <1>1, <2>1, <2>2 DEF QuietInv, InOrder, EnginesInOrder
<1>6. HandlersInOrder'
  <2>1. ASSUME NEW f \in Doc, handler[f].at \in {"focus", "arm"} PROVE handler[f].engine <= engine'
    <3>1. handler[f].engine \in Engine /\ handler[f].engine <= engine
      BY <2>1 DEF WsInv, DiagType, HandlerType, QuietInv, InOrder, HandlersInOrder
    <3>. QED  BY <1>3, <1>4, <3>1
  <2>. QED  BY <1>1, <2>1 DEF HandlersInOrder
<1>7. ThreadsInOrder'
  BY <1>2 DEF ThreadsInOrder, Inside
<1>8. Draining' /\ (IndexIsBack => IndexIsBack')
  BY <1>1, <1>2 DEF Draining, IndexIsBack
<1>9. ASSUME NEW f \in Doc PROVE DocFine(f)'
  <2>1. \A e \in Engine : Slot(e, f)' = Slot(e, f) /\ (Telling(e, f)' <=> Telling(e, f))
    BY <1>1, SlotsSame
  <2>2. (f \in Open' <=> f \in Open) /\ TextErrors(f)' = TextErrors(f)
    BY <1>1, OpenSame
  <2>3. ClosingFine(f)' /\ KeptFine(f)'
    BY <1>1, <1>3, <2>2 DEF ClosingFine, KeptFine, QuietInv, DocFine
  <2>4. TellFine(f)' /\ ShownFine(f)'
    <3>1. SameFor(f)
      BY <1>1, <2>1 DEF SameFor, Credited
    <3>. QED  BY <1>1, <3>1, TellSame, ShownSame DEF QuietInv, DocFine, SameFor
  <2>5. OpenFine(f)'
    <3>. SUFFICES ASSUME f \in Open \ Outside PROVE AskedFor(f)' \/ Answered(f)'
      BY <2>2 DEF OpenFine
    <3>1. CASE engine = NoEngine
      BY <1>1, <1>8, <3>1 DEF QuietInv, DocFine, KeptFine, AskedFor
    <3>2. CASE engine # NoEngine
      <4>1. CASE AskedFor(f)
        BY <1>1, <1>8, <2>1, <4>1 DEF AskedFor
      <4>2. CASE Answered(f) /\ engine' = engine
        BY <1>1, <1>3, <2>1, <4>2, AnsweredSame
      <4>3. CASE Answered(f) /\ engine' # engine
        <5>1. engine \in retired /\ engine \in Engine /\ engine' > engine
          BY <1>3, <1>4, <3>2, <4>3
        <5>2. UnitOf[f] \in Unit
          BY DocsAreTyped
        <5>3. recheck'[<<engine', UnitOf[f]>>].at = "none"
          BY <1>1, <1>3, <5>1, <5>2 DEF QuietInv, InOrder, EnginesInOrder
        <5>4. FoundOk(f)'
          BY <5>3 DEF FoundOk, Telling, Slot
        <5>5. CASE Slot(engine, f).at = "checked"
          BY <1>1, <2>1, <5>1, <5>5 DEF AskedFor
        <5>6. CASE Slot(engine, f).at # "checked"
          <6>1. Coming(f) => Coming(f)'
            BY <2>1, <5>6 DEF Coming
          <6>. QED  BY <1>1, <2>2, <4>3, <5>4, <6>1 DEF Answered
        <5>. QED  BY <5>5, <5>6
      <4>. QED  BY <3>2, <4>1, <4>2, <4>3 DEF QuietInv, DocFine, OpenFine
    <3>. QED  BY <3>1, <3>2
  <2>. QED  BY <2>3, <2>4, <2>5 DEF DocFine
<1>10. LatestType'
  BY <1>1 DEF QuietInv, LatestType
<1>. QED  BY <1>5, <1>6, <1>7, <1>9, <1>10 DEF QuietInv, InOrder

\* What was pending is asked of the installed engine.
LEMMA drainOpensQuiet ==
    ASSUME WsInv, QuietInv, NEW t \in Thread, drainOpens(t)
    PROVE  QuietInv'
<1>. DEFINE a == IF t = "init" THEN "open" ELSE "index"
<1>1. /\ UNCHANGED <<overlay, handler, engine, recheck, retired, idxReady, diagFiles, shown, latest, outOfOrder, unrechecked>>
      /\ thr[t].at = "drain" /\ thr' = [thr EXCEPT ![t].at = a] /\ drainPendingOpens(engine)
  BY DEF drainOpens, histVars, Goto
<1>2. thr'[t].at = a /\ a \in {"open", "index"} /\ \A x \in Thread \ {t} : thr'[x] = thr[x]
  BY <1>1 DEF WsInv, ThreadType, ThreadRecord
<1>3. engine \in Engine
  BY <1>1 DEF WsInv, ThreadType
<1>. HIDE DEF a
<1>4. IndexIsBack => IndexIsBack'
  BY <1>1, <1>2 DEF IndexIsBack
<1>5. EnginesInOrder' /\ \A f \in Doc : KeptFine(f)' /\ OpenFine(f)'
  BY <1>1, <1>3, <1>4, DrainArms
<1>6. HandlersInOrder' /\ LatestType'
  BY <1>1 DEF QuietInv, InOrder, HandlersInOrder, LatestType
<1>7. ThreadsInOrder'
  BY <1>1, <1>2 DEF QuietInv, InOrder, ThreadsInOrder
<1>8. ASSUME NEW f \in Doc PROVE ClosingFine(f)' /\ TellFine(f)' /\ ShownFine(f)'
  <2>1. SameFor(f)
    BY <1>1 DEF SameFor, Slot, Credited
  <2>. QED  BY <2>1, OpenSame, TellSame, ShownSame DEF QuietInv, DocFine, ClosingFine, SameFor
<1>. QED  BY <1>5, <1>6, <1>7, <1>8 DEF QuietInv, InOrder, DocFine

\* A pass over the index: a goroutine outside setWorkspace moves on, more may be
\* armed and recorded, and the index may be opened or closed.
LEMMA IndexPass ==
    ASSUME WsInv, QuietInv, NEW t \in Thread, thr[t].at \notin Inside, thr'[t].at \notin Inside, \A x \in Thread \ {t} : thr'[x] = thr[x],
           UNCHANGED <<overlay, handler, engine, pendingOpens, known, recheck, retired, diagFiles, shown, latest, outOfOrder>>,
           \A e \in Engine, u \in Unit : (e > engine /\ <<e, u>> \notin armed \cup known) => <<e, u>> \notin armed' \cup known',
           \A f \in Open \ Outside : (engine # NoEngine /\ (AskedFor(f) \/ Answered(f))) => (AskedFor(f)' \/ Answered(f)')
    PROVE  QuietInv'
<1>1. EnginesInOrder'
  BY EnginesSame DEF QuietInv, InOrder, EnginesInOrder
<1>2. HandlersInOrder' /\ LatestType'
  BY DEF QuietInv, InOrder, HandlersInOrder, LatestType
<1>3. ThreadsInOrder'
  BY DEF QuietInv, InOrder, ThreadsInOrder, Inside
<1>4. ASSUME NEW f \in Doc PROVE DocFine(f)'
  <2>1. SameFor(f)
    BY DEF SameFor, Slot, Credited
  <2>2. f \in Open' <=> f \in Open
    BY OpenSame
  <2>3. ClosingFine(f)' /\ KeptFine(f)' /\ OpenFine(f)'
    BY <2>2 DEF ClosingFine, KeptFine, OpenFine, QuietInv, DocFine
  <2>. QED  BY <2>1, <2>3, TellSame, ShownSame DEF QuietInv, DocFine, SameFor
<1>. QED  BY <1>1, <1>2, <1>3, <1>4 DEF QuietInv, InOrder

\* Where a goroutine goes, as a function of the goroutines.
LEMMA GotoWhere ==
    ASSUME WsInv, NEW t \in Thread, NEW a, Goto(t, a)
    PROVE  thr'[t].at = a /\ \A x \in Thread \ {t} : thr'[x] = thr[x]
BY DEF WsInv, ThreadType, ThreadRecord, Goto

\* What was asked for stays asked for while the index is not just back.
LEMMA AsksStay ==
    ASSUME WsInv, NEW t \in Thread, thr[t].at \notin Inside \cup {"recheck", "discard"}, \A x \in Thread \ {t} : thr'[x] = thr[x],
           UNCHANGED <<handler, engine, pendingOpens, recheck, retired>>, armed \subseteq armed', unrechecked \subseteq unrechecked',
           NEW f \in Doc, AskedFor(f)
    PROVE  AskedFor(f)'
<1>1. ThreadsKept
  BY DEF ThreadsKept, Draining, IndexIsBack, Inside
<1>2. AsksKept(f)
  BY DEF AsksKept
<1>. QED  BY <1>1, <1>2, SlotsSame, AskedSame

\* An index that is opened is on its way back.
LEMMA openIndexQuiet ==
    ASSUME WsInv, QuietInv, openIndex
    PROVE  QuietInv'
<1>. PICK a \in {"index", "build"} : Goto("init", a)
  BY DEF openIndex
<1>1. /\ UNCHANGED <<overlay, handler, engine, pendingOpens, known, armed, recheck, retired, diagFiles, shown, latest, outOfOrder>>
      /\ thr["init"].at = "open" /\ Goto("init", a) /\ a \in {"index", "build"} /\ "init" \in Thread
      /\ \/ UNCHANGED <<idxReady, unrechecked>>
         \/ unrechecked' = unrechecked \cup {u \in Unit : (\E e \in Engine : <<e, u>> \in known) /\ <<engine, u>> \notin armed}
  BY DEF openIndex, Thread
<1>2. thr'["init"].at = a /\ \A x \in Thread \ {"init"} : thr'[x] = thr[x]
  BY <1>1, GotoWhere
<1>3. ASSUME NEW f \in Open \ Outside, engine # NoEngine, AskedFor(f) \/ Answered(f)
      PROVE  AskedFor(f)' \/ Answered(f)'
  <2>1. f \in Doc /\ engine \in Engine /\ UnitOf[f] \in Unit
    BY <1>3, DocsAreTyped DEF Open, WsInv, DiagType, EngineType
  <2>2. CASE AskedFor(f)
    <3>1. thr["init"].at \notin Inside \cup {"recheck", "discard"} /\ armed \subseteq armed' /\ unrechecked \subseteq unrechecked'
      BY <1>1 DEF Inside
    <3>. QED  BY <1>1, <1>2, <2>1, <2>2, <3>1, AsksStay
  <2>3. CASE Answered(f) /\ UNCHANGED <<idxReady, unrechecked>>
    BY <1>1, <2>1, <2>3, SlotsSame, AnsweredSame
  <2>4. CASE Answered(f) /\ unrechecked' = unrechecked \cup {u \in Unit : (\E e \in Engine : <<e, u>> \in known) /\ <<engine, u>> \notin armed}
    BY <1>1, <2>1, <2>4 DEF AskedFor, Answered
  <2>. QED  BY <1>1, <1>3, <2>2, <2>3, <2>4
<1>. QED  BY <1>1, <1>2, <1>3, IndexPass DEF Inside

\* A repair of the index arms more, and a rebuild makes the index not ready.
LEMMA revalidateIndexQuiet ==
    ASSUME WsInv, QuietInv, NEW t \in Thread, revalidateIndex(t)
    PROVE  QuietInv'
<1>1. /\ UNCHANGED <<overlay, handler, engine, pendingOpens, known, recheck, retired, diagFiles, shown, latest, outOfOrder, unrechecked>>
      /\ thr[t].at = "index" /\ (idxReady' = idxReady \/ idxReady' = FALSE)
  BY DEF revalidateIndex, histVars
<1>2. thr' = [thr EXCEPT ![t] = Finished(t)] \/ Goto(t, "rebuild")
  BY DEF revalidateIndex
<1>3. armed' = armed \/ \E touched : armed' = armed \cup {eu \in known : eu[1] = engine /\ UnitDir[eu[2]] \in touched}
  BY Zenon DEF revalidateIndex, repairIndexPackages, InvalidateDependency
<1>4. armed \subseteq armed' /\ \A e \in Engine, u \in Unit : <<e, u>> \notin armed \cup known => <<e, u>> \notin armed' \cup known'
  BY <1>1, <1>3
<1>5. thr'[t].at \in {"idle", "done", "rebuild"} /\ \A x \in Thread \ {t} : thr'[x] = thr[x]
  <2>1. CASE thr' = [thr EXCEPT ![t] = Finished(t)]
    BY <2>1, FinishedThread DEF WsInv, ThreadType
  <2>2. CASE Goto(t, "rebuild")
    BY <2>2, GotoWhere
  <2>. QED  BY <1>2, <2>1, <2>2
<1>6. ASSUME NEW f \in Open \ Outside, engine # NoEngine, AskedFor(f) \/ Answered(f)
      PROVE  AskedFor(f)' \/ Answered(f)'
  <2>1. f \in Doc /\ engine \in Engine
    BY <1>6 DEF Open, WsInv, DiagType, EngineType
  <2>2. CASE AskedFor(f)
    <3>1. thr[t].at \notin Inside \cup {"recheck", "discard"} /\ unrechecked \subseteq unrechecked'
      BY <1>1 DEF Inside
    <3>. QED  BY <1>1, <1>4, <1>5, <2>1, <2>2, <3>1, AsksStay
  <2>3. CASE Answered(f)
    <3>1. idxReady' => idxReady
      BY <1>1
    <3>. QED  BY <1>1, <2>1, <2>3, <3>1, SlotsSame, AnsweredSame
  <2>. QED  BY <1>6, <2>2, <2>3
<1>. QED  BY <1>1, <1>4, <1>5, <1>6, IndexPass DEF Inside

\* An index that was built is about to be ready or discarded, and where none was
\* the index is not ready.
LEMMA buildIndexQuiet ==
    ASSUME WsInv, QuietInv, NEW t \in Thread, buildIndex(t)
    PROVE  QuietInv'
<1>1. /\ UNCHANGED <<overlay, handler, engine, pendingOpens, known, armed, recheck, retired, diagFiles, shown, latest, outOfOrder, unrechecked>>
      /\ thr[t].at \in {"build", "rebuild"}
  BY DEF buildIndex, histVars
<1>2. PICK opened \in BOOLEAN : idxReady' = opened /\ thr' = [thr EXCEPT ![t] = AfterBuild(t, opened)]
  BY Zenon DEF buildIndex
<1>3. PICK r : r = AfterBuild(t, opened)
  OBVIOUS
<1>4. r.at \in {"recheck", "discard", "index", "idle", "done"} /\ (opened => r.at \in {"recheck", "discard"})
  BY <1>1, <1>3, AfterBuildThread
<1>5. thr'[t] = r /\ \A x \in Thread \ {t} : thr'[x] = thr[x]
  BY <1>2, <1>3 DEF WsInv, ThreadType
<1>6. ASSUME NEW f \in Open \ Outside, engine # NoEngine, AskedFor(f) \/ Answered(f)
      PROVE  AskedFor(f)' \/ Answered(f)'
  <2>1. f \in Doc /\ engine \in Engine
    BY <1>6 DEF Open, WsInv, DiagType, EngineType
  <2>2. CASE opened
    <3>1. IndexIsBack'
      BY <1>4, <1>5, <2>2 DEF IndexIsBack
    <3>. QED  BY <3>1 DEF AskedFor
  <2>3. CASE AskedFor(f)
    <3>1. thr[t].at \notin Inside \cup {"recheck", "discard"}
      BY <1>1 DEF Inside
    <3>. QED  BY <1>1, <1>5, <2>1, <2>3, <3>1, AsksStay
  <2>4. CASE ~opened /\ Answered(f)
    <3>1. ~idxReady'
      BY <1>2, <2>4
    <3>. QED  BY <1>1, <2>1, <2>4, <3>1, SlotsSame, AnsweredSame
  <2>. QED  BY <1>6, <2>2, <2>3, <2>4
<1>7. thr[t].at \notin Inside /\ thr'[t].at \notin Inside
  BY <1>1, <1>4, <1>5 DEF Inside
<1>. QED  BY <1>1, <1>5, <1>6, <1>7, IndexPass

\* Once the index is ready every open document's unit is armed at the engine
\* that is read, or it is recorded that the engine does not know it.
LEMMA indexReadyQuiet ==
    ASSUME WsInv, QuietInv, NEW t \in Thread, indexReady(t)
    PROVE  QuietInv'
<1>. DEFINE e == thr[t].engine
<1>1. /\ UNCHANGED <<overlay, handler, engine, pendingOpens, known, recheck, retired, diagFiles, shown, latest, outOfOrder>>
      /\ thr[t].at \in {"recheck", "discard"}
      /\ armed' = armed \cup {eu \in known : eu[1] = e /\ \E f \in Open : BaseOf[UnitOf[f]] = BaseOf[eu[2]]}
      /\ unrechecked' = unrechecked \cup {u \in Unit : <<e, u>> \notin known /\ FilesOf(u) \cap Open # {}}
  BY DEF indexReady, recheckOpenFilesAfterIndexReady
<1>2. thr' = [thr EXCEPT ![t] = Finished(t)] \/ Goto(t, "index")
  BY DEF indexReady
<1>. HIDE DEF e
<1>3. thr'[t].at \in {"idle", "done", "index"} /\ \A x \in Thread \ {t} : thr'[x] = thr[x]
  <2>1. CASE thr' = [thr EXCEPT ![t] = Finished(t)]
    BY <2>1, FinishedThread DEF WsInv, ThreadType
  <2>2. CASE Goto(t, "index")
    BY <2>2, GotoWhere
  <2>. QED  BY <1>2, <2>1, <2>2
<1>4. \A d \in Engine, u \in Unit : <<d, u>> \notin armed \cup known => <<d, u>> \notin armed' \cup known'
  BY <1>1
<1>5. ASSUME NEW f \in Open PROVE AskedFor(f)'
  <2>1. f \in Doc /\ UnitOf[f] \in Unit /\ f \in FilesOf(UnitOf[f])
    BY DocsAreTyped DEF Open, FilesOf
  <2>2. CASE <<e, UnitOf[f]>> \in known
    <3>1. <<e, UnitOf[f]>> \in armed' /\ e \in Engine
      BY <1>1, <2>2 DEF WsInv, DiagType, EngineType
    <3>. QED  BY <3>1 DEF AskedFor
  <2>3. CASE <<e, UnitOf[f]>> \notin known
    BY <1>1, <2>1, <2>3 DEF AskedFor
  <2>. QED  BY <2>2, <2>3
<1>. QED  BY <1>1, <1>3, <1>4, <1>5, IndexPass DEF Inside

-----------------------------------------------------------------------------
(* The steps that leave the documents alone, and the life of the process.  *)

\* A goroutine that moves on with a snapshot, and one that is done.
LEMMA MovedWithSnapshot ==
    ASSUME ThreadType, NEW t \in Thread, NEW a, NEW s, thr' = [thr EXCEPT ![t].at = a, ![t].snap = s]
    PROVE  thr'[t].at = a /\ \A x \in Thread \ {t} : thr'[x] = thr[x]
<1>1. thr \in [Thread -> ThreadRecord] /\ thr[t] \in ThreadRecord
  BY DEF ThreadType
<1>2. PICK m : m = [[thr[t] EXCEPT !.at = a] EXCEPT !.snap = s]
  OBVIOUS
<1>3. m.at = a
  BY <1>1, <1>2 DEF ThreadRecord
<1>4. thr'[t] = m /\ \A x \in Thread \ {t} : thr'[x] = thr[x]
  BY <1>1, <1>2
<1>. QED  BY <1>3, <1>4

LEMMA ThreadReplaced ==
    ASSUME ThreadType, NEW t \in Thread, NEW r, thr' = [thr EXCEPT ![t] = r]
    PROVE  thr'[t] = r /\ \A x \in Thread \ {t} : thr'[x] = thr[x]
BY DEF ThreadType

LEMMA ThreadFinishes ==
    ASSUME ThreadType, NEW t \in Thread, thr' = [thr EXCEPT ![t] = Finished(t)]
    PROVE  thr'[t].at \in {"idle", "done"} /\ \A x \in Thread \ {t} : thr'[x] = thr[x]
<1>1. PICK m : m = Finished(t)
  OBVIOUS
<1>2. m.at \in {"idle", "done"}
  BY <1>1, FinishedThread
<1>3. thr' = [thr EXCEPT ![t] = m]
  BY <1>1, Zenon
<1>4. thr'[t] = m /\ \A x \in Thread \ {t} : thr'[x] = thr[x]
  BY <1>3, ThreadReplaced
<1>. QED  BY <1>2, <1>4

\* Notices, events, timers and loads leave the documents alone.
LEMMA ThreadsAsideQuiet ==
    ASSUME WsInv, StartInv, QuietInv,
           \/ handleInitialize \/ loadWorkspaceAsync \/ Deliver \/ Fire \/ passDone
           \/ \E t \in Thread : Load(t) \/ SaveCache(t)
    PROVE  QuietInv'
<1>. ThreadType /\ "init" \in Thread /\ "bg" \in Thread /\ "watch" \in Thread /\ "mod" \in Thread
  BY DEF WsInv, Thread
<1>1. CASE handleInitialize
  <2>1. UNCHANGED diagVars /\ thr["init"].at = "idle" /\ Goto("init", "read")
    BY <1>1 DEF handleInitialize, StartInv
  <2>2. thr'["init"].at = "read" /\ \A x \in Thread \ {"init"} : thr'[x] = thr[x]
    BY <2>1, GotoWhere
  <2>. QED  BY <2>1, <2>2, DocsUntouched DEF Aside
<1>2. CASE loadWorkspaceAsync
  <2>. DEFINE a == IF Shared \/ Stale THEN "load" ELSE "idle"
  <2>1. UNCHANGED diagVars /\ thr["init"].at = "read" /\ thr["bg"].at = "idle"
    BY <1>2 DEF loadWorkspaceAsync, StartInv
  <2>2. \/ thr' = [thr EXCEPT !["init"].at = "set", !["init"].snap = cacheFile.snap, !["bg"].at = a]
        \/ Goto("init", "load")
    BY <1>2 DEF loadWorkspaceAsync
  <2>3. a \in {"load", "idle"}
    OBVIOUS
  <2>. HIDE DEF a
  <2>4. CASE thr' = [thr EXCEPT !["init"].at = "set", !["init"].snap = cacheFile.snap, !["bg"].at = a]
    <3>1. thr'["init"].at = "set" /\ thr'["bg"].at = a /\ \A x \in Thread \ {"init", "bg"} : thr'[x] = thr[x]
      <4>1. thr \in [Thread -> ThreadRecord] /\ thr["init"] \in ThreadRecord /\ thr["bg"] \in ThreadRecord
        BY DEF ThreadType
      <4>2. PICK m : m = [[thr["init"] EXCEPT !.at = "set"] EXCEPT !.snap = cacheFile.snap]
        OBVIOUS
      <4>3. PICK n : n = [thr["bg"] EXCEPT !.at = a]
        OBVIOUS
      <4>4. m.at = "set" /\ n.at = a
        BY <4>1, <4>2, <4>3 DEF ThreadRecord
      <4>5. thr'["init"] = m /\ thr'["bg"] = n /\ \A x \in Thread \ {"init", "bg"} : thr'[x] = thr[x]
        BY <2>4, <4>1, <4>2, <4>3
      <4>. QED  BY <4>4, <4>5
    <3>. QED  BY <2>1, <2>3, <3>1, DocsUntouched DEF Aside
  <2>5. CASE Goto("init", "load")
    <3>1. thr'["init"].at = "load" /\ \A x \in Thread \ {"init"} : thr'[x] = thr[x]
      BY <2>5, GotoWhere
    <3>. QED  BY <2>1, <3>1, DocsUntouched DEF Aside
  <2>. QED  BY <2>2, <2>4, <2>5
<1>3. CASE Deliver
  <2>1. PICK n \in 1..Len(mail) : handleDidChangeWatchedFiles(n)
    BY <1>3 DEF Deliver
  <2>2. UNCHANGED diagVars /\ (thr' = thr \/ (thr["mod"].at = "idle" /\ Goto("mod", "load")))
    BY <2>1 DEF handleDidChangeWatchedFiles, Goto
  <2>3. CASE thr' = thr
    BY <2>2, <2>3, DocsUntouched
  <2>4. CASE thr["mod"].at = "idle" /\ Goto("mod", "load")
    <3>1. thr'["mod"].at = "load" /\ \A x \in Thread \ {"mod"} : thr'[x] = thr[x]
      BY <2>4, GotoWhere
    <3>. QED  BY <2>2, <2>4, <3>1, DocsUntouched DEF Aside
  <2>. QED  BY <2>2, <2>3, <2>4
<1>4. CASE Fire
  <2>1. PICK i \in 1..Len(watch.fired) : fire(i)
    BY <1>4 DEF Fire
  <2>2. UNCHANGED diagVars /\ (thr' = thr \/ (~watch.running /\ Goto("watch", Pass(watch.fired[i]))))
    BY <2>1 DEF fire, Goto
  <2>3. Pass(watch.fired[i]) \in {"load", "index"}
    BY DEF Pass
  <2>4. CASE thr' = thr
    BY <2>2, <2>4, DocsUntouched
  <2>5. CASE ~watch.running /\ Goto("watch", Pass(watch.fired[i]))
    <3>1. thr["watch"].at = "idle"
      BY <2>5 DEF WsInv, WatchType
    <3>2. thr'["watch"].at = Pass(watch.fired[i]) /\ \A x \in Thread \ {"watch"} : thr'[x] = thr[x]
      BY <2>5, GotoWhere
    <3>. QED  BY <2>2, <2>3, <3>1, <3>2, DocsUntouched DEF Aside
  <2>. QED  BY <2>2, <2>4, <2>5
<1>5. CASE passDone
  <2>1. UNCHANGED diagVars /\ thr["watch"].at = "done"
        /\ (Goto("watch", Pass(watch.rerunReload)) \/ thr' = [thr EXCEPT !["watch"] = Resting])
    BY <1>5 DEF passDone, Goto
  <2>2. Pass(watch.rerunReload) \in {"load", "index"}
    BY DEF Pass
  <2>3. CASE Goto("watch", Pass(watch.rerunReload))
    <3>1. thr'["watch"].at = Pass(watch.rerunReload) /\ \A x \in Thread \ {"watch"} : thr'[x] = thr[x]
      BY <2>3, GotoWhere
    <3>. QED  BY <2>1, <2>2, <3>1, DocsUntouched DEF Aside
  <2>4. CASE thr' = [thr EXCEPT !["watch"] = Resting]
    <3>1. thr'["watch"].at = "idle" /\ \A x \in Thread \ {"watch"} : thr'[x] = thr[x]
      <4>1. PICK r : r = Resting
        OBVIOUS
      <4>2. thr' = [thr EXCEPT !["watch"] = r] /\ r.at = "idle"
        BY <2>4, <4>1, RestingThread, Zenon
      <4>. QED  BY <4>2, ThreadReplaced
    <3>. QED  BY <2>1, <3>1, DocsUntouched DEF Aside
  <2>. QED  BY <2>1, <2>3, <2>4
<1>6. CASE \E t \in Thread : Load(t)
  <2>1. PICK t \in Thread : Load(t)
    BY <1>6
  <2>2. /\ UNCHANGED diagVars /\ thr[t].at = "load"
        /\ \/ thr' = [thr EXCEPT ![t].at = "save", ![t].snap = GraphLoad(reads + 1)]
           \/ thr' = [thr EXCEPT ![t] = Finished(t)]
    BY <2>1 DEF Load
  <2>3. thr'[t].at \in {"save", "idle", "done"} /\ \A x \in Thread \ {t} : thr'[x] = thr[x]
    <3>1. CASE thr' = [thr EXCEPT ![t].at = "save", ![t].snap = GraphLoad(reads + 1)]
      <4>1. PICK s : s = GraphLoad(reads + 1)
        OBVIOUS
      <4>2. thr' = [thr EXCEPT ![t].at = "save", ![t].snap = s]
        BY <3>1, <4>1, Zenon
      <4>. QED  BY <4>2, MovedWithSnapshot
    <3>2. CASE thr' = [thr EXCEPT ![t] = Finished(t)]
      BY <3>2, ThreadFinishes
    <3>. QED  BY <2>2, <3>1, <3>2
  <2>. QED  BY <2>2, <2>3, DocsUntouched DEF Aside
<1>7. CASE \E t \in Thread : SaveCache(t)
  <2>1. PICK t \in Thread : SaveCache(t)
    BY <1>7
  <2>2. UNCHANGED diagVars /\ thr[t].at = "save" /\ Goto(t, "set")
    BY <2>1 DEF SaveCache
  <2>3. thr'[t].at = "set" /\ \A x \in Thread \ {t} : thr'[x] = thr[x]
    BY <2>2, GotoWhere
  <2>. QED  BY <2>2, <2>3, DocsUntouched DEF Aside
<1>. QED  BY <1>1, <1>2, <1>3, <1>4, <1>5, <1>6, <1>7

\* A process that has not started, or is gone, has nothing open and told nothing.
LEMMA BlankIsQuiet == Blank => QuietInv
<1>. SUFFICES ASSUME Blank PROVE QuietInv
  OBVIOUS
<1>1. /\ overlay = [f \in Doc |-> Closed] /\ handler = [f \in Doc |-> Idle] /\ engine = NoEngine /\ known = {} /\ armed = {}
      /\ retired = {} /\ recheck = [eu \in Engine \X Unit |-> NoRecheck] /\ shown = [f \in Doc |-> Unseen]
      /\ latest = [f \in Doc |-> NoEngine] /\ thr = [t \in Thread |-> Resting]
  BY DEF Blank, DiagInit
<1>2. /\ \A f \in Doc : handler[f].at = "idle" /\ f \notin Open
      /\ \A t \in Thread : thr[t].at = "idle"
      /\ \A e \in Engine, u \in Unit : recheck[<<e, u>>] = NoRecheck
  BY <1>1 DEF Idle, Resting, Open
<1>3. InOrder
  <2>1. \A e \in Engine : ~(e < engine)
    BY <1>1, DocsAreTyped DEF Engine, NoEngine
  <2>. QED  BY <1>1, <1>2, <2>1 DEF InOrder, EnginesInOrder, HandlersInOrder, ThreadsInOrder, NoRecheck
<1>4. LatestType
  BY <1>1 DEF LatestType
<1>5. ASSUME NEW f \in Doc PROVE DocFine(f)
  <2>1. \A e \in Engine : Slot(e, f).at = "none"
    BY <1>2, DocsAreTyped DEF Slot, NoRecheck
  <2>2. TellFine(f)
    BY <2>1 DEF TellFine, Telling
  <2>3. shown[f] = Unseen
    BY <1>1
  <2>. QED  BY <1>2, <2>2, <2>3 DEF DocFine, ClosingFine, KeptFine, OpenFine, ShownFine
<1>. QED  BY <1>3, <1>4, <1>5 DEF QuietInv

\* A new process has said nothing.
LEMMA GoneQuiet ==
    ASSUME Gone
    PROVE  QuietInv'
<1>1. Blank'
  BY DEF Gone, Blank, DiagInit
<1>2. Blank' => QuietInv'
  BY BlankIsQuiet, PTL
<1>. QED  BY <1>1, <1>2

-----------------------------------------------------------------------------
(* The theorem.                                                            *)

\* The steps of the client.
LEMMA ClientDocQuiet ==
    ASSUME WsInv, QuietInv, ClientDoc
    PROVE  QuietInv'
<1>1. UNCHANGED thr
  BY DEF ClientDoc, wsVars
<1>2. PICK f \in Doc : handleDidOpen(f) \/ (\E v \in {0, load.edits} : handleDidChange(f, v)) \/ handleDidClose(f)
  BY DEF ClientDoc
<1>3. load.edits \in Nat
  BY DEF WsInv, ClientType
<1>. QED  BY <1>1, <1>2, <1>3, handleDidOpenQuiet, handleDidChangeQuiet, handleDidCloseQuiet

\* The steps of handlers and of rechecks.
LEMMA PublishQuiet ==
    ASSUME WsInv, QuietInv, Publish
    PROVE  QuietInv'
<1>1. UNCHANGED thr
  BY DEF Publish, wsVars
<1>2. CASE \E f \in Doc : DocStep(f)
  BY <1>1, <1>2, markPendingOpenQuiet, rereadWorkspaceQuiet, focusOpenedQuiet, armChangedQuiet, clearDiagnosticsQuiet, notifyClosedQuiet
     DEF DocStep
<1>3. CASE \E e \in Engine, u \in Unit : UnitStep(e, u)
  <2>1. PICK e \in Engine, u \in Unit : UnitStep(e, u)
    BY <1>3
  <2>. QED  BY <1>1, <2>1, fireRecheckQuiet, commitQuiet, updateDiagFilesQuiet, notifyDiagnosticsQuiet DEF UnitStep
<1>. QED  BY <1>2, <1>3 DEF Publish

\* Every step keeps the invariant.
LEMMA QuietStep == WsInv /\ StartInv /\ QuietInv /\ [Next]_vars => QuietInv'
<1>. SUFFICES ASSUME WsInv, StartInv, QuietInv, [Next]_vars PROVE QuietInv'
  OBVIOUS
<1>1. CASE Client
  <2>1. CASE \/ \E f \in File, stamped \in BOOLEAN : WriteFile(f, stamped)
             \/ \E f \in File : RemoveFile(f) \/ Resend(f)
             \/ EditModule \/ StopWatch \/ \E q \in Pkg : blob(q)
    <3>1. UNCHANGED <<diagVars, thr>>
      BY <2>1 DEF WriteFile, RemoveFile, Resend, EditModule, StopWatch, blob, wsVars
    <3>. QED  BY <3>1, DocsUntouched
  <2>2. CASE ClientDoc
    BY <2>2, ClientDocQuiet
  <2>3. CASE Kill
    BY <2>3, GoneQuiet DEF Kill
  <2>. QED  BY <1>1, <2>1, <2>2, <2>3 DEF Client
<1>2. CASE System
  <2>1. CASE fireTimer \/ decodeExport
    <3>1. UNCHANGED <<diagVars, thr>>
      BY <2>1 DEF fireTimer, decodeExport, wsVars
    <3>. QED  BY <3>1, DocsUntouched
  <2>2. CASE Exit
    BY <2>2, GoneQuiet DEF Exit
  <2>3. CASE handleInitialize \/ loadWorkspaceAsync \/ Deliver \/ Fire \/ passDone
    BY <2>3, ThreadsAsideQuiet
  <2>4. CASE openIndex
    BY <2>4, openIndexQuiet
  <2>5. CASE Publish
    BY <2>5, PublishQuiet
  <2>6. CASE \E t \in Thread : ThreadStep(t)
    <3>1. PICK t \in Thread : ThreadStep(t)
      BY <2>6
    <3>2. CASE Load(t) \/ SaveCache(t)
      BY <3>2, ThreadsAsideQuiet
    <3>. QED  BY <3>1, <3>2, setWorkspaceQuiet, dropChangedQuiet, storeWorkspaceQuiet, drainOpensQuiet,
                 revalidateIndexQuiet, buildIndexQuiet, indexReadyQuiet DEF ThreadStep
  <2>. QED  BY <1>2, <2>1, <2>2, <2>3, <2>4, <2>5, <2>6 DEF System, InitStep
<1>3. CASE UNCHANGED vars
  <2>1. UNCHANGED <<diagVars, thr>>
    BY <1>3 DEF vars, wsVars
  <2>. QED  BY <2>1, DocsUntouched
<1>. QED  BY <1>1, <1>2, <1>3 DEF Next

\* It holds at first.
LEMMA QuietInit == Init => QuietInv
<1>1. Init => Blank
  BY DEF Init, Blank, Discarded
<1>. QED  BY <1>1, BlankIsQuiet

\* Whatever documents are opened, edited and closed while engines are built and
\* replaced and the index comes and goes, once nothing is left to do a client
\* shows of an open document the errors of its text, and of a closed one nothing
\* or those of its saved text (handleDidOpen, markPendingOpen, Invalidate,
\* commit, publishDiagnostics, recheckOpenFilesAfterIndexReady, setWorkspace).
THEOREM QuietIsAccurateHolds == Spec => []QuietIsAccurate
<1>1. Spec => [](WsInv /\ StartInv /\ QuietInv)
  BY WsInit, WsStep, QuietInit, QuietStep, PTL DEF Spec
<1>. QED  BY <1>1, QuietInvImplies, PTL

-----------------------------------------------------------------------------
(* What is owed to the disk: the invariant behind SettledIsCurrent.        *)

\* Snapshots that have read the disk and are, or may come to be, installed.
Loaded == {"save", "set", "drop", "store"}
Snaps == {thr[t].snap : t \in {x \in Thread : thr[x].at \in Loaded}} \cup (IF engine = NoEngine THEN {} ELSE {snap})
\* The one that was read last will stay, or an older one crosses it.
Standing(s) == s \in Snaps /\ \A x \in Snaps : x.read <= s.read

\* The client has yet to deliver such an event.
Told(kind, f) == \E i \in DOMAIN mail : mail[i].kind = kind /\ mail[i].file = f
ModuleTold == \E i \in DOMAIN mail : mail[i].kind = "module"
\* The fingerprint is of the text the file has now: an event is passed over.
SeenNow(f) == seen[f].hash = disk[f].text

\* The disk will be read again, or the index revalidated.
Reloading ==
    \/ thr["init"].at = "read" \/ \E t \in Thread : thr[t].at = "load"
    \/ watch.timer /\ watch.reload
    \/ \E i \in DOMAIN watch.fired : watch.fired[i]
    \/ watch.rerun /\ watch.rerunReload
Ended == {"idle", "done", "discard"}
Revalidating ==
    \/ \E t \in Thread : thr[t].at \notin Ended
    \/ watch.timer \/ watch.fired # <<>> \/ watch.rerun
OpeningAt == {"read", "load", "save", "set", "drop", "store", "drain", "open", "build"}
Opening == thr["init"].at \in OpeningAt \/ \E t \in Thread : thr[t].at = "rebuild"

\* A snapshot lists what is on disk, but for what will still be told.
Listed(s) ==
    /\ \A f \in File : /\ (f \in s.files /\ ~disk[f].exists) => Told("deleted", f)
                       /\ (f \notin s.files /\ disk[f].exists) => Told("written", f) /\ ~SeenNow(f)
    /\ s.mod # mod => ModuleTold
\* The index entry of p is of the listed files, in their texts of now but for
\* what will still be told; or p cannot be indexed, and that will be told.
Entered(p) ==
    \E m \in [File -> Nat] :
        /\ unit[p] = {<<f, m[f]>> : f \in GoFiles(snap, p)}
        /\ \A f \in GoFiles(snap, p) : m[f] = disk[f].text \/ (Told("written", f) /\ ~SeenNow(f))
Awaited(p) == \E f \in GoFiles(snap, p) : Told("deleted", f)

GraphFine == Reloading \/ \A s \in Snaps : Standing(s) => Listed(s)
IndexFine == engine # NoEngine => Revalidating \/ \A p \in Packages(snap) : Entered(p) \/ Awaited(p)
SettleInv == (serving = "up" /\ gaps = {}) => GraphFine /\ IndexFine /\ (idxReady \/ Opening)

\* Loads are numbered as they read the disk,
ReadsInv == snap.read <= reads /\ cacheFile.snap.read <= reads /\ \A t \in Thread : thr[t].snap.read <= reads
\* a fingerprint is of a text the file has or had,
SeenInv == seen \in [File -> [mtime : Int, hash : Int]] /\ \A f \in File : seen[f].hash <= disk[f].text
\* and a process starts with nothing under way.
FreshInv ==
    (serving = "down" \/ thr["init"].at = "read") =>
        engine = NoEngine /\ watch = QuietWatch /\ \A t \in Thread \ {"init"} : thr[t].at = "idle"
LedgerInv == ReadsInv /\ SeenInv /\ FreshInv /\ SettleInv

\* At rest there is one snapshot, it lists what is on disk, and so every package
\* it lists can be indexed.
LEMMA LedgerImplies == ASSUME WsInv, LedgerInv PROVE SettledIsCurrent
<1>. SUFFICES ASSUME Settled, engine # NoEngine, gaps = {} PROVE Current
  BY DEF SettledIsCurrent
<1>1. /\ serving = "up" /\ mail = <<>> /\ ~watch.timer /\ watch.fired = <<>> /\ \A t \in Thread : thr[t].at = "idle"
      /\ ~watch.rerun /\ "init" \in Thread /\ "watch" \in Thread
  BY DEF Settled, WorkQuiet, WsInv, WatchType, Thread
<1>2. ~Reloading /\ ~Revalidating
  BY <1>1 DEF Reloading, Revalidating, Ended
<1>3. \A kind, f : ~Told(kind, f)
  BY <1>1 DEF Told
<1>4. ~ModuleTold
  BY <1>1 DEF ModuleTold
<1>5. Snaps = {snap} /\ snap.read \in Nat
  BY <1>1 DEF Snaps, Loaded, WsInv, ThreadType, Snapshot
<1>6. Standing(snap)
  BY <1>5 DEF Standing
<1>7. Listed(snap) /\ \A p \in Packages(snap) : Entered(p)
  BY <1>1, <1>2, <1>3, <1>5, <1>6 DEF LedgerInv, SettleInv, GraphFine, IndexFine, Awaited
<1>8. snap.files \subseteq File
  BY DEF WsInv, ThreadType, Snapshot
<1>9. snap.files = OnDiskNow /\ snap.mod = mod
  BY <1>3, <1>4, <1>7, <1>8 DEF Listed, OnDiskNow
<1>10. ASSUME NEW p \in Packages(snap) PROVE ~PackageChanged(snap, p)
  <2>1. \A f \in GoFiles(snap, p) : disk[f].exists
    BY <1>9 DEF GoFiles, OnDiskNow
  <2>2. PICK m \in [File -> Nat] :
          /\ unit[p] = {<<f, m[f]>> : f \in GoFiles(snap, p)}
          /\ \A f \in GoFiles(snap, p) : m[f] = disk[f].text \/ (Told("written", f) /\ ~SeenNow(f))
    BY <1>7 DEF Entered
  <2>3. \A f \in GoFiles(snap, p) : m[f] = disk[f].text
    BY <1>3, <2>2
  <2>. QED  BY <2>1, <2>2, <2>3 DEF PackageChanged, Indexable, Recorded
<1>. QED  BY <1>9, <1>10 DEF Current

\* What is owed stays owed while the disk, the client and the snapshots stay.
LEMMA OwedSame ==
    ASSUME SettleInv, UNCHANGED <<disk, mod, mail, seen, snap, engine, unit, serving, gaps>>, Snaps' = Snaps,
           Reloading => Reloading', Revalidating => Revalidating', (idxReady \/ Opening) => (idxReady' \/ Opening')
    PROVE  SettleInv'
<1>1. /\ \A s : Listed(s)' <=> Listed(s)
      /\ \A p : (Entered(p)' <=> Entered(p)) /\ (Awaited(p)' <=> Awaited(p))
  BY DEF Listed, Entered, Awaited, Told, ModuleTold, SeenNow, GoFiles
<1>2. GraphFine => GraphFine'
  BY <1>1 DEF GraphFine, Standing
<1>3. IndexFine => IndexFine'
  BY <1>1 DEF IndexFine, Packages
<1>. QED  BY <1>2, <1>3 DEF SettleInv

\* The rest of a step that leaves the work alone.
LEMMA WorkSame ==
    ASSUME UNCHANGED <<thr, watch, snap, engine>>
    PROVE  /\ Snaps' = Snaps /\ (Reloading' <=> Reloading) /\ (Revalidating' <=> Revalidating) /\ (Opening' <=> Opening)
           /\ \A s : Standing(s)' <=> Standing(s)
BY DEF Snaps, Reloading, Revalidating, Opening, Standing

\* A step of the documents, of an importer or of nobody.
LEMMA LedgerSame ==
    ASSUME LedgerInv, UNCHANGED <<disk, mod, mail, seen, snap, engine, unit, serving, gaps, thr, watch, idxReady, reads, cacheFile>>
    PROVE  LedgerInv'
<1>1. ReadsInv' /\ SeenInv' /\ FreshInv'
  BY DEF LedgerInv, ReadsInv, SeenInv, FreshInv
<1>2. SettleInv'
  BY WorkSame, OwedSame DEF LedgerInv
<1>. QED  BY <1>1, <1>2 DEF LedgerInv

-----------------------------------------------------------------------------
(* Snapshots and what is owed, when one goroutine moves.                   *)

\* One goroutine moves, and takes or puts down no snapshot.
LEMMA SnapsSame ==
    ASSUME NEW t \in Thread, \A x \in Thread \ {t} : thr'[x] = thr[x], UNCHANGED <<engine, snap>>,
           thr'[t].at \in Loaded <=> thr[t].at \in Loaded, thr[t].at \in Loaded => thr'[t].snap = thr[t].snap
    PROVE  Snaps' = Snaps
<1>1. {x \in Thread : thr'[x].at \in Loaded} = {x \in Thread : thr[x].at \in Loaded}
  OBVIOUS
<1>2. \A x \in Thread : thr[x].at \in Loaded => thr'[x].snap = thr[x].snap
  OBVIOUS
<1>3. {thr'[x].snap : x \in {y \in Thread : thr'[y].at \in Loaded}} = {thr[x].snap : x \in {y \in Thread : thr[y].at \in Loaded}}
  BY <1>1, <1>2
<1>. QED  BY <1>3 DEF Snaps

\* What moves in one goroutine that is neither loading nor at the start.
LEMMA WorkMoves ==
    ASSUME NEW t \in Thread, \A x \in Thread \ {t} : thr'[x] = thr[x], UNCHANGED watch, thr[t].at \notin {"read", "load"},
           thr[t].at \in Ended \/ thr'[t].at \notin Ended
    PROVE  (Reloading => Reloading') /\ (Revalidating => Revalidating')
<1>1. thr["init"].at = "read" => thr'["init"].at = "read"
  BY DEF Thread
<1>2. Reloading => Reloading'
  BY <1>1 DEF Reloading
<1>3. Revalidating => Revalidating'
  BY DEF Revalidating
<1>. QED  BY <1>2, <1>3

\* Nobody is under way in a process that has not read its cache yet.
LEMMA FreshMoves ==
    ASSUME FreshInv, StartInv, NEW t \in Thread, thr[t].at \notin {"idle", "read"},
           \A x \in Thread \ {t} : thr'[x] = thr[x], thr'[t].at # "read", UNCHANGED serving
    PROVE  FreshInv' /\ serving # "down"
<1>1. "init" \in Thread
  BY DEF Thread
<1>2. serving # "down" /\ thr["init"].at # "read"
  BY <1>1 DEF FreshInv, StartInv
<1>3. thr'["init"].at # "read"
  BY <1>1, <1>2
<1>. QED  BY <1>2, <1>3 DEF FreshInv

\* A goroutine goes on with the snapshot it has or without one.
LEMMA GoesOn ==
    ASSUME LedgerInv, StartInv, NEW t \in Thread, \A x \in Thread \ {t} : thr'[x] = thr[x],
           thr[t].at \notin {"idle", "read", "load", "rebuild", "done"}, thr'[t].at # "read",
           UNCHANGED <<disk, mod, mail, seen, watch, snap, engine, unit, serving, gaps, reads>>,
           cacheFile' = cacheFile \/ cacheFile'.snap = thr[t].snap,
           thr'[t].at \in Loaded <=> thr[t].at \in Loaded, thr'[t].snap \in {thr[t].snap, NoSnap},
           thr[t].at \in Loaded => thr'[t].snap = thr[t].snap,
           thr[t].at \in Ended \/ thr'[t].at \notin Ended,
           idxReady => idxReady', (t = "init" /\ thr[t].at \in OpeningAt) => thr'[t].at \in OpeningAt \/ idxReady',
           reads \in Nat
    PROVE  LedgerInv'
<1>1. FreshInv'
  BY FreshMoves DEF LedgerInv
<1>2. ReadsInv'
  <2>1. NoSnap.read <= reads
    BY DEF NoSnap
  <2>2. \A x \in Thread : thr'[x].snap.read <= reads
    BY <2>1 DEF LedgerInv, ReadsInv
  <2>3. cacheFile'.snap.read <= reads
    BY DEF LedgerInv, ReadsInv
  <2>. QED  BY <2>2, <2>3 DEF LedgerInv, ReadsInv
<1>3. SeenInv'
  BY DEF LedgerInv, SeenInv
<1>4. Opening => Opening' \/ idxReady'
  <2>1. CASE t = "init" /\ thr[t].at \in OpeningAt
    BY <2>1 DEF Opening
  <2>2. CASE thr["init"].at \in OpeningAt /\ t # "init"
    BY <2>2 DEF Opening, Thread
  <2>3. CASE \E x \in Thread \ {t} : thr[x].at = "rebuild"
    BY <2>3 DEF Opening
  <2>. QED  BY <2>1, <2>2, <2>3 DEF Opening
<1>5. Snaps' = Snaps
  BY SnapsSame
<1>6. SettleInv'
  BY <1>4, <1>5, WorkMoves, OwedSame DEF LedgerInv
<1>. QED  BY <1>1, <1>2, <1>3, <1>6 DEF LedgerInv

-----------------------------------------------------------------------------
(* Steps that take or put down no snapshot.                                *)

\* A goroutine goes on, or ends, with the snapshot it has or without one.
LEMMA GotoKeepsSnapshot ==
    ASSUME WsInv, NEW t \in Thread, NEW a, Goto(t, a)
    PROVE  thr'[t].at = a /\ thr'[t].snap = thr[t].snap /\ \A x \in Thread \ {t} : thr'[x] = thr[x]
BY DEF WsInv, ThreadType, ThreadRecord, Goto

LEMMA FinishedKeepsSnapshot ==
    ASSUME WsInv, NEW t \in Thread, thr' = [thr EXCEPT ![t] = Finished(t)]
    PROVE  thr'[t].at \in {"idle", "done"} /\ thr'[t].snap \in {thr[t].snap, NoSnap} /\ \A x \in Thread \ {t} : thr'[x] = thr[x]
<1>1. PICK m : m = Finished(t)
  OBVIOUS
<1>2. m.at \in {"idle", "done"} /\ m.snap \in {thr[t].snap, NoSnap}
  <2>1. thr[t] \in ThreadRecord
    BY DEF WsInv, ThreadType
  <2>. QED  BY <1>1, <2>1 DEF Finished, Resting, ThreadRecord
<1>3. thr' = [thr EXCEPT ![t] = m]
  BY <1>1, Zenon
<1>4. thr'[t] = m /\ \A x \in Thread \ {t} : thr'[x] = thr[x]
  BY <1>3, ThreadReplaced DEF WsInv
<1>. QED  BY <1>2, <1>4

\* A failure that leaves no way open is not recorded, nor is success.
LEMMA NothingOpen == (NoFailure \/ Fails({})) => UNCHANGED gaps
BY DEF NoFailure, Fails

\* A goroutine that goes on, or ends, without what it was to do leaves a way open.
LEMMA LeavesOpen ==
    ASSUME WsInv, StartInv, LedgerInv, NEW t \in Thread, \A x \in Thread \ {t} : thr'[x] = thr[x],
           thr[t].at \notin {"idle", "read"}, thr'[t].at # "read", thr'[t].snap \in {thr[t].snap, NoSnap},
           UNCHANGED <<disk, seen, watch, snap, engine, serving, reads, cacheFile>>, gaps' # {}
    PROVE  LedgerInv'
<1>1. NoSnap.read <= reads
  BY DEF NoSnap, WsInv, DiskType
<1>2. \A x \in Thread : thr'[x].snap.read <= reads
  BY <1>1 DEF LedgerInv, ReadsInv
<1>3. ReadsInv' /\ SeenInv'
  BY <1>2 DEF LedgerInv, ReadsInv, SeenInv
<1>4. FreshInv'
  BY FreshMoves DEF LedgerInv
<1>. QED  BY <1>3, <1>4 DEF LedgerInv, SettleInv

\* The cache takes the snapshot, or stays, and the goroutine keeps it.
LEMMA SaveCacheLedger ==
    ASSUME WsInv, StartInv, LedgerInv, NEW t \in Thread, SaveCache(t)
    PROVE  LedgerInv'
<1>1. /\ thr[t].at = "save" /\ (cacheFile' = cacheFile \/ cacheFile'.snap = thr[t].snap) /\ Goto(t, "set")
      /\ UNCHANGED <<disk, mod, mail, seen, watch, snap, engine, unit, serving, gaps, reads, idxReady>>
  BY NothingOpen DEF SaveCache, diagVars, watchVars
<1>2. thr'[t].at = "set" /\ thr'[t].snap = thr[t].snap /\ \A x \in Thread \ {t} : thr'[x] = thr[x]
  BY <1>1, GotoKeepsSnapshot
<1>. QED  BY <1>1, <1>2, GoesOn DEF Loaded, Ended, OpeningAt, WsInv, DiskType

\* Retargeting and invalidating install nothing yet.
LEMMA setWorkspaceLedger ==
    ASSUME WsInv, StartInv, LedgerInv, NEW t \in Thread, setWorkspace(t)
    PROVE  LedgerInv'
<1>1. /\ thr[t].at = "set"
      /\ UNCHANGED <<disk, mod, mail, seen, watch, snap, engine, unit, serving, gaps, reads, idxReady, cacheFile>>
  BY DEF setWorkspace, diskVars, watchVars
<1>2. \E a \in {"drop", "store"} : \E e : thr' = [thr EXCEPT ![t].at = a, ![t].engine = e]
  BY DEF setWorkspace
<1>3. thr'[t].at \in {"drop", "store"} /\ thr'[t].snap = thr[t].snap /\ \A x \in Thread \ {t} : thr'[x] = thr[x]
  BY <1>2 DEF WsInv, ThreadType, ThreadRecord
<1>. QED  BY <1>1, <1>3, GoesOn DEF Loaded, Ended, OpeningAt, WsInv, DiskType

LEMMA dropChangedLedger ==
    ASSUME WsInv, StartInv, LedgerInv, NEW t \in Thread, dropChanged(t)
    PROVE  LedgerInv'
<1>1. /\ thr[t].at = "drop" /\ Goto(t, "store")
      /\ UNCHANGED <<disk, mod, mail, seen, watch, snap, engine, unit, serving, gaps, reads, idxReady, cacheFile>>
  BY DEF dropChanged, diskVars, watchVars, diagVars
<1>2. thr'[t].at = "store" /\ thr'[t].snap = thr[t].snap /\ \A x \in Thread \ {t} : thr'[x] = thr[x]
  BY <1>1, GotoKeepsSnapshot
<1>. QED  BY <1>1, <1>2, GoesOn DEF Loaded, Ended, OpeningAt, WsInv, DiskType

\* After it is installed a snapshot is in no goroutine's hands.
LEMMA drainOpensLedger ==
    ASSUME WsInv, StartInv, LedgerInv, NEW t \in Thread, drainOpens(t)
    PROVE  LedgerInv'
<1>1. /\ thr[t].at = "drain" /\ Goto(t, IF t = "init" THEN "open" ELSE "index")
      /\ UNCHANGED <<disk, mod, mail, seen, watch, snap, engine, unit, serving, gaps, reads, idxReady, cacheFile>>
  BY DEF drainOpens, diskVars, watchVars
<1>2. PICK a : a = IF t = "init" THEN "open" ELSE "index"
  OBVIOUS
<1>3. Goto(t, a)
  BY <1>1, <1>2, Zenon
<1>4. thr'[t].at = a /\ thr'[t].snap = thr[t].snap /\ \A x \in Thread \ {t} : thr'[x] = thr[x]
  BY <1>3, GotoKeepsSnapshot
<1>. QED  BY <1>1, <1>2, <1>4, GoesOn DEF Loaded, Ended, OpeningAt, WsInv, DiskType

\* A warm index is ready, and one that is not is being built.
LEMMA openIndexLedger ==
    ASSUME WsInv, StartInv, LedgerInv, openIndex
    PROVE  LedgerInv'
<1>1. /\ thr["init"].at = "open" /\ "init" \in Thread
      /\ \/ Goto("init", "index") /\ idxReady' = TRUE
         \/ Goto("init", "build") /\ idxReady' = idxReady
      /\ UNCHANGED <<disk, mod, mail, seen, watch, snap, engine, unit, serving, gaps, reads, cacheFile>>
  BY NothingOpen DEF openIndex, diskVars, watchVars, Thread
<1>2. /\ thr'["init"].at \in {"index", "build"} /\ (thr'["init"].at = "build" \/ idxReady')
      /\ thr'["init"].snap = thr["init"].snap /\ \A x \in Thread \ {"init"} : thr'[x] = thr[x]
  BY <1>1, GotoKeepsSnapshot
<1>3. idxReady => idxReady'
  BY <1>1
<1>. QED  BY <1>1, <1>2, <1>3, GoesOn DEF Loaded, Ended, OpeningAt, WsInv, DiskType

LEMMA indexReadyLedger ==
    ASSUME WsInv, StartInv, LedgerInv, NEW t \in Thread, indexReady(t)
    PROVE  LedgerInv'
<1>1. /\ \/ thr[t].at = "discard" /\ thr' = [thr EXCEPT ![t] = Finished(t)]
         \/ thr[t].at = "recheck" /\ Goto(t, "index")
      /\ UNCHANGED <<disk, mod, mail, seen, watch, snap, engine, unit, serving, gaps, reads, idxReady, cacheFile>>
  BY DEF indexReady, diskVars, watchVars
<1>2. CASE thr[t].at = "discard" /\ thr' = [thr EXCEPT ![t] = Finished(t)]
  <2>1. thr'[t].at \in {"idle", "done"} /\ thr'[t].snap \in {thr[t].snap, NoSnap} /\ \A x \in Thread \ {t} : thr'[x] = thr[x]
    BY <1>2, FinishedKeepsSnapshot
  <2>. QED  BY <1>1, <1>2, <2>1, GoesOn DEF Loaded, Ended, OpeningAt, WsInv, DiskType
<1>3. CASE thr[t].at = "recheck" /\ Goto(t, "index")
  <2>1. thr'[t].at = "index" /\ thr'[t].snap = thr[t].snap /\ \A x \in Thread \ {t} : thr'[x] = thr[x]
    BY <1>3, GotoKeepsSnapshot
  <2>. QED  BY <1>1, <1>3, <2>1, GoesOn DEF Loaded, Ended, OpeningAt, WsInv, DiskType
<1>. QED  BY <1>1, <1>2, <1>3

-----------------------------------------------------------------------------
(* The disk and the client's events.                                       *)

\* The client will deliver what its watcher has just seen, too.
LEMMA PostTold ==
    ASSUME mail \in Seq(EventRecord), NEW kind \in {"written", "deleted", "module"}, NEW f \in File, Post(kind, f), serving = "up"
    PROVE  /\ Told(kind, f)' /\ (kind = "module" => ModuleTold')
           /\ \A k, g : Told(k, g) => Told(k, g)'
           /\ ModuleTold => ModuleTold'
<1>1. PICK ev : ev = [kind |-> kind, file |-> f]
  OBVIOUS
<1>2. ev \in EventRecord /\ ev.kind = kind /\ ev.file = f
  BY <1>1 DEF EventRecord
<1>3. mail' = Append(mail, ev)
  BY <1>1 DEF Post
<1>4. /\ Len(mail) \in Nat /\ DOMAIN mail = 1..Len(mail) /\ DOMAIN mail' = 1..(Len(mail) + 1)
      /\ mail'[Len(mail) + 1] = ev /\ \A i \in 1..Len(mail) : mail'[i] = mail[i]
  BY <1>2, <1>3, AppendProperties, LenProperties
<1>5. Len(mail) + 1 \in DOMAIN mail' /\ \A i \in DOMAIN mail : i \in DOMAIN mail' /\ mail'[i] = mail[i]
  BY <1>4
<1>6. Told(kind, f)'
  BY <1>2, <1>4, <1>5 DEF Told
<1>7. kind = "module" => ModuleTold'
  BY <1>2, <1>4, <1>5 DEF ModuleTold
<1>8. ASSUME NEW k, NEW g, Told(k, g) PROVE Told(k, g)'
  BY <1>5, <1>8 DEF Told
<1>9. ModuleTold => ModuleTold'
  BY <1>5 DEF ModuleTold
<1>. QED  BY <1>6, <1>7, <1>8, <1>9

\* An event: the disk changes, or not, and it will be told.
LEMMA DiskMoves ==
    ASSUME LedgerInv, UNCHANGED <<thr, watch, snap, engine, unit, serving, gaps, seen, idxReady, reads>>,
           cacheFile'.snap = cacheFile.snap, SeenInv',
           serving = "up" => /\ \A s : Listed(s) => Listed(s)'
                             /\ \A p : (Entered(p) => Entered(p)') /\ (Awaited(p) => Awaited(p)')
    PROVE  LedgerInv'
<1>1. ReadsInv' /\ FreshInv'
  BY DEF LedgerInv, ReadsInv, FreshInv
<1>2. ASSUME serving = "up", GraphFine PROVE GraphFine'
  BY <1>2, WorkSame DEF GraphFine
<1>3. ASSUME serving = "up", IndexFine PROVE IndexFine'
  BY <1>3, WorkSame DEF IndexFine, Packages
<1>4. SettleInv'
  BY <1>2, <1>3, WorkSame DEF LedgerInv, SettleInv
<1>. QED  BY <1>1, <1>4 DEF LedgerInv

\* A write gives a file a text no fingerprint and no entry has yet.
LEMMA WriteFileLedger ==
    ASSUME WsInv, LedgerInv, NEW f \in File, NEW stamped \in BOOLEAN, WriteFile(f, stamped)
    PROVE  LedgerInv'
<1>1. /\ UNCHANGED <<thr, watch, snap, engine, unit, serving, gaps, seen, idxReady, reads, mod, cacheFile>> /\ Post("written", f)
      /\ \E m : disk' = [disk EXCEPT ![f] = [exists |-> TRUE, text |-> disk[f].text + 1, mtime |-> m]]
  BY DEF WriteFile, wsVars, diagVars
<1>2. /\ disk'[f].exists /\ disk'[f].text = disk[f].text + 1 /\ disk[f].text \in Nat
      /\ \A g \in File \ {f} : disk'[g] = disk[g]
  BY <1>1 DEF WsInv, DiskType
<1>3. SeenInv'
  <2>1. seen[f].hash \in Int
    BY DEF LedgerInv, SeenInv
  <2>2. seen[f].hash <= disk[f].text + 1
    BY <1>2, <2>1 DEF LedgerInv, SeenInv
  <2>. QED  BY <1>1, <1>2, <2>2 DEF LedgerInv, SeenInv
<1>4. ASSUME serving = "up"
      PROVE  /\ \A s : Listed(s) => Listed(s)'
             /\ \A p : (Entered(p) => Entered(p)') /\ (Awaited(p) => Awaited(p)')
  <2>1. /\ Told("written", f)' /\ \A k, g : Told(k, g) => Told(k, g)'
        /\ ModuleTold => ModuleTold'
    BY <1>1, <1>4, PostTold DEF WsInv, ClientType
  <2>2. ~SeenNow(f)'
    <3>1. seen[f].hash \in Int /\ seen[f].hash <= disk[f].text
      BY DEF LedgerInv, SeenInv
    <3>. QED  BY <1>1, <1>2, <3>1 DEF SeenNow
  <2>3. \A g \in File \ {f} : SeenNow(g)' <=> SeenNow(g)
    BY <1>1, <1>2 DEF SeenNow
  <2>4. ASSUME NEW s, Listed(s) PROVE Listed(s)'
    <3>1. \A g \in File : /\ (g \in s.files /\ ~disk'[g].exists) => Told("deleted", g)'
                          /\ (g \notin s.files /\ disk'[g].exists) => Told("written", g)' /\ ~SeenNow(g)'
      BY <1>2, <2>1, <2>2, <2>3, <2>4 DEF Listed
    <3>2. s.mod # mod' => ModuleTold'
      BY <1>1, <2>1, <2>4 DEF Listed
    <3>. QED  BY <3>1, <3>2 DEF Listed
  <2>5. ASSUME NEW p, Entered(p) PROVE Entered(p)'
    <3>1. PICK m \in [File -> Nat] :
            /\ unit[p] = {<<g, m[g]>> : g \in GoFiles(snap, p)}
            /\ \A g \in GoFiles(snap, p) : m[g] = disk[g].text \/ (Told("written", g) /\ ~SeenNow(g))
      BY <2>5 DEF Entered
    <3>2. GoFiles(snap, p)' = GoFiles(snap, p) /\ GoFiles(snap, p) \subseteq File
      BY <1>1 DEF GoFiles, WsInv, ThreadType, Snapshot
    <3>3. \A g \in GoFiles(snap, p) : m[g] = disk'[g].text \/ (Told("written", g)' /\ ~SeenNow(g)')
      BY <1>2, <2>1, <2>2, <2>3, <3>1, <3>2
    <3>. QED  BY <1>1, <3>1, <3>2, <3>3 DEF Entered
  <2>6. \A p : Awaited(p) => Awaited(p)'
    BY <1>1, <2>1 DEF Awaited, GoFiles
  <2>. QED  BY <2>4, <2>5, <2>6
<1>. QED  BY <1>1, <1>3, <1>4, DiskMoves

\* A file that is gone is told to be.
LEMMA RemoveFileLedger ==
    ASSUME WsInv, LedgerInv, NEW f \in File, RemoveFile(f)
    PROVE  LedgerInv'
<1>1. /\ UNCHANGED <<thr, watch, snap, engine, unit, serving, gaps, seen, idxReady, reads, mod, cacheFile>> /\ Post("deleted", f)
      /\ disk' = [disk EXCEPT ![f].exists = FALSE]
  BY DEF RemoveFile, wsVars, diagVars
<1>2. /\ ~disk'[f].exists /\ \A g \in File : disk'[g].text = disk[g].text
      /\ \A g \in File \ {f} : disk'[g] = disk[g]
  BY <1>1 DEF WsInv, DiskType
<1>3. SeenInv'
  BY <1>1, <1>2 DEF LedgerInv, SeenInv
<1>4. ASSUME serving = "up"
      PROVE  /\ \A s : Listed(s) => Listed(s)'
             /\ \A p : (Entered(p) => Entered(p)') /\ (Awaited(p) => Awaited(p)')
  <2>1. /\ Told("deleted", f)' /\ \A k, g : Told(k, g) => Told(k, g)'
        /\ ModuleTold => ModuleTold'
    BY <1>1, <1>4, PostTold DEF WsInv, ClientType
  <2>2. \A g \in File : SeenNow(g)' <=> SeenNow(g)
    BY <1>1, <1>2 DEF SeenNow
  <2>3. ASSUME NEW s, Listed(s) PROVE Listed(s)'
    <3>1. \A g \in File : /\ (g \in s.files /\ ~disk'[g].exists) => Told("deleted", g)'
                          /\ (g \notin s.files /\ disk'[g].exists) => Told("written", g)' /\ ~SeenNow(g)'
      BY <1>2, <2>1, <2>2, <2>3 DEF Listed
    <3>2. s.mod # mod' => ModuleTold'
      BY <1>1, <2>1, <2>3 DEF Listed
    <3>. QED  BY <3>1, <3>2 DEF Listed
  <2>4. ASSUME NEW p, Entered(p) PROVE Entered(p)'
    <3>1. PICK m \in [File -> Nat] :
            /\ unit[p] = {<<g, m[g]>> : g \in GoFiles(snap, p)}
            /\ \A g \in GoFiles(snap, p) : m[g] = disk[g].text \/ (Told("written", g) /\ ~SeenNow(g))
      BY <2>4 DEF Entered
    <3>2. GoFiles(snap, p)' = GoFiles(snap, p) /\ GoFiles(snap, p) \subseteq File
      BY <1>1 DEF GoFiles, WsInv, ThreadType, Snapshot
    <3>3. \A g \in GoFiles(snap, p) : m[g] = disk'[g].text \/ (Told("written", g)' /\ ~SeenNow(g)')
      BY <1>2, <2>1, <2>2, <3>1, <3>2
    <3>. QED  BY <1>1, <3>1, <3>2, <3>3 DEF Entered
  <2>5. \A p : Awaited(p) => Awaited(p)'
    BY <1>1, <2>1 DEF Awaited, GoFiles
  <2>. QED  BY <2>3, <2>4, <2>5
<1>. QED  BY <1>1, <1>3, <1>4, DiskMoves

\* A change of the module files that nobody hears of.
LEMMA UnreportedLedger ==
    ASSUME WsInv, LedgerInv, EditModule, gaps' = gaps \cup {"unreported"}
    PROVE  LedgerInv'
<1>1. /\ UNCHANGED <<thr, watch, snap, engine, serving, seen, reads, disk>>
      /\ cacheFile' = [cacheFile EXCEPT !.touched = TRUE]
  BY DEF EditModule, wsVars, diagVars
<1>2. cacheFile'.snap = cacheFile.snap
  BY <1>1 DEF WsInv, DiskType
<1>3. ReadsInv' /\ SeenInv' /\ FreshInv'
  BY <1>1, <1>2 DEF LedgerInv, ReadsInv, SeenInv, FreshInv
<1>. QED  BY <1>3 DEF LedgerInv, SettleInv

\* The module files, and a file reported again.
LEMMA EventLedger ==
    ASSUME WsInv, LedgerInv, (EditModule /\ Post("module", CHOOSE f \in File : TRUE) /\ UNCHANGED gaps) \/ \E f \in File : Resend(f)
    PROVE  LedgerInv'
<1>1. \E kind \in {"written", "deleted", "module"} : \E f \in File :
        /\ Post(kind, f) /\ UNCHANGED <<thr, watch, snap, engine, unit, serving, gaps, seen, idxReady, reads, disk>>
        /\ cacheFile'.snap = cacheFile.snap /\ (mod' # mod => kind = "module")
  <2>1. CASE EditModule /\ Post("module", CHOOSE f \in File : TRUE) /\ UNCHANGED gaps
    <3>1. PICK f \in File : f = CHOOSE g \in File : TRUE
      BY PackagesAssumption
    <3>2. /\ UNCHANGED <<thr, watch, snap, engine, unit, serving, gaps, seen, idxReady, reads, disk>>
          /\ Post("module", f) /\ cacheFile' = [cacheFile EXCEPT !.touched = TRUE]
      BY <2>1, <3>1 DEF EditModule, wsVars, diagVars
    <3>3. cacheFile'.snap = cacheFile.snap
      BY <3>2 DEF WsInv, DiskType
    <3>. QED  BY <3>2, <3>3
  <2>2. ASSUME NEW f \in File, Resend(f)
        PROVE  /\ Post("written", f) /\ UNCHANGED <<thr, watch, snap, engine, unit, serving, gaps, seen, idxReady, reads, disk>>
               /\ UNCHANGED <<cacheFile, mod>>
    BY <2>2 DEF Resend, wsVars, diskVars, diagVars
  <2>. QED  BY <2>1, <2>2
<1>2. PICK kind \in {"written", "deleted", "module"}, f \in File :
        /\ Post(kind, f) /\ UNCHANGED <<thr, watch, snap, engine, unit, serving, gaps, seen, idxReady, reads, disk>>
        /\ cacheFile'.snap = cacheFile.snap /\ (mod' # mod => kind = "module")
  BY <1>1
<1>3. ASSUME serving = "up"
      PROVE  /\ \A s : Listed(s) => Listed(s)'
             /\ \A p : (Entered(p) => Entered(p)') /\ (Awaited(p) => Awaited(p)')
  <2>1. /\ \A k, g : Told(k, g) => Told(k, g)'
        /\ ModuleTold => ModuleTold'
        /\ kind = "module" => ModuleTold'
    BY <1>2, <1>3, PostTold DEF WsInv, ClientType
  <2>2. \A s : Listed(s) => Listed(s)'
    BY <1>2, <2>1 DEF Listed, SeenNow
  <2>3. ASSUME NEW p, Entered(p) PROVE Entered(p)'
    <3>1. PICK m \in [File -> Nat] :
            /\ unit[p] = {<<g, m[g]>> : g \in GoFiles(snap, p)}
            /\ \A g \in GoFiles(snap, p) : m[g] = disk[g].text \/ (Told("written", g) /\ ~SeenNow(g))
      BY <2>3 DEF Entered
    <3>2. GoFiles(snap, p)' = GoFiles(snap, p)
      BY <1>2 DEF GoFiles
    <3>3. \A g \in GoFiles(snap, p) : m[g] = disk'[g].text \/ (Told("written", g)' /\ ~SeenNow(g)')
      BY <1>2, <2>1, <3>1 DEF SeenNow
    <3>. QED  BY <1>2, <3>1, <3>2, <3>3 DEF Entered
  <2>4. \A p : Awaited(p) => Awaited(p)'
    BY <1>2, <2>1 DEF Awaited, GoFiles
  <2>. QED  BY <2>2, <2>3, <2>4
<1>4. SeenInv'
  BY <1>2 DEF LedgerInv, SeenInv
<1>. QED  BY <1>2, <1>3, <1>4, DiskMoves

-----------------------------------------------------------------------------
(* A batch of events: what is remembered, and what is acted on.            *)

\* A set of positions has a first and, when it is bounded, a last one.
LEMMA LeastOf ==
    ASSUME NEW T \in SUBSET Nat, T # {}
    PROVE  \E n \in T : \A m \in T : n <= m
<1>1. IsWellFoundedOn(OpToRel(<, Nat), Nat)
  BY NatLessThanWellFounded
<1>2. PICK x \in T : \A y \in T : ~ (<<y, x>> \in OpToRel(<, Nat))
  BY <1>1, WFMin
<1>3. \A a, b \in Nat : b < a => <<b, a>> \in OpToRel(<, Nat)
  BY DEF OpToRel
<1>4. \A y \in T : ~(y < x)
  BY <1>2, <1>3
<1>. QED  BY <1>4

LEMMA GreatestOf ==
    ASSUME NEW n \in Nat, NEW T \in SUBSET (1..n), T # {}
    PROVE  \E i \in T : \A j \in T : j <= i
<1>. DEFINE S == {k \in Nat : n - k \in T}
<1>1. S \in SUBSET Nat /\ S # {}
  <2>1. PICK i \in T : TRUE
    OBVIOUS
  <2>2. n - i \in S
    OBVIOUS
  <2>. QED  BY <2>2
<1>2. PICK k \in S : \A m \in S : k <= m
  <2>. HIDE DEF S
  <2>. QED  BY <1>1, LeastOf
<1>3. ASSUME NEW j \in T PROVE j <= n - k
  <2>1. n - j \in S
    OBVIOUS
  <2>. QED  BY <1>2, <2>1
<1>. QED  BY <1>2, <1>3

\* A batch of file events, and those of one file that are remembered.
IsBatch(b, n) == n \in Nat /\ DOMAIN b = 1..n /\ \A i \in 1..n : b[i] \in EventRecord /\ b[i].kind # "module"
Remembered(b, is, f) == {i \in is : b[i].file = f /\ (b[i].kind = "deleted" \/ disk[f].exists)}

\* A fingerprint is the old one, none, or that of now.
LEMMA PrintOf ==
    ASSUME NEW b, NEW is, NEW f \in File
    PROVE  printsAfter(b, is)[f] =
             CASE Remembered(b, is, f) = {} -> seen[f]
               [] \E i \in Remembered(b, is, f) : b[i].kind = "deleted" /\ \A j \in Remembered(b, is, f) : j <= i -> NoPrint
               [] OTHER -> Fingerprint(f)
BY DEF printsAfter, Remembered

\* A file whose text is remembered as it is now was so before, or was written.
LEMMA PrintNow ==
    ASSUME DiskType, NEW b, NEW n, IsBatch(b, n), NEW is \in SUBSET (1..n), NEW f \in File,
           printsAfter(b, is)[f].hash = disk[f].text
    PROVE  SeenNow(f) \/ (disk[f].exists /\ \E i \in is : b[i].file = f /\ b[i].kind = "written")
<1>1. CASE Remembered(b, is, f) = {}
  BY <1>1, PrintOf DEF SeenNow
<1>2. CASE Remembered(b, is, f) # {} /\ \A i \in Remembered(b, is, f) : b[i].kind = "deleted"
  <2>1. PICK R : R = Remembered(b, is, f)
    OBVIOUS
  <2>2. R \in SUBSET (1..n) /\ R # {} /\ n \in Nat
    BY <1>2, <2>1 DEF Remembered, IsBatch
  <2>3. \E i \in R : \A j \in R : j <= i
    BY <2>2, GreatestOf
  <2>4. printsAfter(b, is)[f] = NoPrint
    BY <1>2, <2>1, <2>3, PrintOf
  <2>. QED  BY <2>4 DEF NoPrint, DiskType
<1>3. CASE \E i \in Remembered(b, is, f) : b[i].kind # "deleted"
  BY <1>3 DEF Remembered, IsBatch, EventRecord
<1>. QED  BY <1>1, <1>2, <1>3

\* A file was written: that is news, or known already.
LEMMA FirstWritten ==
    ASSUME DiskType, NEW b, NEW n, IsBatch(b, n), NEW f \in File, disk[f].exists,
           \E i \in 1..n : b[i].file = f /\ b[i].kind = "written"
    PROVE  \/ SeenNow(f)
           \/ \E i \in 1..n : b[i].file = f /\ b[i].kind = "written" /\ changed(printsAfter(b, 1..(i - 1)), b[i])
<1>. DEFINE T == {i \in 1..n : b[i].file = f /\ b[i].kind = "written"}
<1>1. T \in SUBSET Nat /\ T # {}
  BY DEF IsBatch
<1>2. PICK i \in T : \A j \in T : i <= j
  <2>. HIDE DEF T
  <2>. QED  BY <1>1, LeastOf
<1>3. i \in 1..n /\ b[i].file = f /\ b[i].kind = "written" /\ n \in Nat
  BY DEF IsBatch
<1>4. SUFFICES ASSUME ~changed(printsAfter(b, 1..(i - 1)), b[i]) PROVE SeenNow(f)
  BY <1>3
<1>5. printsAfter(b, 1..(i - 1))[f].hash = disk[f].text
  <2>1. PICK p : p = printsAfter(b, 1..(i - 1))
    OBVIOUS
  <2>2. p[f].hash = Fingerprint(f).hash /\ Fingerprint(f).hash # Unhashed
    BY <1>3, <1>4, <2>1 DEF changed
  <2>3. Fingerprint(f).hash = disk[f].text
    BY <2>2 DEF Fingerprint
  <2>. QED  BY <2>1, <2>2, <2>3
<1>6. 1..(i - 1) \in SUBSET (1..n)
  BY <1>3
<1>7. \A j \in 1..(i - 1) : ~(b[j].file = f /\ b[j].kind = "written")
  <2>1. ASSUME NEW j \in 1..(i - 1), j \in T PROVE FALSE
    <3>1. i <= j
      BY <1>2, <2>1
    <3>. QED  BY <1>3, <3>1
  <2>. QED  BY <1>3, <2>1
<1>. QED  BY <1>5, <1>6, <1>7, PrintNow

\* What is acted on without a reload, and recorded as no gap, the snapshots
\* agree on.
LEMMA ActedOn ==
    ASSUME NEW ev \in EventRecord, engine # NoEngine, ~needsGraphReload(snap, ev), ~Misjudged(ev), ~NewPackage(ev)
    PROVE  \A s \in Snaps : /\ ev.kind = "written" => ev.file \in s.files
                            /\ ev.kind = "deleted" => ev.file \notin s.files
<1>1. \A s : fileToPkg(s) \subseteq s.files /\ \A f \in s.files : DirOf(f) \in packageDirs(s)
  BY DEF fileToPkg, packageDirs
<1>2. ASSUME NEW s \in Snaps PROVE ~needsGraphReload(s, ev) /\ (ev.file \in fileToPkg(snap) => ev.file \in fileToPkg(s))
  <2>1. CASE s = snap
    BY <2>1
  <2>2. CASE \E t \in Thread : thr[t].at \in Loaded /\ s = thr[t].snap
    BY <2>2 DEF Misjudged, Loaded
  <2>. QED  BY <2>1, <2>2 DEF Snaps
<1>3. ASSUME NEW s \in Snaps, ev.kind = "written" PROVE ev.file \in s.files
  <2>1. ev.file \in fileToPkg(snap)
    BY <1>3 DEF NewPackage, needsGraphReload
  <2>. QED  BY <1>1, <1>2, <2>1
<1>4. ASSUME NEW s \in Snaps, ev.kind = "deleted" PROVE ev.file \notin s.files
  <2>1. ev.file \notin fileToPkg(s) /\ DirOf(ev.file) \notin packageDirs(s)
    BY <1>2, <1>4 DEF needsGraphReload
  <2>. QED  BY <1>1, <2>1
<1>. QED  BY <1>3, <1>4

\* A reload is asked for by an event that was acted on.
LEMMA ReloadSaw ==
    ASSUME NEW b, NEW n, IsBatch(b, n), Acted(b).reload
    PROVE  Acted(b).saw
<1>. DEFINE news    == {i \in DOMAIN b : changed(printsAfter(b, 1..(i - 1)), b[i])}
            stops   == {i \in news : needsGraphReload(snap, b[i])}
            reached == {i \in DOMAIN b : \A j \in stops : i <= j}
<1>1. (Acted(b).reload <=> stops # {}) /\ (Acted(b).saw <=> news \cap reached # {})
  BY DEF Acted
<1>2. stops \in SUBSET Nat /\ stops # {} /\ stops \subseteq news /\ news \subseteq DOMAIN b
  BY <1>1 DEF IsBatch
<1>3. PICK i \in stops : \A j \in stops : i <= j
  <2>. HIDE DEF stops
  <2>. QED  BY <1>2, LeastOf
<1>4. i \in news /\ i \in reached
  BY <1>2, <1>3
<1>. QED  BY <1>1, <1>4

\* Without one the whole batch is gone through.
LEMMA ActedAll ==
    ASSUME NEW b, NEW n, IsBatch(b, n), ~Acted(b).reload, Acted(b).gaps = {}
    PROVE  /\ Acted(b).seen = printsAfter(b, 1..n)
           /\ \A i \in 1..n : changed(printsAfter(b, 1..(i - 1)), b[i]) =>
                Acted(b).saw /\ ~needsGraphReload(snap, b[i]) /\ ~Misjudged(b[i]) /\ ~NewPackage(b[i])
<1>. DEFINE news    == {i \in DOMAIN b : changed(printsAfter(b, 1..(i - 1)), b[i])}
            stops   == {i \in news : needsGraphReload(snap, b[i])}
            reached == {i \in DOMAIN b : \A j \in stops : i <= j}
            acted   == news \cap reached
<1>1. /\ Acted(b).seen = printsAfter(b, reached) /\ (Acted(b).reload <=> stops # {}) /\ (Acted(b).saw <=> acted # {})
      /\ Acted(b).gaps = (IF \E i \in acted : Misjudged(b[i]) THEN {"misjudged"} ELSE {})
                         \cup (IF \E i \in acted : NewPackage(b[i]) THEN {"new package"} ELSE {})
  BY DEF Acted
<1>2. stops = {} /\ DOMAIN b = 1..n
  BY <1>1 DEF IsBatch
<1>3. reached = 1..n /\ acted = news
  BY <1>2
<1>4. \A i \in news : ~Misjudged(b[i]) /\ ~NewPackage(b[i])
  BY <1>1, <1>3
<1>5. \A i \in news : ~needsGraphReload(snap, b[i])
  BY <1>2
<1>. QED  BY <1>1, <1>2, <1>3, <1>4, <1>5

\* What is left of a sequence.
LEMMA RestOf ==
    ASSUME NEW S, NEW q \in Seq(S), NEW n \in 1..Len(q)
    PROVE  /\ SubSeq(q, n + 1, Len(q)) \in Seq(S) /\ Len(SubSeq(q, n + 1, Len(q))) = Len(q) - n
           /\ \A j \in 1..(Len(q) - n) : SubSeq(q, n + 1, Len(q))[j] = q[n + j]
<1>1. Len(q) \in Nat /\ n \in Nat /\ n <= Len(q) /\ \A i \in 1..Len(q) : q[i] \in S
  BY LenProperties, ElementOfSeq
<1>2. n + 1 \in Int /\ Len(q) \in Int /\ \A i \in (n + 1)..Len(q) : q[i] \in S
  BY <1>1
<1>3. /\ SubSeq(q, n + 1, Len(q)) \in Seq(S)
      /\ Len(SubSeq(q, n + 1, Len(q))) = (IF n + 1 <= Len(q) THEN Len(q) - (n + 1) + 1 ELSE 0)
      /\ \A j \in 1..(Len(q) - (n + 1) + 1) : SubSeq(q, n + 1, Len(q))[j] = q[n + 1 + j - 1]
  BY <1>2, SubSeqProperties
<1>4. (IF n + 1 <= Len(q) THEN Len(q) - (n + 1) + 1 ELSE 0) = Len(q) - n /\ Len(q) - (n + 1) + 1 = Len(q) - n
  BY <1>1
<1>5. \A j \in 1..(Len(q) - n) : n + 1 + j - 1 = n + j
  BY <1>1
<1>. QED  BY <1>3, <1>4, <1>5

\* What a batch leaves to be told.
LeavesTold(n, b) ==
    /\ n \in Nat /\ DOMAIN b = 1..n /\ \A i \in 1..n : b[i] \in EventRecord
    /\ \A k, f : Told(k, f) => Told(k, f)' \/ \E i \in 1..n : b[i].kind = k /\ b[i].file = f
    /\ ModuleTold => ModuleTold' \/ \E i \in 1..n : b[i].kind = "module"
LEMMA BatchParts ==
    ASSUME WsInv, NEW n \in 1..Len(mail), mail' = SubSeq(mail, n + 1, Len(mail))
    PROVE  LeavesTold(n, SubSeq(mail, 1, n))
<1>. PICK b : b = SubSeq(mail, 1, n)
  OBVIOUS
<1>1. mail \in Seq(EventRecord) /\ Len(mail) \in Nat /\ n \in Nat /\ DOMAIN mail = 1..Len(mail) /\ n <= Len(mail)
  BY LenProperties DEF WsInv, ClientType
<1>2. Len(b) = n /\ \A i \in 1..n : b[i] = mail[i]
  BY <1>1, SubSeqProperties
<1>3. \A i \in 1..n : b[i] \in EventRecord
  BY <1>1, <1>2, ElementOfSeq
<1>4. DOMAIN b = 1..n
  BY <1>1, <1>2, SubSeqProperties, LenProperties
<1>5. \A i \in (n + 1)..Len(mail) : i - n \in DOMAIN mail' /\ mail'[i - n] = mail[i]
  <2>1. \A i \in (n + 1)..Len(mail) : mail[i] \in EventRecord
    BY <1>1, ElementOfSeq
  <2>2. mail' \in Seq(EventRecord) /\ Len(mail') = Len(mail) - n /\ \A j \in 1..(Len(mail) - n) : mail'[j] = mail[n + j]
    BY <1>1, RestOf
  <2>3. DOMAIN mail' = 1..(Len(mail) - n)
    BY <2>2, LenProperties
  <2>4. ASSUME NEW i \in (n + 1)..Len(mail) PROVE i - n \in 1..(Len(mail) - n) /\ n + (i - n) = i
    BY <1>1
  <2>. QED  BY <2>2, <2>3, <2>4
<1>6. \A i \in DOMAIN mail : i \in 1..n \/ i \in (n + 1)..Len(mail)
  BY <1>1
<1>7. ASSUME NEW k, NEW f, Told(k, f) PROVE Told(k, f)' \/ \E i \in 1..n : b[i].kind = k /\ b[i].file = f
  <2>1. PICK i \in DOMAIN mail : mail[i].kind = k /\ mail[i].file = f
    BY <1>7 DEF Told
  <2>2. CASE i \in 1..n
    BY <1>2, <2>1, <2>2
  <2>3. CASE i \in (n + 1)..Len(mail)
    BY <1>5, <2>1, <2>3 DEF Told
  <2>. QED  BY <1>6, <2>2, <2>3
<1>8. ASSUME ModuleTold PROVE ModuleTold' \/ \E i \in 1..n : b[i].kind = "module"
  <2>1. PICK i \in DOMAIN mail : mail[i].kind = "module"
    BY <1>8 DEF ModuleTold
  <2>2. CASE i \in 1..n
    BY <1>2, <2>1, <2>2
  <2>3. CASE i \in (n + 1)..Len(mail)
    BY <1>5, <2>1, <2>3 DEF ModuleTold
  <2>. QED  BY <1>6, <2>2, <2>3
<1>. QED  BY <1>1, <1>3, <1>4, <1>7, <1>8 DEF LeavesTold

\* A text remembered was that of a file.
LEMMA PrintsTyped ==
    ASSUME DiskType, SeenInv, NEW b, NEW is, NEW s, s = printsAfter(b, is)
    PROVE  s \in [File -> [mtime : Int, hash : Int]] /\ \A f \in File : s[f].hash <= disk[f].text
<1>1. ASSUME NEW f \in File PROVE s[f] \in [mtime : Int, hash : Int] /\ s[f].hash <= disk[f].text
  <2>1. s[f] \in {seen[f], NoPrint, Fingerprint(f)}
    BY PrintOf
  <2>2. disk[f].text \in Nat /\ disk[f].mtime \in Nat
    BY DEF DiskType
  <2>3. NoPrint \in [mtime : Int, hash : Int] /\ NoPrint.hash <= disk[f].text
    BY <2>2 DEF NoPrint
  <2>4. Fingerprint(f) \in [mtime : Int, hash : Int] /\ Fingerprint(f).hash <= disk[f].text
    BY <2>2 DEF Fingerprint, Unhashed
  <2>5. seen[f] \in [mtime : Int, hash : Int] /\ seen[f].hash <= disk[f].text
    BY DEF SeenInv
  <2>. QED  BY <2>1, <2>3, <2>4, <2>5
<1>2. s = [f \in File |-> s[f]]
  BY DEF printsAfter
<1>. QED  BY <1>1, <1>2

\* A batch gone through without a reload leaves a snapshot as right as it was.
LEMMA BatchListed ==
    ASSUME DiskType, NEW b, NEW n, IsBatch(b, n), engine # NoEngine, ~Acted(b).reload, Acted(b).gaps = {},
           UNCHANGED <<disk, mod>>, seen' = Acted(b).seen,
           \A k, f : Told(k, f) => Told(k, f)' \/ \E i \in 1..n : b[i].kind = k /\ b[i].file = f,
           ModuleTold => ModuleTold',
           NEW s \in Snaps, Listed(s)
    PROVE  Listed(s)'
<1>1. /\ seen' = printsAfter(b, 1..n)
      /\ \A i \in 1..n : changed(printsAfter(b, 1..(i - 1)), b[i]) =>
           ~needsGraphReload(snap, b[i]) /\ ~Misjudged(b[i]) /\ ~NewPackage(b[i])
  BY ActedAll
<1>2. \A i \in 1..n : b[i] \in EventRecord
  BY DEF IsBatch
<1>3. ASSUME NEW f \in File, f \in s.files, ~disk[f].exists PROVE Told("deleted", f)'
  <2>1. Told("deleted", f)
    BY <1>3 DEF Listed
  <2>2. ASSUME NEW i \in 1..n, b[i].kind = "deleted", b[i].file = f PROVE FALSE
    <3>1. changed(printsAfter(b, 1..(i - 1)), b[i])
      BY <2>2 DEF changed
    <3>. QED  BY <1>1, <1>2, <1>3, <2>2, <3>1, ActedOn
  <2>. QED  BY <2>1, <2>2
<1>4. ASSUME NEW f \in File, f \notin s.files, disk[f].exists PROVE Told("written", f)' /\ ~SeenNow(f)'
  <2>1. Told("written", f) /\ ~SeenNow(f)
    BY <1>4 DEF Listed
  <2>2. ~\E i \in 1..n : b[i].file = f /\ b[i].kind = "written"
    <3>1. SUFFICES ASSUME \E i \in 1..n : b[i].file = f /\ b[i].kind = "written" PROVE FALSE
      OBVIOUS
    <3>2. PICK i \in 1..n : b[i].file = f /\ b[i].kind = "written" /\ changed(printsAfter(b, 1..(i - 1)), b[i])
      BY <1>4, <2>1, <3>1, FirstWritten
    <3>. QED  BY <1>1, <1>2, <1>4, <3>2, ActedOn
  <2>3. ~SeenNow(f)'
    <3>1. SUFFICES ASSUME seen'[f].hash = disk[f].text PROVE FALSE
      BY DEF SeenNow
    <3>2. n \in Nat /\ 1..n \in SUBSET (1..n)
      BY DEF IsBatch
    <3>. QED  BY <1>1, <2>1, <2>2, <3>1, <3>2, PrintNow
  <2>. QED  BY <2>1, <2>2, <2>3
<1>5. s.mod # mod' => ModuleTold'
  BY DEF Listed
<1>. QED  BY <1>3, <1>4, <1>5 DEF Listed

\* A batch with nothing new leaves the index entries as right as they were.
LEMMA BatchEntered ==
    ASSUME WsInv, NEW b, NEW n, IsBatch(b, n), ~Acted(b).reload, ~Acted(b).saw, Acted(b).gaps = {},
           UNCHANGED <<disk, snap, unit>>, seen' = Acted(b).seen,
           \A k, f : Told(k, f) => Told(k, f)' \/ \E i \in 1..n : b[i].kind = k /\ b[i].file = f,
           NEW p
    PROVE  (Entered(p) => Entered(p)') /\ (Awaited(p) => Awaited(p)')
<1>1. /\ seen' = printsAfter(b, 1..n) /\ n \in Nat
      /\ \A i \in 1..n : ~changed(printsAfter(b, 1..(i - 1)), b[i])
  BY ActedAll DEF IsBatch
<1>2. \A i \in 1..n : b[i].kind # "deleted" /\ disk[b[i].file].exists
  BY <1>1 DEF changed
<1>3. GoFiles(snap, p)' = GoFiles(snap, p) /\ GoFiles(snap, p) \subseteq File
  BY DEF GoFiles, WsInv, ThreadType, Snapshot
<1>4. Awaited(p) => Awaited(p)'
  BY <1>2, <1>3 DEF Awaited
<1>5. ASSUME NEW f \in File, Told("written", f), ~SeenNow(f) PROVE Told("written", f)' /\ ~SeenNow(f)'
  <2>1. ~\E i \in 1..n : b[i].file = f /\ b[i].kind = "written"
    BY <1>1, <1>2, <1>5, FirstWritten DEF WsInv
  <2>2. ~SeenNow(f)'
    <3>1. SUFFICES ASSUME seen'[f].hash = disk[f].text PROVE FALSE
      BY DEF SeenNow
    <3>2. 1..n \in SUBSET (1..n)
      OBVIOUS
    <3>. QED  BY <1>1, <1>5, <2>1, <3>1, <3>2, PrintNow DEF WsInv
  <2>. QED  BY <1>5, <2>1, <2>2
<1>6. ASSUME Entered(p) PROVE Entered(p)'
  <2>1. PICK m \in [File -> Nat] :
          /\ unit[p] = {<<g, m[g]>> : g \in GoFiles(snap, p)}
          /\ \A g \in GoFiles(snap, p) : m[g] = disk[g].text \/ (Told("written", g) /\ ~SeenNow(g))
    BY <1>6 DEF Entered
  <2>2. \A g \in GoFiles(snap, p) : m[g] = disk'[g].text \/ (Told("written", g)' /\ ~SeenNow(g)')
    BY <1>3, <1>5, <2>1
  <2>. QED  BY <1>3, <2>1, <2>2 DEF Entered
<1>. QED  BY <1>4, <1>6

\* The client's events are delivered.
LEMMA DeliverLedger ==
    ASSUME WsInv, LedgerInv, NEW n \in 1..Len(mail), handleDidChangeWatchedFiles(n)
    PROVE  LedgerInv'
<1>. DEFINE b == SubSeq(mail, 1, n)
<1>1. /\ UNCHANGED <<disk, mod, snap, engine, unit, serving, reads, idxReady, cacheFile>> /\ serving = "up"
      /\ mail' = SubSeq(mail, n + 1, Len(mail))
      /\ \/ /\ engine = NoEngine /\ UNCHANGED <<seen, watch, thr>>
            /\ gaps' = {} => gaps = {} /\ (thr["init"].at \in {"read", "load"} \/ thr["bg"].at = "load")
         \/ /\ engine # NoEngine /\ thr["mod"].at = "idle" /\ Goto("mod", "load")
            /\ UNCHANGED <<seen, watch, gaps>>
         \/ /\ engine # NoEngine /\ ~\E i \in 1..n : b[i].kind = "module"
            /\ seen' = Acted(b).seen /\ gaps' = gaps \cup Acted(b).gaps
            /\ IF Acted(b).saw THEN onEvent(Acted(b).reload) ELSE UNCHANGED watch
            /\ UNCHANGED thr
  BY DEF handleDidChangeWatchedFiles, diagVars, diskVars, Goto
<1>2. PICK c : c = b
  OBVIOUS
<1>3. /\ n \in Nat /\ DOMAIN c = 1..n /\ \A i \in 1..n : c[i] \in EventRecord
      /\ \A k, f : Told(k, f) => Told(k, f)' \/ \E i \in 1..n : c[i].kind = k /\ c[i].file = f
      /\ ModuleTold => ModuleTold' \/ \E i \in 1..n : c[i].kind = "module"
  <2>1. c = SubSeq(mail, 1, n)
    BY <1>2
  <2>2. mail' = SubSeq(mail, n + 1, Len(mail))
    BY <1>1
  <2>3. LeavesTold(n, SubSeq(mail, 1, n))
    BY <2>2, BatchParts
  <2>. QED  BY <2>1, <2>3 DEF LeavesTold
<1>. "init" \in Thread /\ "bg" \in Thread /\ "mod" \in Thread
  BY DEF Thread
<1>4. CASE /\ engine = NoEngine /\ UNCHANGED <<seen, watch, thr>>
           /\ gaps' = {} => gaps = {} /\ (thr["init"].at \in {"read", "load"} \/ thr["bg"].at = "load")
  <2>1. ReadsInv' /\ SeenInv' /\ FreshInv'
    BY <1>1, <1>4 DEF LedgerInv, ReadsInv, SeenInv, FreshInv
  <2>2. SettleInv'
    <3>1. SUFFICES ASSUME gaps' = {} PROVE GraphFine' /\ IndexFine' /\ (idxReady' \/ Opening')
      BY DEF SettleInv
    <3>2. Reloading'
      BY <1>4, <3>1 DEF Reloading
    <3>3. idxReady' \/ Opening'
      BY <1>1, <1>4, <3>1, WorkSame DEF LedgerInv, SettleInv
    <3>. QED  BY <1>1, <1>4, <3>2, <3>3 DEF GraphFine, IndexFine
  <2>. QED  BY <2>1, <2>2 DEF LedgerInv
<1>5. CASE engine # NoEngine /\ thr["mod"].at = "idle" /\ Goto("mod", "load") /\ UNCHANGED <<seen, watch, gaps>>
  <2>1. thr'["mod"].at = "load" /\ thr'["mod"].snap = thr["mod"].snap /\ \A x \in Thread \ {"mod"} : thr'[x] = thr[x]
    BY <1>5, GotoKeepsSnapshot
  <2>2. ReadsInv' /\ SeenInv'
    BY <1>1, <1>5, <2>1 DEF LedgerInv, ReadsInv, SeenInv
  <2>3. FreshInv'
    BY <1>1, <1>5, <2>1 DEF LedgerInv, FreshInv
  <2>4. SettleInv'
    <3>1. SUFFICES ASSUME gaps = {} PROVE GraphFine' /\ IndexFine' /\ (idxReady' \/ Opening')
      BY <1>5 DEF SettleInv
    <3>2. Reloading' /\ Revalidating'
      BY <2>1 DEF Reloading, Revalidating, Ended
    <3>3. Opening => Opening'
      BY <1>5, <2>1 DEF Opening
    <3>. QED  BY <1>1, <3>1, <3>2, <3>3 DEF GraphFine, IndexFine, LedgerInv, SettleInv
  <2>. QED  BY <2>2, <2>3, <2>4 DEF LedgerInv
<1>6. CASE /\ engine # NoEngine /\ ~\E i \in 1..n : c[i].kind = "module"
           /\ seen' = Acted(c).seen /\ gaps' = gaps \cup Acted(c).gaps
           /\ IF Acted(c).saw THEN onEvent(Acted(c).reload) ELSE UNCHANGED watch
           /\ UNCHANGED thr
  <2>1. IsBatch(c, n)
    BY <1>3, <1>6 DEF IsBatch
  <2>2. ReadsInv'
    BY <1>1, <1>6 DEF LedgerInv, ReadsInv
  <2>3. SeenInv'
    <3>1. \E is : Acted(c).seen = printsAfter(c, is)
      BY DEF Acted
    <3>. QED  BY <1>1, <1>6, <3>1, PrintsTyped DEF WsInv, LedgerInv, SeenInv
  <2>4. FreshInv'
    BY <1>1, <1>6 DEF LedgerInv, FreshInv
  <2>5. SettleInv'
    <3>1. SUFFICES ASSUME gaps = {}, Acted(c).gaps = {} PROVE GraphFine' /\ IndexFine' /\ (idxReady' \/ Opening')
      BY <1>6 DEF SettleInv
    <3>2. idxReady' \/ Opening'
      BY <1>1, <1>6, <3>1 DEF LedgerInv, SettleInv, Opening
    <3>3. /\ Snaps' = Snaps
          /\ \A s : Standing(s)' <=> Standing(s)
      BY <1>1, <1>6 DEF Snaps, Standing
    <3>4. GraphFine /\ IndexFine
      BY <1>1, <3>1 DEF LedgerInv, SettleInv
    <3>5. watch \in WatchRecord
      BY DEF WsInv, WatchType
    <3>6. PICK rl \in BOOLEAN : rl <=> Acted(c).reload
      OBVIOUS
    <3>7. CASE Acted(c).saw
      <4>1. watch' = [watch EXCEPT !.timer = TRUE, !.reload = watch.reload \/ Acted(c).reload]
        BY <1>6, <3>7 DEF onEvent
      <4>2. /\ watch'.timer /\ (watch.reload \/ Acted(c).reload => watch'.reload)
            /\ watch'.fired = watch.fired /\ watch'.rerun = watch.rerun /\ watch'.rerunReload = watch.rerunReload
        BY <3>5, <4>1 DEF WatchRecord
      <4>3. IndexFine'
        BY <4>2 DEF IndexFine, Revalidating
      <4>4. CASE Acted(c).reload \/ Reloading
        <5>1. Reloading'
          BY <1>6, <4>2, <4>4 DEF Reloading
        <5>. QED  BY <3>2, <4>3, <5>1 DEF GraphFine
      <4>5. CASE ~Acted(c).reload /\ ~Reloading
        <5>1. ASSUME NEW s \in Snaps, Standing(s) PROVE Listed(s)'
          <6>1. Listed(s)
            BY <3>4, <4>5, <5>1 DEF GraphFine
          <6>. QED  BY <1>1, <1>3, <1>6, <2>1, <3>1, <4>5, <6>1, BatchListed DEF WsInv
        <5>. QED  BY <3>2, <3>3, <4>3, <5>1 DEF GraphFine
      <4>. QED  BY <4>4, <4>5
    <3>8. CASE ~Acted(c).saw
      <4>1. ~Acted(c).reload
        BY <2>1, <3>8, ReloadSaw
      <4>2. (Reloading <=> Reloading') /\ (Revalidating <=> Revalidating')
        BY <1>6, <3>8 DEF Reloading, Revalidating
      <4>3. ASSUME NEW s \in Snaps, Listed(s) PROVE Listed(s)'
        BY <1>1, <1>3, <1>6, <2>1, <3>1, <4>1, <4>3, BatchListed DEF WsInv
      <4>4. \A p : (Entered(p) => Entered(p)') /\ (Awaited(p) => Awaited(p)')
        BY <1>1, <1>3, <1>6, <2>1, <3>1, <3>8, <4>1, BatchEntered
      <4>5. GraphFine'
        BY <3>3, <3>4, <4>2, <4>3 DEF GraphFine
      <4>6. IndexFine'
        BY <1>1, <3>4, <4>2, <4>4 DEF IndexFine, Packages
      <4>. QED  BY <3>2, <4>5, <4>6
    <3>. QED  BY <3>7, <3>8
  <2>. QED  BY <2>2, <2>3, <2>4, <2>5 DEF LedgerInv
<1>. QED  BY <1>1, <1>2, <1>4, <1>5, <1>6

-----------------------------------------------------------------------------
(* The debouncer.                                                          *)

\* The debouncer passes on what it owes.
LEMMA WatchPasses ==
    ASSUME WsInv, LedgerInv, \A x \in Thread \ {"watch"} : thr'[x] = thr[x],
           UNCHANGED <<disk, mod, mail, seen, snap, engine, unit, serving, gaps, reads, cacheFile, idxReady>>,
           thr["watch"].at \in {"idle", "done"} \/ thr'["watch"] = thr["watch"],
           thr'["watch"].at \in {"idle", "load", "index"} \/ thr'["watch"] = thr["watch"],
           thr'["watch"].snap \in {thr["watch"].snap, NoSnap},
           Reloading => Reloading', Revalidating => Revalidating', watch # QuietWatch \/ thr["watch"].at # "idle"
    PROVE  LedgerInv'
<1>1. "watch" \in Thread /\ "init" \in Thread /\ thr'["init"] = thr["init"]
  BY DEF Thread
<1>2. FreshInv'
  BY <1>1 DEF LedgerInv, FreshInv
<1>3. ReadsInv'
  <2>1. NoSnap.read <= reads
    BY DEF WsInv, DiskType, NoSnap
  <2>2. \A x \in Thread : thr'[x].snap.read <= reads
    BY <2>1 DEF LedgerInv, ReadsInv
  <2>. QED  BY <2>2 DEF LedgerInv, ReadsInv
<1>4. SeenInv'
  BY DEF LedgerInv, SeenInv
<1>5. Snaps' = Snaps
  <2>1. thr'["watch"].at \in Loaded <=> thr["watch"].at \in Loaded
    BY DEF Loaded
  <2>2. thr["watch"].at \in Loaded => thr'["watch"].snap = thr["watch"].snap
    BY DEF Loaded
  <2>. QED  BY <1>1, <2>1, <2>2, SnapsSame
<1>6. Opening => Opening'
  BY <1>1 DEF Opening
<1>7. SettleInv'
  BY <1>5, <1>6, OwedSame DEF LedgerInv
<1>. QED  BY <1>2, <1>3, <1>4, <1>7 DEF LedgerInv

\* The flag taken by a callback counts as long as the callback has not run,
LEMMA fireTimerLedger ==
    ASSUME WsInv, LedgerInv, fireTimer
    PROVE  LedgerInv'
<1>1. /\ watch.timer /\ watch' = [watch EXCEPT !.timer = FALSE, !.reload = FALSE, !.fired = Append(watch.fired, watch.reload)]
      /\ UNCHANGED <<thr, disk, mod, mail, seen, snap, engine, unit, serving, gaps, reads, cacheFile, idxReady>>
  BY DEF fireTimer, diagVars, diskVars, wsVars
<1>2. watch \in WatchRecord /\ watch.fired \in Seq(BOOLEAN) /\ watch.reload \in BOOLEAN
  BY DEF WsInv, WatchType, WatchRecord
<1>3. PICK q : q = Append(watch.fired, watch.reload)
  OBVIOUS
<1>4. /\ Len(watch.fired) \in Nat /\ DOMAIN watch.fired = 1..Len(watch.fired) /\ DOMAIN q = 1..(Len(watch.fired) + 1)
      /\ q[Len(watch.fired) + 1] = watch.reload /\ \A i \in 1..Len(watch.fired) : q[i] = watch.fired[i]
      /\ Len(q) = Len(watch.fired) + 1
  BY <1>2, <1>3, AppendProperties, LenProperties
<1>5. watch' = [watch EXCEPT !.timer = FALSE, !.reload = FALSE, !.fired = q]
  BY <1>1, <1>3
<1>6. watch'.fired = q /\ watch'.rerun = watch.rerun /\ watch'.rerunReload = watch.rerunReload
  BY <1>2, <1>5 DEF WatchRecord
<1>7. Reloading => Reloading'
  <2>1. Len(watch.fired) + 1 \in DOMAIN q /\ \A i \in DOMAIN watch.fired : i \in DOMAIN q /\ q[i] = watch.fired[i]
    BY <1>4
  <2>2. (watch.reload \/ \E i \in DOMAIN watch.fired : watch.fired[i]) => \E i \in DOMAIN q : q[i]
    BY <1>4, <2>1
  <2>. QED  BY <1>1, <1>6, <2>2 DEF Reloading
<1>8. Revalidating'
  <2>1. q # <<>>
    BY <1>4
  <2>. QED  BY <1>6, <2>1 DEF Revalidating
<1>9. watch # QuietWatch
  BY <1>1 DEF QuietWatch
<1>. QED  BY <1>1, <1>7, <1>8, <1>9, WatchPasses

\* What is left when one of a sequence is taken out.
LEMMA RemoveKeeps ==
    ASSUME NEW q \in Seq(BOOLEAN), NEW i \in 1..Len(q), NEW k \in 1..Len(q), k # i, q[k]
    PROVE  \E j \in DOMAIN RemoveAt(q, i) : RemoveAt(q, i)[j]
<1>1. Len(q) \in Nat /\ i \in Nat /\ k \in Nat /\ i <= Len(q) /\ k <= Len(q) /\ \A x \in 1..Len(q) : q[x] \in BOOLEAN
  BY LenProperties, ElementOfSeq
<1>2. PICK a : a = SubSeq(q, 1, i - 1)
  OBVIOUS
<1>3. PICK b : b = SubSeq(q, i + 1, Len(q))
  OBVIOUS
<1>4. a \in Seq(BOOLEAN) /\ Len(a) = i - 1 /\ \A x \in 1..(i - 1) : a[x] = q[x]
  <2>1. 1 \in Int /\ i - 1 \in Int /\ \A x \in 1..(i - 1) : q[x] \in BOOLEAN
    BY <1>1
  <2>2. /\ SubSeq(q, 1, i - 1) \in Seq(BOOLEAN)
        /\ Len(SubSeq(q, 1, i - 1)) = (IF 1 <= i - 1 THEN i - 1 - 1 + 1 ELSE 0)
        /\ \A x \in 1..(i - 1 - 1 + 1) : SubSeq(q, 1, i - 1)[x] = q[1 + x - 1]
    BY <2>1, SubSeqProperties
  <2>3. (IF 1 <= i - 1 THEN i - 1 - 1 + 1 ELSE 0) = i - 1 /\ i - 1 - 1 + 1 = i - 1
    BY <1>1
  <2>4. \A x \in 1..(i - 1) : 1 + x - 1 = x
    BY <1>1
  <2>. QED  BY <1>2, <2>2, <2>3, <2>4
<1>5. b \in Seq(BOOLEAN) /\ Len(b) = Len(q) - i /\ \A x \in 1..(Len(q) - i) : b[x] = q[i + x]
  BY <1>3, RestOf
<1>6. /\ a \o b \in Seq(BOOLEAN) /\ Len(a \o b) = Len(a) + Len(b)
      /\ \A x \in 1..(Len(a) + Len(b)) : (a \o b)[x] = IF x <= Len(a) THEN a[x] ELSE b[x - Len(a)]
  BY <1>4, <1>5, ConcatProperties
<1>7. RemoveAt(q, i) = a \o b
  BY <1>2, <1>3 DEF RemoveAt
<1>8. DOMAIN (a \o b) = 1..(Len(q) - 1)
  <2>1. Len(a \o b) = Len(q) - 1
    BY <1>1, <1>4, <1>5, <1>6
  <2>. QED  BY <1>6, <2>1, LenProperties
<1>9. CASE k < i
  <2>1. k \in 1..(Len(q) - 1) /\ k \in 1..(i - 1) /\ k <= Len(a) /\ k \in 1..(Len(a) + Len(b))
    BY <1>1, <1>4, <1>5, <1>9
  <2>2. (a \o b)[k] = q[k]
    BY <1>4, <1>6, <2>1
  <2>. QED  BY <1>7, <1>8, <2>1, <2>2
<1>10. CASE k > i
  <2>1. k - 1 \in 1..(Len(q) - 1) /\ ~(k - 1 <= Len(a)) /\ k - 1 \in 1..(Len(a) + Len(b))
    BY <1>1, <1>4, <1>5, <1>10
  <2>2. (k - 1) - Len(a) = k - i /\ k - i \in 1..(Len(q) - i) /\ i + (k - i) = k
    BY <1>1, <1>4, <1>10
  <2>3. (a \o b)[k - 1] = b[k - i]
    BY <1>6, <2>1, <2>2
  <2>4. b[k - i] = q[k]
    BY <1>5, <2>2
  <2>. QED  BY <1>7, <1>8, <2>1, <2>3, <2>4
<1>. QED  BY <1>1, <1>9, <1>10

\* then for the pass it starts or leaves behind,
LEMMA fireLedger ==
    ASSUME WsInv, LedgerInv, NEW i \in 1..Len(watch.fired), fire(i)
    PROVE  LedgerInv'
<1>1. UNCHANGED <<disk, mod, mail, seen, snap, engine, unit, serving, gaps, reads, cacheFile, idxReady>>
  BY DEF fire, diagVars, diskVars
<1>2. /\ watch \in WatchRecord /\ watch.fired \in Seq(BOOLEAN) /\ "watch" \in Thread /\ thr \in [Thread -> ThreadRecord]
      /\ DOMAIN watch.fired = 1..Len(watch.fired)
  BY LenProperties DEF WsInv, WatchType, WatchRecord, Thread, ThreadType
<1>3. PICK q : q = RemoveAt(watch.fired, i)
  OBVIOUS
<1>4. (\E k \in DOMAIN watch.fired : k # i /\ watch.fired[k]) => \E j \in DOMAIN q : q[j]
  BY <1>2, <1>3, RemoveKeeps
<1>5. PICK rl \in BOOLEAN : rl <=> watch.fired[i]
  OBVIOUS
<1>6. watch # QuietWatch
  <2>1. SUFFICES ASSUME watch.fired = <<>> PROVE FALSE
    BY DEF QuietWatch
  <2>. QED  BY <2>1
<1>7. CASE watch.running
  <2>1. /\ watch' = [watch EXCEPT !.fired = q, !.rerun = TRUE, !.rerunReload = watch.rerunReload \/ watch.fired[i]]
        /\ UNCHANGED thr
    BY <1>3, <1>7 DEF fire
  <2>2. /\ watch'.timer = watch.timer /\ watch'.reload = watch.reload /\ watch'.fired = q /\ watch'.rerun
        /\ (watch'.rerunReload <=> watch.rerunReload \/ watch.fired[i])
    BY <1>2, <2>1 DEF WatchRecord
  <2>3. Reloading => Reloading'
    BY <1>4, <2>1, <2>2 DEF Reloading
  <2>4. Revalidating'
    BY <2>2 DEF Revalidating
  <2>. QED  BY <1>1, <1>6, <2>1, <2>3, <2>4, WatchPasses
<1>8. CASE ~watch.running
  <2>1. PICK a : a = Pass(watch.fired[i])
    OBVIOUS
  <2>2. a = (IF watch.fired[i] THEN "load" ELSE "index")
    BY <2>1 DEF Pass
  <2>3. watch' = [watch EXCEPT !.fired = q, !.running = TRUE] /\ Goto("watch", a)
    BY <1>3, <1>8, <2>1 DEF fire, Goto
  <2>4. /\ watch'.timer = watch.timer /\ watch'.reload = watch.reload /\ watch'.fired = q /\ watch'.rerun = watch.rerun
        /\ watch'.rerunReload = watch.rerunReload
    BY <1>2, <2>3 DEF WatchRecord
  <2>5. thr'["watch"].at = a /\ thr'["watch"].snap = thr["watch"].snap /\ \A x \in Thread \ {"watch"} : thr'[x] = thr[x]
    BY <1>2, <2>3, GotoKeepsSnapshot
  <2>6. thr["watch"].at = "idle" /\ "init" \in Thread
    BY <1>8 DEF WsInv, WatchType, Thread
  <2>7. Reloading => Reloading'
    <3>1. CASE watch.fired[i]
      BY <1>2, <2>2, <2>5, <3>1 DEF Reloading
    <3>2. CASE ~watch.fired[i]
      BY <1>4, <2>4, <2>5, <2>6, <3>2 DEF Reloading
    <3>. QED  BY <3>1, <3>2
  <2>8. Revalidating'
    BY <1>2, <2>2, <2>5 DEF Revalidating, Ended
  <2>. QED  BY <1>1, <1>6, <2>2, <2>5, <2>6, <2>7, <2>8, WatchPasses
<1>. QED  BY <1>7, <1>8

\* and a pass left behind is the next one.
LEMMA passDoneLedger ==
    ASSUME WsInv, LedgerInv, passDone
    PROVE  LedgerInv'
<1>1. UNCHANGED <<disk, mod, mail, seen, snap, engine, unit, serving, gaps, reads, cacheFile, idxReady>> /\ thr["watch"].at = "done"
  BY DEF passDone, diagVars, diskVars
<1>2. watch \in WatchRecord /\ "watch" \in Thread /\ "init" \in Thread /\ thr \in [Thread -> ThreadRecord]
  BY DEF WsInv, WatchType, Thread, ThreadType
<1>3. CASE watch.rerun
  <2>1. PICK a : a = Pass(watch.rerunReload)
    OBVIOUS
  <2>2. a = (IF watch.rerunReload THEN "load" ELSE "index")
    BY <2>1 DEF Pass
  <2>3. watch' = [watch EXCEPT !.rerun = FALSE, !.rerunReload = FALSE] /\ Goto("watch", a)
    BY <1>3, <2>1 DEF passDone, Goto
  <2>4. watch'.timer = watch.timer /\ watch'.reload = watch.reload /\ watch'.fired = watch.fired
    BY <1>2, <2>3 DEF WatchRecord
  <2>5. thr'["watch"].at = a /\ thr'["watch"].snap = thr["watch"].snap /\ \A x \in Thread \ {"watch"} : thr'[x] = thr[x]
    BY <1>2, <2>3, GotoKeepsSnapshot
  <2>6. Reloading => Reloading'
    <3>1. CASE watch.rerunReload
      BY <1>2, <2>2, <2>5, <3>1 DEF Reloading
    <3>2. CASE ~watch.rerunReload
      BY <1>1, <2>4, <2>5, <1>2, <3>2 DEF Reloading
    <3>. QED  BY <3>1, <3>2
  <2>7. Revalidating'
    BY <1>2, <2>2, <2>5 DEF Revalidating, Ended
  <2>. QED  BY <1>1, <2>2, <2>5, <2>6, <2>7, WatchPasses
<1>4. CASE ~watch.rerun
  <2>1. thr' = [thr EXCEPT !["watch"] = Resting] /\ watch' = [watch EXCEPT !.running = FALSE]
    BY <1>4 DEF passDone
  <2>2. /\ watch'.timer = watch.timer /\ watch'.reload = watch.reload /\ watch'.fired = watch.fired /\ watch'.rerun = watch.rerun
        /\ watch'.rerunReload = watch.rerunReload
    BY <1>2, <2>1 DEF WatchRecord
  <2>3. thr'["watch"].at = "idle" /\ thr'["watch"].snap = NoSnap /\ \A x \in Thread \ {"watch"} : thr'[x] = thr[x]
    BY <1>2, <2>1 DEF Resting
  <2>4. Reloading => Reloading'
    BY <1>1, <1>2, <2>2, <2>3 DEF Reloading
  <2>5. Revalidating => Revalidating'
    BY <1>1, <2>2, <2>3 DEF Revalidating, Ended
  <2>. QED  BY <1>1, <2>3, <2>4, <2>5, WatchPasses
<1>. QED  BY <1>3, <1>4

-----------------------------------------------------------------------------
(* Loading and storing.                                                    *)

\* A goroutine on its way to a first index stays on it.
LEMMA OpeningMoves ==
    ASSUME NEW t \in Thread, \A x \in Thread \ {t} : thr'[x] = thr[x], thr[t].at # "rebuild",
           (t = "init" /\ thr[t].at \in OpeningAt) => thr'[t].at \in OpeningAt, Opening
    PROVE  Opening'
<1>1. CASE thr["init"].at \in OpeningAt
  <2>1. thr'["init"].at \in OpeningAt
    BY <1>1 DEF Thread
  <2>. QED  BY <2>1 DEF Opening
<1>2. CASE \E x \in Thread : thr[x].at = "rebuild"
  BY <1>2 DEF Opening
<1>. QED  BY <1>1, <1>2 DEF Opening

\* What is owed to a snapshot does not depend on where it is.
LEMMA ListedSame ==
    ASSUME UNCHANGED <<disk, mod, mail, seen>>
    PROVE  \A s : Listed(s)' <=> Listed(s)
BY DEF Listed, Told, ModuleTold, SeenNow

\* A snapshot of what is on disk lists it.
LEMMA LoadedIsListed ==
    ASSUME NEW s, s.files = OnDiskNow, s.mod = mod
    PROVE  Listed(s)
BY DEF Listed, OnDiskNow

\* A cache is read again in the background, or it lists what is on disk, or a
\* gap is recorded.
LEMMA loadWorkspaceAsyncLedger ==
    ASSUME WsInv, StartInv, LedgerInv, loadWorkspaceAsync
    PROVE  LedgerInv'
<1>1. /\ UNCHANGED <<disk, mod, mail, seen, watch, snap, engine, unit, serving, reads, cacheFile, idxReady>>
      /\ thr["init"].at = "read"
  BY DEF loadWorkspaceAsync, diagVars, diskVars, watchVars
<1>2. /\ "init" \in Thread /\ "bg" \in Thread /\ thr \in [Thread -> ThreadRecord]
      /\ engine = NoEngine /\ \A x \in Thread \ {"init"} : thr[x].at = "idle"
  BY <1>1 DEF Thread, LedgerInv, FreshInv, WsInv, ThreadType
<1>3. serving # "down"
  BY <1>1 DEF StartInv
<1>4. SeenInv'
  BY <1>1 DEF LedgerInv, SeenInv
<1>5. CASE cacheHit
  <2>1. PICK a : a = IF Shared \/ Stale THEN "load" ELSE "idle"
    OBVIOUS
  <2>2. PICK c : c = cacheFile.snap
    OBVIOUS
  <2>3. thr' = [thr EXCEPT !["init"].at = "set", !["init"].snap = c, !["bg"].at = a]
    BY <1>5, <2>1, <2>2 DEF loadWorkspaceAsync
  <2>4. gaps' = IF ~(Shared \/ Stale) /\ (c.files # OnDiskNow \/ c.mod # mod) THEN gaps \cup {"trusted"} ELSE gaps
    BY <1>5, <2>2 DEF loadWorkspaceAsync
  <2>5. /\ thr'["init"].at = "set" /\ thr'["init"].snap = c /\ thr'["bg"].at = a /\ thr'["bg"].snap = thr["bg"].snap
        /\ \A x \in Thread \ {"init", "bg"} : thr'[x] = thr[x]
    BY <1>2, <2>3 DEF ThreadRecord
  <2>6. ReadsInv'
    <3>1. c.read <= reads
      BY <2>2 DEF LedgerInv, ReadsInv
    <3>2. \A x \in Thread : thr'[x].snap.read <= reads
      BY <2>5, <3>1 DEF LedgerInv, ReadsInv
    <3>. QED  BY <1>1, <3>2 DEF LedgerInv, ReadsInv
  <2>7. FreshInv'
    BY <1>1, <1>3, <2>5 DEF FreshInv
  <2>8. SettleInv'
    <3>1. SUFFICES ASSUME gaps' = {} PROVE GraphFine' /\ IndexFine' /\ Opening'
      BY DEF SettleInv
    <3>2. IndexFine' /\ Opening'
      BY <1>1, <1>2, <2>5 DEF IndexFine, Opening, OpeningAt
    <3>3. CASE Shared \/ Stale
      BY <1>2, <2>1, <2>5, <3>2, <3>3 DEF GraphFine, Reloading
    <3>4. CASE ~(Shared \/ Stale)
      <4>1. c.files = OnDiskNow /\ c.mod = mod
        BY <2>4, <3>1, <3>4
      <4>2. Listed(c)'
        BY <1>1, <4>1, LoadedIsListed, ListedSame
      <4>3. a = "idle"
        BY <2>1, <3>4
      <4>4. \A s \in Snaps' : s = c
        BY <1>1, <1>2, <2>5, <4>3 DEF Snaps, Loaded
      <4>5. ASSUME NEW s, (s \in Snaps)' PROVE Listed(s)'
        BY <4>2, <4>4, <4>5
      <4>. QED  BY <3>2, <4>5 DEF GraphFine
    <3>. QED  BY <3>3, <3>4
  <2>. QED  BY <1>4, <2>6, <2>7, <2>8 DEF LedgerInv
<1>6. CASE ~cacheHit
  <2>1. Goto("init", "load") /\ UNCHANGED gaps
    BY <1>6 DEF loadWorkspaceAsync
  <2>2. thr'["init"].at = "load" /\ thr'["init"].snap = thr["init"].snap /\ \A x \in Thread \ {"init"} : thr'[x] = thr[x]
    BY <1>2, <2>1, GotoKeepsSnapshot
  <2>3. ReadsInv'
    BY <1>1, <2>2 DEF LedgerInv, ReadsInv
  <2>4. FreshInv'
    BY <1>1, <1>3, <2>2 DEF FreshInv
  <2>5. SettleInv'
    BY <1>1, <1>2, <2>2 DEF SettleInv, GraphFine, IndexFine, Reloading, Opening, OpeningAt
  <2>. QED  BY <1>4, <2>3, <2>4, <2>5 DEF LedgerInv
<1>. QED  BY <1>5, <1>6

\* A load reads the disk last, so that its snapshot is the one that stands.
LEMMA LoadLedger ==
    ASSUME WsInv, StartInv, LedgerInv, NEW t \in Thread, Load(t)
    PROVE  LedgerInv'
<1>1. /\ UNCHANGED <<disk, mod, mail, seen, watch, snap, engine, unit, serving, cacheFile, idxReady>>
      /\ thr[t].at = "load" /\ thr \in [Thread -> ThreadRecord] /\ reads \in Nat
  BY DEF Load, diagVars, diskVars, watchVars, WsInv, ThreadType, DiskType
<1>2. SeenInv'
  BY <1>1 DEF LedgerInv, SeenInv
<1>3. CASE reads' = reads + 1 /\ thr' = [thr EXCEPT ![t].at = "save", ![t].snap = GraphLoad(reads + 1)] /\ UNCHANGED <<gaps, load>>
  <2>1. PICK g : g = GraphLoad(reads + 1)
    OBVIOUS
  <2>2. g.files = OnDiskNow /\ g.mod = mod /\ g.read = reads + 1
    BY <2>1 DEF GraphLoad
  <2>3. thr'[t].at = "save" /\ thr'[t].snap = g /\ \A x \in Thread \ {t} : thr'[x] = thr[x]
    BY <1>1, <1>3, <2>1 DEF ThreadRecord
  <2>4. /\ snap.read \in Nat /\ cacheFile.snap.read \in Nat /\ \A x \in Thread : thr[x].snap.read \in Nat
        /\ snap.read <= reads /\ cacheFile.snap.read <= reads /\ \A x \in Thread : thr[x].snap.read <= reads
    BY DEF WsInv, ThreadType, DiskType, ThreadRecord, Snapshot, LedgerInv, ReadsInv
  <2>5. ReadsInv'
    <3>1. snap.read <= reads + 1 /\ cacheFile.snap.read <= reads + 1 /\ \A x \in Thread : thr[x].snap.read <= reads + 1
      BY <1>1, <2>4
    <3>2. g.read <= reads + 1
      BY <1>1, <2>2
    <3>3. \A x \in Thread : thr'[x].snap.read <= reads + 1
      BY <2>3, <3>1, <3>2
    <3>. QED  BY <1>1, <1>3, <3>1, <3>3 DEF ReadsInv
  <2>6. FreshInv'
    BY <1>1, <2>3, FreshMoves DEF LedgerInv
  <2>7. SettleInv'
    <3>1. SUFFICES ASSUME serving = "up", gaps = {} PROVE GraphFine' /\ IndexFine' /\ (idxReady' \/ Opening')
      BY <1>1, <1>3 DEF SettleInv
    <3>2. IndexFine'
      BY <2>3 DEF IndexFine, Revalidating, Ended
    <3>3. Opening => Opening'
      BY <1>1, <2>3, OpeningMoves DEF OpeningAt
    <3>4. ASSUME NEW s, Standing(s)' PROVE Listed(s)'
      <4>1. g \in Snaps'
        BY <2>3 DEF Snaps, Loaded
      <4>2. g.read <= s.read /\ s \in Snaps'
        BY <3>4, <4>1 DEF Standing
      <4>3. CASE s = g
        BY <1>1, <2>2, <4>3, LoadedIsListed, ListedSame
      <4>4. CASE s # g
        <5>1. (\E x \in Thread : s = thr[x].snap) \/ s = snap
          BY <1>1, <2>3, <4>2, <4>4 DEF Snaps
        <5>2. s.read <= reads /\ s.read \in Nat
          BY <2>4, <5>1
        <5>. QED  BY <1>1, <2>2, <4>2, <5>2
      <4>. QED  BY <4>3, <4>4
    <3>5. GraphFine'
      BY <3>4 DEF GraphFine
    <3>. QED  BY <1>1, <3>1, <3>2, <3>3, <3>5 DEF LedgerInv, SettleInv
  <2>. QED  BY <1>2, <2>5, <2>6, <2>7 DEF LedgerInv
<1>4. CASE thr' = [thr EXCEPT ![t] = Finished(t)] /\ gaps' = gaps \cup {"failed"} /\ UNCHANGED reads
  <2>1. thr'[t].at \in {"idle", "done"} /\ thr'[t].snap \in {thr[t].snap, NoSnap} /\ \A x \in Thread \ {t} : thr'[x] = thr[x]
    BY <1>4, FinishedKeepsSnapshot
  <2>. QED  BY <1>1, <1>4, <2>1, LeavesOpen
<1>. QED  BY <1>3, <1>4 DEF Load, Fails, NoFailure

\* Storing drops one snapshot, older than the one stored.
LEMMA storeWorkspaceLedger ==
    ASSUME WsInv, StartInv, LedgerInv, NEW t \in Thread, storeWorkspace(t)
    PROVE  LedgerInv'
<1>1. /\ UNCHANGED <<disk, mod, mail, seen, watch, unit, serving, reads, cacheFile, idxReady>>
      /\ thr[t].at = "store" /\ Goto(t, "drain") /\ snap' = thr[t].snap /\ engine' = thr[t].engine
      /\ gaps' = IF engine # NoEngine /\ thr[t].snap.read < snap.read THEN gaps \cup {"crossed"} ELSE gaps
  BY DEF storeWorkspace, diskVars, watchVars
<1>2. thr'[t].at = "drain" /\ thr'[t].snap = thr[t].snap /\ \A x \in Thread \ {t} : thr'[x] = thr[x]
  BY <1>1, GotoKeepsSnapshot
<1>3. SeenInv' /\ ReadsInv'
  BY <1>1, <1>2 DEF LedgerInv, SeenInv, ReadsInv
<1>4. FreshInv'
  BY <1>1, <1>2, FreshMoves DEF LedgerInv
<1>5. snap.read \in Nat /\ \A x \in Thread : thr[x].snap.read \in Nat
  BY DEF WsInv, ThreadType, ThreadRecord, Snapshot
<1>6. engine' # NoEngine
  BY <1>1, NoEngineIsNone DEF WsInv, ThreadType
<1>7. SettleInv'
  <2>1. SUFFICES ASSUME serving = "up", gaps' = {} PROVE GraphFine' /\ IndexFine' /\ (idxReady' \/ Opening')
    BY <1>1 DEF SettleInv
  <2>2. gaps = {} /\ (engine = NoEngine \/ snap.read <= thr[t].snap.read)
    BY <1>1, <1>5, <2>1
  <2>3. GraphFine /\ (idxReady \/ Opening)
    BY <2>1, <2>2 DEF LedgerInv, SettleInv
  <2>4. Reloading => Reloading'
    BY <1>1, <1>2, WorkMoves DEF Ended
  <2>5. IndexFine'
    BY <1>2 DEF IndexFine, Revalidating, Ended
  <2>6. Opening => Opening'
    BY <1>1, <1>2, OpeningMoves DEF OpeningAt
  <2>7. thr[t].snap \in Snaps
    BY <1>1 DEF Snaps, Loaded
  <2>8. \A s \in Snaps' : s \in Snaps
    BY <1>1, <1>2, <2>7 DEF Snaps, Loaded
  <2>9. thr[t].snap \in Snaps'
    BY <1>1, <1>6 DEF Snaps
  <2>10. \A s \in Snaps : s \in Snaps' \/ (engine # NoEngine /\ s = snap)
    <3>1. ASSUME NEW x \in Thread, thr[x].at \in Loaded PROVE thr[x].snap \in Snaps'
      <4>1. CASE x = t
        BY <2>9, <4>1
      <4>2. CASE x # t
        BY <1>2, <3>1, <4>2 DEF Snaps
      <4>. QED  BY <4>1, <4>2
    <3>. QED  BY <3>1 DEF Snaps
  <2>11. ASSUME NEW s, Standing(s)' PROVE Standing(s)
    <3>1. s \in Snaps' /\ \A x \in Snaps' : x.read <= s.read
      BY <2>11 DEF Standing
    <3>2. s \in Snaps
      BY <2>8, <3>1
    <3>3. s.read \in Nat
      BY <1>5, <3>2 DEF Snaps
    <3>4. ASSUME NEW x \in Snaps PROVE x.read <= s.read
      <4>1. CASE x \in Snaps'
        BY <3>1, <4>1
      <4>2. CASE engine # NoEngine /\ x = snap
        BY <1>5, <2>2, <2>9, <3>1, <3>3, <4>2
      <4>. QED  BY <2>10, <4>1, <4>2
    <3>. QED  BY <3>2, <3>4 DEF Standing
  <2>12. ASSUME NEW s, Standing(s)', ~Reloading PROVE Listed(s)'
    <3>1. Standing(s) /\ s \in Snaps
      BY <2>11, <2>12 DEF Standing
    <3>. QED  BY <1>1, <2>3, <2>12, <3>1, ListedSame DEF GraphFine
  <2>13. GraphFine'
    BY <2>4, <2>12 DEF GraphFine
  <2>. QED  BY <1>1, <2>3, <2>5, <2>6, <2>13
<1>. QED  BY <1>3, <1>4, <1>7 DEF LedgerInv

-----------------------------------------------------------------------------
(* The passes over the index.                                              *)

\* At the end of the last pass the installed snapshot is the only one, and
\* lists what is on disk: a package left out waits for an event.
LEMMA PassSettles ==
    ASSUME WsInv, GraphFine, NEW t \in Thread, \A x \in Thread \ {t} : thr'[x] = thr[x], thr[t].at \in {"index", "build", "rebuild"},
           UNCHANGED <<disk, mod, mail, seen, watch, snap, engine>>, engine # NoEngine, ~Revalidating',
           \A p \in Packages(snap) : Indexable(snap, p) => unit'[p] = Recorded(snap, p)
    PROVE  IndexFine'
<1>1. /\ \A x \in Thread : thr'[x].at \in Ended
      /\ ~watch.timer /\ watch.fired = <<>> /\ ~watch.rerun
  BY DEF Revalidating
<1>2. \A x \in Thread : thr[x].at \notin Loaded \cup {"read", "load"}
  BY <1>1 DEF Ended, Loaded
<1>3. "init" \in Thread
  BY DEF Thread
<1>4. ~Reloading
  BY <1>1, <1>2, <1>3 DEF Reloading
<1>5. Snaps = {snap} /\ snap.read \in Nat
  BY <1>2 DEF Snaps, WsInv, ThreadType, Snapshot
<1>6. Listed(snap)
  BY <1>4, <1>5 DEF GraphFine, Standing
<1>7. snap.files \subseteq File
  BY DEF WsInv, ThreadType, Snapshot
<1>8. ASSUME NEW p \in Packages(snap) PROVE Entered(p)' \/ Awaited(p)'
  <2>1. CASE Indexable(snap, p)
    <3>1. unit'[p] = {<<f, disk[f].text>> : f \in GoFiles(snap, p)}
      BY <1>8, <2>1 DEF Recorded
    <3>2. GoFiles(snap, p) \subseteq File /\ GoFiles(snap, p)' = GoFiles(snap, p)
      BY <1>7 DEF GoFiles
    <3>3. \A f \in File : disk[f].text \in Nat
      BY DEF WsInv, DiskType
    <3>4. PICK m : m = [f \in File |-> disk[f].text]
      OBVIOUS
    <3>5. m \in [File -> Nat] /\ \A f \in GoFiles(snap, p) : m[f] = disk[f].text
      BY <3>2, <3>3, <3>4
    <3>6. unit'[p] = {<<f, m[f]>> : f \in GoFiles(snap, p)}
      BY <3>1, <3>5
    <3>7. Entered(p)'
      BY <3>2, <3>5, <3>6 DEF Entered
    <3>. QED  BY <3>7
  <2>2. CASE ~Indexable(snap, p)
    <3>1. PICK f \in GoFiles(snap, p) : ~disk[f].exists
      BY <2>2 DEF Indexable
    <3>2. f \in File /\ f \in snap.files /\ f \in GoFiles(snap, p)'
      BY <1>7, <3>1 DEF GoFiles
    <3>3. Told("deleted", f)
      BY <1>6, <3>1, <3>2 DEF Listed
    <3>4. Told("deleted", f)'
      BY <3>3 DEF Told
    <3>. QED  BY <3>2, <3>4 DEF Awaited
  <2>. QED  BY <2>1, <2>2
<1>. QED  BY <1>8 DEF IndexFine, Packages

\* A pass over the index, in place or anew.
LEMMA PassLedger ==
    ASSUME WsInv, StartInv, LedgerInv, NEW t \in Thread, \A x \in Thread \ {t} : thr'[x] = thr[x],
           thr[t].at \in {"index", "build", "rebuild"}, thr'[t].at \in {"idle", "done", "recheck", "discard"},
           thr'[t].snap \in {thr[t].snap, NoSnap},
           UNCHANGED <<disk, mod, mail, seen, watch, snap, engine, serving, gaps, reads, cacheFile>>,
           idxReady' \/ (idxReady' = idxReady /\ thr[t].at = "index"),
           (serving = "up" /\ gaps = {} /\ ~Revalidating') =>
               \A p \in Packages(snap) : Indexable(snap, p) => unit'[p] = Recorded(snap, p)
    PROVE  LedgerInv'
<1>1. FreshInv'
  BY FreshMoves DEF LedgerInv
<1>2. ReadsInv'
  <2>1. NoSnap.read <= reads
    BY DEF NoSnap, WsInv, DiskType
  <2>2. \A x \in Thread : thr'[x].snap.read <= reads
    BY <2>1 DEF LedgerInv, ReadsInv
  <2>. QED  BY <2>2 DEF LedgerInv, ReadsInv
<1>3. SeenInv'
  BY DEF LedgerInv, SeenInv
<1>4. SettleInv'
  <2>1. SUFFICES ASSUME serving = "up", gaps = {} PROVE GraphFine' /\ IndexFine' /\ (idxReady' \/ Opening')
    BY DEF SettleInv
  <2>2. GraphFine /\ (idxReady \/ Opening)
    BY <2>1 DEF LedgerInv, SettleInv
  <2>3. Snaps' = Snaps
    BY SnapsSame DEF Loaded
  <2>4. Reloading => Reloading'
    <3>1. thr["init"].at = "read" => thr'["init"].at = "read"
      BY DEF Thread
    <3>. QED  BY <3>1 DEF Reloading
  <2>5. GraphFine'
    BY <2>2, <2>3, <2>4, ListedSame DEF GraphFine, Standing
  <2>6. idxReady' \/ Opening'
    <3>1. CASE thr[t].at = "index"
      BY <2>2, <3>1, OpeningMoves DEF OpeningAt
    <3>. QED  BY <3>1
  <2>7. IndexFine'
    <3>1. CASE Revalidating' \/ engine = NoEngine
      BY <3>1 DEF IndexFine
    <3>2. CASE ~Revalidating' /\ engine # NoEngine
      BY <2>1, <2>2, <3>2, PassSettles
    <3>. QED  BY <3>1, <3>2
  <2>. QED  BY <2>5, <2>6, <2>7
<1>. QED  BY <1>1, <1>2, <1>3, <1>4 DEF LedgerInv

\* The packages a pass goes over.
LEMMA PackagesAre ==
    ASSUME WsInv
    PROVE  \A p \in Packages(snap) : p \in Pkg
BY PackagesAssumption DEF WsInv, ThreadType, Snapshot, Packages

\* A repair leaves every package of now, or leaves a way open.
LEMMA RepairMakes ==
    ASSUME WsInv, NEW stale, repairIndexPackages(stale)
    PROVE  \/ gaps' # {}
           \/ /\ gaps' = gaps
              /\ \A p \in Packages(snap) :
                   (Indexable(snap, p) /\ (p \in stale \/ unit[p] = Recorded(snap, p))) => unit'[p] = Recorded(snap, p)
<1>1. PICK failed \in SUBSET stale, redone \in SUBSET stale :
        /\ stale \ failed \subseteq redone /\ unit' = Reindexed(redone)
        /\ IF \E p \in failed : Indexable(snap, p) THEN Fails({"unrepaired"}) ELSE NoFailure
  BY Zenon DEF repairIndexPackages
<1>2. CASE \E p \in failed : Indexable(snap, p)
  BY <1>1, <1>2 DEF Fails
<1>3. CASE ~\E p \in failed : Indexable(snap, p)
  <2>1. gaps' = gaps
    BY <1>1, <1>3 DEF NoFailure
  <2>2. ASSUME NEW p \in Packages(snap), Indexable(snap, p), p \in stale \/ unit[p] = Recorded(snap, p)
        PROVE  unit'[p] = Recorded(snap, p)
    BY <1>1, <1>3, <2>2, PackagesAre DEF Reindexed
  <2>. QED  BY <2>1, <2>2
<1>. QED  BY <1>2, <1>3

\* A pass finds the index ready, and leaves every package of now or a way open.
LEMMA revalidateIndexLedger ==
    ASSUME WsInv, StartInv, LedgerInv, NEW t \in Thread, revalidateIndex(t)
    PROVE  LedgerInv'
<1>1. /\ UNCHANGED <<disk, mod, mail, seen, watch, snap, engine, serving, reads, cacheFile>>
      /\ thr[t].at = "index" /\ idxMuFree(t)
  BY DEF revalidateIndex, diskVars, watchVars
<1>. PICK stale : stale = staleIndexPackages
  OBVIOUS
<1>2. \/ /\ thr' = [thr EXCEPT ![t] = Finished(t)] /\ UNCHANGED idxReady
         /\ \/ stale = {} /\ UNCHANGED <<unit, gaps>>
            \/ gaps' = gaps \cup {"unchecked"}
            \/ repairIndexPackages(stale)
      \/ Goto(t, "rebuild") /\ UNCHANGED <<unit, gaps>>
  BY Zenon DEF revalidateIndex, Fails, NoFailure
<1>3. CASE thr' = [thr EXCEPT ![t] = Finished(t)]
  <2>1. thr'[t].at \in {"idle", "done"} /\ thr'[t].snap \in {thr[t].snap, NoSnap} /\ \A x \in Thread \ {t} : thr'[x] = thr[x]
    BY <1>3, FinishedKeepsSnapshot
  <2>2. CASE gaps' # {}
    BY <1>1, <2>1, <2>2, LeavesOpen
  <2>3. CASE gaps' = {}
    <3>1. gaps' = gaps /\ UNCHANGED idxReady
      BY <1>1, <1>2, <2>1, <2>3, RepairMakes, GotoWhere
    <3>2. ASSUME serving = "up", gaps = {}, ~Revalidating', NEW p \in Packages(snap), Indexable(snap, p)
          PROVE  unit'[p] = Recorded(snap, p)
      <4>1. \A x \in Thread : thr'[x].at \in Ended
        BY <3>2 DEF Revalidating
      <4>2. thr["init"].at \notin OpeningAt /\ \A x \in Thread : thr[x].at # "rebuild"
        BY <1>1, <2>1, <4>1 DEF Ended, OpeningAt, Thread
      <4>3. idxReady
        BY <3>2, <4>2 DEF LedgerInv, SettleInv, Opening
      <4>4. p \in stale <=> unit[p] # Recorded(snap, p)
        BY <3>2, <4>3 DEF staleIndexPackages, PackageChanged
      <4>5. CASE stale = {} /\ UNCHANGED unit
        BY <4>4, <4>5
      <4>6. CASE repairIndexPackages(stale)
        BY <3>1, <3>2, <4>4, <4>6, RepairMakes
      <4>7. ~Goto(t, "rebuild")
        BY <2>1, GotoWhere
      <4>. QED  BY <1>2, <3>1, <3>2, <4>5, <4>6, <4>7
    <3>. QED  BY <1>1, <2>1, <3>1, <3>2, PassLedger
  <2>. QED  BY <2>2, <2>3
<1>4. CASE Goto(t, "rebuild") /\ UNCHANGED <<unit, gaps>>
  <2>1. thr'[t].at = "rebuild" /\ thr'[t].snap = thr[t].snap /\ \A x \in Thread \ {t} : thr'[x] = thr[x]
    BY <1>4, GotoKeepsSnapshot
  <2>2. FreshInv'
    BY <1>1, <2>1, FreshMoves DEF LedgerInv
  <2>3. ReadsInv' /\ SeenInv'
    BY <1>1, <2>1 DEF LedgerInv, ReadsInv, SeenInv
  <2>4. (Reloading => Reloading') /\ (Revalidating => Revalidating') /\ Opening'
    BY <1>1, <2>1, WorkMoves DEF Ended, Opening
  <2>5. Snaps' = Snaps
    BY <1>1, <2>1, SnapsSame DEF Loaded
  <2>6. SettleInv'
    BY <1>1, <1>4, <2>4, <2>5, OwedSame DEF LedgerInv
  <2>. QED  BY <2>2, <2>3, <2>6 DEF LedgerInv
<1>. QED  BY <1>2, <1>3, <1>4

\* A build leaves every package of now, a pass to come, or a way open.
LEMMA buildIndexLedger ==
    ASSUME WsInv, StartInv, LedgerInv, NEW t \in Thread, buildIndex(t)
    PROVE  LedgerInv'
<1>1. /\ UNCHANGED <<disk, mod, mail, seen, watch, snap, engine, serving, reads, cacheFile>>
      /\ thr[t].at \in {"build", "rebuild"}
  BY DEF buildIndex, watchVars
<1>2. PICK built \in SUBSET Packages(snap), opened \in BOOLEAN :
        /\ IF opened /\ built = Packages(snap) THEN NoFailure
           ELSE Fails(IF ~opened THEN {"unavailable"} ELSE IF thr[t].at = "rebuild" THEN {"unbuilt"} ELSE {})
        /\ unit' = Reindexed(built) /\ idxReady' = opened
        /\ thr' = [thr EXCEPT ![t] = AfterBuild(t, opened)]
  BY Zenon DEF buildIndex
<1>3. PICK r : r = AfterBuild(t, opened)
  OBVIOUS
<1>4. /\ r.at \in IF opened THEN IF thr[t].at = "build" THEN {"recheck"} ELSE {"discard"}
                   ELSE IF thr[t].at = "build" THEN {"index"} ELSE {"idle", "done"}
      /\ r.snap \in {thr[t].snap, NoSnap}
  BY <1>1, <1>3, AfterBuildThread
<1>5. thr'[t] = r /\ \A x \in Thread \ {t} : thr'[x] = thr[x]
  BY <1>2, <1>3 DEF WsInv, ThreadType
<1>6. CASE gaps' # {}
  BY <1>1, <1>4, <1>5, <1>6, LeavesOpen
<1>7. CASE gaps' = {}
  <2>1. opened /\ (built = Packages(snap) \/ thr[t].at = "build") /\ gaps' = gaps
    BY <1>1, <1>2, <1>7 DEF Fails, NoFailure
  <2>2. ASSUME ~Revalidating', NEW p \in Packages(snap), Indexable(snap, p) PROVE unit'[p] = Recorded(snap, p)
    <3>1. thr'[t].at \in Ended
      BY <2>2 DEF Revalidating
    <3>2. r.at = "recheck" => built = Packages(snap)
      BY <1>5, <3>1 DEF Ended
    <3>3. thr[t].at = "build" => r.at = "recheck"
      BY <1>4, <2>1
    <3>4. built = Packages(snap)
      BY <2>1, <3>2, <3>3
    <3>. QED  BY <1>2, <2>2, <3>4, PackagesAre DEF Reindexed
  <2>3. thr'[t].at \in {"idle", "done", "recheck", "discard"} /\ thr'[t].snap \in {thr[t].snap, NoSnap}
    BY <1>4, <1>5, <2>1
  <2>. QED  BY <1>1, <1>2, <1>5, <2>1, <2>2, <2>3, PassLedger
<1>. QED  BY <1>6, <1>7

-----------------------------------------------------------------------------
(* The life of the process, and the theorem.                               *)

\* A process that is gone owes nothing.
LEMMA GoneLedger ==
    ASSUME WsInv, LedgerInv, Gone
    PROVE  LedgerInv'
<1>1. /\ serving' = "down" /\ seen' = [f \in File |-> NoPrint] /\ watch' = QuietWatch /\ thr' = [t \in Thread |-> Resting]
      /\ snap' = NoSnap /\ engine' = NoEngine /\ UNCHANGED <<disk, cacheFile, reads>>
  BY DEF Gone, diskVars
<1>2. SettleInv'
  BY <1>1 DEF SettleInv
<1>3. FreshInv'
  BY <1>1 DEF FreshInv, Resting
<1>4. ReadsInv'
  <2>1. reads \in Nat /\ cacheFile.snap.read <= reads /\ NoSnap.read <= reads
    BY DEF WsInv, DiskType, LedgerInv, ReadsInv, NoSnap
  <2>2. \A t \in Thread : thr'[t].snap = NoSnap
    BY <1>1 DEF Resting
  <2>. QED  BY <1>1, <2>1, <2>2 DEF ReadsInv
<1>5. SeenInv'
  <2>1. \A f \in File : disk[f].text \in Nat
    BY DEF WsInv, DiskType
  <2>. QED  BY <1>1, <2>1 DEF SeenInv, NoPrint
<1>. QED  BY <1>2, <1>3, <1>4, <1>5 DEF LedgerInv

\* A process starts by reading everything.
LEMMA handleInitializeLedger ==
    ASSUME WsInv, LedgerInv, handleInitialize
    PROVE  LedgerInv'
<1>1. /\ UNCHANGED <<disk, mod, mail, seen, watch, snap, engine, reads, cacheFile, idxReady>>
      /\ serving = "down" /\ Goto("init", "read") /\ "init" \in Thread
  BY DEF handleInitialize, diagVars, diskVars, watchVars, Thread
<1>2. thr'["init"].at = "read" /\ thr'["init"].snap = thr["init"].snap /\ \A x \in Thread \ {"init"} : thr'[x] = thr[x]
  BY <1>1, GotoKeepsSnapshot
<1>3. engine = NoEngine /\ watch = QuietWatch /\ \A x \in Thread \ {"init"} : thr[x].at = "idle"
  BY <1>1 DEF LedgerInv, FreshInv
<1>4. ReadsInv' /\ SeenInv'
  BY <1>1, <1>2 DEF LedgerInv, ReadsInv, SeenInv
<1>5. FreshInv'
  BY <1>1, <1>2, <1>3 DEF FreshInv
<1>6. SettleInv'
  BY <1>1, <1>2, <1>3 DEF SettleInv, GraphFine, IndexFine, Reloading, Opening, OpeningAt
<1>. QED  BY <1>4, <1>5, <1>6 DEF LedgerInv

\* One that stops owes nothing any more.
LEMMA StopWatchLedger ==
    ASSUME WsInv, LedgerInv, StopWatch
    PROVE  LedgerInv'
<1>1. /\ UNCHANGED <<thr, disk, mod, mail, seen, snap, engine, reads, cacheFile, idxReady>>
      /\ serving = "up" /\ serving' = "stopping" /\ watch' = [watch EXCEPT !.timer = FALSE]
  BY DEF StopWatch, diagVars, diskVars, wsVars
<1>2. ASSUME watch = QuietWatch PROVE watch' = QuietWatch
  <2>1. watch \in WatchRecord /\ watch.timer = FALSE
    BY <1>2 DEF WsInv, WatchType, QuietWatch
  <2>2. watch' = watch
    BY <1>1, <2>1 DEF WatchRecord
  <2>. QED  BY <1>2, <2>2
<1>3. ReadsInv' /\ SeenInv' /\ FreshInv'
  BY <1>1, <1>2 DEF LedgerInv, ReadsInv, SeenInv, FreshInv
<1>4. SettleInv'
  BY <1>1 DEF SettleInv
<1>. QED  BY <1>3, <1>4 DEF LedgerInv

\* The documents and their rechecks leave the workspace alone.
LEMMA DocumentsLedger ==
    ASSUME LedgerInv, ClientDoc \/ Publish
    PROVE  LedgerInv'
<1>1. UNCHANGED <<disk, mod, mail, seen, snap, unit, serving, gaps, thr, watch, reads, cacheFile>>
  <2>1. UNCHANGED <<diskVars, watchVars, wsVars, serving, reads, gaps>>
    BY Zenon DEF ClientDoc, Publish
  <2>. QED  BY <2>1 DEF diskVars, watchVars, wsVars
<1>2. CASE ClientDoc
  <2>1. UNCHANGED <<engine, idxReady>>
    BY <1>2 DEF ClientDoc, handleDidOpen, handleDidChange, handleDidClose
  <2>. QED  BY <1>1, <2>1, LedgerSame
<1>3. CASE Publish
  <2>1. CASE \E f \in Doc : DocStep(f)
    <3>1. UNCHANGED <<engine, idxReady>>
      BY <2>1 DEF DocStep, markPendingOpen, rereadWorkspace, focusOpened, armChanged, clearDiagnosticsForClosedFile, notifyClosed
    <3>. QED  BY <1>1, <3>1, LedgerSame
  <2>2. CASE \E e \in Engine, u \in Unit : UnitStep(e, u)
    <3>1. PICK e \in Engine, u \in Unit : UnitStep(e, u)
      BY <2>2
    <3>2. ASSUME fireRecheck(e, u) PROVE UNCHANGED <<engine, idxReady>>
      BY <3>2 DEF fireRecheck
    <3>3. ASSUME commit(e, u) PROVE UNCHANGED <<engine, idxReady>>
      BY <3>3 DEF commit
    <3>4. ASSUME updateDiagFiles(e, u) PROVE UNCHANGED <<engine, idxReady>>
      BY <3>4 DEF updateDiagFiles
    <3>5. ASSUME NEW f \in Doc, notifyDiagnostics(e, u, f) PROVE UNCHANGED <<engine, idxReady>>
      BY <3>5 DEF notifyDiagnostics
    <3>6. UNCHANGED <<engine, idxReady>>
      BY <3>1, <3>2, <3>3, <3>4, <3>5 DEF UnitStep
    <3>. QED  BY <1>1, <3>6, LedgerSame
  <2>. QED  BY <1>3, <2>1, <2>2 DEF Publish
<1>. QED  BY <1>2, <1>3

\* Every step keeps the invariant.
LEMMA LedgerStep == WsInv /\ StartInv /\ LedgerInv /\ [Next]_vars => LedgerInv'
<1>. SUFFICES ASSUME WsInv, StartInv, LedgerInv, [Next]_vars PROVE LedgerInv'
  OBVIOUS
<1>1. CASE Client
  <2>1. CASE \E f \in File, stamped \in BOOLEAN : WriteFile(f, stamped)
    BY <2>1, WriteFileLedger
  <2>2. CASE \E f \in File : RemoveFile(f)
    BY <2>2, RemoveFileLedger
  <2>3. CASE EditModule \/ \E f \in File : Resend(f)
    BY <2>3, EventLedger, UnreportedLedger DEF EditModule
  <2>4. CASE ClientDoc
    BY <2>4, DocumentsLedger
  <2>5. CASE Kill
    BY <2>5, GoneLedger DEF Kill
  <2>6. CASE StopWatch
    BY <2>6, StopWatchLedger
  <2>7. CASE \E q \in Pkg : blob(q)
    <3>1. UNCHANGED <<disk, mod, mail, seen, snap, engine, unit, serving, gaps, thr, watch, idxReady, reads, cacheFile>>
      BY <2>7 DEF blob, diagVars, diskVars, watchVars
    <3>. QED  BY <3>1, LedgerSame
  <2>. QED  BY <1>1, <2>1, <2>2, <2>3, <2>4, <2>5, <2>6, <2>7 DEF Client
<1>2. CASE System
  <2>1. CASE handleInitialize
    BY <2>1, handleInitializeLedger
  <2>2. CASE Exit
    BY <2>2, GoneLedger DEF Exit
  <2>3. CASE Deliver
    BY <2>3, DeliverLedger DEF Deliver
  <2>4. CASE fireTimer
    BY <2>4, fireTimerLedger
  <2>5. CASE Fire
    BY <2>5, fireLedger DEF Fire
  <2>6. CASE passDone
    BY <2>6, passDoneLedger
  <2>7. CASE InitStep
    BY <2>7, loadWorkspaceAsyncLedger, openIndexLedger DEF InitStep
  <2>8. CASE \E t \in Thread : ThreadStep(t)
    BY <2>8, LoadLedger, SaveCacheLedger, setWorkspaceLedger, dropChangedLedger, storeWorkspaceLedger, drainOpensLedger,
       revalidateIndexLedger, buildIndexLedger, indexReadyLedger DEF ThreadStep
  <2>9. CASE decodeExport
    <3>1. UNCHANGED <<disk, mod, mail, seen, snap, engine, unit, serving, gaps, thr, watch, idxReady, reads, cacheFile>>
      BY <2>9 DEF decodeExport, diagVars, diskVars, watchVars
    <3>. QED  BY <3>1, LedgerSame
  <2>10. CASE Publish
    BY <2>10, DocumentsLedger
  <2>. QED  BY <1>2, <2>1, <2>2, <2>3, <2>4, <2>5, <2>6, <2>7, <2>8, <2>9, <2>10 DEF System
<1>3. CASE UNCHANGED vars
  <2>1. UNCHANGED <<disk, mod, mail, seen, snap, engine, unit, serving, gaps, thr, watch, idxReady, reads, cacheFile>>
    BY <1>3 DEF vars, diagVars, diskVars, watchVars, wsVars
  <2>. QED  BY <2>1, LedgerSame
<1>. QED  BY <1>1, <1>2, <1>3 DEF Next

\* It holds at first.
LEMMA LedgerInit == Init => LedgerInv
<1>. SUFFICES ASSUME Init PROVE LedgerInv
  OBVIOUS
<1>1. /\ serving = "down" /\ seen = [f \in File |-> NoPrint] /\ watch = QuietWatch /\ thr = [t \in Thread |-> Resting]
      /\ snap = NoSnap /\ engine = NoEngine /\ reads = 0
      /\ disk = [f \in File |-> [exists |-> f \in load.files, text |-> 0, mtime |-> 0]]
      /\ cacheFile.snap.read = 0
  BY DEF Init, DiagInit, NoCache, NoSnap, GraphLoad
<1>2. SettleInv /\ FreshInv
  BY <1>1 DEF SettleInv, FreshInv, Resting
<1>3. ReadsInv
  BY <1>1 DEF ReadsInv, Resting, NoSnap
<1>4. SeenInv
  BY <1>1 DEF SeenInv, NoPrint
<1>. QED  BY <1>2, <1>3, <1>4 DEF LedgerInv

\* However writes, removals and module changes fall between the client's events,
\* the debouncer's passes and the loads, once nothing is left to do and no gap was
\* met, the installed graph is that of the disk and every index entry was made of
\* the current texts (handleDidChangeWatchedFiles, watchFingerprints.changed,
\* revalidateGraph, setWorkspace, revalidateIndex).
THEOREM SettledIsCurrentHolds == Spec => []SettledIsCurrent
<1>1. Spec => [](WsInv /\ StartInv /\ LedgerInv)
  BY WsInit, WsStep, LedgerInit, LedgerStep, PTL DEF Spec
<1>. QED  BY <1>1, LedgerImplies, PTL
=============================================================================
