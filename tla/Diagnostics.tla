----------------------------- MODULE Diagnostics -----------------------------
(***************************************************************************)
(* What the editor is told about open documents (internal/server:          *)
(* diagnostics.go, documentsync.go; internal/overlay).  A document is      *)
(* opened, edited and closed on its own notification lane; its handlers    *)
(* arm a recheck on the check engine of the workspace they read; a recheck *)
(* that passes its engine's retired test decides under diagMu what to say  *)
(* about each file, and says it after releasing diagMu.  An engine is      *)
(* reduced to that path; CheckEngine models the engine itself.             *)
(***************************************************************************)
EXTENDS Integers, FiniteSets

CONSTANTS
    Doc,        \* documents an editor may open
    Unit,       \* check units: a directory's package or its external test
    UnitOf,     \* document -> the unit whose file it is
    BaseOf,     \* unit -> the base unit of its directory
    Outside,    \* documents of GOROOT and of the module cache
    Importing,  \* documents that import a package the cold gate holds back
    OnDisk,     \* document -> the version of its saved text
    MaxEngine   \* bound: engines built in one session

Engine == 1..MaxEngine
NoEngine == 0
Closed == -1      \* overlay: the document is not tracked
Gate == -1        \* the diagnostic of an import the cold gate held back
Unseen == {-2}    \* nothing was ever published for the document

ASSUME DocsAreTyped ==
    /\ UnitOf \in [Doc -> Unit] /\ BaseOf \in [Unit -> Unit] /\ OnDisk \in [Doc -> Nat]
    /\ Outside \subseteq Doc /\ Importing \subseteq Doc /\ MaxEngine \in Nat

VARIABLES
    overlay,       \* document -> version of its tracked text, or Closed
    handler,       \* document -> where its lane's handler is, with the engine it read
    engine,        \* the engine of the installed workspace (s.ws), or NoEngine
    pendingOpens,  \* documents opened while there was no workspace
    known,         \* <<engine, unit>> the engine has resolved
    armed,         \* <<engine, unit>> with a debounced recheck
    recheck,       \* <<engine, unit>> -> the recheck in progress
    retired,       \* engines retired by a workspace replacement
    idxReady,      \* the facts index is open
    diagFiles,     \* unit -> files it last published diagnostics for
    shown,         \* document -> the set of diagnostics the client shows
    latest,        \* history: document -> who last decided what to say of it
    outOfOrder,    \* history: documents last told something superseded
    unrechecked    \* history: units whose recheck was lost with its engine

diagVars == <<overlay, handler, engine, pendingOpens, known, armed, recheck, retired,
              idxReady, diagFiles, shown, latest, outOfOrder, unrechecked>>
histVars == <<latest, outOfOrder, unrechecked>>

Idle == [at |-> "idle", engine |-> NoEngine]
NoRecheck == [at |-> "none", found |-> [f \in Doc |-> {}], open |-> {}, tell |-> {}, says |-> [f \in Doc |-> {}]]
FilesOf(u) == {f \in Doc : UnitOf[f] = u}
Open == {f \in Doc : overlay[f] # Closed}
\* Overlay.ReadFile: the tracked text, or the saved one.
ReadFile(f) == IF overlay[f] = Closed THEN OnDisk[f] ELSE overlay[f]
\* nonWorkspacePackageForFile: the engine is not asked about a dependency.
InWorkspace(files) == files \ Outside
\* coldGateSource: an import that is answered from persisted data alone.
HeldBack(f) == f \in Importing /\ ~idxReady
\* Version 0 of a text is free of errors, every other has an error of its own.
ErrorsIn(v) == IF v = 0 THEN {} ELSE {v}

DiagTypeOK ==
    /\ overlay \in [Doc -> {Closed} \cup Nat]
    /\ handler \in [Doc -> [at : {"idle", "mark", "reread", "focus", "arm", "clear", "notify"}, engine : {NoEngine} \cup Engine]]
    /\ engine \in {NoEngine} \cup Engine /\ pendingOpens \subseteq Doc
    /\ known \subseteq Engine \X Unit /\ armed \subseteq Engine \X Unit /\ retired \subseteq Engine
    /\ \A e \in Engine, u \in Unit :
         /\ recheck[<<e, u>>].at \in {"none", "checked", "publish", "notify"}
         /\ recheck[<<e, u>>].tell \subseteq FilesOf(u)
    /\ idxReady \in BOOLEAN /\ diagFiles \in [Unit -> SUBSET Doc]
    /\ \A u \in Unit : diagFiles[u] \subseteq FilesOf(u)
    /\ \A f \in Doc : shown[f] = Unseen \/ shown[f] \subseteq {Gate} \cup Nat

DiagInit ==
    /\ overlay = [f \in Doc |-> Closed] /\ handler = [f \in Doc |-> Idle]
    /\ engine = NoEngine /\ pendingOpens = {} /\ known = {} /\ armed = {} /\ retired = {}
    /\ recheck = [eu \in Engine \X Unit |-> NoRecheck]
    /\ idxReady = FALSE /\ diagFiles = [u \in Unit |-> {}]
    /\ shown = [f \in Doc |-> Unseen]
    /\ latest = [f \in Doc |-> NoEngine] /\ outOfOrder = {} /\ unrechecked = {}

-----------------------------------------------------------------------------
(* The engine, as far as the handlers and the publisher see it.            *)

\* SetFocus and Invalidate for each file: the directory's base unit, and the
\* external test unit once it has been resolved.
Rechecks(e, files, k) ==
    {<<e, BaseOf[UnitOf[f]]>> : f \in files} \cup
    {<<e, u>> : u \in {x \in Unit : <<e, x>> \in k /\ \E f \in files : BaseOf[x] = BaseOf[UnitOf[f]]}}
FocusAndInvalidate(e, files) ==
    LET mine == InWorkspace(files)
        k == known \cup {<<e, UnitOf[f]>> : f \in mine}
    IN  known' = k /\ armed' = armed \cup Rechecks(e, mine, k)
Invalidate(e, files) ==
    /\ armed' = armed \cup Rechecks(e, InWorkspace(files), known)
    /\ UNCHANGED known
\* recheckOpenFilesAfterIndexReady: InvalidateDependency passes over the units
\* its engine has never resolved.
recheckOpenFilesAfterIndexReady(e) ==
    /\ armed' = armed \cup {eu \in known : eu[1] = e /\ \E f \in Open : BaseOf[UnitOf[f]] = BaseOf[eu[2]]}
    /\ unrechecked' = unrechecked \cup {u \in Unit : <<e, u>> \notin known /\ FilesOf(u) \cap Open # {}}

\* fireRecheck: a recheck reads the files, through an importer that is gated
\* while the index is not ready.  It supersedes one that has not committed.
fireRecheck(e, u) ==
    /\ <<e, u>> \in armed /\ recheck[<<e, u>>].at \in {"none", "checked"}
    /\ armed' = armed \ {<<e, u>>} /\ known' = known \cup {<<e, u>>}
    /\ recheck' = [recheck EXCEPT ![<<e, u>>] =
         [at |-> "checked", tell |-> {}, says |-> [f \in Doc |-> {}], open |-> Open \cap FilesOf(u),
          found |-> [f \in Doc |-> IF f \notin FilesOf(u) THEN {}
                                   ELSE ErrorsIn(ReadFile(f)) \cup
                                        (IF HeldBack(f) THEN {Gate} ELSE {})]]]
    /\ unrechecked' = IF e = engine THEN unrechecked \ {u} ELSE unrechecked
    /\ UNCHANGED <<overlay, handler, engine, pendingOpens, retired, idxReady, diagFiles, shown, latest, outOfOrder>>

\* commit: the retired test, then on to publishing.
commit(e, u) ==
    /\ recheck[<<e, u>>].at = "checked"
    /\ IF e \in retired
       THEN recheck' = [recheck EXCEPT ![<<e, u>>] = NoRecheck] /\ unrechecked' = unrechecked \cup {u}
       ELSE recheck' = [recheck EXCEPT ![<<e, u>>].at = "publish"] /\ UNCHANGED unrechecked
    /\ UNCHANGED <<overlay, handler, engine, pendingOpens, known, armed, retired, idxReady, diagFiles, shown, latest, outOfOrder>>

\* Retire: pending timers and uncommitted rechecks of e are cancelled.
Retire(e) ==
    /\ retired' = retired \cup {e}
    /\ armed' = {eu \in armed : eu[1] # e}
    /\ recheck' = [eu \in Engine \X Unit |->
                     IF eu[1] = e /\ recheck[eu].at = "checked" THEN NoRecheck ELSE recheck[eu]]
    /\ unrechecked' = unrechecked \cup {u \in Unit : <<e, u>> \in armed \/ recheck[<<e, u>>].at = "checked"}

-----------------------------------------------------------------------------
(* Publishing.                                                             *)

\* groupDiagsByFile: while the index is not ready, an import the gate held
\* back is no diagnostic, and its file is gated.
byFile(found) == [f \in Doc |-> IF idxReady THEN found[f] ELSE found[f] \ {Gate}]
gatedFiles(found) == {f \in Doc : ~idxReady /\ Gate \in found[f]}

\* updateDiagFiles: next is what the unit is now credited with, empty the
\* files to be told that they are clean.
nextDiagFiles(u, found) ==
    {f \in FilesOf(u) : byFile(found)[f] # {}} \cup (gatedFiles(found) \cap diagFiles[u])
emptyFiles(u, found) ==
    LET next == nextDiagFiles(u, found)
        gated == gatedFiles(found)
    IN  ((diagFiles[u] \ next) \ gated) \cup
        (((Open \cap FilesOf(u)) \ (next \cup diagFiles[u])) \ gated)

\* publishDiagnostics up to the release of diagMu.  It loads s.idx before it
\* takes diagMu; here the two are one step.
updateDiagFiles(e, u) ==
    LET r == recheck[<<e, u>>]
        told == emptyFiles(u, r.found) \cup {f \in FilesOf(u) : byFile(r.found)[f] # {}}
    IN  /\ r.at = "publish"
        /\ diagFiles' = [diagFiles EXCEPT ![u] = nextDiagFiles(u, r.found)]
        /\ recheck' = [recheck EXCEPT ![<<e, u>>] =
             IF told = {} THEN NoRecheck ELSE [r EXCEPT !.at = "notify", !.tell = told, !.says = byFile(r.found)]]
        /\ latest' = [f \in Doc |-> IF f \in told THEN e ELSE latest[f]]
        /\ UNCHANGED <<overlay, handler, engine, pendingOpens, known, armed, retired, idxReady, shown, outOfOrder, unrechecked>>

\* One textDocument/publishDiagnostics.
notifyDiagnostics(e, u, f) ==
    LET r == recheck[<<e, u>>]
        stale == latest[f] # e \/ e \in retired \/ (f \in r.open) # (f \in Open)
    IN  /\ r.at = "notify" /\ f \in r.tell
        /\ shown' = [shown EXCEPT ![f] = r.says[f]]
        /\ recheck' = [recheck EXCEPT ![<<e, u>>] = IF r.tell = {f} THEN NoRecheck ELSE [r EXCEPT !.tell = @ \ {f}]]
        /\ outOfOrder' = IF stale THEN outOfOrder \cup {f} ELSE outOfOrder \ {f}
        /\ UNCHANGED <<overlay, handler, engine, pendingOpens, known, armed, retired, idxReady, diagFiles, latest, unrechecked>>

-----------------------------------------------------------------------------
(* Document notifications; those of one document run one after another.    *)

\* handleDidOpen: the overlay first, then the workspace is read.
handleDidOpen(f) ==
    /\ handler[f].at = "idle" /\ overlay[f] = Closed
    /\ overlay' = [overlay EXCEPT ![f] = OnDisk[f]]
    /\ handler' = [handler EXCEPT ![f] = IF engine = NoEngine THEN [at |-> "mark", engine |-> NoEngine]
                                         ELSE [at |-> "focus", engine |-> engine]]
    /\ UNCHANGED <<engine, pendingOpens, known, armed, recheck, retired, idxReady, diagFiles, shown, histVars>>

markPendingOpen(f) ==
    /\ handler[f].at = "mark"
    /\ pendingOpens' = pendingOpens \cup {f}
    /\ handler' = [handler EXCEPT ![f].at = "reread"]
    /\ UNCHANGED <<overlay, engine, known, armed, recheck, retired, idxReady, diagFiles, shown, histVars>>

\* drainPendingOpens on the engine of a workspace just read or installed.
drainPendingOpens(e) ==
    /\ pendingOpens' = {}
    /\ FocusAndInvalidate(e, pendingOpens)

\* Mutant: the handler returns without the second look.
rereadWorkspaceNever(f) ==
    /\ handler[f].at = "reread"
    /\ handler' = [handler EXCEPT ![f] = Idle]
    /\ UNCHANGED <<overlay, engine, pendingOpens, known, armed, recheck, retired, idxReady, diagFiles, shown, histVars>>
\* The workspace may have been installed, and the set drained, in between.
rereadWorkspace(f) ==
    /\ handler[f].at = "reread"
    /\ IF engine = NoEngine THEN UNCHANGED <<pendingOpens, known, armed>> ELSE drainPendingOpens(engine)
    /\ handler' = [handler EXCEPT ![f] = Idle]
    /\ UNCHANGED <<overlay, engine, recheck, retired, idxReady, diagFiles, shown, histVars>>

\* SetFocus and Invalidate on the engine that was read.
focusOpened(f) ==
    /\ handler[f].at = "focus"
    /\ FocusAndInvalidate(handler[f].engine, {f})
    /\ handler' = [handler EXCEPT ![f] = Idle]
    /\ UNCHANGED <<overlay, engine, pendingOpens, recheck, retired, idxReady, diagFiles, shown, histVars>>

\* handleDidChange.  Without a workspace there is no recheck to arm: the
\* pending open covers it.
handleDidChange(f, v) ==
    /\ handler[f].at = "idle" /\ overlay[f] # Closed /\ v # overlay[f]
    /\ overlay' = [overlay EXCEPT ![f] = v]
    /\ handler' = [handler EXCEPT ![f] = IF engine = NoEngine \/ InWorkspace({f}) = {} THEN Idle
                                         ELSE [at |-> "arm", engine |-> engine]]
    /\ UNCHANGED <<engine, pendingOpens, known, armed, recheck, retired, idxReady, diagFiles, shown, histVars>>

\* An external test that this engine has not resolved is not armed.
armChanged(f) ==
    LET e == handler[f].engine
    IN  /\ handler[f].at = "arm"
        /\ Invalidate(e, {f})
        /\ unrechecked' = IF <<e, UnitOf[f]>> \in armed' THEN unrechecked ELSE unrechecked \cup {UnitOf[f]}
        /\ handler' = [handler EXCEPT ![f] = Idle]
        /\ UNCHANGED <<overlay, engine, pendingOpens, recheck, retired, idxReady, diagFiles, shown, latest, outOfOrder>>

\* handleDidClose: the overlay, then (under diagMu) the record of what was
\* published, then an empty publication if there was any.
handleDidClose(f) ==
    /\ handler[f].at = "idle" /\ overlay[f] # Closed
    /\ overlay' = [overlay EXCEPT ![f] = Closed]
    /\ handler' = [handler EXCEPT ![f].at = "clear"]
    /\ UNCHANGED <<engine, pendingOpens, known, armed, recheck, retired, idxReady, diagFiles, shown, histVars>>

\* clearDiagnosticsForClosedFile; the publication is a step of its own.
clearDiagnosticsForClosedFile(f) ==
    LET found == \E u \in Unit : f \in diagFiles[u]
    IN  /\ handler[f].at = "clear"
        /\ diagFiles' = [u \in Unit |-> diagFiles[u] \ {f}]
        /\ handler' = [handler EXCEPT ![f] = IF found THEN [at |-> "notify", engine |-> NoEngine] ELSE Idle]
        /\ latest' = [latest EXCEPT ![f] = IF found THEN NoEngine ELSE @]
        /\ UNCHANGED <<overlay, engine, pendingOpens, known, armed, recheck, retired, idxReady, shown, outOfOrder, unrechecked>>

notifyClosed(f) ==
    /\ handler[f].at = "notify"
    /\ shown' = [shown EXCEPT ![f] = {}]
    /\ handler' = [handler EXCEPT ![f] = Idle]
    /\ outOfOrder' = IF latest[f] # NoEngine THEN outOfOrder \cup {f} ELSE outOfOrder \ {f}
    /\ UNCHANGED <<overlay, engine, pendingOpens, known, armed, recheck, retired, idxReady, diagFiles, latest, unrechecked>>

-----------------------------------------------------------------------------
DocStep(f) ==
    \/ markPendingOpen(f) \/ rereadWorkspace(f) \/ focusOpened(f) \/ armChanged(f)
    \/ clearDiagnosticsForClosedFile(f) \/ notifyClosed(f)
UnitStep(e, u) ==
    fireRecheck(e, u) \/ commit(e, u) \/ updateDiagFiles(e, u) \/ \E f \in Doc : notifyDiagnostics(e, u, f)

\* Nothing left to do for any document.
DiagQuiet ==
    /\ \A f \in Doc : handler[f].at = "idle"
    /\ armed = {} /\ \A e \in Engine, u \in Unit : recheck[<<e, u>>].at = "none"
=============================================================================
