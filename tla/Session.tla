------------------------------ MODULE Session -------------------------------
(***************************************************************************)
(* One golance process serving one client: internal/rpc (Rpc.tla) under    *)
(* cmd/golance's run, which turns the end of Serve into the exit of the    *)
(* process, the signals it listens to, and the watch on the client process *)
(* that handleInitialize starts (server/clientwatch.go).                   *)
(***************************************************************************)
EXTENDS Rpc

CONSTANTS
  Watcher,     \* the task that runs watchClientProcess
  BadFrames    \* header blocks a broken or ended stream may hold

\* Only initialize starts the watch, when the client sent its process id.
ASSUME SessionConstants ==
  /\ Watcher \in Tasks
  /\ \A l \in Loads :
       /\ l.waits \in BOOLEAN   \* the client waits for the answer to initialize
       /\ l.faults \in Nat      \* client deaths, signals and stream ends together
       /\ \A x \in DOMAIN l.launches :
            Watcher \in l.launches[x] => x \in Reqs /\ MethodOf[x] = "initialize"

VARIABLES
  faults,      \* client deaths, signals and stream ends so far
  client,      \* the client process: "alive" or "dead"
  backstop,    \* ClientGone's forced exit is armed
  proc         \* "running", or the exit code of the process

vars == <<rpcVars, client, backstop, proc, faults>>

TypeOK ==
  /\ state \in {"uninitialized", "initialized", "shuttingDown", "exited"}
  /\ serve \in {"loop", "draining", "returned"}
  /\ exitErr \in {"none", "exit0", "exit1"} \cup Ends
  /\ {abandoned, rootDone, sessionDone, backstop} \subseteq BOOLEAN
  /\ wg \in Nat
  /\ phase \in [Reqs -> Phases]
  /\ ctx \in [Reqs -> {"none", "live", "canceled", "expired"}]
  /\ out \in [Reqs -> {"none"} \cup Outcomes]
  /\ resp \in [Reqs -> Nat]
  /\ before \in [Reqs -> Nat]
  /\ {cancels, barrier} \subseteq SUBSET Reqs
  /\ running \in [Docs -> BOOLEAN]
  /\ changes \in [Docs -> Nat]
  /\ task \in [Tasks -> {"none", "working", "asking", "asked", "done"}]
  /\ {pending, inbox} \subseteq SUBSET (Tasks \ {Watcher})
  /\ client \in {"alive", "dead"}
  /\ faults \in 0..load.faults
  /\ proc \in {"running", "exit0", "exit1"}

-----------------------------------------------------------------------------

Alive == proc = "running"
Outside == UNCHANGED <<client, backstop, proc, faults>>
Fault == faults < load.faults /\ faults' = faults + 1

\* A client that waits for the answer to initialize before it sends anything else.
Handshake == \A r \in Reqs : MethodOf[r] = "initialize" => phase[r] = "unsent" \/ resp[r] > 0

clientSends ==
  /\ Alive /\ client = "alive" /\ (load.waits => Handshake)
  /\ ReadMessage /\ Outside

\* The client closes its end, or its stream breaks.  A dead client's pipe may stay open.
streamEnds ==
  /\ Alive /\ Fault /\ UNCHANGED <<client, backstop, proc>>
  /\ \E f \in BadFrames : readFails(f.lines, f.whole)

clientDies ==
  /\ Alive /\ Fault /\ client = "alive"
  /\ client' = "dead"
  /\ UNCHANGED <<rpcVars, backstop, proc>>

\* SIGINT or SIGTERM cancels the context Serve was given, and every context derived from it.
\* The read loop does not look at it.
signal ==
  /\ Alive /\ Fault /\ ~rootDone
  /\ rootDone' = TRUE /\ sessionDone' = TRUE
  /\ ctx' = [r \in Reqs |-> IF ctx[r] = "live" THEN "canceled" ELSE ctx[r]]
  /\ UNCHANGED <<state, serve, exitErr, abandoned, load, wg, phase, out, resp, before, cancels,
                 discarded, queueVars, taskVars, client, backstop, proc>>

queueStep(d) == Alive /\ QueueStep(d) /\ Outside

requestStep(r) == Alive /\ RequestStep(r) /\ Outside

handlerReturns(r) == Alive /\ HandlerReturns(r) /\ Outside

deadlinePasses(r) == Alive /\ expire(r) /\ Outside

taskAsks(t) == Alive /\ t # Watcher /\ Request(t) /\ Outside
taskReturns(t) == Alive /\ t # Watcher /\ (requestReturns(t) \/ taskEnds(t)) /\ Outside

\* watchClientProcess returns when its context is done ...
watchStops == Alive /\ sessionDone /\ taskEnds(Watcher) /\ Outside

\* ... or finds the client gone: ClientGone makes the pending read fail and arms the forced exit.
\* Mutant: the watch notices and does nothing.
watchFindsClientGoneQuietly ==
  /\ Alive /\ client = "dead" /\ taskEnds(Watcher)
  /\ Outside

watchFindsClientGone ==
  /\ Alive /\ client = "dead" /\ task[Watcher] = "working"
  /\ task' = [task EXCEPT ![Watcher] = "done"]
  /\ wg' = wg - 1
  /\ backstop' = TRUE
  /\ IF serve = "loop"
     THEN /\ exitErr' = "readDeadline"
          /\ leaveLoop
     ELSE UNCHANGED <<exitErr, serve, sessionDone>>
  /\ UNCHANGED <<state, abandoned, rootDone, load, requestVars, queueVars, pending, inbox, client, proc, faults>>

ExitCode(e) == IF e \in {"exit0", "eof", "readDeadline"} THEN "exit0" ELSE "exit1"

\* run after Serve: Stop, then the exit code.
run ==
  /\ Alive /\ drain
  /\ proc' = ExitCode(exitErr)
  /\ UNCHANGED <<client, backstop, faults>>

\* The same when the drain gave up on what still runs.
runAbandons ==
  /\ Alive /\ drainTimeout
  /\ proc' = ExitCode(exitErr)
  /\ UNCHANGED <<client, backstop, faults>>

forceExit ==
  /\ Alive /\ backstop
  /\ proc' = "exit1"
  /\ UNCHANGED <<rpcVars, client, backstop, faults>>

SessionInit == Init /\ client = "alive" /\ backstop = FALSE /\ proc = "running" /\ faults = 0

SessionNext ==
  \/ clientSends
  \/ streamEnds
  \/ clientDies
  \/ signal
  \/ \E d \in Docs : queueStep(d)
  \/ \E r \in Reqs : requestStep(r) \/ handlerReturns(r) \/ deadlinePasses(r)
  \/ \E t \in Tasks : taskAsks(t) \/ taskReturns(t)
  \/ watchStops
  \/ watchFindsClientGone
  \/ run
  \/ runAbandons
  \/ forceExit

SessionSafety == SessionInit /\ [][SessionNext]_vars

(***************************************************************************)
(* Fairness.  Goroutines that can run do.  A notification handler and an   *)
(* Interactive handler return by themselves; a Background handler need not *)
(* until its context is done (every handler watches its context).  A       *)
(* deadline passes.  Nothing is assumed of the client, of signals, of      *)
(* tasks that have not been told to stop, of the drain timeout or of the   *)
(* forced exit: the process must end without them.                         *)
(***************************************************************************)
SessionFair ==
  /\ \A d \in Docs : WF_vars(queueStep(d))
  /\ \A r \in Reqs :
       /\ WF_vars(\/ requestStep(r)
                  \/ (PriorityOf[r] = "Interactive" \/ ctx[r] # "live") /\ handlerReturns(r))
       /\ WF_vars(deadlinePasses(r))
  /\ \A t \in Tasks \ {Watcher} : WF_vars(sessionDone /\ taskReturns(t))
  /\ WF_vars(watchStops) /\ WF_vars(watchFindsClientGone)
  /\ WF_vars(run)

SessionSpec == SessionSafety /\ SessionFair
-----------------------------------------------------------------------------

\* The abstract view: a request is answered when one response is written.
Service == INSTANCE RpcService WITH
  request <- [r \in Reqs |-> IF phase[r] = "unsent" THEN "unsent"
                             ELSE IF resp[r] = 0 THEN "open"
                             ELSE IF resp[r] = 1 THEN "answered" ELSE "answered twice"],
  changes <- changes,
  applied <- [d \in Docs |-> IF applied[d] = [i \in 1..Len(applied[d]) |-> i]
                             THEN Len(applied[d]) ELSE -1],
  before <- before

\* Every step of the goroutines, queues and pools is a step of RpcService or changes nothing the
\* client can see: one response per request, after the changes of its document sent before it,
\* changes applied one at a time in order (dispatchRequest's join, notifQueue.drain).
ImplementsService == Service!Spec

\* Serve returns without having abandoned anything only when every accepted request is answered,
\* every accepted notification handled, and every Go-launched task over (drain waits for wg; the
\* read loop no longer adds to it).
NothingLeftBehind ==
  serve = "returned" /\ ~abandoned =>
    /\ \A r \in Reqs : phase[r] \in {"unsent", "done"}
    /\ \A d \in Docs : Len(applied[d]) = changes[d]
    /\ \A t \in Tasks : task[t] \in {"none", "done"}

\* A cancellation or a deadline that comes after the handler has produced its result does not
\* replace the result (runRequest looks at the handler's error, not at the context).
FinishedWorkIsDelivered ==
  discarded = {}

\* Every request that is dispatched is answered, although Background handlers may hold every pool
\* token until their deadline, unless the process is gone first.
EveryRequestAnswered ==
  \A r \in Reqs : phase[r] \in InFlight ~> (resp[r] > 0 \/ proc # "running")

\* Once the read loop is left the process exits without the drain timeout, although tasks wait for
\* answers the client will never send: Serve cancels the session context before it drains.
EndedSessionExits == (serve # "loop") ~> (proc # "running")

\* A process whose client died exits although its stdin stays open, once initialize has started
\* the watch, unless a signal stopped the watch first.
OrphanExits ==
  (client = "dead" /\ task[Watcher] = "working") ~> (proc # "running" \/ rootDone)

=============================================================================
