-------------------------------- MODULE Rpc ---------------------------------
(***************************************************************************)
(* internal/rpc: the JSON-RPC server under the language server.            *)
(*                                                                         *)
(* One goroutine runs Serve's read loop and dispatches each frame inside   *)
(* it.  A request then runs on a goroutine of its own, behind a token of   *)
(* its priority's pool; a notification runs on the drain goroutine of its  *)
(* document's queue.  Both count in wg, as do the detached tasks handlers  *)
(* start with Go.  When the loop ends (exit, end of stream, a bad frame)   *)
(* the session context is cancelled and drain waits for wg, for a bounded  *)
(* time.                                                                   *)
(***************************************************************************)
EXTENDS Integers, Sequences, FiniteSets, FiniteSetsExt

CONSTANTS
  Reqs,          \* request ids; a client uses each id once
  Docs,          \* document URIs, the empty one included
  Tasks,         \* detached background tasks (Server.Go)
  MethodOf,      \* [Reqs -> {"initialize", "shutdown", "query", "unknown"}]
  DocOf,         \* [Reqs -> Docs]: notificationQueueKey of the parameters
  PriorityOf,    \* [Reqs -> {"Interactive", "Background"}]
  PoolSize,      \* defaultBackgroundWorkers, or WithBackgroundWorkers
  Loads          \* bounds of a behaviour: what its client sends and its handlers start

ASSUME RpcConstants ==
  /\ MethodOf \in [Reqs -> {"initialize", "shutdown", "query", "unknown"}]
  /\ DocOf \in [Reqs -> Docs]
  /\ PriorityOf \in [Reqs -> {"Interactive", "Background"}]
  /\ PoolSize \in Nat \ {0}
  /\ \A l \in Loads :
       /\ l.requests \subseteq Reqs                            \* requests the client may send
       /\ l.changes \in [Docs -> Nat]                          \* notifications per document
       /\ l.launches \in [Reqs \cup Docs -> SUBSET Tasks]      \* tasks a handler may start
       /\ \A x \in Reqs \cup Docs : IsFiniteSet(l.launches[x])

VARIABLES
  state,       \* lifecycleState
  serve,       \* where Serve is: "loop", "draining" or "returned"
  exitErr,     \* how the loop ended: an exit code, "eof", or a read error
  abandoned,   \* drain gave up on running handlers
  rootDone,    \* the context given to Serve is cancelled (a signal)
  sessionDone, \* the session context is cancelled
  wg,          \* handlers and tasks drain waits for
  phase,       \* [Reqs -> phase of the request's goroutine]
  ctx,         \* [Reqs -> the request context]
  out,         \* [Reqs -> what the handler returned, until it is answered]
  resp,        \* [Reqs -> number of responses written for it]
  before,      \* [Reqs -> changes accepted before it] (history)
  cancels,     \* cancelRegistry: ids with a registered cancel function
  queue,       \* [Docs -> notifQueue.pending]
  running,     \* [Docs -> notifQueue.running]
  current,     \* [Docs -> the function drain is running, <<>> if none]
  barrier,     \* requests whose barrier channel is closed
  changes,     \* [Docs -> notifications accepted]
  applied,     \* [Docs -> sequence of notifications handled, by number]
  task,        \* [Tasks -> phase of a Go-launched goroutine]
  pending,     \* server-to-client requests waiting for their response
  inbox,       \* tasks whose response channel holds a message
  discarded,   \* requests whose computed value was not what was written (history)
  load         \* the bounds of this behaviour, chosen at the start

rpcVars == <<state, serve, exitErr, abandoned, rootDone, sessionDone, wg, phase, ctx, out, resp,
             before, cancels, queue, running, current, barrier, changes, applied, task, pending,
             inbox, discarded, load>>

loopVars == <<state, serve, exitErr, abandoned, rootDone, sessionDone, load>>
requestVars == <<phase, ctx, out, resp, before, cancels, discarded>>
queueVars == <<queue, running, current, barrier, changes, applied>>
taskVars == <<task, pending, inbox>>

Phases == {"unsent", "spawned", "waiting", "handler", "returned", "done"}
InFlight == {"spawned", "waiting", "handler", "returned"}
\* A handler returns its context's error, or anything else: a result, an error, a panic.
Outcomes == {"value", "ctxErr"}
\* RequestCancelled, or the response the handler's value stands for.
Answers == {"answer", "requestCancelled"}
Ends == {"eof", "unexpectedEOF", "invalidLength", "missingLength", "readDeadline"}
Change(n) == [kind |-> "change", n |-> n]
Barrier(r) == [kind |-> "join", r |-> r]

-----------------------------------------------------------------------------
(* Frames: the header lines of one message, up to where reading stops.     *)

Lines == {"length", "negative", "notANumber", "other", "blank", "cut"}

readFrame(lines, wholeBody) ==
  LET stops == {i \in DOMAIN lines : lines[i] \in {"blank", "notANumber", "cut"}}
      end == Min(stops)
      lengths == {i \in DOMAIN lines : i < end /\ lines[i] \in {"length", "negative"}}
  IN  IF stops = {} THEN (IF lines = <<>> THEN "eof" ELSE "unexpectedEOF")
      ELSE IF lines[end] = "cut" THEN "unexpectedEOF"
      ELSE IF lines[end] = "notANumber" THEN "invalidLength"
      ELSE IF lengths = {} THEN "missingLength"
      ELSE IF lines[Max(lengths)] = "negative" THEN "missingLength"
      ELSE IF wholeBody THEN "body" ELSE "unexpectedEOF"

-----------------------------------------------------------------------------
(* Notification queues.                                                    *)

push(d, f) ==
  /\ queue' = [queue EXCEPT ![d] = Append(@, f)]
  /\ running' = [running EXCEPT ![d] = TRUE]

\* drain pops one function at a time and exits when there is none.
drainPop(d) ==
  /\ running[d] /\ current[d] = <<>> /\ queue[d] # <<>>
  /\ current' = [current EXCEPT ![d] = <<Head(queue[d])>>]
  /\ queue' = [queue EXCEPT ![d] = Tail(@)]
  /\ UNCHANGED <<loopVars, wg, requestVars, running, barrier, changes, applied, taskVars>>

drainExit(d) ==
  /\ running[d] /\ current[d] = <<>> /\ queue[d] = <<>>
  /\ running' = [running EXCEPT ![d] = FALSE]
  /\ UNCHANGED <<loopVars, wg, requestVars, queue, current, barrier, changes, applied, taskVars>>

\* The running function ends: a notification handler (a panic is recovered), or join's close.
\* A handler may have started tasks with Go.
drainRan(d, launched) ==
  /\ current[d] # <<>>
  /\ \A t \in launched : task[t] = "none"
  /\ LET f == current[d][1]
     IN  IF f.kind = "change"
         THEN /\ applied' = [applied EXCEPT ![d] = Append(@, f.n)]
              /\ wg' = wg - 1 + Cardinality(launched)
              /\ UNCHANGED barrier
         ELSE /\ launched = {}
              /\ barrier' = barrier \cup {f.r}
              /\ UNCHANGED <<applied, wg>>
  /\ current' = [current EXCEPT ![d] = <<>>]
  /\ task' = [t \in Tasks |-> IF t \in launched THEN "working" ELSE task[t]]
  /\ UNCHANGED <<loopVars, requestVars, queue, running, changes, pending, inbox>>

-----------------------------------------------------------------------------
(* The read loop.                                                          *)

Refusal(r) ==
  IF MethodOf[r] = "unknown" THEN "methodNotFound"
  ELSE IF state = "uninitialized" /\ MethodOf[r] # "initialize" THEN "notInitialized"
  ELSE IF state \in {"shuttingDown", "exited"} THEN "invalidRequest"
  ELSE "none"

\* Mutant: the request does not wait for its document's queue.
dispatchRequestWithoutBarrier(r) ==
  /\ serve = "loop" /\ phase[r] = "unsent" /\ r \in load.requests /\ Refusal(r) = "none"
  /\ state' = CASE MethodOf[r] = "initialize" -> "initialized"
                [] MethodOf[r] = "shutdown" -> "shuttingDown"
                [] OTHER -> state
  /\ phase' = [phase EXCEPT ![r] = "spawned"]
  /\ ctx' = [ctx EXCEPT ![r] = IF rootDone THEN "canceled" ELSE "live"]
  /\ before' = [before EXCEPT ![r] = changes[DocOf[r]]]
  /\ cancels' = cancels \cup {r}
  /\ wg' = wg + 1
  /\ barrier' = barrier \cup {r}
  /\ UNCHANGED <<serve, exitErr, abandoned, rootDone, sessionDone, load, out, resp, discarded, queue, running,
                 current, changes, applied, taskVars>>

dispatchRequest(r) ==
  /\ serve = "loop" /\ phase[r] = "unsent" /\ r \in load.requests /\ Refusal(r) = "none"
  /\ state' = CASE MethodOf[r] = "initialize" -> "initialized"
                [] MethodOf[r] = "shutdown" -> "shuttingDown"
                [] OTHER -> state
  /\ phase' = [phase EXCEPT ![r] = "spawned"]
  /\ ctx' = [ctx EXCEPT ![r] = IF rootDone THEN "canceled" ELSE "live"]
  /\ before' = [before EXCEPT ![r] = changes[DocOf[r]]]
  /\ cancels' = cancels \cup {r}
  /\ wg' = wg + 1
  /\ push(DocOf[r], Barrier(r))
  /\ UNCHANGED <<serve, exitErr, abandoned, rootDone, sessionDone, load, out, resp, discarded, current, barrier,
                 changes, applied, taskVars>>

refuseRequest(r) ==
  /\ serve = "loop" /\ phase[r] = "unsent" /\ r \in load.requests /\ Refusal(r) # "none"
  /\ phase' = [phase EXCEPT ![r] = "done"]
  /\ resp' = [resp EXCEPT ![r] = @ + 1]
  /\ UNCHANGED <<loopVars, wg, ctx, out, before, cancels, discarded, queueVars, taskVars>>

\* Mutant: the notification is not counted in wg.
dispatchNotificationUncounted(d) ==
  /\ serve = "loop" /\ state = "initialized" /\ changes[d] < load.changes[d]
  /\ changes' = [changes EXCEPT ![d] = @ + 1]
  /\ push(d, Change(changes[d] + 1))
  /\ UNCHANGED <<loopVars, wg, requestVars, current, barrier, applied, taskVars>>

\* A notification the lifecycle allows; others are dropped.
dispatchNotification(d) ==
  /\ serve = "loop" /\ state = "initialized" /\ changes[d] < load.changes[d]
  /\ changes' = [changes EXCEPT ![d] = @ + 1]
  /\ wg' = wg + 1
  /\ push(d, Change(changes[d] + 1))
  /\ UNCHANGED <<loopVars, requestVars, current, barrier, applied, taskVars>>

handleCancelRequest(r) ==
  /\ serve = "loop" /\ r \in cancels /\ ctx[r] = "live"
  /\ ctx' = [ctx EXCEPT ![r] = "canceled"]
  /\ UNCHANGED <<loopVars, wg, phase, out, resp, before, cancels, discarded, queueVars, taskVars>>

\* The deferred cancel of the session context runs as the loop is left, before drain waits.
\* Mutant: drain waits without it.
leaveLoopUncancelled ==
  /\ serve' = "draining"
  /\ UNCHANGED sessionDone

leaveLoop ==
  /\ serve' = "draining"
  /\ sessionDone' = TRUE

handleExit ==
  /\ serve = "loop"
  /\ exitErr' = IF state = "shuttingDown" THEN "exit0" ELSE "exit1"
  /\ state' = "exited"
  /\ leaveLoop
  /\ UNCHANGED <<abandoned, rootDone, load, wg, requestVars, queueVars, taskVars>>

\* The stream ends or a frame cannot be read; a body that is no JSON message is skipped.
readFails(lines, wholeBody) ==
  /\ serve = "loop" /\ readFrame(lines, wholeBody) # "body"
  /\ exitErr' = readFrame(lines, wholeBody)
  /\ leaveLoop
  /\ UNCHANGED <<state, abandoned, rootDone, load, wg, requestVars, queueVars, taskVars>>

\* A response to one of our own requests; with no pending entry it is dropped.
dispatchResponse(t) ==
  /\ serve = "loop" /\ t \in pending
  /\ pending' = pending \ {t}
  /\ inbox' = inbox \cup {t}
  /\ UNCHANGED <<loopVars, wg, requestVars, queueVars, task>>

drain ==
  /\ serve = "draining" /\ wg = 0
  /\ serve' = "returned"
  /\ UNCHANGED <<state, exitErr, abandoned, rootDone, sessionDone, load, wg, requestVars, queueVars,
                 taskVars>>

drainTimeout ==
  /\ serve = "draining" /\ wg > 0
  /\ serve' = "returned"
  /\ abandoned' = TRUE
  /\ UNCHANGED <<state, exitErr, rootDone, sessionDone, load, wg, requestVars, queueVars, taskVars>>

-----------------------------------------------------------------------------
(* A request's goroutine: pool token, barrier, handler, response, defers.  *)

Holders == {r \in Reqs : PriorityOf[r] = "Background"
                           /\ phase[r] \in {"waiting", "handler", "returned"}}

poolRun(r) ==
  /\ phase[r] = "spawned"
  /\ PriorityOf[r] = "Background" => Cardinality(Holders) < PoolSize
  /\ phase' = [phase EXCEPT ![r] = "waiting"]
  /\ UNCHANGED <<loopVars, wg, ctx, out, resp, before, cancels, discarded, queueVars, taskVars>>

runRequest(r) ==
  /\ phase[r] = "waiting" /\ r \in barrier
  /\ phase' = [phase EXCEPT ![r] = "handler"]
  /\ UNCHANGED <<loopVars, wg, ctx, out, resp, before, cancels, discarded, queueVars, taskVars>>

\* WithTimeout: only a Background request has a deadline.  Mutant: no request has one.
expireNever(r) ==
  /\ FALSE /\ phase[r] \in InFlight /\ UNCHANGED rpcVars

expire(r) ==
  /\ PriorityOf[r] = "Background" /\ phase[r] \in InFlight /\ ctx[r] = "live"
  /\ ctx' = [ctx EXCEPT ![r] = "expired"]
  /\ UNCHANGED <<loopVars, wg, phase, out, resp, before, cancels, discarded, queueVars, taskVars>>

\* Mutant: Go does not count its goroutine.
callRequestHandlerUncounted(r, o, launched) ==
  /\ phase[r] = "handler"
  /\ o = "ctxErr" => ctx[r] # "live"
  /\ \A t \in launched : task[t] = "none"
  /\ phase' = [phase EXCEPT ![r] = "returned"]
  /\ out' = [out EXCEPT ![r] = o]
  /\ task' = [t \in Tasks |-> IF t \in launched THEN "working" ELSE task[t]]
  /\ UNCHANGED <<loopVars, wg, ctx, resp, before, cancels, discarded, queueVars, pending, inbox>>

\* The handler returns; it may have started tasks with Go.  A handler reports its context only
\* when that context is done.
callRequestHandler(r, o, launched) ==
  /\ phase[r] = "handler"
  /\ o = "ctxErr" => ctx[r] # "live"
  /\ \A t \in launched : task[t] = "none"
  /\ phase' = [phase EXCEPT ![r] = "returned"]
  /\ out' = [out EXCEPT ![r] = o]
  /\ task' = [t \in Tasks |-> IF t \in launched THEN "working" ELSE task[t]]
  /\ wg' = wg + Cardinality(launched)
  /\ UNCHANGED <<loopVars, ctx, resp, before, cancels, discarded, queueVars, pending, inbox>>

\* What is written for the handler's outcome.  Mutant: decided by the context, not the error.
AnswerByContext(r) == IF ctx[r] # "live" THEN "requestCancelled" ELSE "answer"

AnswerTo(r) == IF out[r] = "ctxErr" THEN "requestCancelled" ELSE "answer"

\* The response is written, then the defers run: cancel, unregister, wg.Done; then the pool token
\* goes back.
respond(r) ==
  /\ phase[r] = "returned"
  /\ resp' = [resp EXCEPT ![r] = @ + 1]
  /\ out' = [out EXCEPT ![r] = "none"]
  /\ discarded' = IF out[r] = "value" /\ AnswerTo(r) = "requestCancelled"
                   THEN discarded \cup {r} ELSE discarded
  /\ phase' = [phase EXCEPT ![r] = "done"]
  /\ ctx' = [ctx EXCEPT ![r] = "canceled"]
  /\ cancels' = cancels \ {r}
  /\ wg' = wg - 1
  /\ UNCHANGED <<loopVars, before, queueVars, taskVars>>

-----------------------------------------------------------------------------
(* Detached tasks and the requests they send to the client.                *)

Request(t) ==
  /\ task[t] = "working"
  /\ task' = [task EXCEPT ![t] = "asking"]
  /\ pending' = pending \cup {t}
  /\ UNCHANGED <<loopVars, wg, requestVars, queueVars, inbox>>

\* Request returns with the response or because its context is done, and drops its entry.
requestReturns(t) ==
  /\ task[t] = "asking" /\ (t \in inbox \/ sessionDone)
  /\ task' = [task EXCEPT ![t] = "asked"]
  /\ pending' = pending \ {t}
  /\ inbox' = inbox \ {t}
  /\ UNCHANGED <<loopVars, wg, requestVars, queueVars>>

taskEnds(t) ==
  /\ task[t] \in {"working", "asked"}
  /\ task' = [task EXCEPT ![t] = "done"]
  /\ wg' = wg - 1
  /\ UNCHANGED <<loopVars, requestVars, queueVars, pending, inbox>>

-----------------------------------------------------------------------------

Init ==
  /\ state = "uninitialized" /\ serve = "loop" /\ exitErr = "none"
  /\ abandoned = FALSE /\ rootDone = FALSE /\ sessionDone = FALSE /\ wg = 0
  /\ phase = [r \in Reqs |-> "unsent"]
  /\ ctx = [r \in Reqs |-> "none"]
  /\ out = [r \in Reqs |-> "none"]
  /\ resp = [r \in Reqs |-> 0]
  /\ before = [r \in Reqs |-> 0]
  /\ cancels = {}
  /\ queue = [d \in Docs |-> <<>>]
  /\ running = [d \in Docs |-> FALSE]
  /\ current = [d \in Docs |-> <<>>]
  /\ barrier = {}
  /\ changes = [d \in Docs |-> 0]
  /\ applied = [d \in Docs |-> <<>>]
  /\ task = [t \in Tasks |-> "none"]
  /\ pending = {} /\ inbox = {} /\ discarded = {}
  /\ load \in Loads

\* One frame of a client that is there: a request, a notification, a response, exit.
ReadMessage ==
  \/ \E r \in Reqs : dispatchRequest(r) \/ refuseRequest(r) \/ handleCancelRequest(r)
  \/ \E d \in Docs : dispatchNotification(d)
  \/ \E t \in Tasks : dispatchResponse(t)
  \/ handleExit

QueueStep(d) == drainPop(d) \/ drainExit(d) \/ \E L \in SUBSET load.launches[d] : drainRan(d, L)

\* The steps of a request's goroutine that do not wait for its handler.
RequestStep(r) ==
  poolRun(r) \/ runRequest(r) \/ respond(r)

HandlerReturns(r) ==
  \E o \in Outcomes, L \in SUBSET load.launches[r] : callRequestHandler(r, o, L)
=============================================================================
