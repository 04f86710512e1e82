------------------------------ MODULE TCPServer ------------------------------
(***************************************************************************)
(* The connection lifecycle of src/tcp_server.go: the accept loop of       *)
(* Serve, the watcher that starts the shutdown, bounded admission, one     *)
(* worker goroutine per connection, and the drain with its two timers.     *)
(*                                                                         *)
(* What a handler does with its connection is left open: it may return at  *)
(* any time or never.                                                      *)
(***************************************************************************)
EXTENDS Naturals, FiniteSets

CONSTANTS Conns,            \* the connections clients make
          MaxConnections,
          MaxAccepts,       \* bound: connections accepted in one behaviour
          NoConn

ASSUME ServerAssumption ==
  /\ IsFiniteSet(Conns)
  /\ MaxConnections \in Nat \ {0}
  /\ MaxAccepts \in Nat
  /\ NoConn \notin Conns

VARIABLES state,            \* the server's state word
          serveCtxDone,     \* the context given to Serve has ended
          listening,        \* the listener is open
          watcher,          \* the watcher goroutine
          loop,             \* the goroutine of Serve
          current,          \* the connection it accepted last
          acceptErr,
          result,           \* what Serve returned
          worker,           \* each connection's goroutine
          open,             \* connections accepted and not closed
          active,           \* the map of managed connections
          toForce,          \* forceCloseActive has still to close these
          canceled,         \* handlerContext
          tokens,           \* length of the admission channel
          stats             \* the atomic counters

serverVars == <<state, serveCtxDone, listening, watcher, loop, current, acceptErr, result,
                worker, open, active, toForce, canceled, tokens, stats>>
lifecycle == <<state, serveCtxDone, listening, watcher, acceptErr, result>>
managed == <<worker, open, active, toForce, canceled, tokens, stats>>

LoopSteps == {"new", "accepting", "deciding", "admitting", "launching", "rejecting",
              "failing", "closing listener", "joining", "draining", "canceling",
              "collecting", "forcing", "waiting", "storing", "returned"}

\* After its handler a worker runs its deferred calls, last one first.
WorkerSteps == {"none", "running", "deregister", "close", "uncount", "complete",
                "release", "done", "gone"}

\* The goroutines are at steps of the code, and the counters are numbers.
ServerTypeOK ==
  /\ state \in {"new", "serving", "draining", "closed"}
  /\ {serveCtxDone, listening, acceptErr, canceled} \subseteq BOOLEAN
  /\ watcher \in {"none", "waiting", "closing listener", "done"}
  /\ loop \in LoopSteps
  /\ current \in Conns \cup {NoConn}
  /\ result \in {"none", "ok", "accept error", "shutdown error"}
  /\ worker \in [Conns -> WorkerSteps]
  /\ open \subseteq Conns /\ active \subseteq Conns /\ toForce \subseteq Conns
  /\ tokens \in Nat
  /\ stats \in [accepted : Nat, admitted : Nat, rejected : Nat, active : Nat,
                peak : Nat, completed : Nat, handlerErrors : Nat, forcedClosed : Nat]

ServerInit ==
  /\ state = "new" /\ serveCtxDone = FALSE /\ listening = TRUE
  /\ watcher = "none" /\ loop = "new" /\ current = NoConn
  /\ acceptErr = FALSE /\ result = "none"
  /\ worker = [c \in Conns |-> "none"]
  /\ open = {} /\ active = {} /\ toForce = {}
  /\ canceled = FALSE /\ tokens = 0
  /\ stats = [accepted |-> 0, admitted |-> 0, rejected |-> 0, active |-> 0,
              peak |-> 0, completed |-> 0, handlerErrors |-> 0, forcedClosed |-> 0]

-----------------------------------------------------------------------------
(* The caller, and the watcher                                             *)

CancelContext ==
  /\ ~ serveCtxDone
  /\ serveCtxDone' = TRUE
  /\ UNCHANGED <<state, listening, watcher, loop, current, acceptErr, result, managed>>

Serve ==
  /\ loop = "new"
  /\ state' = "serving"
  /\ watcher' = "waiting"
  /\ loop' = "accepting"
  /\ UNCHANGED <<serveCtxDone, listening, current, acceptErr, result, managed>>

\* beginShutdown: the state word first, the listener in a second step, and only
\* by the goroutine whose compare-and-swap succeeded.
WatcherShutsDown ==
  /\ watcher = "waiting" /\ serveCtxDone
  /\ \/ state = "serving" /\ state' = "draining" /\ watcher' = "closing listener"
     \/ state # "serving" /\ watcher' = "done" /\ UNCHANGED state
  /\ UNCHANGED <<serveCtxDone, listening, loop, current, acceptErr, result, managed>>

WatcherClosesListener ==
  /\ watcher = "closing listener"
  /\ listening' = FALSE
  /\ watcher' = "done"
  /\ UNCHANGED <<state, serveCtxDone, loop, current, acceptErr, result, managed>>

\* stopWatcher is closed once the loop is joining.
WatcherStops ==
  /\ watcher = "waiting" /\ loop = "joining"
  /\ watcher' = "done"
  /\ UNCHANGED <<state, serveCtxDone, listening, loop, current, acceptErr, result, managed>>

-----------------------------------------------------------------------------
(* The accept loop                                                         *)

Accept ==
  /\ loop = "accepting" /\ listening
  /\ stats.accepted < MaxAccepts
  /\ \E c \in {d \in Conns : worker[d] = "none"} :
       /\ current' = c
       /\ open' = open \cup {c}
  /\ stats' = [stats EXCEPT !.accepted = @ + 1]
  /\ loop' = "deciding"
  /\ UNCHANGED <<lifecycle, worker, active, toForce, canceled, tokens>>

\* Accept fails because the listener was closed, or by itself.
AcceptFails ==
  /\ loop = "accepting"
  /\ \/ /\ state = "serving"
        /\ acceptErr' = TRUE /\ loop' = "failing"
     \/ /\ state # "serving"
        /\ loop' = "joining" /\ UNCHANGED acceptErr
  /\ UNCHANGED <<state, serveCtxDone, listening, watcher, result, current, managed>>

\* beginShutdown, called by the loop: the watcher may have come first.
LoopShutsDown ==
  /\ loop = "failing"
  /\ \/ state = "serving" /\ state' = "draining" /\ loop' = "closing listener"
     \/ state # "serving" /\ loop' = "joining" /\ UNCHANGED state
  /\ UNCHANGED <<serveCtxDone, listening, watcher, acceptErr, result, current, managed>>

LoopClosesListener ==
  /\ loop = "closing listener"
  /\ listening' = FALSE
  /\ loop' = "joining"
  /\ UNCHANGED <<state, serveCtxDone, watcher, acceptErr, result, current, managed>>

\* Mutant: a connection that arrives during the shutdown is skipped.
SkipWhenDraining ==
  /\ loop = "deciding"
  /\ loop' = IF state = "serving" THEN "admitting" ELSE "accepting"
  /\ UNCHANGED <<lifecycle, current, managed>>

Decide ==
  /\ loop = "deciding"
  /\ loop' = IF state = "serving" THEN "admitting" ELSE "rejecting"
  /\ UNCHANGED <<lifecycle, current, managed>>

\* admit up to the registration in the active map.
TakeToken ==
  /\ loop = "admitting"
  /\ \/ /\ tokens < MaxConnections
        /\ tokens' = tokens + 1 /\ active' = active \cup {current} /\ loop' = "launching"
     \/ /\ tokens = MaxConnections
        /\ loop' = "rejecting" /\ UNCHANGED <<tokens, active>>
  /\ UNCHANGED <<lifecycle, current, worker, open, toForce, canceled, stats>>

Larger(m, n) == IF m < n THEN n ELSE m

\* The rest of admit.  Only the loop counts a connection in, so the value
\* activeCount.Add returned is the one recordPeak sees.
Launch ==
  /\ loop = "launching"
  /\ stats' = [stats EXCEPT !.admitted = @ + 1, !.active = @ + 1,
                            !.peak = Larger(@, stats.active + 1)]
  /\ worker' = [worker EXCEPT ![current] = "running"]
  /\ loop' = "accepting" /\ current' = NoConn
  /\ UNCHANGED <<lifecycle, open, active, toForce, canceled, tokens>>

Reject ==
  /\ loop = "rejecting"
  /\ stats' = [stats EXCEPT !.rejected = @ + 1]
  /\ open' = open \ {current}
  /\ loop' = "accepting" /\ current' = NoConn
  /\ UNCHANGED <<lifecycle, worker, active, toForce, canceled, tokens>>

-----------------------------------------------------------------------------
(* runConnection                                                           *)

WorkerStep(c, step) == worker' = [worker EXCEPT ![c] = step]

\* The handler returns or panics; an error counts unless it was canceled.
HandlerReturns(c) ==
  /\ worker[c] = "running"
  /\ WorkerStep(c, "deregister")
  /\ \/ UNCHANGED stats
     \/ ~ canceled /\ stats' = [stats EXCEPT !.handlerErrors = @ + 1]
  /\ UNCHANGED <<lifecycle, loop, current, open, active, toForce, canceled, tokens>>

Deregister(c) ==
  /\ worker[c] = "deregister"
  /\ active' = active \ {c}
  /\ WorkerStep(c, "close")
  /\ UNCHANGED <<lifecycle, loop, current, open, toForce, canceled, tokens, stats>>

CloseConn(c) ==
  /\ worker[c] = "close"
  /\ open' = open \ {c}
  /\ WorkerStep(c, "uncount")
  /\ UNCHANGED <<lifecycle, loop, current, active, toForce, canceled, tokens, stats>>

Uncount(c) ==
  /\ worker[c] = "uncount"
  /\ stats' = [stats EXCEPT !.active = @ - 1]
  /\ WorkerStep(c, "complete")
  /\ UNCHANGED <<lifecycle, loop, current, open, active, toForce, canceled, tokens>>

Complete(c) ==
  /\ worker[c] = "complete"
  /\ stats' = [stats EXCEPT !.completed = @ + 1]
  /\ WorkerStep(c, "release")
  /\ UNCHANGED <<lifecycle, loop, current, open, active, toForce, canceled, tokens>>

Release(c) ==
  /\ worker[c] = "release"
  /\ tokens' = tokens - 1
  /\ WorkerStep(c, "done")
  /\ UNCHANGED <<lifecycle, loop, current, open, active, toForce, canceled, stats>>

WorkerDone(c) ==
  /\ worker[c] = "done"
  /\ WorkerStep(c, "gone")
  /\ UNCHANGED <<lifecycle, loop, current, open, active, toForce, canceled, tokens, stats>>

-----------------------------------------------------------------------------
(* drain, and the end of Serve                                             *)

\* Mutant: the loop does not wait for the watcher.
JoinNobody ==
  /\ loop = "joining"
  /\ loop' = "draining"
  /\ UNCHANGED <<lifecycle, current, managed>>

JoinWatcher ==
  /\ loop = "joining"
  /\ watcher = "done"
  /\ loop' = "draining"
  /\ UNCHANGED <<lifecycle, current, managed>>

\* Mutant: the wait ends with the last handler instead of the last worker.
HandlersGone == \A c \in Conns : worker[c] # "running"

\* workers.Wait() returned: every worker ran its last deferred call.
WorkersDone == \A c \in Conns : worker[c] \in {"none", "gone"}

\* drain returns nil, within the grace period or after forcing.
Drained ==
  /\ loop \in {"draining", "waiting"} /\ WorkersDone
  /\ loop' = "storing" /\ result' = "ok"
  /\ UNCHANGED <<state, serveCtxDone, listening, watcher, acceptErr, current, managed>>

\* Mutant: the grace period is extended while connections are active.
GraceWaitsForActive ==
  /\ loop = "draining"
  /\ active = {}
  /\ loop' = "canceling"
  /\ UNCHANGED <<lifecycle, current, managed>>

\* The grace timer may win the select against workersDone.
GraceEnds ==
  /\ loop = "draining"
  /\ loop' = "canceling"
  /\ UNCHANGED <<lifecycle, current, managed>>

\* Mutant: the handlers are only asked to stop.
CancelWithoutForce ==
  /\ loop = "canceling"
  /\ canceled' = TRUE
  /\ loop' = "waiting"
  /\ UNCHANGED <<lifecycle, current, worker, open, active, toForce, tokens, stats>>

CancelHandlers ==
  /\ loop = "canceling"
  /\ canceled' = TRUE
  /\ loop' = "collecting"
  /\ UNCHANGED <<lifecycle, current, worker, open, active, toForce, tokens, stats>>

\* forceCloseActive: the map under its lock, then one Close after the other.
CollectActive ==
  /\ loop = "collecting"
  /\ toForce' = active
  /\ stats' = [stats EXCEPT !.forcedClosed = @ + Cardinality(active)]
  /\ loop' = "forcing"
  /\ UNCHANGED <<lifecycle, current, worker, open, active, canceled, tokens>>

ForceClose ==
  /\ loop = "forcing"
  /\ \/ /\ toForce = {} /\ loop' = "waiting"
        /\ UNCHANGED <<open, toForce>>
     \/ \E c \in toForce :
          /\ open' = open \ {c} /\ toForce' = toForce \ {c}
          /\ UNCHANGED loop
  /\ UNCHANGED <<lifecycle, current, worker, active, canceled, tokens, stats>>

ForceWaitEnds ==
  /\ loop = "waiting"
  /\ loop' = "storing" /\ result' = "shutdown error"
  /\ UNCHANGED <<state, serveCtxDone, listening, watcher, acceptErr, current, managed>>

\* An accept error takes precedence over what drain returned.
ServeReturns ==
  /\ loop = "storing"
  /\ state' = "closed"
  /\ canceled' = TRUE
  /\ result' = IF acceptErr THEN "accept error" ELSE result
  /\ loop' = "returned"
  /\ UNCHANGED <<serveCtxDone, listening, watcher, acceptErr, current,
                 worker, open, active, toForce, tokens, stats>>

-----------------------------------------------------------------------------
Watcher == WatcherShutsDown \/ WatcherClosesListener \/ WatcherStops

AcceptLoop ==
  \/ LoopShutsDown \/ LoopClosesListener \/ Decide
  \/ TakeToken \/ Launch \/ Reject \/ JoinWatcher \/ Drained \/ GraceEnds
  \/ CancelHandlers \/ CollectActive \/ ForceClose \/ ForceWaitEnds \/ ServeReturns

Worker(c) ==
  \/ HandlerReturns(c) \/ Deregister(c) \/ CloseConn(c) \/ Uncount(c)
  \/ Complete(c) \/ Release(c) \/ WorkerDone(c)

ServerNext ==
  \/ CancelContext \/ Serve \/ Watcher \/ Accept \/ AcceptFails \/ AcceptLoop
  \/ \E c \in Conns : Worker(c)

ServerSpec == ServerInit /\ [][ServerNext]_serverVars

\* The watcher and the loop run, timers fire, and Accept fails on a listener
\* that was closed.  Handlers need not return, clients need not connect.
FairServerSpec ==
  /\ ServerSpec
  /\ WF_serverVars(Watcher) /\ WF_serverVars(AcceptLoop) /\ WF_serverVars(AcceptFails /\ ~ listening)

-----------------------------------------------------------------------------
Holding == {c \in Conns : worker[c] \in
              {"running", "deregister", "close", "uncount", "complete", "release"}}

\* Admission is exact: a token for each worker that has not released one and
\* for the connection being launched, so that no more than MaxConnections
\* handlers run; and the published peak never shows more than that.
AdmissionExact ==
  /\ tokens = Cardinality(Holding) + (IF loop = "launching" THEN 1 ELSE 0)
  /\ tokens <= MaxConnections
  /\ stats.peak <= MaxConnections

\* The counters add up at every moment: accepted connections are admitted,
\* rejected, or the one being decided; admitted ones completed or are active
\* up to the two deferred calls between the counters.
CountersAddUp ==
  /\ stats.accepted = stats.admitted + stats.rejected
       + (IF loop \in {"deciding", "admitting", "launching", "rejecting"} THEN 1 ELSE 0)
  /\ stats.admitted = stats.completed + stats.active
       + Cardinality({c \in Conns : worker[c] = "complete"})

\* What every step of the loop and of the workers keeps: the tokens, and the
\* counters that a snapshot reads one by one.
ServerInv == ServerTypeOK /\ AdmissionExact /\ CountersAddUp

\* When the drain succeeds nothing is left behind: no goroutine, no token, no
\* open connection, and every admitted connection was completed.  Once the
\* forced close is over, a handler that still runs runs on a closed connection
\* with a canceled context, whatever it was doing when the grace period ended.
DrainOutcome ==
  /\ result = "ok" =>
       /\ \A c \in Conns : worker[c] \in {"none", "gone"}
       /\ tokens = 0 /\ active = {} /\ open = {}
       /\ stats.completed = stats.admitted /\ stats.active = 0
  /\ loop \in {"waiting", "storing", "returned"} =>
       \A c \in Conns : worker[c] = "running" => canceled /\ c \notin open

\* Nobody can connect any more when the drain starts, whether the shutdown was
\* begun by the watcher or by a failing Accept, and every connection that was
\* accepted is with a worker or closed.
QuietDrain ==
  loop \in {"draining", "canceling", "collecting", "forcing", "waiting", "storing", "returned"} =>
    /\ ~ listening /\ state \in {"draining", "closed"} /\ watcher = "done"
    /\ \A c \in open : worker[c] \in {"running", "deregister", "close"}

\* Serve returns after its context ends, even if no handler ever does.
ServeEnds == (serveCtxDone /\ loop # "new") ~> (loop = "returned")
=============================================================================
