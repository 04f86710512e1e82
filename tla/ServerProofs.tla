---------------------------- MODULE ServerProofs ----------------------------
(***************************************************************************)
(* Theorems about the two halves of the server.  About TCPServer, for      *)
(* every number of connections and every max_connections: admissions and   *)
(* counters are exact, and a drain leaves nothing behind.  About           *)
(* HTTPConnection, for every limit of requests and whatever the routes,    *)
(* the handlers and the client do: responses are on the wire one for each  *)
(* request, in order, and the server hangs up after a response if and only *)
(* if the response says so.                                                *)
(*                                                                         *)
(* The last part is about the router: the search through the tree finds    *)
(* what the routes mean, for every table and every path.                   *)
(***************************************************************************)
EXTENDS TCPServer, HTTPConnection, FiniteSetTheorems, WellFoundedInduction, TLAPS

-----------------------------------------------------------------------------
(* The shutdown protocol of the watcher and the accept loop.               *)

AcceptSteps == {"accepting", "deciding", "admitting", "launching", "rejecting",
                "failing"}

DrainSteps == {"draining", "canceling", "collecting", "forcing", "waiting",
               "storing", "returned"}

\* Serve has a connection in its hands.
HandSteps == {"deciding", "admitting", "launching", "rejecting"}

\* The part of ServerTypeOK that is about no number.
Shape ==
  /\ state \in {"new", "serving", "draining", "closed"}
  /\ {serveCtxDone, listening, acceptErr, canceled} \subseteq BOOLEAN
  /\ watcher \in {"none", "waiting", "closing listener", "done"}
  /\ loop \in LoopSteps
  /\ current \in Conns \cup {NoConn}
  /\ loop \in HandSteps => current \in Conns
  /\ result \in {"none", "ok", "accept error", "shutdown error"}
  /\ worker \in [Conns -> WorkerSteps]
  /\ open \subseteq Conns /\ active \subseteq Conns /\ toForce \subseteq Conns

\* The state word leads the loop: the loop leaves the accepting steps only once
\* it is draining; then the listener is closed, or the one goroutine whose
\* compare-and-swap succeeded is about to close it; and the drain starts after
\* the watcher has ended.
Lifecycle ==
  /\ state = "new" <=> loop = "new"
  /\ state = "serving" => loop \in AcceptSteps
  /\ state \in {"draining", "closed"} =>
       ~ listening \/ watcher = "closing listener" \/ loop = "closing listener"
  /\ loop \in DrainSteps => watcher = "done"

\* No worker touches the protocol.
LEMMA WorkerQuiet ==
  ASSUME NEW c \in Conns, Worker(c)
  PROVE  UNCHANGED <<lifecycle, loop, current, toForce, canceled>>
  BY DEF Worker, HandlerReturns, Deregister, CloseConn, Uncount, Complete,
     Release, WorkerDone

\* Where a worker's step takes it.
LEMMA WorkerMove ==
  ASSUME NEW c \in Conns, Worker(c)
  PROVE  \E to \in WorkerSteps \ {"none", "running"} :
           worker' = [worker EXCEPT ![c] = to]
  BY DEF Worker, HandlerReturns, Deregister, CloseConn, Uncount, Complete,
     Release, WorkerDone, WorkerStep, WorkerSteps

\* Every step keeps the shape of the state.
LEMMA ShapeInductive == Shape /\ [ServerNext]_serverVars => Shape'
<1> SUFFICES ASSUME Shape, [ServerNext]_serverVars PROVE Shape'
  OBVIOUS
<1> USE DEF Shape, LoopSteps, HandSteps
<1>1. CASE CancelContext \/ Serve \/ Watcher
  BY <1>1
  DEF CancelContext, Serve, Watcher, WatcherShutsDown, WatcherClosesListener,
      WatcherStops, managed
<1>2. CASE Accept \/ AcceptFails
  BY <1>2 DEF Accept, AcceptFails, lifecycle, managed
<1>3. CASE AcceptLoop
  <2>1. CASE LoopShutsDown \/ LoopClosesListener \/ Decide \/ JoinWatcher
             \/ Drained \/ GraceEnds \/ ForceWaitEnds
    BY <2>1
    DEF LoopShutsDown, LoopClosesListener, Decide, JoinWatcher, Drained,
        GraceEnds, ForceWaitEnds, lifecycle, managed
  <2>2. CASE Launch
    BY <2>2 DEF Launch, lifecycle, WorkerSteps
  <2>3. CASE TakeToken
    <3>1. active' \subseteq Conns
      BY <2>3 DEF TakeToken
    <3>2. QED
      BY <2>3, <3>1 DEF TakeToken, lifecycle
  <2>4. CASE Reject \/ CancelHandlers \/ CollectActive \/ ForceClose
    BY <2>4 DEF Reject, CancelHandlers, CollectActive, ForceClose, lifecycle
  <2>5. CASE ServeReturns
    BY <2>5 DEF ServeReturns
  <2>6. QED
    BY <1>3, <2>1, <2>2, <2>3, <2>4, <2>5 DEF AcceptLoop
<1>4. ASSUME NEW c \in Conns, Worker(c) PROVE Shape'
  <2>1. open' \subseteq Conns /\ active' \subseteq Conns
    BY <1>4 DEF Worker, HandlerReturns, Deregister, CloseConn, Uncount,
       Complete, Release, WorkerDone
  <2>2. worker' \in [Conns -> WorkerSteps]
    BY <1>4, WorkerMove
  <2>3. QED
    BY <1>4, <2>1, <2>2, WorkerQuiet DEF lifecycle
<1>5. CASE UNCHANGED serverVars
  BY <1>5 DEF serverVars
<1>6. QED
  BY <1>1, <1>2, <1>3, <1>4, <1>5 DEF ServerNext

\* Every step keeps the protocol.
LEMMA LifecycleInductive == Shape /\ Lifecycle /\ [ServerNext]_serverVars => Lifecycle'
<1> SUFFICES ASSUME Shape, Lifecycle, [ServerNext]_serverVars PROVE Lifecycle'
  OBVIOUS
<1>0. /\ listening \in BOOLEAN /\ listening' \in BOOLEAN
      /\ state \in {"new", "serving", "draining", "closed"}
  BY ShapeInductive DEF Shape
<1> USE DEF Lifecycle, AcceptSteps, DrainSteps
<1>1. CASE CancelContext \/ Serve \/ Watcher
  BY <1>0, <1>1
  DEF CancelContext, Serve, Watcher, WatcherShutsDown, WatcherClosesListener,
      WatcherStops
<1>2. CASE Accept \/ AcceptFails
  BY <1>0, <1>2 DEF Accept, AcceptFails, lifecycle
<1>3. CASE AcceptLoop
  <2>1. CASE LoopShutsDown \/ LoopClosesListener \/ Decide \/ JoinWatcher
             \/ Drained \/ GraceEnds \/ ForceWaitEnds
    BY <1>0, <2>1
    DEF LoopShutsDown, LoopClosesListener, Decide, JoinWatcher, Drained,
        GraceEnds, ForceWaitEnds, lifecycle
  <2>2. CASE TakeToken \/ Launch \/ Reject \/ CancelHandlers
             \/ CollectActive \/ ForceClose
    BY <1>0, <2>2
    DEF TakeToken, Launch, Reject, CancelHandlers, CollectActive, ForceClose,
        lifecycle
  <2>3. CASE ServeReturns
    BY <1>0, <2>3 DEF ServeReturns
  <2>4. QED
    BY <1>3, <2>1, <2>2, <2>3 DEF AcceptLoop
<1>4. ASSUME NEW c \in Conns, Worker(c) PROVE Lifecycle'
  BY <1>4, WorkerQuiet DEF lifecycle
<1>5. CASE UNCHANGED serverVars
  BY <1>5 DEF serverVars
<1>6. QED
  BY <1>1, <1>2, <1>3, <1>4, <1>5 DEF ServerNext

-----------------------------------------------------------------------------
(* Who has each connection.                                                *)

\* A connection that is open is with a worker that has still to close it, or in
\* the hands of Serve; the map of managed connections holds exactly those whose
\* handler may be running, and the one being launched.
Placement ==
  /\ loop \in HandSteps => worker[current] = "none"
  /\ \A c \in open : \/ worker[c] \in {"running", "deregister", "close"}
                     \/ loop \in HandSteps /\ c = current
  /\ \A c \in active : \/ worker[c] \in {"running", "deregister"}
                       \/ loop = "launching" /\ c = current
  /\ \A c \in Conns : worker[c] = "running" => c \in active
  /\ loop = "launching" => current \in active

\* Every step keeps it.
LEMMA PlacementInductive == Shape /\ Placement /\ [ServerNext]_serverVars => Placement'
<1> SUFFICES ASSUME Shape, Placement, [ServerNext]_serverVars PROVE Placement'
  OBVIOUS
<1>0. /\ worker \in [Conns -> WorkerSteps]
      /\ open \subseteq Conns /\ active \subseteq Conns
      /\ loop \in HandSteps => current \in Conns
  BY DEF Shape
<1> USE DEF Placement, HandSteps
<1>1. CASE CancelContext \/ Serve \/ Watcher \/ AcceptFails
  BY <1>0, <1>1
  DEF CancelContext, Serve, Watcher, WatcherShutsDown, WatcherClosesListener,
      WatcherStops, AcceptFails, managed
<1>2. CASE Accept
  BY <1>0, <1>2 DEF Accept
<1>3. CASE AcceptLoop
  <2>1. CASE LoopShutsDown \/ LoopClosesListener \/ Decide \/ JoinWatcher
             \/ Drained \/ GraceEnds \/ ForceWaitEnds
    BY <1>0, <2>1
    DEF LoopShutsDown, LoopClosesListener, Decide, JoinWatcher, Drained,
        GraceEnds, ForceWaitEnds, managed
  <2>2. CASE TakeToken
    BY <1>0, <2>2 DEF TakeToken
  <2>3. CASE Launch
    <3>1. /\ worker' = [worker EXCEPT ![current] = "running"]
          /\ loop = "launching" /\ loop' = "accepting"
          /\ open' = open /\ active' = active
      BY <2>3 DEF Launch
    <3>2. current \in active
      BY <3>1
    <3>3. QED
      BY <1>0, <3>1, <3>2
  <2>4. CASE Reject
    BY <1>0, <2>4 DEF Reject
  <2>5. CASE CancelHandlers \/ CollectActive \/ ForceClose \/ ServeReturns
    BY <1>0, <2>5 DEF CancelHandlers, CollectActive, ForceClose, ServeReturns
  <2>6. QED
    BY <1>3, <2>1, <2>2, <2>3, <2>4, <2>5 DEF AcceptLoop
<1>4. ASSUME NEW c \in Conns, Worker(c) PROVE Placement'
  <2>1. UNCHANGED <<loop, current>>
    BY <1>4, WorkerQuiet
  <2>2. CASE HandlerReturns(c) \/ Uncount(c) \/ Complete(c) \/ Release(c)
             \/ WorkerDone(c)
    BY <1>0, <2>1, <2>2
    DEF HandlerReturns, Uncount, Complete, Release, WorkerDone, WorkerStep
  <2>3. CASE Deregister(c)
    BY <1>0, <2>1, <2>3 DEF Deregister, WorkerStep
  <2>4. CASE CloseConn(c)
    BY <1>0, <2>1, <2>4 DEF CloseConn, WorkerStep
  <2>5. QED
    BY <1>4, <2>2, <2>3, <2>4 DEF Worker
<1>5. CASE UNCHANGED serverVars
  BY <1>5 DEF serverVars
<1>6. QED
  BY <1>1, <1>2, <1>3, <1>4, <1>5 DEF ServerNext

-----------------------------------------------------------------------------
(* Tokens and counters.                                                    *)

\* The workers at one of the given steps.
Where(f, steps) == {c \in Conns : f[c] \in steps}

HoldingSteps == {"running", "deregister", "close", "uncount", "complete", "release"}

CountedSteps == {"running", "deregister", "close", "uncount"}

Stats == [accepted : Nat, admitted : Nat, rejected : Nat, active : Nat,
          peak : Nat, completed : Nat, handlerErrors : Nat, forcedClosed : Nat]

\* The active counter counts the workers that have not counted themselves out.
\* It is what keeps the peak, a maximum of values of that counter, below the
\* number of tokens.
Counting ==
  /\ tokens \in Nat /\ stats \in Stats
  /\ stats.active = Cardinality(Where(worker, CountedSteps))
  /\ AdmissionExact
  /\ CountersAddUp

\* The three counts of workers that the counters are compared with.
LEMMA Counts ==
  /\ Holding = Where(worker, HoldingSteps)
  /\ Holding' = Where(worker', HoldingSteps)
  /\ {c \in Conns : worker[c] = "complete"} = Where(worker, {"complete"})
  /\ {c \in Conns : worker[c] = "complete"}' = Where(worker', {"complete"})
  BY DEF Holding, Where, HoldingSteps

\* Such a count is a number.
LEMMA WhereFinite ==
  ASSUME NEW f, NEW steps
  PROVE  IsFiniteSet(Where(f, steps)) /\ Cardinality(Where(f, steps)) \in Nat
  BY ServerAssumption, FS_Subset, FS_CardinalityType DEF Where

\* A worker that moves changes it by where it leaves and arrives.
LEMMA MoveCount ==
  ASSUME Shape, NEW c \in Conns, NEW to, worker' = [worker EXCEPT ![c] = to],
         NEW steps
  PROVE  Cardinality(Where(worker', steps)) = Cardinality(Where(worker, steps))
           + (IF to \in steps THEN 1 ELSE 0) - (IF worker[c] \in steps THEN 1 ELSE 0)
<1>1. IsFiniteSet(Where(worker, steps)) /\ Cardinality(Where(worker, steps)) \in Nat
  BY WhereFinite
<1>2. /\ to \in steps => Where(worker', steps) = Where(worker, steps) \cup {c}
      /\ to \notin steps => Where(worker', steps) = Where(worker, steps) \ {c}
      /\ c \in Where(worker, steps) <=> worker[c] \in steps
  BY DEF Where, Shape
<1>3. /\ Cardinality(Where(worker, steps) \cup {c}) =
           IF c \in Where(worker, steps) THEN Cardinality(Where(worker, steps))
           ELSE Cardinality(Where(worker, steps)) + 1
      /\ Cardinality(Where(worker, steps) \ {c}) =
           IF c \in Where(worker, steps) THEN Cardinality(Where(worker, steps)) - 1
           ELSE Cardinality(Where(worker, steps))
  BY <1>1, FS_AddElement, FS_RemoveElement
<1> DEFINE n == Cardinality(Where(worker, steps))
           m == Cardinality(Where(worker', steps))
<1>4. m = IF to \in steps THEN IF worker[c] \in steps THEN n ELSE n + 1
          ELSE IF worker[c] \in steps THEN n - 1 ELSE n
  BY <1>2, <1>3
<1>5. n \in Nat
  BY <1>1
<1> HIDE DEF n, m
<1>6. m = n + (IF to \in steps THEN 1 ELSE 0) - (IF worker[c] \in steps THEN 1 ELSE 0)
  BY <1>4, <1>5
<1>7. QED
  BY <1>6 DEF n, m

\* A worker that has not counted itself out is there to be counted.
LEMMA CountedPositive ==
  ASSUME NEW c \in Conns, NEW steps, worker[c] \in steps
  PROVE  Cardinality(Where(worker, steps)) > 0
<1>1. c \in Where(worker, steps)
  BY DEF Where
<1>2. QED
  BY <1>1, WhereFinite, FS_EmptySet

\* A step that moves no worker, takes no token and does not enter or leave the
\* steps where Serve has a connection.
LEMMA OtherStepsCount ==
  ASSUME Counting, UNCHANGED <<worker, tokens, stats>>,
         loop' = "launching" <=> loop = "launching",
         loop' \in HandSteps <=> loop \in HandSteps
  PROVE  Counting'
  BY Counts DEF Counting, AdmissionExact, CountersAddUp, HandSteps

\* A worker's step, given where it leaves from and what it counts.
LEMMA WorkerCounts ==
  ASSUME Shape, Counting, NEW c \in Conns, Worker(c)
  PROVE  Counting'
<1> DEFINE H == Cardinality(Where(worker, HoldingSteps))
           N == Cardinality(Where(worker, CountedSteps))
           K == Cardinality(Where(worker, {"complete"}))
<1>1. PICK to : worker' = [worker EXCEPT ![c] = to]
  BY WorkerMove
<1>2. loop' = loop
  BY WorkerQuiet
<1>3. /\ H \in Nat /\ N \in Nat /\ K \in Nat
      /\ worker[c] \in CountedSteps => N > 0
      /\ worker[c] \in HoldingSteps => H > 0
  BY WhereFinite, CountedPositive
<1>4. worker'[c] = to
  BY <1>1 DEF Shape
<1> HIDE DEF H, N, K
<1>5. /\ tokens \in Nat /\ stats \in Stats /\ MaxConnections \in Nat
      /\ stats.active = N
      /\ tokens = H + (IF loop = "launching" THEN 1 ELSE 0)
      /\ tokens <= MaxConnections
      /\ stats.peak <= MaxConnections
      /\ stats.accepted = stats.admitted + stats.rejected
           + (IF loop \in {"deciding", "admitting", "launching", "rejecting"}
              THEN 1 ELSE 0)
      /\ stats.admitted = stats.completed + stats.active + K
  BY Counts, ServerAssumption DEF Counting, AdmissionExact, CountersAddUp, H, N, K
<1>6. SUFFICES
        /\ tokens' \in Nat /\ stats' \in Stats
        /\ stats'.active = Cardinality(Where(worker', CountedSteps))
        /\ tokens' = Cardinality(Where(worker', HoldingSteps))
             + (IF loop = "launching" THEN 1 ELSE 0)
        /\ tokens' <= MaxConnections
        /\ stats'.peak <= MaxConnections
        /\ stats'.accepted = stats'.admitted + stats'.rejected
             + (IF loop \in {"deciding", "admitting", "launching", "rejecting"}
                THEN 1 ELSE 0)
        /\ stats'.admitted = stats'.completed + stats'.active
             + Cardinality(Where(worker', {"complete"}))
  BY <1>2, Counts DEF Counting, AdmissionExact, CountersAddUp
<1>7. /\ Cardinality(Where(worker', HoldingSteps)) = H
           + (IF to \in HoldingSteps THEN 1 ELSE 0)
           - (IF worker[c] \in HoldingSteps THEN 1 ELSE 0)
      /\ Cardinality(Where(worker', CountedSteps)) = N
           + (IF to \in CountedSteps THEN 1 ELSE 0)
           - (IF worker[c] \in CountedSteps THEN 1 ELSE 0)
      /\ Cardinality(Where(worker', {"complete"})) = K
           + (IF to \in {"complete"} THEN 1 ELSE 0)
           - (IF worker[c] \in {"complete"} THEN 1 ELSE 0)
  BY <1>1, MoveCount DEF H, N, K
<1>8. ASSUME NEW from, worker[c] = from, NEW next, WorkerStep(c, next)
      PROVE  to = next
  BY <1>1, <1>8 DEF WorkerStep, Shape
<1> USE DEF HoldingSteps, CountedSteps, Stats
<1>9. CASE HandlerReturns(c)
  <2>1. /\ worker[c] = "running" /\ to = "deregister"
        /\ \/ stats' = stats
           \/ stats' = [stats EXCEPT !.handlerErrors = @ + 1]
        /\ tokens' = tokens
    BY <1>8, <1>9 DEF HandlerReturns
  <2>2. QED
    BY <1>3, <1>5, <1>7, <2>1
<1>10. CASE Deregister(c) \/ CloseConn(c)
  <2>1. /\ \/ worker[c] = "deregister" /\ to = "close"
           \/ worker[c] = "close" /\ to = "uncount"
        /\ stats' = stats /\ tokens' = tokens
    BY <1>8, <1>10 DEF Deregister, CloseConn
  <2>2. QED
    BY <1>3, <1>5, <1>7, <2>1
<1>11. CASE Uncount(c)
  <2>1. /\ worker[c] = "uncount" /\ to = "complete"
        /\ stats' = [stats EXCEPT !.active = @ - 1]
        /\ tokens' = tokens
    BY <1>8, <1>11 DEF Uncount
  <2>2. QED
    BY <1>3, <1>5, <1>7, <2>1
<1>12. CASE Complete(c)
  <2>1. /\ worker[c] = "complete" /\ to = "release"
        /\ stats' = [stats EXCEPT !.completed = @ + 1]
        /\ tokens' = tokens
    BY <1>8, <1>12 DEF Complete
  <2>2. QED
    BY <1>3, <1>5, <1>7, <2>1
<1>13. CASE Release(c)
  <2>1. /\ worker[c] = "release" /\ to = "done"
        /\ stats' = stats
        /\ tokens' = tokens - 1
    BY <1>8, <1>13 DEF Release
  <2>2. QED
    BY <1>3, <1>5, <1>7, <2>1
<1>14. CASE WorkerDone(c)
  <2>1. /\ worker[c] = "done" /\ to = "gone"
        /\ stats' = stats /\ tokens' = tokens
    BY <1>8, <1>14 DEF WorkerDone
  <2>2. QED
    BY <1>3, <1>5, <1>7, <2>1
<1>15. QED
  BY <1>9, <1>10, <1>11, <1>12, <1>13, <1>14 DEF Worker

\* The steps of Serve that count: Accept, the token, the launch, the rejection
\* and the collection of what is to be forced closed.
LEMMA LoopCounts ==
  ASSUME Shape, Placement, Counting,
         Accept \/ TakeToken \/ Launch \/ Reject \/ CollectActive
  PROVE  Counting'
<1> DEFINE H == Cardinality(Where(worker, HoldingSteps))
           N == Cardinality(Where(worker, CountedSteps))
           K == Cardinality(Where(worker, {"complete"}))
<1>1. H \in Nat /\ N \in Nat /\ K \in Nat /\ N <= H
  <2>1. H \in Nat /\ N \in Nat /\ K \in Nat /\ IsFiniteSet(Where(worker, HoldingSteps))
    BY WhereFinite
  <2>2. Where(worker, CountedSteps) \subseteq Where(worker, HoldingSteps)
    BY DEF Where, CountedSteps, HoldingSteps
  <2>3. QED
    BY <2>1, <2>2, FS_Subset
<1> HIDE DEF H, N, K
<1>2. /\ tokens \in Nat /\ stats \in Stats /\ MaxConnections \in Nat
      /\ stats.active = N
      /\ tokens = H + (IF loop = "launching" THEN 1 ELSE 0)
      /\ tokens <= MaxConnections
      /\ stats.peak <= MaxConnections
      /\ stats.accepted = stats.admitted + stats.rejected
           + (IF loop \in HandSteps THEN 1 ELSE 0)
      /\ stats.admitted = stats.completed + stats.active + K
  BY Counts, ServerAssumption
  DEF Counting, AdmissionExact, CountersAddUp, HandSteps, H, N, K
<1>3. ASSUME worker' = worker,
             tokens' \in Nat /\ stats' \in Stats,
             stats'.active = N,
             tokens' = H + (IF loop' = "launching" THEN 1 ELSE 0),
             tokens' <= MaxConnections,
             stats'.peak <= MaxConnections,
             stats'.accepted = stats'.admitted + stats'.rejected
               + (IF loop' \in HandSteps THEN 1 ELSE 0),
             stats'.admitted = stats'.completed + stats'.active + K
      PROVE  Counting'
  BY <1>3, Counts DEF Counting, AdmissionExact, CountersAddUp, HandSteps, H, N, K
<1>4. CASE Accept
  <2>1. /\ loop = "accepting" /\ loop' = "deciding"
        /\ UNCHANGED <<worker, tokens>>
        /\ stats' = [stats EXCEPT !.accepted = @ + 1]
    BY <1>4 DEF Accept
  <2>2. QED
    BY <1>1, <1>2, <1>3, <2>1 DEF Stats, HandSteps
<1>5. CASE TakeToken
  <2>1. /\ loop = "admitting"
        /\ UNCHANGED <<worker, stats>>
        /\ \/ tokens < MaxConnections /\ tokens' = tokens + 1 /\ loop' = "launching"
           \/ tokens' = tokens /\ loop' = "rejecting"
    BY <1>5 DEF TakeToken
  <2>2. QED
    BY <1>1, <1>2, <1>3, <2>1 DEF HandSteps
<1>6. CASE Launch
  <2>1. /\ loop = "launching" /\ loop' = "accepting"
        /\ worker' = [worker EXCEPT ![current] = "running"]
        /\ stats' = [stats EXCEPT !.admitted = @ + 1, !.active = @ + 1,
                                  !.peak = Larger(@, stats.active + 1)]
        /\ tokens' = tokens
    BY <1>6 DEF Launch
  <2>2. current \in Conns /\ worker[current] = "none"
    BY <2>1 DEF Shape, Placement, HandSteps
  <2>3. /\ Cardinality(Where(worker', HoldingSteps)) = H + 1
        /\ Cardinality(Where(worker', CountedSteps)) = N + 1
        /\ Cardinality(Where(worker', {"complete"})) = K
    <3>1. ASSUME NEW steps
          PROVE  Cardinality(Where(worker', steps)) = Cardinality(Where(worker, steps))
                   + (IF "running" \in steps THEN 1 ELSE 0)
                   - (IF worker[current] \in steps THEN 1 ELSE 0)
      BY <2>1, <2>2, MoveCount
    <3>2. Cardinality(Where(worker', HoldingSteps)) = H + 1
      BY <1>1, <2>2, <3>1 DEF H, HoldingSteps
    <3>3. Cardinality(Where(worker', CountedSteps)) = N + 1
      BY <1>1, <2>2, <3>1 DEF N, CountedSteps
    <3>4. Cardinality(Where(worker', {"complete"})) = K
      BY <1>1, <2>2, <3>1 DEF K
    <3>5. QED
      BY <3>2, <3>3, <3>4
  <2>4. /\ stats'.active = N + 1
        /\ stats'.admitted = stats.admitted + 1
        /\ stats'.peak = Larger(stats.peak, N + 1)
        /\ stats'.accepted = stats.accepted /\ stats'.rejected = stats.rejected
        /\ stats'.completed = stats.completed
        /\ stats' \in Stats
    <3> DEFINE peak == Larger(stats.peak, stats.active + 1)
    <3>1. peak \in Nat
      BY <1>2 DEF Stats, Larger
    <3>2. stats' = [stats EXCEPT !.admitted = stats.admitted + 1,
                                 !.active = stats.active + 1, !.peak = peak]
      BY <2>1
    <3>3. peak = Larger(stats.peak, N + 1)
      BY <1>2
    <3> HIDE DEF peak
    <3>4. stats' \in Stats
      <4>1. ASSUME NEW i \in Nat, NEW j \in Nat, NEW k \in Nat
            PROVE  [stats EXCEPT !.admitted = i, !.active = j, !.peak = k] \in Stats
        BY <1>2 DEF Stats
      <4>2. stats.admitted + 1 \in Nat /\ stats.active + 1 \in Nat
        BY <1>2 DEF Stats
      <4>3. QED
        BY <3>1, <3>2, <4>1, <4>2
    <3>5. /\ stats'.active = stats.active + 1
          /\ stats'.admitted = stats.admitted + 1
          /\ stats'.peak = peak
          /\ stats'.accepted = stats.accepted /\ stats'.rejected = stats.rejected
          /\ stats'.completed = stats.completed
      BY <1>2, <3>2 DEF Stats
    <3>6. QED
      BY <1>2, <3>3, <3>4, <3>5
  <2>5. stats'.peak <= MaxConnections
    BY <1>1, <1>2, <2>1, <2>4 DEF Larger
  <2>6. /\ stats'.accepted = stats'.admitted + stats'.rejected
        /\ stats'.admitted = stats'.completed + stats'.active + K
        /\ tokens' \in Nat /\ tokens' = H + 1 /\ tokens' <= MaxConnections
    BY <1>1, <1>2, <2>1, <2>4 DEF Stats, HandSteps
  <2>7. AdmissionExact'
    BY <1>1, <2>1, <2>3, <2>5, <2>6, Counts DEF AdmissionExact
  <2>8. CountersAddUp'
    <3>1. stats'.accepted \in Nat /\ stats'.admitted \in Nat /\ stats'.rejected \in Nat
      BY <2>4 DEF Stats
    <3>2. Cardinality({c \in Conns : worker'[c] = "complete"}) = K
      BY <2>3, Counts
    <3>3. loop' \notin {"deciding", "admitting", "launching", "rejecting"}
      BY <2>1
    <3>4. QED
      BY <2>6, <3>1, <3>2, <3>3 DEF CountersAddUp
  <2>9. QED
    BY <2>3, <2>4, <2>6, <2>7, <2>8 DEF Counting
<1>7. CASE Reject
  <2>1. /\ loop = "rejecting" /\ loop' = "accepting"
        /\ UNCHANGED <<worker, tokens>>
        /\ stats' = [stats EXCEPT !.rejected = @ + 1]
    BY <1>7 DEF Reject
  <2>2. QED
    BY <1>1, <1>2, <1>3, <2>1 DEF Stats, HandSteps
<1>8. CASE CollectActive
  <2>1. /\ loop = "collecting" /\ loop' = "forcing"
        /\ UNCHANGED <<worker, tokens>>
        /\ stats' = [stats EXCEPT !.forcedClosed = @ + Cardinality(active)]
    BY <1>8 DEF CollectActive
  <2>2. Cardinality(active) \in Nat
    BY ServerAssumption, FS_Subset, FS_CardinalityType DEF Shape
  <2>3. QED
    BY <1>1, <1>2, <1>3, <2>1, <2>2 DEF Stats, HandSteps
<1>9. QED
  BY <1>4, <1>5, <1>6, <1>7, <1>8

\* Every step keeps the tokens and the counters exact.
LEMMA CountingInductive ==
  Shape /\ Placement /\ Counting /\ [ServerNext]_serverVars => Counting'
<1> SUFFICES ASSUME Shape, Placement, Counting, [ServerNext]_serverVars PROVE Counting'
  OBVIOUS
<1>1. CASE CancelContext \/ Serve \/ Watcher \/ AcceptFails
  BY <1>1, OtherStepsCount
  DEF CancelContext, Serve, Watcher, WatcherShutsDown, WatcherClosesListener,
      WatcherStops, AcceptFails, managed, HandSteps
<1>2. CASE \/ LoopShutsDown \/ LoopClosesListener \/ Decide \/ JoinWatcher
           \/ Drained \/ GraceEnds \/ ForceWaitEnds
  BY <1>2, OtherStepsCount
  DEF LoopShutsDown, LoopClosesListener, Decide, JoinWatcher, Drained,
      GraceEnds, ForceWaitEnds, managed, HandSteps
<1>3. CASE CancelHandlers \/ ForceClose \/ ServeReturns
  BY <1>3, OtherStepsCount DEF CancelHandlers, ForceClose, ServeReturns, HandSteps
<1>4. CASE UNCHANGED serverVars
  BY <1>4, OtherStepsCount DEF serverVars
<1>5. QED
  BY <1>1, <1>2, <1>3, <1>4, LoopCounts, WorkerCounts DEF ServerNext, AcceptLoop

-----------------------------------------------------------------------------
(* The drain.                                                              *)

\* What the drain has achieved by the time it is at each step: the handlers are
\* canceled first; of the connections that a handler runs on, those still open
\* are the ones forceCloseActive has not come to; and drain returns nil only
\* when every worker is gone.
Forced ==
  /\ loop \in {"collecting", "forcing", "waiting"} => canceled
  /\ \A c \in Conns :
       worker[c] = "running" =>
         /\ loop = "forcing" /\ c \in open => c \in toForce
         /\ loop \in {"waiting", "storing", "returned"} => canceled /\ c \notin open
  /\ result = "ok" => WorkersDone
  /\ result # "none" => loop \in {"storing", "returned"}

\* Every step keeps that: no connection is accepted and no worker is launched
\* while the server drains, and nothing reopens a connection.
LEMMA ForcedInductive == Shape /\ Placement /\ Forced /\ [ServerNext]_serverVars => Forced'
<1> SUFFICES ASSUME Shape, Placement, Forced, [ServerNext]_serverVars PROVE Forced'
  OBVIOUS
<1>0. /\ worker \in [Conns -> WorkerSteps] /\ canceled \in BOOLEAN
      /\ loop \in HandSteps => current \in Conns
  BY DEF Shape
<1> USE DEF Forced, WorkersDone
<1>1. CASE CancelContext \/ Serve \/ Watcher \/ AcceptFails
  BY <1>0, <1>1
  DEF CancelContext, Serve, Watcher, WatcherShutsDown, WatcherClosesListener,
      WatcherStops, AcceptFails, managed
<1>2. CASE Accept
  BY <1>0, <1>2 DEF Accept, lifecycle
<1>3. CASE AcceptLoop
  <2>1. CASE LoopShutsDown \/ LoopClosesListener \/ Decide \/ JoinWatcher
             \/ GraceEnds
    BY <1>0, <2>1
    DEF LoopShutsDown, LoopClosesListener, Decide, JoinWatcher, GraceEnds,
        lifecycle, managed
  <2>2. CASE Drained \/ ForceWaitEnds
    BY <1>0, <2>2 DEF Drained, ForceWaitEnds, managed
  <2>3. CASE TakeToken \/ Launch \/ Reject
    BY <1>0, <2>3 DEF TakeToken, Launch, Reject, lifecycle, HandSteps
  <2>4. CASE CancelHandlers
    BY <1>0, <2>4 DEF CancelHandlers, lifecycle
  <2>5. CASE CollectActive
    BY <1>0, <2>5 DEF CollectActive, lifecycle, Placement
  <2>6. CASE ForceClose
    BY <1>0, <2>6 DEF ForceClose, lifecycle
  <2>7. CASE ServeReturns
    BY <1>0, <2>7 DEF ServeReturns
  <2>8. QED
    BY <1>3, <2>1, <2>2, <2>3, <2>4, <2>5, <2>6, <2>7 DEF AcceptLoop
<1>4. ASSUME NEW c \in Conns, Worker(c) PROVE Forced'
  <2>1. UNCHANGED <<loop, toForce, canceled, result>> /\ open' \subseteq open
    BY <1>4, WorkerQuiet
    DEF lifecycle, Worker, HandlerReturns, Deregister, CloseConn, Uncount,
        Complete, Release, WorkerDone
  <2>2. \E to \in WorkerSteps \ {"none", "running"} :
          worker' = [worker EXCEPT ![c] = to]
    BY <1>4, WorkerMove
  <2>3. worker[c] \notin {"none", "gone"}
    BY <1>4
    DEF Worker, HandlerReturns, Deregister, CloseConn, Uncount, Complete,
        Release, WorkerDone
  <2>4. QED
    BY <1>0, <2>1, <2>2, <2>3
<1>5. CASE UNCHANGED serverVars
  BY <1>5 DEF serverVars
<1>6. QED
  BY <1>1, <1>2, <1>3, <1>4, <1>5 DEF ServerNext

-----------------------------------------------------------------------------
(* The theorems.                                                           *)

ServerIInv == Shape /\ Lifecycle /\ Placement /\ Counting /\ Forced

\* A server that was just created.
LEMMA ServerStarts == ServerInit => ServerIInv
<1> SUFFICES ASSUME ServerInit PROVE ServerIInv
  OBVIOUS
<1>1. Shape
  BY DEF ServerInit, Shape, LoopSteps, WorkerSteps, HandSteps
<1>2. Lifecycle /\ Placement /\ Forced
  BY DEF ServerInit, Lifecycle, Placement, Forced, AcceptSteps, DrainSteps, HandSteps
<1>3. /\ Where(worker, HoldingSteps) = {}
      /\ Where(worker, CountedSteps) = {}
      /\ Where(worker, {"complete"}) = {}
  BY DEF ServerInit, Where, HoldingSteps, CountedSteps
<1>4. Cardinality({}) = 0
  BY FS_EmptySet
<1>5. /\ Cardinality(Holding) = 0
      /\ Cardinality({c \in Conns : worker[c] = "complete"}) = 0
  BY <1>3, <1>4, Counts
<1>6. AdmissionExact /\ CountersAddUp
  BY <1>5, ServerAssumption DEF ServerInit, AdmissionExact, CountersAddUp
<1>7. Counting
  BY <1>3, <1>4, <1>6 DEF ServerInit, Counting, Stats
<1>8. QED
  BY <1>1, <1>2, <1>7 DEF ServerIInv

\* The inductive invariant holds of every execution.
LEMMA ServerInvariant == ServerSpec => []ServerIInv
<1>1. ServerIInv /\ [ServerNext]_serverVars => ServerIInv'
  BY ShapeInductive, LifecycleInductive, PlacementInductive, CountingInductive,
     ForcedInductive DEF ServerIInv
<1>2. QED
  BY <1>1, ServerStarts, PTL DEF ServerSpec

\* No more than max_connections handlers run, the published peak says so, and
\* the counters of a snapshot add up at every moment.
THEOREM ServerCorrect == ServerSpec => []ServerInv
<1>1. ServerIInv => ServerInv
  BY DEF ServerIInv, Shape, Counting, Stats, ServerInv, ServerTypeOK
<1>2. QED
  BY <1>1, ServerInvariant, PTL

\* When the drain starts nobody can connect any more, whoever began the shutdown,
\* and every accepted connection is with a worker or closed.
THEOREM DrainIsQuiet == ServerSpec => []QuietDrain
<1>1. ServerIInv => QuietDrain
  <2> SUFFICES ASSUME ServerIInv, loop \in DrainSteps PROVE QuietDrain
    BY DEF QuietDrain, DrainSteps
  <2>1. watcher = "done" /\ loop # "closing listener" /\ loop \notin HandSteps
    BY DEF ServerIInv, Lifecycle, DrainSteps, HandSteps
  <2>2. state \in {"draining", "closed"}
    BY DEF ServerIInv, Shape, Lifecycle, DrainSteps, AcceptSteps
  <2>3. ~ listening
    BY <2>1, <2>2 DEF ServerIInv, Lifecycle
  <2>4. \A c \in open : worker[c] \in {"running", "deregister", "close"}
    BY <2>1 DEF ServerIInv, Placement
  <2>5. QED
    BY <2>1, <2>2, <2>3, <2>4 DEF QuietDrain
<1>2. QED
  BY <1>1, ServerInvariant, PTL

\* A drain that succeeds leaves nothing behind, and one that is forced leaves
\* no handler a usable connection.
THEOREM DrainIsComplete == ServerSpec => []DrainOutcome
<1>1. ServerIInv => DrainOutcome
  <2> SUFFICES ASSUME ServerIInv PROVE DrainOutcome
    OBVIOUS
  <2>1. ASSUME result = "ok"
        PROVE  /\ WorkersDone
               /\ tokens = 0 /\ active = {} /\ open = {}
               /\ stats.completed = stats.admitted /\ stats.active = 0
    <3>1. WorkersDone /\ loop \in {"storing", "returned"}
      BY <2>1 DEF ServerIInv, Forced
    <3>2. active = {} /\ open = {}
      BY <3>1 DEF ServerIInv, Shape, Placement, WorkersDone, HandSteps
    <3>3. /\ Where(worker, HoldingSteps) = {}
          /\ Where(worker, CountedSteps) = {}
          /\ Where(worker, {"complete"}) = {}
      BY <3>1 DEF WorkersDone, Where, HoldingSteps, CountedSteps
    <3>4. /\ Cardinality(Holding) = 0
          /\ Cardinality(Where(worker, CountedSteps)) = 0
          /\ Cardinality({c \in Conns : worker[c] = "complete"}) = 0
      BY <3>3, Counts, FS_EmptySet
    <3>5. tokens = 0 /\ stats.active = 0
      BY <3>1, <3>4 DEF ServerIInv, Counting, AdmissionExact
    <3>6. stats.completed = stats.admitted
      BY <3>4, <3>5 DEF ServerIInv, Counting, CountersAddUp, Stats
    <3>7. QED
      BY <3>1, <3>2, <3>5, <3>6
  <2>2. QED
    BY <2>1 DEF ServerIInv, Forced, DrainOutcome, WorkersDone
<1>2. QED
  BY <1>1, ServerInvariant, PTL

-----------------------------------------------------------------------------
(* One connection: the inductive invariant counts the responses while the  *)
(* loop runs, and says that the response to the last request announces the *)
(* close.                                                                  *)

Answers == [answers : 1 .. MaxRequestsPerConnection, close : BOOLEAN, whole : BOOLEAN]

\* While the loop runs, the requests before this one have whole answers that
\* keep the connection open.
Running ==
  pc # "over" =>
    /\ ended = "no" /\ Len(wire) = number - 1
    /\ \A i \in DOMAIN wire : wire[i].whole /\ ~ wire[i].close

\* Afterwards only the last may differ.
Finished ==
  /\ \A i \in DOMAIN wire : ~ wire[i].whole \/ wire[i].close => i = Len(wire)
  /\ ended = "by_server" => wire # <<>> /\ wire[Len(wire)].close

\* The last request a connection may have is answered with a close.
LastCloses ==
  pc \in {"encoding", "sending"} /\ number = MaxRequestsPerConnection => response.close

WireIInv ==
  /\ TypeOK /\ Running /\ Finished /\ LastCloses
  /\ \A i \in DOMAIN wire : wire[i].answers = i

-----------------------------------------------------------------------------
\* One more response on the wire.
LEMMA AppendAnswer ==
  ASSUME NEW s \in Seq(Answers), NEW a \in Answers
  PROVE  /\ Append(s, a) \in Seq(Answers) /\ Append(s, a) # <<>>
         /\ Len(Append(s, a)) = Len(s) + 1 /\ Len(s) \in Nat
         /\ DOMAIN s = 1 .. Len(s) /\ DOMAIN Append(s, a) = 1 .. Len(s) + 1
         /\ Append(s, a)[Len(s) + 1] = a
         /\ \A i \in 1 .. Len(s) : Append(s, a)[i] = s[i]
<1> HIDE DEF Answers
<1> QED OBVIOUS

\* The response that is sent: its place on the wire is the request's number.
LEMMA SentFacts ==
  ASSUME WireIInv, pc = "sending", NEW whole \in BOOLEAN, Sent(whole)
  PROVE  /\ wire' \in Seq(Answers) /\ wire' # <<>> /\ Len(wire') = number
         /\ \A i \in DOMAIN wire' :
              /\ wire'[i].answers = i
              /\ i # number => wire'[i].whole /\ ~ wire'[i].close
         /\ wire'[number].close = response.close /\ wire'[number].whole = whole
         /\ number \in DOMAIN wire'
<1>1. /\ wire \in Seq(Answers) /\ response \in Responses /\ number \in 1 .. MaxRequestsPerConnection
      /\ number \in Nat
  BY ConnectionAssumption DEF WireIInv, TypeOK, Answers
<1> PICK a : a = [answers |-> number, close |-> response.close, whole |-> whole]
  OBVIOUS
<1>2. a \in Answers /\ a.answers = number /\ a.close = response.close /\ a.whole = whole
  BY <1>1 DEF Answers, Responses
<1>3. wire' = Append(wire, a)
  BY DEF Sent
<1>4. /\ wire' \in Seq(Answers) /\ wire' # <<>> /\ Len(wire') = Len(wire) + 1 /\ Len(wire) \in Nat
      /\ DOMAIN wire = 1 .. Len(wire) /\ DOMAIN wire' = 1 .. Len(wire) + 1
      /\ wire'[Len(wire) + 1] = a /\ \A i \in 1 .. Len(wire) : wire'[i] = wire[i]
  BY <1>1, <1>2, <1>3, AppendAnswer
<1>5. /\ Len(wire) = number - 1
      /\ \A i \in DOMAIN wire : wire[i].answers = i /\ wire[i].whole /\ ~ wire[i].close
  BY DEF WireIInv, Running
<1>6. Len(wire) + 1 = number
  BY <1>1, <1>5
<1>7. ASSUME NEW i \in DOMAIN wire'
      PROVE  wire'[i].answers = i /\ (i # number => wire'[i].whole /\ ~ wire'[i].close)
  <2>1. i = number \/ i \in 1 .. Len(wire)
    BY <1>1, <1>4, <1>6
  <2>2. CASE i = number
    BY <2>2, <1>2, <1>4, <1>6
  <2>3. CASE i \in 1 .. Len(wire)
    BY <2>3, <1>4, <1>5
  <2> QED BY <2>1, <2>2, <2>3
<1>8. number \in DOMAIN wire'
  BY <1>1, <1>4, <1>6
<1> QED BY <1>2, <1>4, <1>6, <1>7, <1>8

\* Steps that send nothing and leave the connection open or end it.
Quiet ==
  /\ wire' = wire /\ number' = number /\ pc # "over"
  /\ IF pc' = "over" THEN ended' \in {"by_client", "by_context", "by_error"} ELSE ended' = ended

\* Such steps keep the invariant if they keep the types and LastCloses.
LEMMA QuietKeeps ==
  ASSUME WireIInv, Quiet, TypeOK', LastCloses'
  PROVE  WireIInv'
<1>1. Running' /\ Finished' /\ \A i \in DOMAIN wire' : wire'[i].answers = i
  BY DEF WireIInv, Quiet, Running, Finished
<1> QED BY <1>1 DEF WireIInv

\* Building the router, and the context, do not touch the connection.
LEMMA OutsideKeeps ==
  ASSUME WireIInv, Build \/ Cancel \/ UNCHANGED vars
  PROVE  WireIInv'
<1>1. UNCHANGED <<pc, number, request, response, wire, ended>>
  BY DEF Build, Cancel, vars, connection
<1>2. routes' \in [Methods -> SUBSET Patterns] /\ frozen' \in BOOLEAN /\ ctxDone' \in BOOLEAN
  <2> HIDE DEF Patterns, Methods
  <2>1. /\ routes \in [Methods -> SUBSET Patterns] /\ frozen \in BOOLEAN /\ ctxDone \in BOOLEAN
    BY DEF WireIInv, TypeOK
  <2>2. CASE Cancel
    BY <2>1, <2>2, Zenon DEF Cancel
  <2>3. CASE UNCHANGED vars
    BY <2>1, <2>3, Zenon DEF vars, connection
  <2>4. CASE Build
    <3>1. ctxDone' \in BOOLEAN
      BY <2>1, <2>4, Zenon DEF Build, connection
    <3>2. CASE Freeze
      BY <2>1, <3>1, <3>2, Zenon DEF Freeze
    <3>3. ASSUME NEW m \in RouteMethods \cup {AnyMethod}, NEW p \in Patterns, Register(m, p)
          PROVE  routes' \in [Methods -> SUBSET Patterns] /\ frozen' \in BOOLEAN
      <4>1. m \in Methods
        BY DEF Methods
      <4>2. routes' = [routes EXCEPT ![m] = @ \cup {p}] /\ frozen' = frozen
        BY <3>3 DEF Register
      <4>3. routes' \in [Methods -> SUBSET Patterns]
        BY <2>1, <4>1, <4>2
      <4> QED BY <2>1, <4>2, <4>3, Zenon
    <3> QED BY <2>4, <3>1, <3>2, <3>3 DEF Build
  <2> QED BY <2>2, <2>3, <2>4
<1>3. TypeOK'
  BY <1>1, <1>2 DEF WireIInv, TypeOK
<1>4. Running' /\ Finished' /\ LastCloses' /\ \A i \in DOMAIN wire' : wire'[i].answers = i
  BY <1>1 DEF WireIInv, Running, Finished, LastCloses
<1> QED BY <1>3, <1>4 DEF WireIInv

\* The types of what no step of the loop changes.
LEMMA LoopTypes ==
  ASSUME TypeOK, UNCHANGED <<routes, frozen, ctxDone>>,
         pc' \in {"new", "checking", "reading", "dispatching", "encoding", "sending", "over"},
         number' \in 1 .. MaxRequestsPerConnection,
         request' \in Requests \cup {None},
         pc' \in {"encoding", "sending"} => response' \in Responses,
         pc' \notin {"encoding", "sending"} => response' = None,
         wire' \in Seq(Answers),
         ended' \in {"no", "by_client", "by_context", "by_server", "by_error"}
  PROVE  TypeOK'
<1> HIDE DEF Patterns, Methods
<1>1. routes' \in [Methods -> SUBSET Patterns] /\ frozen' \in BOOLEAN /\ ctxDone' \in BOOLEAN
  BY DEF TypeOK
<1>2. response' \in IF pc' \in {"encoding", "sending"} THEN Responses ELSE {None}
  OBVIOUS
<1> QED BY <1>1, <1>2 DEF TypeOK, Answers

\* Starting, checking and reading.
LEMMA ReadKeeps ==
  ASSUME WireIInv, Start \/ CheckContext \/ ReadRequest \/ ReadEnds \/ ReadFails
  PROVE  WireIInv'
<1>1. /\ UNCHANGED <<routes, frozen, ctxDone, number, wire>>
      /\ pc \in {"new", "checking", "reading"}
  BY DEF Start, CheckContext, ReadRequest, ReadEnds, ReadFails
<1>2. /\ TypeOK /\ wire \in Seq(Answers) /\ number \in 1 .. MaxRequestsPerConnection
      /\ request \in Requests \cup {None} /\ response = None
      /\ ended \in {"no", "by_client", "by_context", "by_server", "by_error"}
  BY <1>1 DEF WireIInv, TypeOK, Answers
<1>3. CASE Start \/ CheckContext \/ ReadEnds
  <2>1. /\ pc' \in {"checking", "reading", "over"} /\ request' = request /\ response' = response
        /\ IF pc' = "over" THEN ended' \in {"by_client", "by_context"} ELSE ended' = ended
    BY <1>3 DEF Start, CheckContext, ReadEnds, End
  <2>2. TypeOK'
    BY <1>1, <1>2, <2>1, LoopTypes
  <2>3. Quiet /\ LastCloses'
    BY <1>1, <2>1 DEF Quiet, LastCloses
  <2> QED BY <2>2, <2>3, QuietKeeps
<1>4. CASE ReadRequest
  <2>1. pc' = "dispatching" /\ response' = response /\ ended' = ended
    BY <1>4 DEF ReadRequest
  <2>2. request' \in Requests
    <3> PICK keepAlive \in BOOLEAN, resolved \in {"handler", "allowed", "nothing"} :
          request' = [keepAlive |-> keepAlive, resolved |-> resolved]
      BY <1>4 DEF ReadRequest
    <3> QED BY DEF Requests
  <2>3. TypeOK'
    BY <1>1, <1>2, <2>1, <2>2, LoopTypes
  <2>4. Quiet /\ LastCloses'
    BY <1>1, <2>1 DEF Quiet, LastCloses
  <2> QED BY <2>3, <2>4, QuietKeeps
<1>5. CASE ReadFails
  <2>1. /\ pc' = "encoding" /\ request' = request /\ ended' = ended
        /\ response' = [status |-> 400, close |-> TRUE, valid |-> TRUE]
    BY <1>5 DEF ReadFails
  <2>2. response' \in Responses /\ response'.close = TRUE
    BY <2>1 DEF Responses
  <2>3. TypeOK'
    BY <1>1, <1>2, <2>1, <2>2, LoopTypes
  <2>4. Quiet /\ LastCloses'
    BY <1>1, <2>1, <2>2 DEF Quiet, LastCloses
  <2> QED BY <2>3, <2>4, QuietKeeps
<1> QED BY <1>3, <1>4, <1>5

\* dispatchHTTPRequest: closeAfterResponse looks at the request's number.
LEMMA DispatchKeeps ==
  ASSUME WireIInv, NoRoute \/ HandlerResponds \/ HandlerFails
  PROVE  WireIInv'
<1> DEFINE Statuses == {200, 400, 404, 405, 500}
<1>a. 200 \in Statuses /\ 404 \in Statuses /\ 405 \in Statuses /\ 500 \in Statuses
  OBVIOUS
<1>b. /\ pc = "dispatching"
      /\ \E status \in Statuses, close \in BOOLEAN, valid \in BOOLEAN :
           Respond(status, close, valid)
  <2> HIDE DEF Statuses
  <2>1. CASE NoRoute
    <3>1. PICK status : status = IF request.resolved = "allowed" THEN 405 ELSE 404
      OBVIOUS
    <3>2. status \in Statuses
      BY <1>a, <3>1
    <3>3. pc = "dispatching" /\ Respond(status, FALSE, TRUE)
      BY <2>1, <3>1 DEF NoRoute
    <3> QED BY <3>2, <3>3, Zenon
  <2>2. CASE HandlerResponds
    <3>1. PICK status : status = 200
      OBVIOUS
    <3>2. status \in Statuses
      BY <1>a, <3>1
    <3>3. pc = "dispatching" /\ \E close, valid \in BOOLEAN : Respond(status, close, valid)
      BY <2>2, <3>1 DEF HandlerResponds
    <3> QED BY <3>2, <3>3, Zenon
  <2>3. CASE HandlerFails
    <3>1. PICK status : status = 500
      OBVIOUS
    <3>2. status \in Statuses
      BY <1>a, <3>1
    <3>3. pc = "dispatching" /\ Respond(status, TRUE, TRUE)
      BY <2>3, <3>1 DEF HandlerFails
    <3> QED BY <3>2, <3>3, Zenon
  <2> QED BY <2>1, <2>2, <2>3
<1> PICK status \in Statuses, close \in BOOLEAN, valid \in BOOLEAN : Respond(status, close, valid)
  BY <1>b
<1> PICK b : b = closeAfterResponse(close)
  OBVIOUS
<1>0. b \in BOOLEAN
  BY Zenon DEF closeAfterResponse
<1>1. /\ response' = [status |-> status, close |-> b, valid |-> valid]
      /\ pc' = "encoding" /\ UNCHANGED <<routes, frozen, ctxDone, number, request, wire, ended>>
  BY DEF Respond
<1>2. response' \in Responses /\ response'.close = b
  BY <1>a, <1>0, <1>1 DEF Responses
<1>3. number = MaxRequestsPerConnection => b
  BY DEF closeAfterResponse
<1>4. TypeOK'
  <2>1. /\ TypeOK /\ wire \in Seq(Answers) /\ number \in 1 .. MaxRequestsPerConnection
        /\ request \in Requests \cup {None}
        /\ ended \in {"no", "by_client", "by_context", "by_server", "by_error"}
    BY DEF WireIInv, TypeOK, Answers
  <2> QED BY <1>1, <1>2, <2>1, LoopTypes
<1>5. Quiet /\ LastCloses'
  BY <1>b, <1>1, <1>2, <1>3 DEF Quiet, LastCloses
<1> QED BY <1>4, <1>5, QuietKeeps

\* writeBufferedHTTPResponse: a response is replaced by one that closes, or sent.
LEMMA WriteKeeps ==
  ASSUME WireIInv, Encode \/ Send \/ SendFails
  PROVE  WireIInv'
<1>1. /\ TypeOK /\ wire \in Seq(Answers) /\ number \in 1 .. MaxRequestsPerConnection /\ number \in Nat
      /\ request \in Requests \cup {None} /\ response \in Responses
      /\ ended \in {"no", "by_client", "by_context", "by_server", "by_error"}
  <2>1. pc \in {"encoding", "sending"}
    BY DEF Encode, Send, SendFails
  <2>2. TypeOK /\ wire \in Seq(Answers) /\ number \in 1 .. MaxRequestsPerConnection
    BY DEF WireIInv, TypeOK, Answers
  <2>3. /\ request \in Requests \cup {None} /\ response \in Responses
        /\ ended \in {"no", "by_client", "by_context", "by_server", "by_error"}
    BY <2>1 DEF WireIInv, TypeOK
  <2> QED BY <2>2, <2>3, ConnectionAssumption
<1>2. ASSUME Encode PROVE WireIInv'
  <2> PICK u : u = [status |-> 500, close |-> TRUE, valid |-> TRUE]
    OBVIOUS
  <2>1. u \in Responses /\ u.close = TRUE
    BY DEF Responses
  <2>2. /\ pc = "encoding" /\ pc' = "sending" /\ (response' = response \/ response' = u)
        /\ UNCHANGED <<routes, frozen, ctxDone, number, request, wire, ended>>
    BY <1>2 DEF Encode
  <2>3. TypeOK'
    <3>1. response' \in Responses
      BY <1>1, <2>1, <2>2
    <3> QED BY <1>1, <2>2, <3>1, LoopTypes
  <2>4. Quiet /\ LastCloses'
    BY <2>1, <2>2 DEF WireIInv, Quiet, LastCloses
  <2> QED BY <2>3, <2>4, QuietKeeps
<1>3. ASSUME Send PROVE WireIInv'
  <2>1. /\ pc = "sending" /\ Sent(TRUE) /\ request' = None /\ response' = None
        /\ UNCHANGED <<routes, frozen, ctxDone>>
    BY <1>3 DEF Send
  <2>2. /\ wire' \in Seq(Answers) /\ wire' # <<>> /\ Len(wire') = number
        /\ \A i \in DOMAIN wire' :
             /\ wire'[i].answers = i
             /\ i # number => wire'[i].whole /\ ~ wire'[i].close
        /\ wire'[number].close = response.close /\ wire'[number].whole = TRUE
        /\ number \in DOMAIN wire'
    BY <2>1, SentFacts
  <2>3. CASE response.close \/ number = MaxRequestsPerConnection
    <3>1. pc' = "over" /\ ended' = "by_server" /\ number' = number
      BY <1>3, <2>3 DEF Send, End
    <3>2. response.close
      BY <2>1, <2>3 DEF WireIInv, LastCloses
    <3>3. TypeOK'
      BY <1>1, <2>1, <2>2, <3>1, LoopTypes
    <3>4. Running' /\ Finished' /\ LastCloses'
      BY <2>2, <3>1, <3>2 DEF Running, Finished, LastCloses
    <3> QED BY <2>2, <3>3, <3>4 DEF WireIInv
  <2>4. CASE ~ (response.close \/ number = MaxRequestsPerConnection)
    <3>1. pc' = "checking" /\ number' = number + 1 /\ ended' = ended
      BY <1>3, <2>4 DEF Send
    <3>2. number' \in 1 .. MaxRequestsPerConnection /\ number' - 1 = number
      BY <1>1, <2>4, <3>1, ConnectionAssumption
    <3>3. TypeOK'
      BY <1>1, <2>1, <2>2, <3>1, <3>2, LoopTypes
    <3>4. \A i \in DOMAIN wire' : wire'[i].whole /\ ~ wire'[i].close
      BY <2>2, <2>4
    <3>5. ended = "no"
      BY <2>1 DEF WireIInv, Running
    <3>6. Running' /\ Finished' /\ LastCloses'
      BY <2>2, <3>1, <3>2, <3>4, <3>5 DEF Running, Finished, LastCloses
    <3> QED BY <2>2, <3>3, <3>6 DEF WireIInv
  <2> QED BY <2>3, <2>4
<1>4. ASSUME SendFails PROVE WireIInv'
  <2>1. /\ pc = "sending" /\ request' = None /\ response' = None /\ pc' = "over" /\ ended' = "by_error"
        /\ UNCHANGED <<routes, frozen, ctxDone, number>> /\ (wire' = wire \/ Sent(FALSE))
    BY <1>4 DEF SendFails, End
  <2>2. CASE wire' = wire
    <3>1. TypeOK'
      BY <1>1, <2>1, <2>2, LoopTypes
    <3>2. Quiet /\ LastCloses'
      BY <2>1, <2>2 DEF Quiet, LastCloses
    <3> QED BY <3>1, <3>2, QuietKeeps
  <2>3. CASE Sent(FALSE)
    <3>1. /\ wire' \in Seq(Answers) /\ Len(wire') = number
          /\ \A i \in DOMAIN wire' :
               /\ wire'[i].answers = i
               /\ i # number => wire'[i].whole /\ ~ wire'[i].close
      BY <2>1, <2>3, SentFacts
    <3>2. TypeOK'
      BY <1>1, <2>1, <3>1, LoopTypes
    <3>3. Running' /\ Finished' /\ LastCloses'
      BY <2>1, <3>1 DEF Running, Finished, LastCloses
    <3> QED BY <3>1, <3>2, <3>3 DEF WireIInv
  <2> QED BY <2>1, <2>2, <2>3
<1> QED BY <1>2, <1>3, <1>4

-----------------------------------------------------------------------------
\* The invariant holds before the router is built.
LEMMA WireStart == Init => WireIInv
<1> SUFFICES ASSUME Init PROVE WireIInv
  OBVIOUS
<1>1. wire = <<>> /\ wire \in Seq(Answers) /\ DOMAIN wire = {} /\ Len(wire) = 0
  <2> HIDE DEF Answers
  <2> QED BY DEF Init
<1>2. routes \in [Methods -> SUBSET Patterns]
  <2> HIDE DEF Methods, Patterns
  <2>1. routes = [m \in Methods |-> {}] /\ {} \in SUBSET Patterns
    BY DEF Init, RouterInit
  <2> QED BY <2>1
<1>3. frozen \in BOOLEAN /\ ctxDone \in BOOLEAN
  BY Zenon DEF Init, RouterInit
<1>4. pc = "new" /\ number = 1 /\ request = None /\ response = None /\ ended = "no"
  BY DEF Init
<1>5. number \in 1 .. MaxRequestsPerConnection
  BY <1>4, ConnectionAssumption
<1>6. TypeOK
  <2> HIDE DEF Methods, Patterns
  <2> QED BY <1>1, <1>2, <1>3, <1>4, <1>5 DEF TypeOK, Answers
<1>7. Running /\ Finished /\ LastCloses
  BY <1>1, <1>4 DEF Running, Finished, LastCloses
<1> QED BY <1>1, <1>6, <1>7 DEF WireIInv

\* The inductive invariant holds throughout.
LEMMA WireKeeps == Spec => []WireIInv
<1>1. WireIInv /\ [Next]_vars => WireIInv'
  BY OutsideKeeps, ReadKeeps, DispatchKeeps, WriteKeeps DEF Next, Loop
<1> QED BY <1>1, WireStart, PTL DEF Spec

\* serveHTTPConnection answers requests one for one and in order, and sends
\* nothing after a response that was cut off.
THEOREM WireCorrect == Spec => []WireInv
<1>1. WireIInv => WireInv
  BY DEF WireIInv, Running, Finished, WireInv, OneAnswerEach
<1> QED BY <1>1, WireKeeps, PTL

\* The loop closes after a response if and only if the response said so, for
\* handlers' wishes, malformed requests, replaced responses and the limit alike.
THEOREM CloseAnnounced == Spec => []CloseIsAnnounced
<1>1. WireIInv => CloseIsAnnounced
  BY DEF WireIInv, Running, Finished, CloseIsAnnounced, Last
<1> QED BY <1>1, WireKeeps, PTL

-----------------------------------------------------------------------------
(* The search through the tree                                             *)

\* The least-number principle, which stands for induction.
LEMMA Least ==
  ASSUME NEW T \in SUBSET Nat, NEW t \in T
  PROVE  \E x \in T : \A y \in T : x <= y
<1>1. IsWellFoundedOn(OpToRel(<, Nat), Nat)
  BY NatLessThanWellFounded, Zenon
<1>2. PICK x \in T : \A y \in T : ~ (<<y, x>> \in OpToRel(<, Nat))
  BY <1>1, WFMin, Zenon
<1>3. \A y \in T : ~ (y < x)
  BY <1>2 DEF OpToRel
<1> QED BY <1>3

\* The entries of a sequence.
LEMMA EntryFacts ==
  ASSUME NEW S, NEW n \in Seq(S)
  PROVE  /\ Len(n) \in Nat /\ \A i \in 1 .. Len(n) : n[i] \in S
         /\ n \in [1 .. Len(n) -> S]
         /\ n # <<>> => Last(n) = n[Len(n)] /\ Len(n) \in 1 .. Len(n)
BY DEF Last

\* The place after the first a of b.
LEMMA NextIndex == ASSUME NEW a \in Nat, NEW b \in Nat, a < b PROVE a + 1 \in 1 .. b
OBVIOUS

\* A child of a node.
LEMMA ChildFacts ==
  ASSUME NEW S, NEW n \in Seq(S), NEW s \in S
  PROVE  /\ Append(n, s) \in Seq(S) /\ Append(n, s) \in [1 .. Len(n) + 1 -> S]
         /\ Len(Append(n, s)) = Len(n) + 1 /\ Len(n) \in Nat
         /\ Append(n, s)[Len(n) + 1] = s
         /\ \A j \in 1 .. Len(n) : Append(n, s)[j] = n[j]
<1>1. Append(n, s) \in Seq(S) /\ Len(Append(n, s)) = Len(n) + 1 /\ Len(n) \in Nat
  OBVIOUS
<1>2. Append(n, s)[Len(n) + 1] = s /\ \A j \in 1 .. Len(n) : Append(n, s)[j] = n[j]
  OBVIOUS
<1>3. Append(n, s) \in [1 .. Len(Append(n, s)) -> S]
  BY <1>1, EntryFacts
<1> QED BY <1>1, <1>2, <1>3

\* A sequence is its entries.
LEMMA SameEntries ==
  ASSUME NEW S, NEW a \in Seq(S), NEW b \in Seq(S), Len(a) = Len(b),
         \A j \in 1 .. Len(a) : a[j] = b[j]
  PROVE  a = b
<1>1. a \in [1 .. Len(a) -> S] /\ b \in [1 .. Len(a) -> S]
  BY EntryFacts
<1> QED BY <1>1

\* p is in the part of the tree below n.
Extends(p, n) == Len(n) <= Len(p) /\ \A j \in 1 .. Len(n) : p[j] = n[j]

\* Patterns are short sequences of segments, and end with their wildcard.
LEMMA PatternFacts ==
  ASSUME NEW p \in Patterns
  PROVE  /\ p \in Seq(Segments) /\ Len(p) \in Nat /\ Len(p) <= MaxDepth
         /\ DOMAIN p = 1 .. Len(p)
         /\ \A i \in 1 .. Len(p) : p[i] = Wildcard => i = Len(p)
<1>1. PICK k \in 0 .. MaxDepth : p \in [1 .. k -> Segments]
  <2> QED BY DEF Patterns, BoundedSeq, SeqOf
<1>2. k \in Nat /\ k <= MaxDepth
  BY RouterAssumption
<1>3. p \in Seq(Segments) /\ Len(p) = k /\ DOMAIN p = 1 .. k
  <2> HIDE DEF Segments
  <2> QED BY <1>1, <1>2
<1>4. \A i \in DOMAIN p : p[i] = Wildcard => i = Len(p)
  BY DEF Patterns
<1> QED BY <1>2, <1>3, <1>4

\* The nodes of the tree are the beginnings of its patterns.
LEMMA NodeFacts ==
  ASSUME NEW m, routes[m] \subseteq Patterns, NEW n \in Nodes(m)
  PROVE  /\ n \in Seq(Segments) /\ Len(n) \in Nat /\ Len(n) <= MaxDepth
         /\ \E p \in routes[m] : Extends(p, n)
<1>1. PICK p \in routes[m] : \E i \in 0 .. Len(p) : n = SubSeq(p, 1, i)
  BY DEF Nodes
<1> PICK i \in 0 .. Len(p) : n = SubSeq(p, 1, i)
  BY <1>1
<1>2. /\ p \in Seq(Segments) /\ Len(p) \in Nat /\ Len(p) <= MaxDepth
  BY PatternFacts
<1>3. i \in Nat /\ i <= Len(p)
  BY <1>2
<1> HIDE DEF Segments
<1>4. n \in Seq(Segments) /\ Len(n) = i /\ \A j \in 1 .. i : n[j] = p[j]
  BY <1>1, <1>2, <1>3
<1>5. Extends(p, n)
  BY <1>3, <1>4 DEF Extends
<1> QED BY <1>2, <1>3, <1>4, <1>5, RouterAssumption

\* And every beginning is a node.
LEMMA IsNode ==
  ASSUME NEW m, routes[m] \subseteq Patterns, NEW n \in Seq(Segments),
         NEW p \in routes[m], Extends(p, n)
  PROVE  n \in Nodes(m)
<1>1. p \in Seq(Segments) /\ Len(p) \in Nat
  BY PatternFacts
<1> HIDE DEF Segments
<1>2. Len(n) \in 0 .. Len(p) /\ Len(n) \in Nat /\ n \in [1 .. Len(n) -> Segments]
  BY <1>1 DEF Extends
<1>3. /\ SubSeq(p, 1, Len(n)) \in Seq(Segments) /\ Len(SubSeq(p, 1, Len(n))) = Len(n)
      /\ \A j \in 1 .. Len(n) : SubSeq(p, 1, Len(n))[j] = p[j]
  BY <1>1, <1>2
<1>4. n = SubSeq(p, 1, Len(n))
  <2>1. \A j \in 1 .. Len(n) : n[j] = SubSeq(p, 1, Len(n))[j]
    BY <1>3 DEF Extends
  <2>2. Len(n) = Len(SubSeq(p, 1, Len(n)))
    BY <1>3, Zenon
  <2> QED BY <1>3, <2>1, <2>2, SameEntries, Zenon
<1>5. n \in {SubSeq(p, 1, i) : i \in 0 .. Len(p)}
  BY <1>2, <1>4
<1> QED BY <1>5, Zenon DEF Nodes

\* What matchRoute does at one node, given its results further down.
Turn(m, path, match, node) ==
  LET segment == path[Len(node) + 1]
      Child(s) == Append(node, s)
      Below(s) == IF Child(s) \in Nodes(m) THEN match[Child(s)] ELSE None
  IN  IF Len(node) = Len(path)
      THEN IF node \in routes[m] THEN node ELSE None
      ELSE IF Below(Static(segment)) # None THEN Below(Static(segment))
      ELSE IF segment # Empty /\ Below(Parameter) # None THEN Below(Parameter)
      ELSE IF Child(Wildcard) \in routes[m] THEN Child(Wildcard)
      ELSE None

Searches(m, path, f) == f = [node \in Nodes(m) |-> Turn(m, path, f, node)]

\* matchRoute applies a function that searches from the root.
LEMMA MatchSearches ==
  ASSUME NEW m, NEW path, routes[m] # {}
  PROVE  matchRoute(m, path) = (CHOOSE f : Searches(m, path, f))[<<>>]
BY Zenon DEF matchRoute, Searches, Turn

\* A turn looks at the children only.
LEMMA TurnIsLocal ==
  ASSUME NEW m, NEW path, NEW f, NEW g, NEW node,
         \A s : Append(node, s) \in Nodes(m) => f[Append(node, s)] = g[Append(node, s)]
  PROVE  Turn(m, path, f, node) = Turn(m, path, g, node)
<1>1. ASSUME NEW s
      PROVE  (IF Append(node, s) \in Nodes(m) THEN f[Append(node, s)] ELSE None)
               = (IF Append(node, s) \in Nodes(m) THEN g[Append(node, s)] ELSE None)
  OBVIOUS
<1> QED BY <1>1, Zenon DEF Turn

\* The recursion is sound, since it goes down and the tree is not deeper than
\* its patterns are long.
LEMMA SearchExists ==
  ASSUME NEW m, NEW path, routes[m] \subseteq Patterns
  PROVE  \E f : Searches(m, path, f)
<1> DEFINE Deep(k) == {n \in Nodes(m) : MaxDepth + 1 <= Len(n) + k}
           Part(k, f) == f = [n \in Deep(k) |-> Turn(m, path, f, n)]
           Fails == {k \in Nat : ~ \E f : Part(k, f)}
<1> MaxDepth \in Nat
  BY RouterAssumption
<1>1. \A n \in Nodes(m) : Len(n) \in Nat /\ Len(n) <= MaxDepth
  BY NodeFacts
<1>2. 0 \notin Fails
  <2>1. Deep(0) = {}
    BY <1>1
  <2> HIDE DEF Deep
  <2> DEFINE f0 == [n \in Deep(0) |-> None]
  <2>2. Part(0, f0)
    BY <2>1
  <2> QED BY <2>2
<1>3. ASSUME NEW k \in Nat, k \notin Fails PROVE k + 1 \notin Fails
  <2>1. PICK f : Part(k, f)
    BY <1>3
  <2> DEFINE g == [n \in Deep(k + 1) |-> IF n \in Deep(k) THEN f[n] ELSE Turn(m, path, f, n)]
  <2>2. ASSUME NEW n \in Deep(k + 1) PROVE g[n] = Turn(m, path, g, n)
    <3>1. ASSUME NEW s, Append(n, s) \in Nodes(m)
          PROVE  Append(n, s) \in Deep(k) /\ Append(n, s) \in Deep(k + 1)
      <4>1. Len(Append(n, s)) = Len(n) + 1 /\ Len(n) \in Nat
        <5>1. n \in Seq(Segments)
          BY NodeFacts
        <5> HIDE DEF Segments
        <5> QED BY <5>1
      <4> QED BY <3>1, <4>1
    <3> HIDE DEF Deep
    <3>2. \A s : Append(n, s) \in Nodes(m) => f[Append(n, s)] = g[Append(n, s)]
      BY <3>1
    <3> HIDE DEF g
    <3>3. Turn(m, path, f, n) = Turn(m, path, g, n)
      BY <3>2, TurnIsLocal
    <3>4. n \in Deep(k) => f[n] = Turn(m, path, f, n)
      BY <2>1
    <3> QED BY <3>3, <3>4 DEF g
  <2>3. Part(k + 1, g)
    <3> HIDE DEF Deep
    <3>1. g = [n \in Deep(k + 1) |-> g[n]]
      OBVIOUS
    <3> HIDE DEF g
    <3> QED BY <2>2, <3>1
  <2> HIDE DEF Part, g
  <2> QED BY <2>3
<1>4. Fails = {}
  <2> HIDE DEF Fails
  <2>1. Fails \subseteq Nat
    BY DEF Fails
  <2>2. ASSUME NEW t \in Fails PROVE FALSE
    <3>1. PICK x \in Fails : \A y \in Fails : x <= y
      BY <2>1, Least
    <3>2. x \in Nat \ {0}
      BY <1>2, <2>1
    <3>3. x - 1 \in Nat /\ x - 1 \notin Fails
      BY <2>1, <3>1, <3>2
    <3> QED BY <1>3, <3>2, <3>3
  <2> QED BY <2>2
<1>5. PICK f : Part(MaxDepth + 1, f)
  <2>1. MaxDepth + 1 \in Nat /\ MaxDepth + 1 \notin Fails
    <3> HIDE DEF Fails
    <3> QED BY <1>4
  <2> HIDE DEF Part
  <2> QED BY <2>1
<1>6. Deep(MaxDepth + 1) = Nodes(m)
  BY <1>1
<1> HIDE DEF Deep
<1> QED BY <1>5, <1>6 DEF Searches

\* The patterns below n that match the path.
Hits(m, path, n) == {p \in Candidates(m, path) : Extends(p, n)}

\* r is the most specific of them, or None for none.
Found(m, path, n, r) ==
  \/ r = None /\ Hits(m, path, n) = {}
  \/ r \in Hits(m, path, n) /\ \A q \in Hits(m, path, n) \ {r} : MoreSpecific(r, q)

\* The path leads to n, which is above every wildcard.
Leads(path, n) ==
  /\ Len(n) <= Len(path)
  /\ \A i \in 1 .. Len(n) : n[i] # Wildcard /\ Fits(n[i], path[i])

\* Paths are sequences.
LEMMA PathFacts ==
  ASSUME NEW path \in Paths
  PROVE  path \in Seq(Texts) /\ Len(path) \in Nat /\ DOMAIN path = 1 .. Len(path)
<1>1. PICK k \in 0 .. MaxDepth : path \in [1 .. k -> Texts]
  BY DEF Paths, BoundedSeq, SeqOf
<1> QED BY <1>1, RouterAssumption

\* A segment that fits a text is the static one, a parameter or a wildcard.
LEMMA FittingSegments ==
  ASSUME NEW text, NEW s \in Segments
  PROVE  Fits(s, text) <=> \/ s = Static(text)
                           \/ s = Parameter /\ text # Empty
                           \/ s = Wildcard
<1>1. CASE s \in {Static(t) : t \in Texts}
  <2> PICK t \in Texts : s = [kind |-> "static", text |-> t]
    BY <1>1 DEF Static
  <2>1. Fits(s, text) <=> t = text
    BY DEF Fits
  <2>2. s = Static(text) <=> t = text
    BY DEF Static
  <2>3. s # Parameter /\ s # Wildcard
    BY DEF Parameter, Wildcard
  <2> QED BY <2>1, <2>2, <2>3
<1>2. CASE s = Parameter
  BY <1>2 DEF Fits, Parameter, Wildcard, Static
<1>3. CASE s = Wildcard
  BY <1>3 DEF Fits, Parameter, Wildcard, Static
<1> QED BY <1>1, <1>2, <1>3 DEF Segments

\* The kinds in their order.
LEMMA Ranks ==
  ASSUME NEW text
  PROVE  /\ Rank(Static(text)) = 0 /\ Rank(Parameter) = 1 /\ Rank(Wildcard) = 2
         /\ Static(text) # Parameter /\ Static(text) # Wildcard /\ Parameter # Wildcard
BY DEF Rank, Static, Parameter, Wildcard

\* Two patterns below a node whose next segments differ in kind.
LEMMA EarlierKind ==
  ASSUME NEW n, Len(n) \in Nat, NEW p \in Patterns, NEW q \in Patterns,
         Extends(p, n), Extends(q, n), Len(n) < Len(p), Len(n) < Len(q),
         Rank(p[Len(n) + 1]) < Rank(q[Len(n) + 1])
  PROVE  MoreSpecific(p, q)
<1>1. /\ DOMAIN p = 1 .. Len(p) /\ DOMAIN q = 1 .. Len(q) /\ Len(p) \in Nat /\ Len(q) \in Nat
  BY PatternFacts
<1>2. Len(n) + 1 \in DOMAIN p \cap DOMAIN q
  BY <1>1
<1>3. \A j \in 1 .. (Len(n) + 1) - 1 : p[j] = q[j]
  BY DEF Extends
<1> QED BY <1>2, <1>3 DEF MoreSpecific

\* At the end of the path only the node itself may match.
LEMMA HitsAtEnd ==
  ASSUME NEW m, routes[m] \subseteq Patterns, NEW path \in Paths,
         NEW n \in Seq(Segments), Leads(path, n), Len(n) = Len(path)
  PROVE  Hits(m, path, n) = routes[m] \cap {n}
<1>1. /\ Len(path) \in Nat /\ DOMAIN path = 1 .. Len(path)
  BY PathFacts
<1>2. ASSUME NEW p \in Hits(m, path, n) PROVE p \in routes[m] /\ p = n
  <2>1. p \in routes[m] /\ Matches(p, path) /\ Extends(p, n)
    BY <1>2 DEF Hits, Candidates
  <2>2. p \in Seq(Segments) /\ Len(p) \in Nat /\ DOMAIN p = 1 .. Len(p)
    BY <2>1, PatternFacts
  <2>3. \A i \in 1 .. Len(p) : i \in 1 .. Len(path)
    BY <1>1, <2>1, <2>2 DEF Matches
  <2>4. Len(p) = Len(n)
    BY <1>1, <2>1, <2>2, <2>3 DEF Extends
  <2>5. p \in [1 .. Len(n) -> Segments] /\ n \in [1 .. Len(n) -> Segments]
    BY <2>2, <2>4
  <2>6. \A j \in 1 .. Len(n) : p[j] = n[j]
    BY <2>1 DEF Extends
  <2> QED BY <2>1, <2>5, <2>6
<1>3. ASSUME n \in routes[m] PROVE n \in Hits(m, path, n)
  <2>1. DOMAIN n = 1 .. Len(n) /\ Len(n) \in Nat
    BY <1>3, PatternFacts
  <2>2. Matches(n, path)
    BY <1>1, <2>1 DEF Matches, Leads
  <2>3. Extends(n, n)
    BY <2>1 DEF Extends
  <2> QED BY <1>3, <2>2, <2>3 DEF Hits, Candidates
<1> QED BY <1>2, <1>3

\* n has the form of a node.
NodeLike(n) == n \in Seq(Segments)

\* Before it, what matches goes on with a segment that fits the next text.
LEMMA HitsBefore ==
  ASSUME NEW m, routes[m] \subseteq Patterns, NEW path \in Paths,
         NEW n, NodeLike(n), Leads(path, n), Len(n) < Len(path),
         NEW p \in Hits(m, path, n)
  PROVE  /\ Len(n) < Len(p)
         /\ LET s == p[Len(n) + 1]
                text == path[Len(n) + 1]
            IN  \/ s = Static(text)
                \/ s = Parameter /\ text # Empty
                \/ s = Wildcard /\ p = Append(n, Wildcard)
<1>1. /\ Len(path) \in Nat /\ DOMAIN path = 1 .. Len(path)
  BY PathFacts
<1>2. p \in routes[m] /\ Matches(p, path) /\ Extends(p, n)
  BY DEF Hits, Candidates
<1>3. /\ p \in Seq(Segments) /\ Len(p) \in Nat /\ DOMAIN p = 1 .. Len(p)
      /\ \A i \in 1 .. Len(p) : p[i] = Wildcard => i = Len(p)
  BY <1>2, PatternFacts, Zenon
<1>4. Len(n) \in Nat /\ Len(p) \in Nat
  BY <1>3, EntryFacts DEF NodeLike
<1>5. Len(n) < Len(p)
  <2>a. Len(n) <= Len(p)
    BY <1>2, Zenon DEF Extends
  <2> SUFFICES ASSUME Len(p) = Len(n) PROVE FALSE
    BY <1>4, <2>a
  <2>1. p # <<>> /\ Last(p) = Wildcard
    BY <1>1, <1>2 DEF Matches
  <2>2. Last(p) = p[Len(p)] /\ Len(p) \in 1 .. Len(p)
    BY <1>3, <2>1, EntryFacts, Zenon
  <2>3. p[Len(p)] = n[Len(p)]
    BY <1>2, <2>2, Zenon DEF Extends
  <2> QED BY <2>1, <2>2, <2>3 DEF Leads
<1>6. Len(n) + 1 \in 1 .. Len(p) /\ p[Len(n) + 1] \in Segments
  <2>1. Len(n) + 1 \in 1 .. Len(p)
    BY <1>4, <1>5, NextIndex, Zenon
  <2> QED BY <1>3, <2>1, EntryFacts, Zenon
<1>7. Fits(p[Len(n) + 1], path[Len(n) + 1])
  BY <1>2, <1>3, <1>6 DEF Matches
<1>8. ASSUME p[Len(n) + 1] = Wildcard PROVE p = Append(n, Wildcard)
  <2>1. Len(p) = Len(n) + 1
    BY <1>3, <1>6, <1>8
  <2>2. Wildcard \in Segments
    BY DEF Segments
  <2> PICK c : c = Append(n, Wildcard)
    OBVIOUS
  <2>3. /\ c \in [1 .. Len(n) + 1 -> Segments]
        /\ c[Len(n) + 1] = Wildcard /\ \A j \in 1 .. Len(n) : c[j] = n[j]
    BY <2>2, ChildFacts DEF NodeLike
  <2>4. p \in [1 .. Len(n) + 1 -> Segments]
    BY <1>3, <2>1
  <2>5. \A j \in 1 .. Len(n) + 1 : p[j] = c[j]
    BY <1>2, <1>4, <1>8, <2>3 DEF Extends
  <2>6. p = c
    BY <2>3, <2>4, <2>5
  <2> QED BY <2>6, Zenon
<1> QED BY <1>5, <1>6, <1>7, <1>8, FittingSegments

\* The part of the tree below a child.
LEMMA ExtendsChild ==
  ASSUME NEW n \in Seq(Segments), NEW s \in Segments, NEW p \in Patterns
  PROVE  Extends(p, Append(n, s)) <=>
           Extends(p, n) /\ Len(n) < Len(p) /\ p[Len(n) + 1] = s
<1> PICK c : c = Append(n, s)
  OBVIOUS
<1>1. /\ Len(c) = Len(n) + 1 /\ Len(n) \in Nat /\ c[Len(n) + 1] = s
      /\ \A j \in 1 .. Len(n) : c[j] = n[j]
  BY ChildFacts
<1>2. Len(p) \in Nat
  BY PatternFacts
<1>3. ASSUME Extends(p, c) PROVE Extends(p, n) /\ Len(n) < Len(p) /\ p[Len(n) + 1] = s
  BY <1>1, <1>2, <1>3 DEF Extends
<1>4. ASSUME Extends(p, n), Len(n) < Len(p), p[Len(n) + 1] = s PROVE Extends(p, c)
  <2>1. ASSUME NEW j \in 1 .. Len(n) + 1 PROVE p[j] = c[j]
    <3>1. j \in 1 .. Len(n) \/ j = Len(n) + 1
      BY <1>1
    <3> QED BY <1>1, <1>4, <3>1 DEF Extends
  <2>2. Len(c) <= Len(p)
    BY <1>1, <1>2, <1>4
  <2> QED BY <1>1, <2>1, <2>2 DEF Extends
<1> QED BY <1>3, <1>4

\* What is found below a child is all that goes on with its segment.
LEMMA ChildFound ==
  ASSUME NEW m, routes[m] \subseteq Patterns, NEW path \in Paths, NEW f,
         NEW n \in Seq(Segments), Leads(path, n), Len(n) < Len(path),
         NEW s \in Segments, s # Wildcard, Fits(s, path[Len(n) + 1]),
         Append(n, s) \in Nodes(m) /\ Leads(path, Append(n, s)) =>
           Found(m, path, Append(n, s), f[Append(n, s)]),
         NEW r, r = IF Append(n, s) \in Nodes(m) THEN f[Append(n, s)] ELSE None
  PROVE  /\ r = None => \A p \in Hits(m, path, n) : p[Len(n) + 1] # s
         /\ r # None =>
              /\ r \in Hits(m, path, n) /\ r[Len(n) + 1] = s
              /\ \A q \in Hits(m, path, n) \ {r} : q[Len(n) + 1] = s => MoreSpecific(r, q)
<1> PICK c : c = Append(n, s)
  OBVIOUS
<1>1. /\ c \in Seq(Segments) /\ Len(c) = Len(n) + 1 /\ Len(n) \in Nat /\ c[Len(n) + 1] = s
      /\ \A j \in 1 .. Len(n) : c[j] = n[j]
  BY ChildFacts
<1>2. Leads(path, c)
  <2>1. Len(c) <= Len(path)
    BY <1>1, PathFacts
  <2>2. ASSUME NEW i \in 1 .. Len(c) PROVE c[i] # Wildcard /\ Fits(c[i], path[i])
    <3>1. i \in 1 .. Len(n) \/ i = Len(n) + 1
      BY <1>1
    <3> QED BY <1>1, <3>1 DEF Leads
  <2> QED BY <2>1, <2>2 DEF Leads
<1>3. ASSUME NEW p \in Hits(m, path, n) PROVE p \in Hits(m, path, c) <=> p[Len(n) + 1] = s
  <2>1. p \in routes[m] /\ p \in Candidates(m, path) /\ Extends(p, n)
    BY DEF Hits, Candidates
  <2>2. Len(n) < Len(p)
    BY HitsBefore DEF NodeLike
  <2>3. Extends(p, c) <=> p[Len(n) + 1] = s
    BY <2>1, <2>2, ExtendsChild
  <2> QED BY <2>1, <2>3 DEF Hits
<1>4. ASSUME NEW p \in Hits(m, path, c) PROVE p \in Hits(m, path, n) /\ p \in Patterns /\ c \in Nodes(m)
  <2>1. p \in routes[m] /\ p \in Candidates(m, path) /\ Extends(p, c)
    BY <1>4 DEF Hits, Candidates
  <2>2. Extends(p, n)
    BY <2>1, ExtendsChild
  <2>3. c \in Nodes(m)
    BY <1>1, <2>1, IsNode
  <2> QED BY <2>1, <2>2, <2>3 DEF Hits
<1>5. Found(m, path, c, r)
  <2>1. CASE c \in Nodes(m)
    BY <1>2, <2>1
  <2>2. CASE c \notin Nodes(m)
    <3>1. r = None /\ Hits(m, path, c) = {}
      BY <1>4, <2>2
    <3> QED BY <3>1 DEF Found
  <2> QED BY <2>1, <2>2
<1>6. CASE r = None
  <2>1. Hits(m, path, c) = {}
    BY <1>4, <1>5, <1>6, RouterAssumption DEF Found
  <2> QED BY <1>3, <1>6, <2>1
<1>7. CASE r # None
  <2>1. r \in Hits(m, path, c) /\ \A q \in Hits(m, path, c) \ {r} : MoreSpecific(r, q)
    BY <1>5, <1>7 DEF Found
  <2>2. r \in Hits(m, path, n) /\ r[Len(n) + 1] = s
    BY <1>3, <1>4, <2>1
  <2> QED BY <1>3, <1>7, <2>1, <2>2
<1> QED BY <1>6, <1>7

\* A wildcard below a node matches whatever is left of the path.
LEMMA WildcardHits ==
  ASSUME NEW m, routes[m] \subseteq Patterns, NEW path \in Paths,
         NEW n \in Seq(Segments), Leads(path, n), Len(n) < Len(path),
         Append(n, Wildcard) \in routes[m]
  PROVE  Append(n, Wildcard) \in Hits(m, path, n)
<1>0. Wildcard \in Segments
  BY DEF Segments
<1> PICK w : w = Append(n, Wildcard)
  OBVIOUS
<1>1. /\ w \in Seq(Segments) /\ Len(w) = Len(n) + 1 /\ Len(n) \in Nat /\ w[Len(n) + 1] = Wildcard
      /\ \A j \in 1 .. Len(n) : w[j] = n[j]
  BY <1>0, ChildFacts
<1>2. w \in routes[m] /\ w \in Patterns /\ DOMAIN w = 1 .. Len(n) + 1
  BY <1>1, PatternFacts
<1>3. Len(path) \in Nat /\ DOMAIN path = 1 .. Len(path)
  BY PathFacts
<1>4. ASSUME NEW i \in DOMAIN w PROVE i \in DOMAIN path /\ Fits(w[i], path[i])
  <2>1. i \in 1 .. Len(n) \/ i = Len(n) + 1
    BY <1>1, <1>2
  <2>2. i \in DOMAIN path
    BY <1>1, <1>3, <2>1
  <2>3. CASE i \in 1 .. Len(n)
    BY <1>1, <2>2, <2>3 DEF Leads
  <2>4. CASE i = Len(n) + 1
    BY <1>0, <1>1, <2>2, <2>4, FittingSegments
  <2> QED BY <2>1, <2>3, <2>4
<1>5. w # <<>> /\ Last(w) = Wildcard
  <2>1. w # <<>>
    BY <1>1
  <2> QED BY <1>1, <2>1, EntryFacts
<1>6. Extends(w, n)
  BY <1>1 DEF Extends
<1>7. Matches(w, path)
  BY <1>4, <1>5 DEF Matches
<1> QED BY <1>2, <1>6, <1>7 DEF Hits, Candidates

\* If the search is right below the children of a node, it is at the node.
LEMMA TurnRight ==
  ASSUME NEW m, routes[m] \subseteq Patterns, NEW path \in Paths, NEW f,
         NEW n \in Seq(Segments), Leads(path, n),
         \A s \in Segments : Append(n, s) \in Nodes(m) /\ Leads(path, Append(n, s)) =>
           Found(m, path, Append(n, s), f[Append(n, s)])
  PROVE  Found(m, path, n, Turn(m, path, f, n))
<1>1. CASE Len(n) = Len(path)
  <2>1. Turn(m, path, f, n) = IF n \in routes[m] THEN n ELSE None
    BY <1>1 DEF Turn
  <2>2. Hits(m, path, n) = routes[m] \cap {n}
    BY <1>1, HitsAtEnd
  <2> QED BY <2>1, <2>2 DEF Found
<1>2. CASE Len(n) < Len(path)
  <2> PICK text : text = path[Len(n) + 1]
    OBVIOUS
  <2> PICK hits : hits = Hits(m, path, n)
    OBVIOUS
  <2> PICK static : static = IF Append(n, Static(text)) \in Nodes(m)
                             THEN f[Append(n, Static(text))] ELSE None
    OBVIOUS
  <2> PICK parameter : parameter = IF Append(n, Parameter) \in Nodes(m)
                                   THEN f[Append(n, Parameter)] ELSE None
    OBVIOUS
  <2> PICK wild : wild = Append(n, Wildcard)
    OBVIOUS
  <2> PICK r : r = Turn(m, path, f, n)
    OBVIOUS
  <2>1. r = IF static # None THEN static
            ELSE IF text # Empty /\ parameter # None THEN parameter
            ELSE IF wild \in routes[m] THEN wild ELSE None
    <3>1. Len(n) # Len(path)
      BY <1>2, EntryFacts, PathFacts
    <3> QED BY <3>1, Zenon DEF Turn
  <2>2. /\ Static(text) \in Segments /\ Parameter \in Segments
        /\ Fits(Static(text), text) /\ (text # Empty => Fits(Parameter, text))
    <3>1. text \in Texts
      BY <1>2, EntryFacts, PathFacts
    <3>2. Static(text) \in Segments /\ Parameter \in Segments
      BY <3>1 DEF Segments
    <3> QED BY <3>2, FittingSegments
  <2>3. /\ static = None => \A p \in hits : p[Len(n) + 1] # Static(text)
        /\ static # None =>
             /\ static \in hits /\ static[Len(n) + 1] = Static(text)
             /\ \A q \in hits \ {static} : q[Len(n) + 1] = Static(text) => MoreSpecific(static, q)
    BY <1>2, <2>2, Ranks, ChildFound
  <2>4. text # Empty =>
          /\ parameter = None => \A p \in hits : p[Len(n) + 1] # Parameter
          /\ parameter # None =>
               /\ parameter \in hits /\ parameter[Len(n) + 1] = Parameter
               /\ \A q \in hits \ {parameter} : q[Len(n) + 1] = Parameter => MoreSpecific(parameter, q)
    BY <1>2, <2>2, Ranks, ChildFound
  <2>5. wild \in routes[m] => wild \in hits
    BY <1>2, WildcardHits
  <2>6. ASSUME NEW p \in hits
        PROVE  /\ p \in Patterns /\ p \in routes[m] /\ Extends(p, n) /\ Len(n) < Len(p)
               /\ \/ p[Len(n) + 1] = Static(text)
                  \/ p[Len(n) + 1] = Parameter /\ text # Empty
                  \/ p[Len(n) + 1] = Wildcard /\ p = wild
    <3>1. p \in routes[m] /\ Extends(p, n)
      BY DEF Hits, Candidates
    <3> QED BY <1>2, <3>1, HitsBefore DEF NodeLike
  <2>7. ASSUME NEW p \in hits, NEW q \in hits, Rank(p[Len(n) + 1]) < Rank(q[Len(n) + 1])
        PROVE  MoreSpecific(p, q)
    BY <2>6, <2>7, EntryFacts, EarlierKind
  <2>8. CASE static # None
    <3>1. r = static /\ r \in hits /\ r[Len(n) + 1] = Static(text)
      BY <2>1, <2>3, <2>8
    <3>2. ASSUME NEW q \in hits \ {r} PROVE MoreSpecific(r, q)
      <4>1. CASE q[Len(n) + 1] = Static(text)
        BY <2>3, <2>8, <3>1, <4>1
      <4>2. CASE q[Len(n) + 1] \in {Parameter, Wildcard}
        BY <2>7, <3>1, <4>2, Ranks
      <4> QED BY <2>6, <4>1, <4>2
    <3> QED BY <3>1, <3>2 DEF Found
  <2>9. CASE static = None /\ text # Empty /\ parameter # None
    <3>1. r = parameter /\ r \in hits /\ r[Len(n) + 1] = Parameter
      BY <2>1, <2>4, <2>9
    <3>2. ASSUME NEW q \in hits \ {r} PROVE MoreSpecific(r, q)
      <4>1. CASE q[Len(n) + 1] = Parameter
        BY <2>4, <2>9, <3>1, <4>1
      <4>2. CASE q[Len(n) + 1] = Wildcard
        BY <2>7, <3>1, <4>2, Ranks
      <4> QED BY <2>3, <2>6, <2>9, <4>1, <4>2
    <3> QED BY <3>1, <3>2 DEF Found
  <2>10. CASE static = None /\ ~ (text # Empty /\ parameter # None)
    <3>1. \A p \in hits : p = wild
      BY <2>3, <2>4, <2>6, <2>10
    <3>2. r = IF wild \in routes[m] THEN wild ELSE None
      BY <2>1, <2>10
    <3>3. wild \in hits => wild \in routes[m]
      BY <2>6
    <3> QED BY <2>5, <3>1, <3>2, <3>3 DEF Found
  <2> QED BY <2>8, <2>9, <2>10
<1> QED BY <1>1, <1>2, EntryFacts, PathFacts DEF Leads

\* So it is everywhere.
LEMMA SearchRight ==
  ASSUME NEW m, routes[m] \subseteq Patterns, NEW path \in Paths,
         NEW f, Searches(m, path, f), NEW n \in Nodes(m), Leads(path, n)
  PROVE  Found(m, path, n, f[n])
<1> DEFINE Wrong == {v \in Nodes(m) : Leads(path, v) /\ ~ Found(m, path, v, f[v])}
           Left == {Len(path) - Len(v) : v \in Wrong}
<1> SUFFICES ASSUME n \in Wrong PROVE FALSE
  OBVIOUS
<1>1. Len(path) \in Nat
  BY PathFacts
<1>2. \A v \in Wrong : v \in Seq(Segments) /\ Len(v) \in Nat /\ Len(v) <= Len(path)
  BY NodeFacts DEF Leads
<1>3. Left \in SUBSET Nat /\ Len(path) - Len(n) \in Left
  <2> HIDE DEF Wrong
  <2> QED BY <1>1, <1>2
<1>4. PICK x \in Left : \A y \in Left : x <= y
  <2> HIDE DEF Left
  <2> QED BY <1>3, Least
<1>5. PICK v \in Wrong : x = Len(path) - Len(v)
  OBVIOUS
<1>6. ASSUME NEW s \in Segments, Append(v, s) \in Nodes(m), Leads(path, Append(v, s))
      PROVE  Found(m, path, Append(v, s), f[Append(v, s)])
  <2> PICK c : c = Append(v, s)
    OBVIOUS
  <2>1. Len(c) = Len(v) + 1 /\ Len(v) \in Nat
    BY <1>2, ChildFacts
  <2>2. c \notin Wrong
    <3> SUFFICES ASSUME c \in Wrong PROVE FALSE
      OBVIOUS
    <3>1. Len(path) - Len(c) \in Left
      OBVIOUS
    <3>2. Len(path) - Len(v) <= Len(path) - Len(c)
      BY <1>4, <1>5, <3>1
    <3> QED BY <1>1, <2>1, <3>2
  <2> QED BY <1>6, <2>2
<1>7. f[v] = Turn(m, path, f, v)
  BY DEF Searches
<1>8. Found(m, path, v, f[v])
  BY <1>2, <1>6, <1>7, TurnRight
<1> QED BY <1>8

\* matchRoute finds the most specific route of a method, if there is one.
LEMMA MatchRight ==
  ASSUME NEW m, routes[m] \subseteq Patterns, NEW path \in Paths
  PROVE  \/ matchRoute(m, path) = None /\ Candidates(m, path) = {}
         \/ /\ matchRoute(m, path) \in Patterns /\ matchRoute(m, path) # None
            /\ IsBest(matchRoute(m, path), m, path)
<1>1. CASE routes[m] = {}
  <2>1. matchRoute(m, path) = None
    BY <1>1, Zenon DEF matchRoute
  <2> QED BY <1>1, <2>1 DEF Candidates
<1>2. CASE routes[m] # {}
  <2> PICK f : f = CHOOSE g : Searches(m, path, g)
    OBVIOUS
  <2>1. Searches(m, path, f)
    BY SearchExists
  <2>2. matchRoute(m, path) = f[<<>>]
    BY <1>2, MatchSearches
  <2>3. <<>> \in Seq(Segments) /\ Len(<<>>) = 0
    OBVIOUS
  <2>4. \A p \in Patterns : Extends(p, <<>>)
    BY <2>3, PatternFacts DEF Extends
  <2>5. <<>> \in Nodes(m)
    BY <1>2, <2>3, <2>4, IsNode
  <2>6. Leads(path, <<>>)
    BY <2>3, PathFacts DEF Leads
  <2>7. Found(m, path, <<>>, f[<<>>])
    BY <2>1, <2>5, <2>6, SearchRight
  <2>8. Hits(m, path, <<>>) = Candidates(m, path) /\ Candidates(m, path) \subseteq Patterns
    BY <2>4 DEF Hits, Candidates
  <2> PICK r : r = matchRoute(m, path)
    OBVIOUS
  <2>9. \/ r = None /\ Candidates(m, path) = {}
        \/ /\ r \in Patterns /\ r # None /\ r \in Candidates(m, path)
           /\ \A q \in Candidates(m, path) \ {r} : MoreSpecific(r, q)
    BY <2>2, <2>7, <2>8, RouterAssumption DEF Found
  <2> QED BY <2>9 DEF IsBest
<1> QED BY <1>1, <1>2

\* Lookup takes the method's own route before that for any method, and else
\* collects the methods that have one.
LEMMA LookupRight ==
  ASSUME routes \in [Methods -> SUBSET Patterns], frozen,
         NEW m \in RequestMethods, NEW path \in Paths
  PROVE  RightResolution(m, path, Lookup(m, path))
<1>1. m \in Methods /\ AnyMethod \in Methods
  BY DEF Methods
<1>2. ASSUME NEW n \in Methods
      PROVE  \/ matchRoute(n, path) = None /\ Candidates(n, path) = {}
             \/ /\ matchRoute(n, path) \in Patterns /\ matchRoute(n, path) # None
                /\ IsBest(matchRoute(n, path), n, path) /\ Candidates(n, path) # {}
  <2>1. routes[n] \subseteq Patterns
    OBVIOUS
  <2> QED BY <2>1, MatchRight DEF IsBest
<1>3. ASSUME NEW n \in Methods, matchRoute(n, path) # None
      PROVE  <<n, matchRoute(n, path)>> # None
  BY <1>2, <1>3, RouterAssumption
<1> PICK l : l = Lookup(m, path)
  OBVIOUS
<1>4. CASE matchRoute(m, path) # None
  <2>1. l.handler = <<m, matchRoute(m, path)>>
    BY <1>4 DEF Lookup
  <2> QED BY <1>1, <1>2, <1>3, <1>4, <2>1 DEF RightResolution
<1>5. CASE matchRoute(m, path) = None /\ matchRoute(AnyMethod, path) # None
  <2>1. l.handler = <<AnyMethod, matchRoute(AnyMethod, path)>>
    BY <1>5 DEF Lookup
  <2> QED BY <1>1, <1>2, <1>3, <1>5, <2>1 DEF RightResolution
<1>6. CASE matchRoute(m, path) = None /\ matchRoute(AnyMethod, path) = None
  <2>1. /\ l.handler = None
        /\ l.allowed = {n \in Methods \ {m, AnyMethod} : matchRoute(n, path) # None}
    BY <1>6 DEF Lookup
  <2>2. l.allowed = {n \in Methods \ {m, AnyMethod} : Candidates(n, path) # {}}
    BY <1>2, <2>1
  <2> QED BY <1>1, <1>2, <1>6, <2>1, <2>2 DEF RightResolution
<1> QED BY <1>4, <1>5, <1>6

\* For every table of routes, Lookup finds the most specific route of the
\* method, then of any method, and tells 405 from 404.
THEOREM RoutingByPriority == Spec => []RoutesByPriority
<1>1. WireIInv => RoutesByPriority
  BY LookupRight DEF WireIInv, TypeOK, RoutesByPriority
<1> QED BY <1>1, WireKeeps, PTL

=============================================================================
