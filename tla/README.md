# Anvil: models, checks and proofs

This directory holds a TLA+ development of Anvil, the zero-dependency reverse
proxy and resilience lab of this repository.  The modules are written from the
Go code in `src/src/`; `PROJECT.json` lists, for every definition, the lines it
stands for.  TLC checks the properties on small instances, TLAPS proves all the
safety properties of the passing runs for every instance.

1. [The system](#1-the-system)
2. [The modules and the code](#2-the-modules-and-the-code)
3. [The runs](#3-the-runs)
4. [Fairness](#4-fairness)
5. [The proofs](#5-the-proofs)
6. [Where code and documents disagree](#6-where-code-and-documents-disagree)
7. [What is not modelled](#7-what-is-not-modelled)
8. [Plan](#8-plan)

## 1. The system

A client's connection is accepted by a `tcpServer`, which runs one goroutine per
connection.  That goroutine reads requests, routes them, and calls a handler; the
proxy's handler selects a backend, sends the request over a pooled connection,
perhaps retries at another backend, and answers.  Health workers probe the
backends meanwhile.  Everything of interest is published as an event in a ledger
and streamed to dashboards.  An experiment runs the whole in one process, with
fixtures as backends, a fault schedule and a load generator, and derives a receipt
from the ledger.

| Component | State | Operations | Talks to |
|---|---|---|---|
| TCP server (`tcp_server.go`) | lifecycle, admission channel, active connections, counters | `Serve`, `admit`, `runConnection`, `drain`, `forceCloseActive` | runs the connection handler; ends with its context |
| HTTP connection loop (`http_server.go`) | request number, current request and response | read, dispatch, encode, send | router, parser, writer |
| Router (`router.go`) | a segment trie per method, frozen flag | `Register`, `Freeze`, `Lookup` | read by every connection after `Freeze` |
| Proxy transaction (`proxy.go`) | locals of one request: attempts, deadline, buffered response | `executeProxyRequest`, `executeProxyAttempt` | backends, pool, ledger, metrics |
| Backend (`resilience.go`) | circuit, windows, permits, health, admission channel, in-flight counter | `tryReserve`, `Complete`, `recordPassive`, `recordActive`, `beginCircuitProbe`, `completeCircuitProbe` | transactions and health workers call it, it publishes transitions |
| Health checker (`health.go`) | a worker per backend | `Start`, `Stop`, `runProbe` | backend, fixtures |
| Upstream pool (`upstream_pool.go`, `context_close.go`) | idle stack, closed flag | acquire, recycle, close | attempts, their cancellation callbacks |
| Ledger and event streams (`observability.go`, `admin.go`) | ring of events, delivery turn, subscribers | `append`, `snapshotSince`, `publish`, `subscribe`, `unsubscribe`, `close`, `serveSSE` | everybody publishes; sessions read |
| Metrics (`metrics.go`) | gauges, counters, a histogram | `beginRequest`, `recordAttempt`, `recordRetry`, `recordFailure`, `completeRequest` | transactions |
| Benchmark (`benchmark.go`) | job channel, workers' connections, counters | `runBenchmark`, `runBenchmarkWorker` | the proxy's address |
| Experiment lab, fixtures (`experiment.go`, `fixture.go`) | contexts, profiles, active counters | `run`, `runSchedule`, `waitServices` | all of the above |
| Scenario, receipt (`scenario.go`, `receipt.go`) | none, pure functions | validate, schedule, derive | lab |
| Parser, writer (`http_parser.go`, `http_writer.go`) | limits | read and write messages | connection loop, proxy, benchmark |
| Command line, dashboard, echo | configuration | flags, pages | everything |

What is hard in this code, and what makes each part correct:

* **Backend.**  Admission uses a channel, an atomic counter and a mutex that are
  taken one after the other, and transitions are published after the mutex is
  released.  Correct: no token or half-open permit is lost or invented, evidence
  counts once, the circuit behaves as documented, and observers hear of every
  transition.
* **Transaction.**  A retry follows an attempt that may have had effects; loads
  change while candidates are sorted by them.  Correct: bounded attempts at distinct
  backends, none repeated for a request with effects, nobody refused before every
  backend was considered, places given back on every path.
* **Pool.**  A connection is with an attempt, in the pool, or being closed by a
  callback of a context or by the shutdown.  Correct: one owner, no leak.
* **Event streams.**  Publishers race; a session subscribes while events are
  published; clients are slow.  Correct: order, no silent loss, no blocking.
* **TCP server.**  Shutdown starts from two sides, races with accepts, and may have
  to force handlers.  Correct: exact admission, counters that add up, a drain that
  leaves nothing, a `Serve` that returns.
* **Connection loop and router.**  Six reasons to close, decided in three functions;
  a search that has to come back from dead ends.  Correct: one answer each, closes
  that are announced, the precedence of the documents.
* **Parser, writer and the headers between.**  A message crosses two connections
  with framings of their own: where it ends is decided by the reader, by the writer,
  and by whoever keeps the upstream connection.  Correct: nothing of a body becomes a
  message, each client hears the answer to its own request or that there was none, and
  a kept connection is between two messages.
* **Benchmark.**  A producer at a bounded channel whose readers leave.  Correct: it
  returns, and its result adds up.
* **Experiment.**  The receipt is derived from a ledger that many goroutines write.
  Correct: nothing is written after it was read, causes precede effects, it ends.
* **Scenario and receipt.**  Jitter reorders steps, clocks disagree with sequence
  numbers.  Correct: an accepted schedule recovers faults only, and a receipt passes
  on the evidence of its ledger and on nothing else.

`PROJECT.json` lists these hazards at their lines, with the properties aimed at them.

## 2. The modules and the code

One module per component; an action is one critical section, one atomic or channel
operation, or one call whose inside nobody else can see.  Comments name the function
an action belongs to.  Definitions marked `Mutant:` are deliberate errors that are
not part of any specification; each is used to see that a property can fail.

**`Circuit`** is the abstract circuit breaker of one backend: closed, open for its
cooldown, half-open, and closed again only by the last of the required successes.

**`Backend`** is one `proxyBackend` with any number of requests and its health
worker.  `breaker` and `health` are the fields `stateMu` protects; `admission` and
`inFlight` are the channel and the atomic counter.  `tryReserve` is `AdvanceCooldown`,
`PublishCooldown`, `Claim` or `Ineligible`, `Admit`, `CountIn`, and on a full channel
`RejectAdmission` and `Unclaim`; `Complete` is `RecordOutcome`, `CountOut`,
`ReleaseToken`, `PublishOutcome`; `runProbe` is `BeginProbe` to `CompleteProbe`.  The
time a goroutine has read (`at`) is its own, because the code reads the clock before
it locks.  `recordPassive`, `advanceCooldown` and the other functions under the lock
are operators with the names of the Go functions.  The two probe counters saturate at
their thresholds, beyond which nothing distinguishes their values.  `ImplementsCircuit`
is the refinement of `Circuit`.  `streak` is a history variable that no action reads: when
the failures were read that a closed circuit has recorded since its last success, whatever
window or circuit period their requests began in.

**`Transaction`** is `executeProxyRequest` over several backends, each abstracted to
what `Backend` promises: it may refuse for its health or its circuit, at any time
(`ChangeEligibility`), or because it is full.  The insertion sort of
`candidateOrder` is modelled comparison by comparison (`Pick`, `Shift`, `Place`),
since the loads change during it.  `trail` holds the events of each request, and
`metrics` the counters that `beginRequest`, the attempts and `completeRequest` raise at
different places.  A response says whether its first `Proxy-Status` field tells of an
error, which decides whether it counts as a gateway error: a generated response does, and
so may one that a backend sent with a status in `Reporting`.  `charged` holds the backends to whose circuits a request has reported
a failure; `Backend` takes such reports in any order.  An attempt that the total deadline
ends while it dials or writes counts against its backend, one that it ends while it reads
does not (`proxy.go:258`): no document says what is meant, and `TrailTells` states that
the ledger tells of every failure that counted.

**`Message`** is the codec: `readHTTPRequest` and `readHTTPResponse` with everything
they call down to lines, and `writeHTTPRequest` and `writeHTTPResponse`, as operators
named after the functions.  Bytes are cut into symbols at line ends, and a body is made
of the same symbols as a head, so that only the framing tells them apart.  A source is
what has arrived and how it goes on (open, ended, broken, timed out); a result carries
a verdict, and `Then` stands for Go's early return on an error.  An incomplete message is
told apart by the error inside it: `io.EOF` if the stream ended in a line, or before the
first byte of a body, of a chunk or of the end of a chunk, which the connection loop takes
for a client that has left.  The grammar within a
line is an input: a line is a start line, a field, a chunk size, empty, or junk.

**`Relay`** is a client, `serveHTTPConnection`, one `executeProxyAttempt` for each
request and an upstream, joined by four byte streams and using `Message` at every end.
Header rewriting (`buildUpstreamRequest`, `sanitizeUpstreamResponse`,
`hopByHopFieldSet`, ...) keeps the names of the code.  The peers frame a message in any
legal way, and also break off anywhere, close, reset or send something malformed; their
messages keep the fields for the other end apart from those of the connection, so the
properties need no rewriting rules of their own.  An attempt fails in its dial, in its
write or in its read, by an error, by the deadline of that operation, or because its
context has ended: the context has the total deadline and closes the connection, so that a
read may fail whatever has arrived, and is then answered 503.  The connection loop appears a second
time here, with bytes, where `HTTPConnection` has its control; the pool is one
connection here, where `UpstreamPool` has its sharing.

**`UpstreamPool`** is the pool of one backend, attempts that follow
`executeProxyAttempt`, and for each attempt the callback of `closeOnContextDone`,
which is armed, firing, or done.  A connection that was recycled is in the pool while the
callback of the attempt that recycled it can still close it (section 6).

**`EventStream`** is the ledger's ring, the turns of `publish`, the hub, and the
sessions of `serveSSE` with any cursor.  An event is its sequence number; a snapshot
holds what the ledger kept and the positions of what is left to replay, which is written
one event a step.

**`TCPServer`** is `Serve` with its watcher, the accept loop, workers with their
deferred calls one by one, and the drain.  Handlers return when they like, or never.

**`Router`** is the trie and `Lookup`, and beside them a definition of what a route
means that knows no trie (`Matches`, `MoreSpecific`).  Names of parameters are left
out.  **`HTTPConnection`** extends it with the loop of one connection; what the client
sends, and whether the parser accepts it, is an input.

**`Benchmark`** is the producer, the job channel, the workers and their connections
with the same cancellation callbacks, and the counters, each update a step.

**`Receipt`** is `schedule` and the replay of `validate` (`scenario.go`), and
`deriveReceipt` with its measurements and assertions (`receipt.go`), as functions; beside
them `Runs` and `Evidence` say what a schedule and a passed receipt mean without those
functions.  What the seeded generator returns is a part of the scenario (`draw`), and
elapsed times need not follow the order of the events, because `publish` reads the clock
before the ledger gives out the number.

**`Experiment`** is `run` from launch to the recording of ledger and fixtures, with
the schedule, the health workers, requests, fixtures and services as other
goroutines.  A service's `Serve` is what `TCPServer` shows: it ends without error when
its handlers have returned, or with one.  Its schedule is that of `Receipt`.

**`TransactionProofs`**, **`EventStreamProofs`**, **`ExperimentProofs`**,
**`BenchmarkProofs`** and **`RelayProofs`** hold the theorems about the module in their
name, **`BackendProofs`** those about `Backend` and `UpstreamPool`, **`ServerProofs`**
those about `TCPServer` and `HTTPConnection` with its `Router`, and **`MessageProofs`**,
which `RelayProofs` extends, those about the codec (section 5).  Because two modules
share one of these, the specifications of the pool and of the server carry a prefix
(`PoolInit`, `PoolNext`, `PoolSpec`, `ServerInit`, ...).  The `MC` modules only give TLC
symmetry sets, messages, scenarios and ledgers.

`Relay` composes `Message` with the connection loop and the attempt.
`Experiment` composes what `TCPServer`, `Backend` and `Transaction` promise;
`Transaction` composes several `Backend`s by their promise; `HTTPConnection` includes
`Router`.  These promises are properties checked on the composed module's own run
(`DrainOutcome`, `AdmissionExact`, `PlacesInv`), not assumptions taken from documents.

## 3. The runs

States are distinct states.

| Run | Instance | States | Shows |
|---|---|---|---|
| `backend` | 2 requests, 1 place, default limit of 1 half-open probe, threshold of 2 failures, window of 2 ticks, cooldown of 1, clock to 2 | 297 k | admission, permits and published transitions are exact; a closed circuit opens on the failures of one window and on any burst; refines `Circuit`; open circuits are probed, permits return |
| `pool` | 2 attempts, 3 sockets, 1 idle place | 64 k | one owner, no leak, no callback that outlives its attempt, bound kept, all closed after shutdown |
| `pool_join` | as `pool` | | violates `ClosesOwn` (section 6) |
| `stream` | 2 publishers, 1 session, ring of 2, queue of 1, 4 events, cursors 0, 1, 3 | 249 k | contiguous ring, order, no silent loss, no double close, publishers never wait, streams end |
| `stream_empty` | as `stream` | | violates `NothingSkipped` (section 6) |
| `tcp` | 3 connections, 2 places | 261 k | tokens and counters exact, clean or fully forced drain, `Serve` ends |
| `transaction` | 2 requests, 2 backends of 1 place, 2 attempts, least-in-flight, GET and POST, slow answers, a failure that counts against a backend and one that does not, an error that a backend reports with its 200 | 2.5 M | bounded distinct attempts, places given back, full scans, a coherent trail within the ledger's budget, counters that agree at rest |
| `relay` | 2 client requests in flight, targets 1 and 2; 4 requests, 4 answers, 13 malformed requests, 9 malformed answers, each request and answer in every framing and broken off at every symbol; bodies up to 2, chunk sizes in base 2 up to 3, 1 interim response; attempts that fail or run out of time at any step | 145 k | the upstream reads what a client sent, a client reads the answer to its own request or why there is none, a kept connection is between messages |
| `experiment` | 1 fixture that fails and recovers, 1 request, 2 probes | 418 k | the receipt is final and complete, fixtures at rest, cause before effect, the run returns |
| | in its first state: all scenarios of up to 2 steps on 2 fixtures and of 3 on one, and all ledgers of up to 4 events | | accepted schedules recover faults only; a receipt passes exactly on the evidence |
| `benchmark` | 2 workers, 5 requests | 543 k | the result adds up, sockets and callbacks are accounted for, no dead connection is used, it returns |
| `http` | all tables of 3 routes with up to 2 segments over a method and any-method, 2 requests | 722 k | routing by precedence, one answer each, announced closes, the connection ends |
| `transaction_buffered` | 1 request, 2 backends, round-robin | | violates `BufferedResponseKept` (section 6) |

Why the bounds are enough.  *Backend:* two requests and the worker give every pair of
goroutines in one critical section each, with a third in between; the clock reaches a
second cooldown or window, so times that were read early are stale when used; one place
makes the full channel happen.  With two failures to open, a window may end between them:
a burst may then be twice the threshold less two.  *Pool:* three sockets allow two dials while one is
idle, one idle place makes the pool full.  *Stream:* four events wrap a ring of two
twice, a queue of one overflows, and the cursors are none, expired, current and future
at some moment, the last also at an empty ledger.  *TCP:* the third connection is rejected while two run, or admitted
after one.  *Transaction:* each request can find one backend full because of the other,
and fail over; one status with which a backend may report an error gives answers that
are counted although nothing failed.  *Relay:* the bodies look like the end of a head followed by a message, so any error in
framing turns them into one; sizes of three digits do not fit the integer, of two do
not fit the body; eight fields are what the largest message has after the proxy added
its own.  Only whole requests are sent ahead of an answer, and the upstream answers when
the client has taken the last answer: the streams are independent, and a client that
reads late only keeps more in its stream.  *Receipt:* four events are a fault, a
recovery, and an effect for each, in any order of the clock; three steps on one fixture
are a fault, its recovery, and one that jitter moves in between.
*Experiment:* the schedule sets a fault and takes it back; two probes
allow one before and one during the teardown.  *Benchmark:* with five requests the
channel (two) and both workers can hold jobs when the time ends, with one more not
offered.  *HTTP:* three routes give a dead end below a static child and below a
parameter with a wildcard to fall back to.  Bounds that cap what the code leaves open
are constants with comments (`MaxClock`, `MaxEvents`, `MaxAccepts`, `MaxProbes`,
`MaxDepth`, `MaxRoutes`).

In each module `TypeOK` (`PoolTypeOK`, `ServerTypeOK`) is the type invariant; except in `backend` it is checked as a
part of the invariant whose other parts the same steps maintain (`PoolInv`, `HubInv`,
`ServerInv`, `PlacesInv`, `LabInv`, `WorkersInv`, `WireInv`, `RelayInv`).

Deadlock is checked in `backend`, `pool` and `relay`, where there is always more to do.  The other
systems stop: a server, session, run, benchmark or connection returns.

## 4. Fairness

Liveness is only claimed under weak fairness of steps that the code performs without
waiting for others:

* `Backend`: the clock, the health worker (its ticker fires, a probe has a timeout),
  and requests that have started (their network operations have deadlines).  Clients
  need not send anything.
* `UpstreamPool`: attempts that have started, callbacks that were triggered, and the
  shutdown once it was called.
* `EventStream`: a publisher that has appended, writes of a session (deadline), and
  `hub.close` once called.  Not that a session ever reads its queue.
* `TCPServer`: the watcher, the loop and its timers.  Not that handlers return or that
  clients connect.
* `Experiment`: all goroutines of the lab, and handlers.  Not an interrupt, not
  requests.
* `Benchmark`: producer, workers, callbacks.  Not that the duration ends.
* `Relay` claims safety only.
* `HTTPConnection`: the loop, since reads and writes have deadlines and handlers
  return.

`OpenIsProbed` is stated for circuits whose cooldown can end before the clock of the
instance stops.

## 5. The proofs

Each theorem states a property that a run checks, for every value of the constants, or,
in `MessageProofs` and the first part of `RelayProofs`, what the codec does with every
message.  The inductive invariants below were first checked by TLC on the instances of
their runs, except that of `Relay`: it speaks of every way in which a text may be
continued, which TLC cannot enumerate, and TLC checks what follows from it (`RelayInv`,
`UpstreamHears`, `ClientHears`).

| Module | Theorem | Statement |
|---|---|---|
| `BackendProofs` | `Typing` | `Spec => []TypeOK` |
| | `Admission` | `Spec => []AdmissionExact` |
| | `PermitsNeverLeak` | `Spec => []NoPermitLeak` |
| | `SingleProbeIsCurrent` | `Spec => []ProbeIsCurrent` |
| | `SingleProbeBound` | with `HalfOpenMaxRequests = 1`, `Spec => []BoundedProbes` |
| | `BackendImplementsCircuit` | `Spec => ImplementsCircuit` |
| | `EvidenceOpens` | `Spec => EvidenceDecides` (an invariant and an action property) |
| | `TransitionsTold` | `Spec => []TransitionsAccounted` |
| | `PoolCorrect` | `PoolSpec => []PoolInv` |
| `ServerProofs` | `ServerCorrect` | `ServerSpec => []ServerInv` |
| | `DrainIsQuiet` | `ServerSpec => []QuietDrain` |
| | `DrainIsComplete` | `ServerSpec => []DrainOutcome` |
| | `WireCorrect` | `Spec => []WireInv` |
| | `CloseAnnounced` | `Spec => []CloseIsAnnounced` |
| | `RoutingByPriority` | `Spec => []RoutesByPriority` |
| `TransactionProofs` | `PlacesKept` | `Spec => []PlacesInv` |
| | `AttemptsAreBounded` | `Spec => []AttemptsBounded` |
| | `TrailIsTold` | `Spec => []TrailTells` |
| | `CountersReconcile` | `Spec => []MetricsReconcile` |
| `EventStreamProofs` | `HubCorrect` | `Spec => []HubInv` |
| | `StreamsInOrder` | `Spec => []StreamInOrder` |
| | `NothingLostSilently` | `Spec => []NoSilentLoss` |
| `ExperimentProofs` | `LabCorrect` | `Spec => []LabInv` |
| | `ReceiptsAreFinal` | `Spec => []ReceiptIsFinal` |
| | `SchedulesResolve` | `Spec => []ScheduleResolves` |
| | `ReceiptsAreExact` | `Spec => []ReceiptExact` |
| `BenchmarkProofs` | `WorkersKeep` | `Spec => []WorkersInv` |
| | `ResultsAddUp` | `Spec => []ResultAddsUp` |
| | `ConnectionsLive` | `Spec => LiveConnections` (an action property) |
| `MessageProofs` | `NumeralValue` | the chunk size that is written is the one that is read |
| | `SizesExact` | a chunk size is the number its digits stand for, or refused: it never wraps around |
| | `SplitReads` | a chunked body is read as the body, however it is split |
| | `CutRequest` | no proper part of a request is read as one |
| | `CutResponse` | nor of a response, unless its body ends with the connection |
| | `RefusesRequest` | a malformed request is refused, whatever follows it |
| | `RefusesResponse` | so is a malformed response, to any request but HEAD |
| `RelayProofs` | `RequestTextReads` | every text of a client's request is read as that request |
| | `ResponseTextReads` | every text of an upstream's answer is read as that answer |
| | `Relays` | what the proxy passes on is read as the client's request |
| | `AnswerConveys` | what it answers is read as the upstream's answer |
| | `IdleConnectionsAligned` | `Spec => []RelayInv` |
| | `RequestsPreserved` | `Spec => []UpstreamHears` |
| | `AnswersPreserved` | `Spec => []ClientHears` |

**What is assumed.**  Only the named assumptions on constants, which TLC evaluates in
each run: limits are numbers, positive where the code's validation says so
(`ConfigAssumption`, `PoolAssumption`, `ServerAssumption`, `StreamAssumption`,
`BenchmarkAssumption`, `TransactionAssumption`, `ConnectionAssumption`,
`RouterAssumption`); sets that are counted are finite (requests, workers, connections of
one behaviour); placeholders such as `None` are not members of the sets they stand
beside.  `ExperimentAssumption` says besides that no fixture has the name of the proxy,
that the scenario was accepted by `validate`, and of what kind the data are: a step is at
a fixture, a draw lies within its jitter, elapsed times and thresholds are not negative.

`LimitsAssumption` has the limits of the parser as its configuration has them: a body
within the limit has a size that fits the integer.  `RelayAssumption` says what a peer's
message is (`WellFormed`): it keeps to the limits, with room for the fields that the proxy
adds, its fields pass the checks of the parser, and those that belong to the connection
are told from the others by the code's own rule.  Peers also send what is not of this
form.  `FaultAssumption` says in which of the ways listed in `MalformedRequest` and
`MalformedResponse` it is malformed: by its fields (which the reader's tests of trailers
and upgrades describe too), by the number that the digits of a size stand for, by what
stands where a chunk should be.  That the reader refuses such a message is not assumed
but proved (`RefusesRequest`, `RefusesResponse`).  `StringAssumption` lists names of
fields as strings, which TLC knows and the provers do not.

**`BackendProofs`.**  *Typing* rests on a lemma per function under the lock.
*Admission* is inductive with `TypeOK`: tokens and in-flight count are compared with the
number of goroutines in certain steps, and the counting lemma `MoveCount` says how that
number changes when one goroutine moves.

`NoPermitLeak` is not inductive.  A permit is claimed under the lock and given back by
an unguarded decrement after the channel refused, so one has to know that whoever is
about to decrement still owns a permit, and that nobody owns one elsewhere:
`PermitSteps` ties ownership to steps of the goroutine, and is inductive by itself.
With it `PermitInv`, the conjunction of `NoPermitLeak` and `ProbeIsCurrent`, is
inductive: a transition resets the counter to zero, which leaves it below the number of
owners; a claim adds one to both (`PermitCount`), and a return takes one owner away and
at most one from the counter.  With a limit of one the two are equal, which is why no
verdict of an earlier half-open period can count.

The refinement needs `TimesPast`: a goroutine reads the clock before it locks, and the
abstract circuit may become half-open only when its own clock is past the cooldown, so
the time that was read must not lie ahead.  Each function under the lock is then shown
to be a step of `Circuit` or none.

*EvidenceDecides* relates `streak` to the window, which is what the code keeps of it.  The
inductive invariant says that the window's count is the number of the latest failures of
the streak that were read before its end; that these are below the threshold; and that of
the failures before them, those which one interval could still join to them are below it
too.  A burst that leaves the circuit closed therefore is at most two parts, each below
the threshold.  Reports that were in flight when an earlier period ended are in the streak
like all others, with the time at which they were read.

*TransitionsAccounted* needs to know that a goroutine which makes a transition holds no
other one that it would overwrite (`TransitionSteps`), and that the observer knows the
opposite of the health that is being reported (`HealthKnown`).

*The pool.*  `PoolInv` counts as owners the attempts, the pool and its shutdown; that a
callback exists from its registration to its join and no longer (`CallbackJoined`) is a
part of its own, inductive with the types.  The rest lacks two facts (`Placed`): a socket that an
attempt or the pool holds was dialed before, so that no other dial returns it; and
sockets are only retired by the one close of the pool.

**`ServerProofs`.**  `Lifecycle` relates the state word to the loop and to whichever
side won the compare-and-swap that begins the shutdown; `Placement` says in whose hands
an open connection is; `Counting` ties the active counter to the workers that have not
counted themselves out, without which the peak is unbounded; `Forced` follows the drain
step by step.

*The connection.*  While the loop runs, the wire has one whole answer without
a close for each earlier request (`Running`), and the response to the last request that
the limit allows announces the close (`LastCloses`): without the latter, a connection
could end by the limit unannounced.

`RoutingByPriority` is about data: every table of routes and every path.  The search is a
recursive function on the nodes of a tree of any depth, so the proof needs induction,
which the lemma `Least` provides: a set of numbers that is not empty has a least member
(from `WellFoundedInduction`), hence there is no least depth at which the function fails
to exist (`SearchExists`), and no deepest node at which it finds something wrong
(`SearchRight`).  At a node, what matches below is divided by the kind of the next
segment (`HitsBefore`, `ChildFound`), and patterns of an earlier kind are more specific
(`EarlierKind`).

**`TransactionProofs`.**  `RequestSound` is about one request: `ScanSound` says that no
backend gets lost while the insertion sort holds one of them in its hand, whatever the
loads it compares (`FullScan` follows); `AttemptSound` and `TrailSound` tie the events to
the step the request is at.  `Tallies` compares every counter with the number of requests
between two of its updates.  `PeakSound` is the argument for the compare-and-swap loop of
the peak: for every value the peak may get to, the load is at most that value and the
requests that will raise it further.

**`EventStreamProofs`.**  `Ring` is the arithmetic of the ring.  `Turns` says that each
event that is not yet delivered belongs to one publisher and that only the next one is
being sent, so that each queue is filled in order (`Queues`).  `NoSilentLoss` needs
`Covers`: up to the latest event of its snapshot an event is in what is left of the
replay or settled (written, excused, withheld or counted as lost), beyond it in the
queue or settled.  The crossing point is an event that is being delivered while the session
subscribes: `Passed` tells whether it was offered to this queue.

**`ExperimentProofs`.**  `Stages` says what the runner has joined at each of its steps,
`AtRest` what a server that ended without error has left behind, and `Causes` that a
profile is announced before it can be loaded; the receipt is final because whoever could
still append was joined before the ledger is read.

`SchedulesResolve` and `ReceiptsAreExact` are about data, every scenario and every ledger.
*The sort* gives a step the place that the steps before it leave.  No two steps have the
same place (`PlaceFollowsOrder`), and an injection of a finite set into itself reaches all
of it, so no step is lost and all are in order (`SortedOrders`).  *The replay* of
`validate` is a recursive function; `ModesAreLatest` shows that it is the function "mode
of the latest step of this fixture", which satisfies the recursive equation, and that no
other does, by the least step at which they would differ (`Least`).  Jitter keeps a step
in time because `StepsInTime` bounds it on both sides (`ResolvedInTime`).  *The failure
streak* is another recursive function: it counts the completions since the last success
(`RunsAreTails`), hence its greatest value is within a limit exactly if every window with
more completions than that has a success (`RunsAndWindows`).  *A measurement* reads the
first event that fits, which is the earliest by the clock if the clock follows the order
of the events (`ReadingFacts`); without that condition passing still implies the evidence,
but not the other way round.

**`BenchmarkProofs`.**  `Callbacks` says that a connection dies only once the time is
over, after which no request begins; `Endings` why a worker leaves; `CounterRelations`
compares the counters with the workers that are between two of them, and bounds the jobs
that were dropped by the workers that left.

**`MessageProofs`.**  Everything here is about data of any size, and the reader's and
writer's loops are recursive functions in `Message`; the lemmas `Least` and `Induct` (the
least-number principle) stand for induction, over the length of a header, the digits of a
size, and the chunks of a body.  `SplitReads` adds one chunk at a time to the end of a
body; it says of the chunk loop in which state each chunk leaves it, so that the next one
begins there (`LoopStays`, `NextTurn`).  `ReadsRequest(text, g)` says that
`readHTTPRequest` reads `g` from `text` whatever follows and however the source goes on,
which is what a connection that carries several messages needs; `ReadsResponse` is the
same for responses, and `ReadToEnd` for one whose end is that of the connection.  For each
framing, what the peers and the writers of the proxy write is shown to be read this way.
`CutRequest` and `CutResponse` compare a text with a part of it that is read as a message:
both have the same header block (`CutBlock`), hence the same framing, and a body that is
whole in the part ends in the text where it ends there (`CutBody`), so that the text is
longer than its message.

`SizesExact` compares the digits as the reader takes them, which refuses one when the
size so far exceeds `(MaxUint - d) \div Base`, with the number they stand for
(`SizeValue`): the test is true exactly when the number would not fit (`Overflows`), and a
number that did not fit never fits again.  `RefusesRequest` and `RefusesResponse` assume
that a malformed message was read: its header block then ends at the line that should be
empty (`HeadReads`), its framing was accepted (`MisframedFails`), and by `SplitReads` the
chunk loop stands behind the chunks that are right, where neither another chunk nor the
last one is (`NoChunk`).

**`RelayProofs`.**  *Messages.*  `RequestTextReads` and `ResponseTextReads` cover every
legal framing a peer may choose.  `Relays` and `AnswerConveys` follow a message through the
rewriting of its header: hop-by-hop fields are gone, those for the other end are left in
their order, the proxy's own are there once, and there is one framing, of the body that
was read.

*The invariant.*  `RelayInv`, `UpstreamHears` and `ClientHears` speak of what can be read
at this moment, and say nothing of a text of which only a part has arrived, or of what is
in the locals of the proxy.  `IInv` consists of the types (`Forms`), what the client waits
for (`Kept`), and a number k of requests that have been answered, such that the four
streams and the locals agree on k (`Aligned`): the client can read the answers to the
first k requests (`Answered`, with `Spoken` for the text); the proxy holds the request
after these, or a response to it, and has not read those after it (`Held`, with `Unread`);
and the upstream connection is empty at both ends unless the loop waits there, where
the exchange is at one of three points (`Linked`, with `Underway`): the request is
on its way (`Passing`), has been read (`Heeded`), or an answer to it, whole or broken off,
is on its way behind the interim responses that are left (`Replied`).  k is not a
variable, because no part of the code counts: `IInv` says that there is such a number, and
an action keeps it, answers one more, takes one answer and lowers it, or starts
a new connection.  There is a lemma for each action (`ReadRequestKeeps`, `RespondKeeps`,
...), and the three theorems follow from `IInv` by what the reader does with a text that
begins with a message.

**What stays with TLC.**  Liveness under fairness is out of the prover's reach:
`OpenIsProbed`, `PermitsReturn`, `PoolDrains`, `ServeEnds`, `PublishersReturn`,
`StreamsEnd`, `RunReturns`, `BenchmarkReturns`, `ConnectionEnds`.  The three violations of
section 6 are counterexamples, found by TLC.  The induction theorems of the library take
an operator, which the provers cannot instantiate; wherever a proof needs induction over
data, it is reduced to the least-number principle by hand.

## 6. Where code and documents disagree

Each of these is a run that must find a violation.

* **`pool_join`.**  `ARCHITECTURE.md:274` says that attempts join the callback which
  closes their connection before they release ownership.  The attempt recycles the
  connection first (`proxy.go:391`) and joins the callback in a `defer`.  In the run the
  callback of a canceled attempt closes a connection that another attempt has taken from
  the pool by then (`ClosesOwn`).  `PoolInv`, which the run
  `pool` checks, says what the order of the code keeps: one owner, and no callback that
  outlives its attempt.  The benchmark's workers do join first (`WorkersInv`).
* **`stream_empty`.**  `README.md:283` lists future cursor gaps.  A cursor presented while
  the ledger is empty is not reported as one (`observability.go:94`), and the session
  then withholds the events up to it (`admin.go:220`, `admin.go:240`): they are neither
  sent, nor counted as dropped, nor announced (`NothingSkipped`).  `NoSilentLoss` holds
  with these events, and no others, named as an exception (`Withheld`).
* **`transaction_buffered`.**  When a retried attempt fails without a further retry,
  the client gets a gateway failure although an earlier response is buffered
  (`proxy.go:271`, `ARCHITECTURE.md:181`).

Others that no run states:

* With a limit of two or more, more half-open probes may run at once than the "maximum
  concurrent half-open probes" of `proxy_cli.go:85` (`README.md:264`: "a bounded probe").
  A transition resets `halfOpenInFlight` (`resilience.go:479`) while permits of the
  period that ends are outstanding.  One probe that is still running is then not counted
  in the next period, which admits two more: three with a limit of two.  That needs no late
  report; one that arrives then takes a permit off the new count (`resilience.go:379`)
  and lets another probe in.  The experiment lab sets the limit to the number of
  successes, so limits above one are in use.  With the default of one it cannot happen:
  `ProbeIsCurrent`, `SingleProbeBound`.
* The failure window is called rolling (`README.md:263`) and is tumbling
  (`resilience.go:398`): it begins anew with the first failure after its end.  A burst that
  the end of a window divides can be almost twice the threshold without opening the
  circuit.  `EvidenceDecides` says what is kept.  A report of a request that was in flight
  when a period of the circuit ended counts in the next closed period like any other.
* The writer gives every response to HEAD a `Content-Length`, one with status 204 too
  (`http_writer.go:109`), which the reader of the same repository rejects
  (`http_parser.go:133`, listed in `README.md:219`).  `ClientHears` allows for just this
  case.
* The gateway error counter follows the first `Proxy-Status` field of the response, which
  an upstream may have sent (`proxy.go:216`), while `ARCHITECTURE.md:211` speaks of
  generated errors.  The model has such upstreams (`Reporting`), and `MetricsReconcile`
  compares the counter with generated and reported errors together.
* `parseRoutePattern` accepts the pattern `*` in its first check and rejects it as an
  unnamed wildcard later, so that no route for `OPTIONS *` can be registered.
* The length that an answer to HEAD, or a 304, describes becomes 0 on its way through the
  proxy: the writer counts the body that is not there.  `ClientHears` compares fields for
  the other end, to which the length does not belong here.
* The proxy adds fields, so a message at `MaxHeaderFields` is read and forwarded with more
  fields than the same limit lets another Anvil read.  The instance leaves room for them.
* The loop ends silently on every error that is an `io.EOF` (`http_server.go:58`), and the
  errors for incomplete messages wrap the one of the read (`http_errors.go:51`).  A client
  that ends its stream within a line, or before the first byte of a fixed body, of a
  chunk's data or of a chunk's ending, gets no answer; it gets 400 where a part had been
  read (`io.ErrUnexpectedEOF`) or the connection was reset.  The model has both
  (`Unanswered`), and `ClientHears` asks for no answer in the former cases.
* A recovery counts as observed with any later completion that the fixture answered, even
  one that began before the recovery; and `requiredLedgerCapacity` budgets one circuit
  transition for each cooldown, where three are possible.

## 7. What is not modelled

* The grammar within a line (`parseRequestLine`, `validHost`, `validChunkExtensions`,
  tokens and quoted strings): character tables, covered by the repository's fuzz tests.
  Byte limits of lines and blocks appear as lines that are junk, limits of fields, body
  and chunks as themselves.
* An upstream that sends a body with an answer to HEAD, or bytes nobody asked for: what
  the proxy does depends on how much of it has arrived in its buffer.
* CONNECT (`successfulConnectResponse`), which no accepted target can have, and the
  configuration that turns the Forwarded fields off.
* The histogram of `metrics.go`, byte counters, status classes, runtime figures.
* The ranges of single numbers in a scenario, its JSON form, hash and printed receipt.
* Deadline arithmetic of `clientConn`.
* Command line, configuration, dashboard pages, the echo handler: parsing and rendering
  without state of their own; and the supervision of proxy and administration server in
  `proxy_cli.go`, two of `TCPServer` with one context.
* The cleanup after a lab that could not be constructed.

## 8. Plan

Done: the backend with its abstract circuit and first theorems, then the parts in the
order in which a request meets trouble: transaction, pool, streams, server, experiment,
benchmark, connection and router; then the codec and the relay through it, the counters
of the transaction, and scenario and receipt.

The proofs followed the same order: the backend's remaining invariants and its
refinement, pool, server, benchmark, transaction, streams, experiment with schedule and
receipt as functions on data, connection, and last the codec and the relay through it.

Every invariant and every action property of a passing run is proved now.  What would come
next are parts that section 7 leaves out, first the supervision in `proxy_cli.go` as a
composition of two `TCPServer`s.
