----------------------------- MODULE Transaction -----------------------------
(***************************************************************************)
(* The proxy's attempt loop: executeProxyRequest (src/proxy.go), and the   *)
(* selection of a backend by reserveNextExcluding, candidateOrder and      *)
(* reserveInOrder (src/resilience.go), run by concurrent requests over one *)
(* pool.                                                                   *)
(*                                                                         *)
(* A backend is what Backend.tla promises of tryReserve and Complete: it   *)
(* is eligible or not, as its circuit and health decide, and has a bounded *)
(* number of places.  An attempt ends in a response or in an error of some *)
(* kind; what travels over the wire is left open.                          *)
(***************************************************************************)
EXTENDS Naturals, Sequences, FiniteSets

CONSTANTS Requests,
          BackendCount,
          MaxInFlight,
          MaxAttempts,
          Selector,        \* "round-robin" or "least-in-flight"
          Methods,         \* of "GET", standing for HEAD too, and "POST"
          Failures,        \* the kinds of errors attempts may meet
          SlowLatency,     \* whether there is a SlowLatencyThreshold
          Reporting,       \* the statuses with which a backend may send a
                           \* Proxy-Status of its own that tells of an error
          None

AttemptKinds == {"dial_failure", "dial_timeout", "write_failure", "write_timeout",
                 "upstream_timeout", "upstream_protocol", "upstream_incomplete",
                 "canceled"}
Kinds == AttemptKinds \cup {"no_backend", "admission_rejected"}

Backends == 0 .. BackendCount - 1

\* 200 stands for the statuses that are returned, 503 for the ones configured
\* to be retried.
RetryStatuses == {503}
UpstreamStatuses == {200} \cup RetryStatuses
Statuses == UpstreamStatuses \cup {502, 503, 504}

ASSUME TransactionAssumption ==
  /\ IsFiniteSet(Requests)
  /\ BackendCount \in Nat \ {0}
  /\ MaxInFlight \in Nat \ {0}
  /\ MaxAttempts \in Nat \ {0}
  /\ Selector \in {"round-robin", "least-in-flight"}
  /\ Methods \subseteq {"GET", "POST"}
  /\ Failures \subseteq AttemptKinds /\ SlowLatency \in BOOLEAN
  /\ Reporting \subseteq UpstreamStatuses
  /\ None \notin Backends

VARIABLES sequence,     \* the pool's selection counter, modulo BackendCount
          eligible,     \* backends whose health and circuit admit requests
          inFlight,     \* requests each backend has admitted
          late,         \* requests whose total time is over
          tx,           \* the local state of each request
          trail,        \* the events each request has published, in order
          metrics       \* the proxy's counters, and the gauges of active requests

vars == <<sequence, eligible, inFlight, late, tx, trail, metrics>>

Steps == {"arriving", "counted", "started", "picking", "shifting", "scanning",
          "unreserved", "attempting", "failed", "responded", "again", "answering",
          "answered"}

\* A response: the backend it came from, none if it was generated, its status,
\* and whether its first Proxy-Status field tells of an error.  The proxy's own
\* field comes after the ones that the backend sent.
Responses == [from : Backends \cup {None}, status : {0} \cup Statuses, error : BOOLEAN]

NoResponse == [from |-> None, status |-> 0, error |-> FALSE]

\* The locals of one selection: the order of the backends and the position in
\* it; hole, value and load of the insertion under way; what the scan has met.
Scans == [order : [Backends -> Backends], next : Nat, hole : Nat, value : Backends,
          load : Nat, tried : SUBSET Backends, stateEligible : BOOLEAN]

NoScan == [order |-> [b \in Backends |-> b], next |-> 0, hole |-> 0, value |-> 0,
           load |-> 0, tried |-> {}, stateEligible |-> FALSE]

\* failureKinds are counted in two: the reservations that failed and the attempts.
Counters == {"requests", "completed", "attempts", "retries", "successes",
             "gatewayErrors", "refused", "failed", "active", "peak"}

\* Each request is at a step of the loop, with locals of the right kind.
TypeOK ==
  /\ sequence \in Backends
  /\ eligible \subseteq Backends
  /\ inFlight \in [Backends -> 0 .. MaxInFlight]
  /\ late \subseteq Requests
  /\ \A r \in Requests :
       tx[r] \in [pc : Steps, method : Methods \cup {None}, active : Nat,
                  scan : Scans, attempt : Nat, attempted : SUBSET Backends,
                  charged : SUBSET Backends,
                  backend : Backends \cup {None}, response : Responses,
                  lastFailure : Kinds \cup {None}, lastRetryResponse : Responses,
                  reply : Responses]
  /\ \A r \in Requests : trail[r] \in Seq([type : {"started", "selected", "failed", "retry", "completed"},
                               attempt : Nat, backend : Backends \cup {None}])
  /\ metrics \in [Counters -> Nat]

Init ==
  /\ sequence = 0
  /\ eligible = Backends
  /\ inFlight = [b \in Backends |-> 0]
  /\ late = {}
  /\ tx = [r \in Requests |->
       [pc |-> "arriving", method |-> None, active |-> 0,
        scan |-> NoScan, attempt |-> 1, attempted |-> {}, charged |-> {},
        backend |-> None, response |-> NoResponse, lastFailure |-> None,
        lastRetryResponse |-> NoResponse, reply |-> NoResponse]]
  /\ trail = [r \in Requests |-> <<>>]
  /\ metrics = [c \in Counters |-> 0]

At(r, step) == tx[r].pc = step

\* metrics.recordAttempt, recordRetry and recordFailure
Record(counter) == metrics' = [metrics EXCEPT ![counter] = @ + 1]

\* publish, of an event of request r
Publish(r, type, attempt, backend) ==
  trail' = [trail EXCEPT
    ![r] = Append(@, [type |-> type, attempt |-> attempt, backend |-> backend])]

-----------------------------------------------------------------------------
(* The environment                                                         *)

\* A circuit or the health of a backend changes, see Backend.tla.
ChangeEligibility ==
  /\ \E b \in Backends :
       eligible' = IF b \in eligible THEN eligible \ {b} ELSE eligible \cup {b}
  /\ UNCHANGED <<sequence, inFlight, late, tx, trail, metrics>>

\* The total time of a request runs out, while somebody may still look at it.
Deadline(r) ==
  /\ tx[r].pc \notin {"arriving", "counted", "answering", "answered"} /\ r \notin late
  /\ late' = late \cup {r}
  /\ UNCHANGED <<sequence, eligible, inFlight, tx, trail, metrics>>

-----------------------------------------------------------------------------
(* metrics.beginRequest and the first event                                *)

CountRequest(r) ==
  /\ At(r, "arriving")
  /\ metrics' = [metrics EXCEPT !["requests"] = @ + 1, !["active"] = @ + 1]
  /\ \E m \in Methods :
       tx' = [tx EXCEPT ![r].pc = "counted", ![r].method = m, ![r].active = metrics.active + 1]
  /\ UNCHANGED <<sequence, eligible, inFlight, late, trail>>

\* The compare-and-swap loop on peakActive.
RaisePeak(peak, active) == IF active <= peak THEN peak ELSE active

RecordPeak(r) ==
  /\ At(r, "counted")
  /\ metrics' = [metrics EXCEPT !["peak"] = RaisePeak(@, tx[r].active)]
  /\ tx' = [tx EXCEPT ![r].pc = "started", ![r].active = 0]
  /\ Publish(r, "started", 0, None)
  /\ UNCHANGED <<sequence, eligible, inFlight, late>>

-----------------------------------------------------------------------------
(* Selecting a backend                                                     *)

NextStart(s) == (s + 1) % BackendCount

\* The head of reserveNextExcluding and of candidateOrder.
Order(r) ==
  /\ At(r, "started")
  /\ sequence' = NextStart(sequence)
  /\ tx' = [tx EXCEPT
       ![r].pc = IF Selector = "least-in-flight" THEN "picking" ELSE "scanning",
       ![r].scan.order = [offset \in Backends |-> (sequence + offset) % BackendCount],
       ![r].scan.next = IF Selector = "least-in-flight" THEN 1 ELSE 0]
  /\ UNCHANGED <<eligible, inFlight, late, trail, metrics>>

\* candidateOrder sorts by load with insertions.  The loads it compares are
\* read one at a time, while other requests change them.
Pick(r) ==
  /\ At(r, "picking") /\ tx[r].scan.next < BackendCount
  /\ LET value == tx[r].scan.order[tx[r].scan.next]
     IN tx' = [tx EXCEPT ![r].pc = "shifting", ![r].scan.value = value,
                         ![r].scan.load = inFlight[value], ![r].scan.hole = tx[r].scan.next]
  /\ UNCHANGED <<sequence, eligible, inFlight, late, trail, metrics>>

\* Whether the entry before the hole has to move up, by its load right now.
Busier(r) ==
  /\ tx[r].scan.hole > 0
  /\ inFlight[tx[r].scan.order[tx[r].scan.hole - 1]] > tx[r].scan.load

Shift(r) ==
  /\ At(r, "shifting") /\ Busier(r)
  /\ tx' = [tx EXCEPT ![r].scan.order[tx[r].scan.hole] = tx[r].scan.order[tx[r].scan.hole - 1],
                      ![r].scan.hole = @ - 1]
  /\ UNCHANGED <<sequence, eligible, inFlight, late, trail, metrics>>

\* Mutant: the entry taken out is not put into the hole.
PlaceNothing(r) ==
  /\ At(r, "shifting") /\ ~ Busier(r)
  /\ tx' = [tx EXCEPT ![r].scan.next = @ + 1, ![r].pc = "picking"]
  /\ UNCHANGED <<sequence, eligible, inFlight, late, trail, metrics>>

Place(r) ==
  /\ At(r, "shifting") /\ ~ Busier(r)
  /\ tx' = [tx EXCEPT ![r].scan.order[tx[r].scan.hole] = tx[r].scan.value,
                      ![r].scan.next = @ + 1, ![r].pc = "picking"]
  /\ UNCHANGED <<sequence, eligible, inFlight, late, trail, metrics>>

Sorted(r) ==
  /\ At(r, "picking") /\ tx[r].scan.next = BackendCount
  /\ tx' = [tx EXCEPT ![r].pc = "scanning", ![r].scan.next = 0]
  /\ UNCHANGED <<sequence, eligible, inFlight, late, trail, metrics>>

Candidate(r) == tx[r].scan.order[tx[r].scan.next]

Scanning(r) == At(r, "scanning") /\ tx[r].scan.next < BackendCount

\* reserveInOrder: a backend that was attempted, or one whose circuit or health
\* refuses, or one that has no place left, is passed over.
SkipAttempted(r) ==
  /\ Scanning(r) /\ Candidate(r) \in tx[r].attempted
  /\ tx' = [tx EXCEPT ![r].scan.next = @ + 1]
  /\ UNCHANGED <<sequence, eligible, inFlight, late, trail, metrics>>

Skippable(r) == Scanning(r) /\ Candidate(r) \notin tx[r].attempted

SkipIneligible(r) ==
  /\ Skippable(r) /\ Candidate(r) \notin eligible
  /\ tx' = [tx EXCEPT ![r].scan.next = @ + 1, ![r].scan.tried = @ \cup {Candidate(r)}]
  /\ UNCHANGED <<sequence, eligible, inFlight, late, trail, metrics>>

SkipFull(r) ==
  /\ Skippable(r) /\ Candidate(r) \in eligible
  /\ inFlight[Candidate(r)] = MaxInFlight
  /\ tx' = [tx EXCEPT ![r].scan.next = @ + 1, ![r].scan.tried = @ \cup {Candidate(r)},
                      ![r].scan.stateEligible = TRUE]
  /\ UNCHANGED <<sequence, eligible, inFlight, late, trail, metrics>>

\* A reservation, and the backend_selected event.
Reserve(r) ==
  /\ Skippable(r) /\ Candidate(r) \in eligible
  /\ inFlight[Candidate(r)] < MaxInFlight
  /\ inFlight' = [inFlight EXCEPT ![Candidate(r)] = @ + 1]
  /\ tx' = [tx EXCEPT ![r].pc = "attempting", ![r].scan = NoScan,
                      ![r].backend = Candidate(r),
                      ![r].attempted = @ \cup {Candidate(r)}]
  /\ Record("attempts") /\ Publish(r, "selected", tx[r].attempt, Candidate(r))
  /\ UNCHANGED <<sequence, eligible, late>>

ScanOver(r) == At(r, "scanning") /\ tx[r].scan.next = BackendCount

NotReserved(r) ==
  /\ ScanOver(r)
  /\ tx' = [tx EXCEPT ![r].pc = "unreserved"]
  /\ Record("refused") /\ Publish(r, "failed", tx[r].attempt, None)
  /\ UNCHANGED <<sequence, eligible, inFlight, late>>

-----------------------------------------------------------------------------
(* executeProxyRequest                                                     *)

StatusOf(kind) ==
  CASE kind \in {"no_backend", "admission_rejected", "canceled"} -> 503
    [] kind \in {"dial_timeout", "write_timeout", "upstream_timeout"} -> 504
    [] OTHER -> 502

proxyFailureResponse(kind) == [from |-> None, status |-> StatusOf(kind), error |-> TRUE]

Answer(r, reply) == tx' = [tx EXCEPT ![r].pc = "answering", ![r].reply = reply]

\* No backend: the last response with a retry status is still an answer, the
\* last failure is the next best, the reservation's own error the last resort.
AnswerUnreserved(r) ==
  /\ At(r, "unreserved")
  /\ LET reserveErr == IF tx[r].scan.stateEligible THEN "admission_rejected" ELSE "no_backend"
     IN Answer(r, IF tx[r].lastRetryResponse # NoResponse
                  THEN tx[r].lastRetryResponse
                  ELSE proxyFailureResponse(
                         IF tx[r].lastFailure # None THEN tx[r].lastFailure ELSE reserveErr))
  /\ UNCHANGED <<sequence, eligible, inFlight, late, trail, metrics>>

\* reservation.Complete: the place is given back.  What it reports, a failure,
\* a success or neither, is kept as the backends that the request has charged.
GiveBack(r) == inFlight' = [inFlight EXCEPT ![tx[r].backend] = @ - 1]

passiveOutcomeForError(kind) == IF kind = "canceled" THEN "neutral" ELSE "failure"

passiveOutcome(status, slow) ==
  IF status \in RetryStatuses \/ slow THEN "failure" ELSE "success"

Charged(r, outcome) ==
  IF outcome = "failure" THEN tx[r].charged \cup {tx[r].backend} ELSE tx[r].charged

\* A read that fails after the total time is over is classified canceled.
PossibleFailures(r) ==
  IF r \in late THEN Failures \ {"upstream_timeout", "upstream_incomplete"} ELSE Failures

AttemptFails(r) ==
  /\ At(r, "attempting")
  /\ GiveBack(r)
  /\ \E kind \in PossibleFailures(r) :
       tx' = [tx EXCEPT ![r].pc = "failed", ![r].lastFailure = kind,
                        ![r].charged = Charged(r, passiveOutcomeForError(kind))]
  /\ Record("failed") /\ Publish(r, "failed", tx[r].attempt, tx[r].backend)
  /\ UNCHANGED <<sequence, eligible, late>>

\* The first Proxy-Status field of a response, as far as its status allows.
PossibleReports(status) == IF status \in Reporting THEN BOOLEAN ELSE {FALSE}

\* Mutant: only a response that will be returned gives its place back.
RespondKeepingPlace(r) ==
  /\ At(r, "attempting")
  /\ \E status \in UpstreamStatuses : \E error \in PossibleReports(status) :
       /\ tx' = [tx EXCEPT ![r].pc = "responded",
            ![r].response = [from |-> tx[r].backend, status |-> status, error |-> error]]
       /\ IF status \in RetryStatuses THEN UNCHANGED inFlight ELSE GiveBack(r)
  /\ UNCHANGED <<sequence, eligible, late, trail, metrics>>

AttemptResponds(r) ==
  /\ At(r, "attempting")
  /\ GiveBack(r)
  /\ \E status \in UpstreamStatuses, slow \in {SlowLatency, FALSE} : \E error \in PossibleReports(status) :
       tx' = [tx EXCEPT ![r].pc = "responded",
         ![r].response = [from |-> tx[r].backend, status |-> status, error |-> error],
         ![r].charged = Charged(r, passiveOutcome(status, slow))]
  /\ UNCHANGED <<sequence, eligible, late, trail, metrics>>

\* Mutant: any method is retried.
RetryAnyMethod(r) == tx[r].attempt < MaxAttempts /\ r \notin late

\* canRetryProxyRequest; nothing is committed before the answer is written.
canRetryProxyRequest(r) ==
  /\ tx[r].attempt < MaxAttempts
  /\ r \notin late
  /\ tx[r].method = "GET"

AnswerFailure(r) ==
  /\ At(r, "failed")
  /\ ~ canRetryProxyRequest(r)
  /\ Answer(r, proxyFailureResponse(tx[r].lastFailure))
  /\ UNCHANGED <<sequence, eligible, inFlight, late, trail, metrics>>

RetryFailure(r) ==
  /\ At(r, "failed")
  /\ canRetryProxyRequest(r)
  /\ tx' = [tx EXCEPT ![r].pc = "started", ![r].attempt = @ + 1, ![r].backend = None,
                      ![r].response = NoResponse]
  /\ Record("retries") /\ Publish(r, "retry", tx[r].attempt + 1, tx[r].backend)
  /\ UNCHANGED <<sequence, eligible, inFlight, late>>

AnswerResponse(r) ==
  /\ At(r, "responded")
  /\ ~ (tx[r].response.status \in RetryStatuses /\ canRetryProxyRequest(r))
  /\ Answer(r, tx[r].response)
  /\ UNCHANGED <<sequence, eligible, inFlight, late, trail, metrics>>

\* Mutant: a response that is retried is not told to have failed.
RetrySilently(r) ==
  /\ At(r, "responded")
  /\ tx[r].response.status \in RetryStatuses /\ canRetryProxyRequest(r)
  /\ tx' = [tx EXCEPT ![r].pc = "again", ![r].lastRetryResponse = tx[r].response]
  /\ UNCHANGED <<sequence, eligible, inFlight, late, trail, metrics>>

RetryResponse(r) ==
  /\ At(r, "responded")
  /\ tx[r].response.status \in RetryStatuses /\ canRetryProxyRequest(r)
  /\ tx' = [tx EXCEPT ![r].pc = "again", ![r].lastRetryResponse = tx[r].response]
  /\ Publish(r, "failed", tx[r].attempt, tx[r].backend)
  /\ UNCHANGED <<sequence, eligible, inFlight, late, metrics>>

\* Mutant: the attempt counter is advanced twice.
SkipAttemptNumber(r) ==
  /\ At(r, "again")
  /\ tx' = [tx EXCEPT ![r].pc = "started", ![r].attempt = @ + 2, ![r].backend = None]
  /\ Record("retries") /\ Publish(r, "retry", tx[r].attempt + 1, tx[r].backend)
  /\ UNCHANGED <<sequence, eligible, inFlight, late>>

TryAgain(r) ==
  /\ At(r, "again")
  /\ tx' = [tx EXCEPT ![r].pc = "started", ![r].attempt = @ + 1, ![r].backend = None,
                      ![r].response = NoResponse]
  /\ Record("retries") /\ Publish(r, "retry", tx[r].attempt + 1, tx[r].backend)
  /\ UNCHANGED <<sequence, eligible, inFlight, late>>

Generated(reply) == reply.from = None

One(condition) == IF condition THEN 1 ELSE 0

\* Mutant: what counts as a gateway error is the status.
CountByStatus(counters, reply) ==
  [counters EXCEPT !["completed"] = @ + 1, !["active"] = @ - 1,
                   !["successes"] = @ + One(reply.status \in 200 .. 399),
                   !["gatewayErrors"] = @ + One(reply.status \in 502 .. 504)]

\* generatedGatewayError is read off the first Proxy-Status field.
completeRequest(counters, reply) ==
  [counters EXCEPT !["completed"] = @ + 1, !["active"] = @ - 1,
                   !["successes"] = @ + One(reply.status \in 200 .. 399),
                   !["gatewayErrors"] = @ + One(reply.error)]

\* The deferred completion: metrics.completeRequest and the last event.  Locals
\* that nobody looks at any more are forgotten.
CompleteRequest(r) ==
  /\ At(r, "answering")
  /\ metrics' = completeRequest(metrics, tx[r].reply)
  /\ tx' = [tx EXCEPT ![r].pc = "answered", ![r].scan = NoScan, ![r].attempted = {},
                      ![r].backend = None, ![r].response = NoResponse, ![r].lastFailure = None]
  /\ Publish(r, "completed", tx[r].attempt, None)
  /\ UNCHANGED <<sequence, eligible, inFlight, late>>

-----------------------------------------------------------------------------
Step(r) ==
  \/ RecordPeak(r) \/ Order(r) \/ Pick(r) \/ Shift(r) \/ Place(r) \/ Sorted(r)
  \/ SkipAttempted(r) \/ SkipIneligible(r) \/ SkipFull(r) \/ Reserve(r)
  \/ NotReserved(r) \/ AnswerUnreserved(r) \/ AttemptFails(r) \/ AttemptResponds(r)
  \/ AnswerFailure(r) \/ RetryFailure(r) \/ AnswerResponse(r) \/ RetryResponse(r)
  \/ TryAgain(r) \/ CompleteRequest(r)

Next ==
  \/ ChangeEligibility
  \/ \E r \in Requests : CountRequest(r) \/ Deadline(r) \/ Step(r)

Spec == Init /\ [][Next]_vars

-----------------------------------------------------------------------------
Indices(r, type) == {i \in DOMAIN trail[r] : trail[r][i].type = type}

\* A request goes to distinct backends, at most MaxAttempts of them, and a POST
\* to one: its upstream effects are never repeated by the proxy.
AttemptsBounded ==
  \A r \in Requests :
    LET selected == Indices(r, "selected")
    IN /\ \A i, j \in selected : i # j => trail[r][i].backend # trail[r][j].backend
       /\ Cardinality(selected) <= MaxAttempts
       /\ tx[r].method = "POST" => Cardinality(selected) <= 1

\* Every place is given back on every path out of an attempt, once: a backend's
\* load is the number of attempts that run at it.
PlacesExact ==
  \A b \in Backends :
    inFlight[b] = Cardinality({r \in Requests : At(r, "attempting") /\ tx[r].backend = b})

\* The request is refused only after every backend was considered in this scan
\* or attempted before, although the loads that order the scan change under it.
FullScan ==
  \A r \in Requests : At(r, "unreserved") => tx[r].scan.tried \cup tx[r].attempted = Backends

\* What selection and completion keep, of loads that other requests change: the
\* places of a backend, and a scan that leaves out none.
PlacesInv == TypeOK /\ PlacesExact /\ FullScan

\* What the ledger tells of a request is a story: it starts and completes once,
\* and every retry it announces is followed by that attempt, which selects a
\* backend or fails to.  A failure that counts against a backend is told, as a
\* failed attempt or as the answer that came from there: "a bounded decision
\* ledger explains" (README.md:346).  It has the length that
\* requiredLedgerCapacity (src/scenario.go:238) reserves for a request.
TrailTells ==
  \A r \in Requests :
    LET t == trail[r]
    IN /\ Len(t) <= 2 + 3 * MaxAttempts
       /\ \A i \in Indices(r, "started") : i = 1
       /\ \A i \in Indices(r, "completed") : i = Len(t) /\ At(r, "answered")
       /\ \A i \in Indices(r, "retry") : i < Len(t) =>
            t[i + 1].attempt = t[i].attempt /\ t[i + 1].type \in {"selected", "failed"}
       /\ \A b \in tx[r].charged :
            \/ \E i \in Indices(r, "failed") : t[i].backend = b
            \/ At(r, "responded") /\ tx[r].backend = b
            \/ tx[r].pc \in {"answering", "answered"} /\ tx[r].reply.from = b
       /\ At(r, "answered") =>
            /\ Cardinality(Indices(r, "completed")) = 1
            /\ t[Len(t) - 1].type # "retry"

\* The published peak covers the present load, up to the requests that have
\* counted themselves and not yet raised it.
PeakCovers ==
  metrics.active <= metrics.peak + Cardinality({r \in Requests : At(r, "counted")})

\* "Request, completion, attempt, retry, success, generated gateway error ...
\* counters" (ARCHITECTURE.md:211), which different places of the loop count,
\* agree whenever the proxy is at rest: a request and a retry each lead to one
\* attempt or one refusal, an attempt to a failure or a response, and an answer
\* that no backend gave to a failure or a refusal.  Every such answer is counted
\* as a gateway error; so is an answer that a backend gave, if its Proxy-Status
\* told of an error.
MetricsReconcile ==
  /\ PeakCovers
  /\ (\A r \in Requests : At(r, "arriving") \/ At(r, "answered")) =>
       LET replies == {r \in Requests : At(r, "answered")}
           generated == {r \in replies : Generated(tx[r].reply)}
           reported == {r \in replies : ~ Generated(tx[r].reply) /\ tx[r].reply.error}
       IN /\ metrics.active = 0 /\ metrics.completed = metrics.requests
          /\ metrics.attempts + metrics.refused = metrics.requests + metrics.retries
          /\ metrics.failed <= metrics.attempts
          /\ metrics.gatewayErrors = Cardinality(generated \cup reported)
          /\ Cardinality(generated) <= metrics.failed + metrics.refused
          /\ metrics.successes = Cardinality({r \in replies : tx[r].reply.status \in 200 .. 399})

\* "If a buffered application response cannot fail over, Anvil returns that
\* response instead of manufacturing a gateway failure" (ARCHITECTURE.md, 3.8).
BufferedResponseKept ==
  \A r \in Requests :
    At(r, "answered") /\ tx[r].lastRetryResponse # NoResponse => ~ Generated(tx[r].reply)

=============================================================================
