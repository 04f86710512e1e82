----------------------------- MODULE Benchmark -----------------------------
(***************************************************************************)
(* The load generator of src/benchmark.go: a producer that offers jobs     *)
(* through a bounded channel until it has offered MaxRequests or its       *)
(* context ends, workers that send a request for each job over a           *)
(* connection they keep, and counters they share.                          *)
(*                                                                         *)
(* Each atomic operation is a step.  The rate is left open: the producer   *)
(* is as slow as it likes.  So is what an exchange ends with, since every  *)
(* network operation has a deadline.  A connection closed by the callback  *)
(* of src/context_close.go while the worker still holds it is "dead".      *)
(***************************************************************************)
EXTENDS Integers, FiniteSets

CONSTANTS Workers, MaxRequests

ASSUME BenchmarkAssumption ==
  /\ IsFiniteSet(Workers) /\ Workers # {}
  /\ MaxRequests \in Nat \ {0}

VARIABLES ctxDone,     \* the duration is over, or the parent was canceled
          producer,    \* offering, counting, done
          jobs,        \* the jobs in the channel, of capacity |Workers|
          pc,          \* where each worker is
          active,      \* the in-flight count it saw
          connection,  \* the connection it holds: none, open, dead
          closer,      \* its callback: none, armed, firing
          outcome,     \* what its request ended with
          sockets,     \* open sockets
          counters,    \* benchmarkCounters
          returned     \* runBenchmark has made its result

vars == <<ctxDone, producer, jobs, pc, active, connection, closer, outcome,
          sockets, counters, returned>>
run == <<ctxDone, returned>>
channel == <<producer, jobs>>

Steps == {"ranging", "received", "raising", "connecting", "exchanging",
          "joining", "recording", "tallying", "leaving_request", "leaving",
          "gone"}

Outcomes == {"none", "dial_error", "exchange_error", "keep", "close"}

Fields == {"offered", "completed", "new", "reused", "inFlight", "peak",
           "statuses", "dialErrors", "exchangeErrors"}

\* Goroutines are at steps of their functions, and no counter is negative.
TypeOK ==
  /\ ctxDone \in BOOLEAN /\ returned \in BOOLEAN
  /\ producer \in {"offering", "counting", "done"}
  /\ jobs \in 0 .. Cardinality(Workers)
  /\ pc \in [Workers -> Steps]
  /\ active \in [Workers -> 0 .. Cardinality(Workers)]
  /\ connection \in [Workers -> {"none", "open", "dead"}]
  /\ closer \in [Workers -> {"none", "armed", "firing"}]
  /\ outcome \in [Workers -> Outcomes]
  /\ sockets \in Nat
  /\ counters \in [Fields -> Nat]

Init ==
  /\ ctxDone = FALSE /\ returned = FALSE
  /\ producer = "offering" /\ jobs = 0
  /\ pc = [w \in Workers |-> "ranging"]
  /\ active = [w \in Workers |-> 0]
  /\ connection = [w \in Workers |-> "none"]
  /\ closer = [w \in Workers |-> "none"]
  /\ outcome = [w \in Workers |-> "none"]
  /\ sockets = 0
  /\ counters = [f \in Fields |-> 0]

Count(field, n) == counters' = [counters EXCEPT ![field] = @ + n]

Step(w, from, to) == pc[w] = from /\ pc' = [pc EXCEPT ![w] = to]

\* The timeout of the context, or its parent's end.
Expire ==
  /\ ~ ctxDone /\ ~ returned
  /\ ctxDone' = TRUE
  /\ UNCHANGED <<channel, pc, active, connection, closer, outcome, sockets,
                 counters, returned>>

-----------------------------------------------------------------------------
(* The producer                                                            *)

Offer ==
  /\ producer = "offering" /\ counters["offered"] < MaxRequests
  /\ jobs < Cardinality(Workers)
  /\ jobs' = jobs + 1
  /\ producer' = "counting"
  /\ UNCHANGED <<run, pc, active, connection, closer, outcome, sockets, counters>>

CountOffered ==
  /\ producer = "counting"
  /\ producer' = "offering"
  /\ Count("offered", 1)
  /\ UNCHANGED <<run, jobs, pc, active, connection, closer, outcome, sockets>>

\* Mutant: the send is not selected against the context.
ProduceAll ==
  /\ producer = "offering"
  /\ counters["offered"] = MaxRequests
  /\ producer' = "done"
  /\ UNCHANGED <<run, jobs, pc, active, connection, closer, outcome, sockets, counters>>

\* The channel is closed; what is in it can still be received.
StopProducing ==
  /\ producer = "offering"
  /\ ctxDone \/ counters["offered"] = MaxRequests
  /\ producer' = "done"
  /\ UNCHANGED <<run, jobs, pc, active, connection, closer, outcome, sockets, counters>>

-----------------------------------------------------------------------------
(* runBenchmarkWorker                                                      *)

Receive(w) ==
  /\ Step(w, "ranging", "received")
  /\ jobs > 0
  /\ jobs' = jobs - 1
  /\ UNCHANGED <<run, producer, active, connection, closer, outcome, sockets, counters>>

NoMoreJobs(w) ==
  /\ Step(w, "ranging", "leaving")
  /\ jobs = 0 /\ producer = "done"
  /\ UNCHANGED <<run, channel, active, connection, closer, outcome, sockets, counters>>

\* The job is dropped.
DropJob(w) ==
  /\ Step(w, "received", "leaving")
  /\ ctxDone
  /\ UNCHANGED <<run, channel, active, connection, closer, outcome, sockets, counters>>

\* Mutant: a job is done whatever the context says.
BeginAnyway(w) ==
  /\ Step(w, "received", "raising")
  /\ Count("inFlight", 1)
  /\ active' = [active EXCEPT ![w] = counters'["inFlight"]]
  /\ UNCHANGED <<run, channel, connection, closer, outcome, sockets>>

Begin(w) ==
  /\ Step(w, "received", "raising")
  /\ ~ ctxDone
  /\ Count("inFlight", 1)
  /\ active' = [active EXCEPT ![w] = counters'["inFlight"]]
  /\ UNCHANGED <<run, channel, connection, closer, outcome, sockets>>

\* recordAtomicPeak: the loop ends with the larger of the two in place.
RaisePeak(w) ==
  /\ Step(w, "raising", "connecting")
  /\ counters' = [counters EXCEPT !["peak"] = IF @ < active[w] THEN active[w] ELSE @]
  /\ active' = [active EXCEPT ![w] = 0]
  /\ UNCHANGED <<run, channel, connection, closer, outcome, sockets>>

\* closeOnContextDone.
Arm(w) == closer' = [closer EXCEPT ![w] = "armed"]

Reuse(w) ==
  /\ Step(w, "connecting", "exchanging")
  /\ connection[w] # "none"
  /\ Count("reused", 1)
  /\ Arm(w)
  /\ UNCHANGED <<run, channel, active, connection, outcome, sockets>>

Dial(w) ==
  /\ Step(w, "connecting", "exchanging")
  /\ connection[w] = "none"
  /\ connection' = [connection EXCEPT ![w] = "open"]
  /\ sockets' = sockets + 1
  /\ Count("new", 1)
  /\ Arm(w)
  /\ UNCHANGED <<run, channel, active, outcome>>

DialFails(w) ==
  /\ Step(w, "connecting", "recording")
  /\ connection[w] = "none"
  /\ outcome' = [outcome EXCEPT ![w] = "dial_error"]
  /\ UNCHANGED <<run, channel, active, connection, closer, sockets, counters>>

Fire(w) ==
  /\ closer[w] = "armed" /\ ctxDone
  /\ closer' = [closer EXCEPT ![w] = "firing"]
  /\ UNCHANGED <<run, channel, pc, active, connection, outcome, sockets, counters>>

CloseByContext(w) ==
  /\ closer[w] = "firing"
  /\ closer' = [closer EXCEPT ![w] = "none"]
  /\ connection' = [connection EXCEPT ![w] = IF @ = "open" THEN "dead" ELSE @]
  /\ sockets' = IF connection[w] = "open" THEN sockets - 1 ELSE sockets
  /\ UNCHANGED <<run, channel, pc, active, outcome, counters>>

\* Writing and reading; a response that was read counts although the
\* connection has been closed since.
Exchange(w) ==
  /\ Step(w, "exchanging", "joining")
  /\ \E o \in {"exchange_error", "keep", "close"} : outcome' = [outcome EXCEPT ![w] = o]
  /\ UNCHANGED <<run, channel, active, connection, closer, sockets, counters>>

\* Mutant: the callback is not waited for.
JoinStopped(w) ==
  /\ Step(w, "joining", "recording")
  /\ closer' = [closer EXCEPT ![w] = IF @ = "armed" THEN "none" ELSE @]
  /\ UNCHANGED <<run, channel, active, connection, outcome, sockets, counters>>

\* stopCancellation: the callback is stopped before it runs, or has run.
Join(w) ==
  /\ Step(w, "joining", "recording")
  /\ closer[w] # "firing"
  /\ closer' = [closer EXCEPT ![w] = "none"]
  /\ UNCHANGED <<run, channel, active, connection, outcome, sockets, counters>>

\* recordStatus and recordError: first the total, then the map.
Record(w) ==
  /\ Step(w, "recording", "tallying")
  /\ Count("completed", 1)
  /\ UNCHANGED <<run, channel, active, connection, closer, outcome, sockets>>

CloseConnection(w) ==
  /\ connection' = [connection EXCEPT ![w] = "none"]
  /\ sockets' = IF connection[w] = "open" THEN sockets - 1 ELSE sockets

Tally(w) ==
  /\ Step(w, "tallying", "leaving_request")
  /\ Count(CASE outcome[w] = "dial_error" -> "dialErrors"
             [] outcome[w] = "exchange_error" -> "exchangeErrors"
             [] OTHER -> "statuses", 1)
  /\ IF outcome[w] \in {"exchange_error", "close"} THEN CloseConnection(w)
     ELSE UNCHANGED <<connection, sockets>>
  /\ outcome' = [outcome EXCEPT ![w] = "none"]
  /\ UNCHANGED <<run, channel, active, closer>>

EndRequest(w) ==
  /\ Step(w, "leaving_request", "ranging")
  /\ Count("inFlight", -1)
  /\ UNCHANGED <<run, channel, active, connection, closer, outcome, sockets>>

\* The deferred close.
Leave(w) ==
  /\ Step(w, "leaving", "gone")
  /\ CloseConnection(w)
  /\ UNCHANGED <<run, channel, active, closer, outcome, counters>>

-----------------------------------------------------------------------------
\* Mutant: the result is made when the last job was offered.
ReturnEarly ==
  /\ ~ returned
  /\ producer = "done" /\ jobs = 0
  /\ returned' = TRUE
  /\ UNCHANGED <<ctxDone, channel, pc, active, connection, closer, outcome, sockets, counters>>

\* workers.Wait and producerDone.
Return ==
  /\ ~ returned
  /\ \A w \in Workers : pc[w] = "gone"
  /\ producer = "done"
  /\ returned' = TRUE
  /\ UNCHANGED <<ctxDone, channel, pc, active, connection, closer, outcome, sockets, counters>>

Produce == Offer \/ CountOffered \/ StopProducing

Work(w) ==
  \/ Receive(w) \/ NoMoreJobs(w) \/ DropJob(w) \/ Begin(w) \/ RaisePeak(w)
  \/ Reuse(w) \/ Dial(w) \/ DialFails(w) \/ Exchange(w) \/ Join(w)
  \/ Record(w) \/ Tally(w) \/ EndRequest(w) \/ Leave(w)

Callback(w) == Fire(w) \/ CloseByContext(w)

Next ==
  \/ Expire \/ Produce \/ Return
  \/ \E w \in Workers : Work(w) \/ Callback(w)

Spec == Init /\ [][Next]_vars

\* Goroutines run, and what they do on the network has a deadline.  That the
\* duration ends is not needed.
FairSpec ==
  /\ Spec /\ WF_vars(Produce) /\ WF_vars(Return)
  /\ \A w \in Workers : WF_vars(Work(w)) /\ WF_vars(Callback(w))

-----------------------------------------------------------------------------
Errors == counters["dialErrors"] + counters["exchangeErrors"]

\* The result is one consistent reading of counters that are updated one by
\* one: every completed request has a status or an error and a connection that
\* was new, reused or refused, and was offered; nothing is in flight.  Unless
\* its time is over the benchmark has sent everything it was asked to; what the
\* end of the time cuts off was in the channel or in a worker's hand.
ResultAddsUp ==
  returned =>
    /\ counters["completed"] = counters["statuses"] + Errors
    /\ counters["completed"] =
         counters["new"] + counters["reused"] + counters["dialErrors"]
    /\ counters["completed"] <= counters["offered"]
    /\ counters["inFlight"] = 0
    /\ counters["peak"] <= Cardinality(Workers)
    /\ ~ ctxDone => counters["completed"] = MaxRequests
    /\ counters["offered"] - counters["completed"] <= 2 * Cardinality(Workers)

\* Every open socket is held by a worker: none is left when they are gone.
NoSocketLeak == sockets = Cardinality({w \in Workers : connection[w] = "open"})

\* "... benchmark workers invoke that join before releasing connection
\* ownership" (ARCHITECTURE.md): outside an exchange no callback is pending.
JoinBeforeRelease ==
  \A w \in Workers : closer[w] # "none" => pc[w] \in {"exchanging", "joining"}

\* What a worker keeps, however its requests end: counters that are no less than
\* zero, sockets that somebody closes, callbacks that are joined.
WorkersInv == TypeOK /\ NoSocketLeak /\ JoinBeforeRelease

\* No request is sent over a connection that was closed under the worker.
LiveConnections ==
  [][\A w \in Workers :
       pc[w] = "connecting" /\ pc'[w] = "exchanging" => connection'[w] = "open"]_vars

\* The benchmark returns, and with it its producer: none waits at a channel
\* that nobody reads any more.
BenchmarkReturns == <> returned
=============================================================================
