-------------------------- MODULE BenchmarkProofs --------------------------
(***************************************************************************)
(* Theorems about module Benchmark, for every number of workers and of     *)
(* requests.                                                               *)
(***************************************************************************)
EXTENDS Benchmark, FiniteSetTheorems, TLAPS

-----------------------------------------------------------------------------
(* Callbacks and connections.                                              *)

\* The part of TypeOK that is about no number.
Shape ==
  /\ ctxDone \in BOOLEAN /\ returned \in BOOLEAN
  /\ producer \in {"offering", "counting", "done"}
  /\ pc \in [Workers -> Steps]
  /\ connection \in [Workers -> {"none", "open", "dead"}]
  /\ closer \in [Workers -> {"none", "armed", "firing"}]
  /\ outcome \in [Workers -> Outcomes]

\* A callback runs only once the time is over, and no request begins after
\* that: a connection that was closed under a worker is never taken up again.
Callbacks ==
  /\ JoinBeforeRelease
  /\ \A w \in Workers :
       /\ closer[w] = "firing" => ctxDone
       /\ connection[w] = "dead" => ctxDone /\ pc[w] \notin {"raising", "connecting"}
       /\ pc[w] = "joining" => outcome[w] # "dial_error"

\* Why a worker leaves before the time is over, and what Return has waited for.
Endings ==
  /\ returned => producer = "done" /\ \A w \in Workers : pc[w] = "gone"
  /\ ~ ctxDone =>
       /\ producer = "done" => counters["offered"] = MaxRequests
       /\ \A w \in Workers :
            pc[w] \in {"leaving", "gone"} => producer = "done" /\ jobs = 0

-----------------------------------------------------------------------------
(* The counters, compared with the workers that are between two of them.   *)

Busy == {w \in Workers : pc[w] \in {"raising", "connecting", "exchanging",
           "joining", "recording", "tallying", "leaving_request"}}

Tallying == {w \in Workers : pc[w] = "tallying"}

\* These have counted a connection and not yet their completion ...
Connected == {w \in Workers : \/ pc[w] \in {"exchanging", "joining"}
                              \/ pc[w] = "recording" /\ outcome[w] # "dial_error"}

\* ... and these their completion, but not that they were refused one.
Refused == {w \in Workers : pc[w] = "tallying" /\ outcome[w] = "dial_error"}

\* These have taken a job from the channel and not yet counted it.
Handling == {w \in Workers : pc[w] \in {"received", "raising", "connecting",
               "exchanging", "joining", "recording"}}

Left == {w \in Workers : pc[w] \in {"leaving", "gone"}}

Holders == {w \in Workers : connection[w] = "open"}

\* Jobs that were offered and neither done, nor in the channel or in a hand.
Dropped == counters["offered"] + (IF producer = "counting" THEN 1 ELSE 0)
             - counters["completed"] - jobs - Cardinality(Handling)

Numbers ==
  /\ counters \in [Fields -> Nat]
  /\ jobs \in 0 .. Cardinality(Workers)
  /\ active \in [Workers -> 0 .. Cardinality(Workers)]
  /\ sockets \in Nat

\* What is in flight is with a worker; a completion is followed by its status or
\* its error, and preceded by its connection; and a job is lost only with a
\* worker that leaves because the time is over.
CounterRelations ==
  /\ counters["inFlight"] = Cardinality(Busy)
  /\ counters["peak"] <= Cardinality(Workers)
  /\ counters["completed"] = counters["statuses"] + counters["dialErrors"]
       + counters["exchangeErrors"] + Cardinality(Tallying)
  /\ counters["new"] + counters["reused"] + counters["dialErrors"]
       + Cardinality(Refused) = counters["completed"] + Cardinality(Connected)
  /\ Dropped >= 0 /\ Dropped <= Cardinality(Left)
  /\ ~ ctxDone => Dropped = 0
  /\ NoSocketLeak

BenchmarkIInv == Shape /\ Callbacks /\ Endings /\ Numbers /\ CounterRelations

-----------------------------------------------------------------------------
\* What Tally does, with the field it counts in spelled out.
LEMMA TallyEffect ==
  ASSUME NEW w \in Workers, Tally(w)
  PROVE  /\ pc[w] = "tallying" /\ pc' = [pc EXCEPT ![w] = "leaving_request"]
         /\ outcome' = [outcome EXCEPT ![w] = "none"]
         /\ UNCHANGED <<ctxDone, returned, producer, jobs, active, closer>>
         /\ \/ outcome[w] = "dial_error" /\ Count("dialErrors", 1)
            \/ outcome[w] = "exchange_error" /\ Count("exchangeErrors", 1)
            \/ outcome[w] \notin {"dial_error", "exchange_error"} /\ Count("statuses", 1)
         /\ \/ CloseConnection(w)
            \/ connection' = connection /\ sockets' = sockets
<1>1. CASE outcome[w] = "dial_error"
  <2>1. Count("dialErrors", 1)
    BY <1>1, Zenon DEF Tally
  <2>2. QED
    BY <1>1, <2>1, Zenon DEF Tally, Step, run, channel
<1>2. CASE outcome[w] = "exchange_error"
  <2>1. outcome[w] # "dial_error"
    BY <1>2
  <2>2. Count("exchangeErrors", 1)
    BY <1>2, <2>1, Zenon DEF Tally
  <2>3. QED
    BY <1>2, <2>2, Zenon DEF Tally, Step, run, channel
<1>3. CASE outcome[w] # "dial_error" /\ outcome[w] # "exchange_error"
  <2>1. Count("statuses", 1)
    BY <1>3, Zenon DEF Tally
  <2>2. QED
    BY <1>3, <2>1, Zenon DEF Tally, Step, run, channel
<1>4. QED
  BY <1>1, <1>2, <1>3

\* Every step keeps the shape of the state.
LEMMA ShapeInductive == Shape /\ [Next]_vars => Shape'
<1> SUFFICES ASSUME Shape, [Next]_vars PROVE Shape'
  OBVIOUS
<1> USE DEF Shape, Steps, Outcomes
<1>1. CASE Expire \/ Return \/ Produce
  BY <1>1 DEF Expire, Return, Produce, Offer, CountOffered, StopProducing, run, channel
<1>2. ASSUME NEW w \in Workers, Work(w) PROVE Shape'
  <2>1. CASE \/ Receive(w) \/ NoMoreJobs(w) \/ DropJob(w) \/ Begin(w)
             \/ RaisePeak(w) \/ Record(w) \/ EndRequest(w)
    BY <2>1
    DEF Receive, NoMoreJobs, DropJob, Begin, RaisePeak, Record, EndRequest, Step,
        run, channel
  <2>2. CASE Reuse(w)
    BY <2>2 DEF Reuse, Arm, Step, run, channel
  <2>3. CASE Dial(w)
    BY <2>3 DEF Dial, Arm, Step, run, channel
  <2>4. CASE DialFails(w)
    BY <2>4 DEF DialFails, Step, run, channel
  <2>5. CASE Exchange(w)
    <3>1. PICK o \in {"exchange_error", "keep", "close"} :
            outcome' = [outcome EXCEPT ![w] = o]
      BY <2>5 DEF Exchange
    <3>2. QED
      BY <2>5, <3>1 DEF Exchange, Step, run, channel
  <2>6. CASE Join(w)
    BY <2>6 DEF Join, Step, run, channel
  <2>7. CASE Tally(w)
    BY <2>7, TallyEffect DEF CloseConnection
  <2>8. CASE Leave(w)
    BY <2>8 DEF Leave, CloseConnection, Step, run, channel
  <2>9. QED
    BY <1>2, <2>1, <2>2, <2>3, <2>4, <2>5, <2>6, <2>7, <2>8 DEF Work
<1>3. ASSUME NEW w \in Workers, Callback(w) PROVE Shape'
  BY <1>3 DEF Callback, Fire, CloseByContext, run, channel
<1>4. CASE UNCHANGED vars
  BY <1>4 DEF vars
<1>5. QED
  BY <1>1, <1>2, <1>3, <1>4 DEF Next

\* Every step keeps callbacks within their exchange and dead connections unused.
LEMMA CallbacksInductive == Shape /\ Callbacks /\ [Next]_vars => Callbacks'
<1> SUFFICES ASSUME Shape, Callbacks, [Next]_vars PROVE Callbacks'
  OBVIOUS
<1> USE DEF Shape, Callbacks, JoinBeforeRelease
<1>1. CASE Expire \/ Return \/ Produce
  BY <1>1 DEF Expire, Return, Produce, Offer, CountOffered, StopProducing, run
<1>2. ASSUME NEW w \in Workers, Work(w) PROVE Callbacks'
  <2>1. CASE \/ Receive(w) \/ NoMoreJobs(w) \/ DropJob(w) \/ Begin(w)
             \/ RaisePeak(w) \/ Record(w) \/ EndRequest(w)
    BY <2>1
    DEF Receive, NoMoreJobs, DropJob, Begin, RaisePeak, Record, EndRequest, Step, run
  <2>2. CASE Reuse(w)
    BY <2>2 DEF Reuse, Arm, Step, run
  <2>3. CASE Dial(w)
    BY <2>3 DEF Dial, Arm, Step, run
  <2>4. CASE DialFails(w)
    BY <2>4 DEF DialFails, Step, run
  <2>5. CASE Exchange(w)
    <3>1. PICK o \in {"exchange_error", "keep", "close"} :
            outcome' = [outcome EXCEPT ![w] = o]
      BY <2>5 DEF Exchange
    <3>2. QED
      BY <2>5, <3>1 DEF Exchange, Step, run
  <2>6. CASE Join(w)
    BY <2>6 DEF Join, Step, run
  <2>7. CASE Tally(w)
    <3>1. /\ pc[w] = "tallying" /\ pc' = [pc EXCEPT ![w] = "leaving_request"]
          /\ outcome' = [outcome EXCEPT ![w] = "none"]
          /\ ctxDone' = ctxDone /\ closer' = closer
          /\ \/ connection' = [connection EXCEPT ![w] = "none"]
             \/ connection' = connection
      BY <2>7, TallyEffect, Zenon DEF CloseConnection
    <3>2. QED
      BY <3>1
  <2>8. CASE Leave(w)
    BY <2>8 DEF Leave, CloseConnection, Step, run
  <2>9. QED
    BY <1>2, <2>1, <2>2, <2>3, <2>4, <2>5, <2>6, <2>7, <2>8 DEF Work
<1>3. ASSUME NEW w \in Workers, Callback(w) PROVE Callbacks'
  BY <1>3 DEF Callback, Fire, CloseByContext, run
<1>4. CASE UNCHANGED vars
  BY <1>4 DEF vars
<1>5. QED
  BY <1>1, <1>2, <1>3, <1>4 DEF Next

\* Every step keeps the reasons for leaving and returning.
LEMMA EndingsInductive ==
  Shape /\ Numbers /\ Endings /\ [Next]_vars => Endings'
<1> SUFFICES ASSUME Shape, Numbers, Endings, [Next]_vars PROVE Endings'
  OBVIOUS
<1>0. /\ pc \in [Workers -> Steps] /\ counters \in [Fields -> Nat]
      /\ ctxDone \in BOOLEAN /\ returned \in BOOLEAN
      /\ Cardinality(Workers) \in Nat /\ jobs \in 0 .. Cardinality(Workers)
  BY BenchmarkAssumption, FS_CardinalityType DEF Shape, Numbers
<1> USE DEF Endings
<1>1. CASE Expire \/ Return
  BY <1>0, <1>1 DEF Expire, Return, channel
<1>2. CASE Produce
  BY <1>0, <1>2 DEF Produce, Offer, CountOffered, StopProducing, run, Count
<1>3. ASSUME NEW w \in Workers, Work(w) PROVE Endings'
  <2>1. /\ UNCHANGED <<ctxDone, returned, producer>>
        /\ counters'["offered"] = counters["offered"]
        /\ pc[w] # "gone"
        /\ \/ jobs' = jobs
           \/ jobs > 0 /\ jobs' = jobs - 1
        /\ \A v \in Workers : v # w => pc'[v] = pc[v]
        /\ \/ pc'[w] \notin {"leaving", "gone"}
           \/ ctxDone
           \/ jobs = 0 /\ producer = "done"
           \/ pc[w] = "leaving"
    <3>1. CASE NoMoreJobs(w)
      BY <1>0, <3>1 DEF NoMoreJobs, Step, run, channel
    <3>2. CASE DropJob(w)
      <4>1. /\ ctxDone /\ pc[w] = "received" /\ pc' = [pc EXCEPT ![w] = "leaving"]
            /\ UNCHANGED <<ctxDone, returned, producer, jobs, counters>>
        BY <3>2, Zenon DEF DropJob, Step, run, channel
      <4>2. QED
        BY <1>0, <4>1
    <3>3. CASE DialFails(w)
      BY <1>0, <3>3 DEF DialFails, Step, run, channel
    <3>4. CASE Exchange(w)
      BY <1>0, <3>4 DEF Exchange, Step, run, channel
    <3>5. CASE Join(w)
      BY <1>0, <3>5 DEF Join, Step, run, channel
    <3>6. CASE Leave(w)
      BY <1>0, <3>6 DEF Leave, Step, run, channel
    <3>7. CASE Receive(w)
      BY <1>0, <3>7 DEF Receive, Step, run, channel
    <3>8. CASE Begin(w)
      BY <1>0, <3>8 DEF Begin, Step, Count, Fields, run, channel
    <3>9. CASE RaisePeak(w)
      BY <1>0, <3>9 DEF RaisePeak, Step, Count, Fields, run, channel
    <3>10. CASE Reuse(w)
      BY <1>0, <3>10 DEF Reuse, Step, Count, Fields, run, channel
    <3>11. CASE Dial(w)
      BY <1>0, <3>11 DEF Dial, Step, Count, Fields, run, channel
    <3>12. CASE Record(w)
      BY <1>0, <3>12 DEF Record, Step, Count, Fields, run, channel
    <3>13. CASE EndRequest(w)
      BY <1>0, <3>13 DEF EndRequest, Step, Count, Fields, run, channel
    <3>14. CASE Tally(w)
      BY <1>0, <3>14, TallyEffect DEF Count, Fields
    <3>15. QED
      BY <1>3, <3>1, <3>2, <3>3, <3>4, <3>5, <3>6, <3>7, <3>8,
         <3>9, <3>10, <3>11, <3>12, <3>13, <3>14 DEF Work
  <2>2. QED
    BY <1>0, <2>1
<1>4. ASSUME NEW w \in Workers, Callback(w) PROVE Endings'
  BY <1>4 DEF Callback, Fire, CloseByContext, run, channel
<1>5. CASE UNCHANGED vars
  BY <1>5 DEF vars
<1>6. QED
  BY <1>1, <1>2, <1>3, <1>4, <1>5 DEF Next

-----------------------------------------------------------------------------
(* Counting.                                                               *)

Bit(P) == IF P THEN 1 ELSE 0

\* Sets of workers that differ only in w differ by what w counts for.
LEMMA OneMoves ==
  ASSUME NEW S, NEW T, S \subseteq Workers, T \subseteq Workers, NEW w \in Workers,
         \A v \in Workers : v # w => (v \in S <=> v \in T)
  PROVE  /\ Cardinality(S) \in Nat /\ Cardinality(T) \in Nat
         /\ Cardinality(T) = Cardinality(S) + Bit(w \in T) - Bit(w \in S)
         /\ w \in S => Cardinality(S) > 0
         /\ Cardinality(S) <= Cardinality(Workers)
         /\ Cardinality(T) <= Cardinality(Workers)
<1>1. /\ IsFiniteSet(S) /\ IsFiniteSet(T) /\ Cardinality(S) \in Nat
      /\ Cardinality(T) \in Nat
      /\ Cardinality(S) <= Cardinality(Workers)
      /\ Cardinality(T) <= Cardinality(Workers)
  BY BenchmarkAssumption, FS_Subset, FS_CardinalityType
<1>2. CASE w \in S /\ w \in T
  <2>1. S = T
    BY <1>2
  <2>2. Cardinality(S) # 0
    BY <1>1, <1>2, FS_EmptySet
  <2>3. QED
    BY <1>1, <1>2, <2>1, <2>2 DEF Bit
<1>3. CASE w \notin S /\ w \notin T
  <2>1. S = T
    BY <1>3
  <2>2. QED
    BY <1>1, <1>3, <2>1 DEF Bit
<1>4. CASE w \in S /\ w \notin T
  <2>1. S = T \cup {w}
    BY <1>4
  <2>2. Cardinality(S) = Cardinality(T) + 1
    BY <1>1, <1>4, <2>1, FS_AddElement
  <2>3. QED
    BY <1>1, <1>4, <2>2 DEF Bit
<1>5. CASE w \notin S /\ w \in T
  <2>1. T = S \cup {w}
    BY <1>5
  <2>2. Cardinality(T) = Cardinality(S) + 1
    BY <1>1, <1>5, <2>1, FS_AddElement
  <2>3. QED
    BY <1>1, <1>5, <2>2 DEF Bit
<1>6. QED
  BY <1>2, <1>3, <1>4, <1>5

\* What the counted sets gain and lose when one worker moves.
LEMMA WorkerMoves ==
  ASSUME NEW w \in Workers, \A v \in Workers : v # w => pc'[v] = pc[v]
                               /\ outcome'[v] = outcome[v] /\ connection'[v] = connection[v]
  PROVE  /\ Cardinality(Busy') = Cardinality(Busy) + Bit(w \in Busy') - Bit(w \in Busy)
         /\ Cardinality(Tallying') =
              Cardinality(Tallying) + Bit(w \in Tallying') - Bit(w \in Tallying)
         /\ Cardinality(Connected') =
              Cardinality(Connected) + Bit(w \in Connected') - Bit(w \in Connected)
         /\ Cardinality(Refused') =
              Cardinality(Refused) + Bit(w \in Refused') - Bit(w \in Refused)
         /\ Cardinality(Handling') =
              Cardinality(Handling) + Bit(w \in Handling') - Bit(w \in Handling)
         /\ Cardinality(Left') = Cardinality(Left) + Bit(w \in Left') - Bit(w \in Left)
         /\ Cardinality(Holders') =
              Cardinality(Holders) + Bit(w \in Holders') - Bit(w \in Holders)
         /\ w \in Busy => Cardinality(Busy) > 0
         /\ w \in Holders => Cardinality(Holders) > 0
         /\ Cardinality(Busy') <= Cardinality(Workers)
<1>1. \A v \in Workers : v # w =>
        /\ v \in Busy <=> v \in Busy'
        /\ v \in Tallying <=> v \in Tallying'
        /\ v \in Connected <=> v \in Connected'
        /\ v \in Refused <=> v \in Refused'
        /\ v \in Handling <=> v \in Handling'
        /\ v \in Left <=> v \in Left'
        /\ v \in Holders <=> v \in Holders'
  BY DEF Busy, Tallying, Connected, Refused, Handling, Left, Holders
<1>2. /\ Busy \subseteq Workers /\ Busy' \subseteq Workers
      /\ Tallying \subseteq Workers /\ Tallying' \subseteq Workers
      /\ Connected \subseteq Workers /\ Connected' \subseteq Workers
      /\ Refused \subseteq Workers /\ Refused' \subseteq Workers
      /\ Handling \subseteq Workers /\ Handling' \subseteq Workers
      /\ Left \subseteq Workers /\ Left' \subseteq Workers
      /\ Holders \subseteq Workers /\ Holders' \subseteq Workers
  BY DEF Busy, Tallying, Connected, Refused, Handling, Left, Holders
<1>3. /\ Cardinality(Busy') = Cardinality(Busy) + Bit(w \in Busy') - Bit(w \in Busy)
      /\ w \in Busy => Cardinality(Busy) > 0
      /\ Cardinality(Busy') <= Cardinality(Workers)
  BY <1>1, <1>2, OneMoves
<1>4. Cardinality(Tallying') =
        Cardinality(Tallying) + Bit(w \in Tallying') - Bit(w \in Tallying)
  BY <1>1, <1>2, OneMoves
<1>5. Cardinality(Connected') =
        Cardinality(Connected) + Bit(w \in Connected') - Bit(w \in Connected)
  BY <1>1, <1>2, OneMoves
<1>6. Cardinality(Refused') =
        Cardinality(Refused) + Bit(w \in Refused') - Bit(w \in Refused)
  BY <1>1, <1>2, OneMoves
<1>7. Cardinality(Handling') =
        Cardinality(Handling) + Bit(w \in Handling') - Bit(w \in Handling)
  BY <1>1, <1>2, OneMoves
<1>8. Cardinality(Left') = Cardinality(Left) + Bit(w \in Left') - Bit(w \in Left)
  BY <1>1, <1>2, OneMoves
<1>9. /\ Cardinality(Holders') =
           Cardinality(Holders) + Bit(w \in Holders') - Bit(w \in Holders)
      /\ w \in Holders => Cardinality(Holders) > 0
  BY <1>1, <1>2, OneMoves
<1>10. QED
  BY <1>3, <1>4, <1>5, <1>6, <1>7, <1>8, <1>9

\* By how much each counted set grows.
Moved(busy, tallying, connected, refused, handling, left, holders) ==
  /\ Cardinality(Busy') = Cardinality(Busy) + busy
  /\ Cardinality(Tallying') = Cardinality(Tallying) + tallying
  /\ Cardinality(Connected') = Cardinality(Connected) + connected
  /\ Cardinality(Refused') = Cardinality(Refused) + refused
  /\ Cardinality(Handling') = Cardinality(Handling) + handling
  /\ Cardinality(Left') = Cardinality(Left) + left
  /\ Cardinality(Holders') = Cardinality(Holders) + holders

\* The counted sets have sizes.
LEMMA Sizes ==
  /\ Cardinality(Workers) \in Nat /\ Cardinality(Busy) \in Nat
  /\ Cardinality(Tallying) \in Nat /\ Cardinality(Connected) \in Nat
  /\ Cardinality(Refused) \in Nat /\ Cardinality(Handling) \in Nat
  /\ Cardinality(Left) \in Nat /\ Cardinality(Holders) \in Nat
<1>1. /\ Busy \subseteq Workers /\ Tallying \subseteq Workers /\ Connected \subseteq Workers
      /\ Refused \subseteq Workers /\ Handling \subseteq Workers /\ Left \subseteq Workers
      /\ Holders \subseteq Workers
  BY DEF Busy, Tallying, Connected, Refused, Handling, Left, Holders
<1>2. QED
  BY <1>1, BenchmarkAssumption, FS_Subset, FS_CardinalityType

\* A step of the producer or of the clock keeps the counters related.
LEMMA ProducerCounts ==
  BenchmarkIInv /\ (Expire \/ Return \/ Produce) => (Numbers /\ CounterRelations)'
<1> SUFFICES ASSUME BenchmarkIInv, Expire \/ Return \/ Produce
             PROVE  (Numbers /\ CounterRelations)'
  OBVIOUS
<1>1. /\ counters \in [Fields -> Nat] /\ jobs \in 0 .. Cardinality(Workers)
      /\ active \in [Workers -> 0 .. Cardinality(Workers)] /\ sockets \in Nat
      /\ CounterRelations /\ ctxDone \in BOOLEAN
  BY DEF BenchmarkIInv, Numbers, Shape
<1>2. /\ UNCHANGED <<pc, outcome, connection, active, sockets>>
      /\ \/ /\ UNCHANGED <<counters, jobs, producer>>
            /\ ctxDone' \/ ctxDone' = ctxDone
         \/ /\ UNCHANGED <<counters, ctxDone>> /\ jobs < Cardinality(Workers)
            /\ jobs' = jobs + 1
            /\ producer = "offering" /\ producer' = "counting"
         \/ /\ UNCHANGED <<jobs, ctxDone>> /\ Count("offered", 1)
            /\ producer = "counting" /\ producer' = "offering"
         \/ /\ UNCHANGED <<jobs, ctxDone, counters>>
            /\ producer = "offering" /\ producer' = "done"
  <2>1. CASE Expire \/ Return
    BY <2>1, Zenon DEF Expire, Return, channel
  <2>2. CASE Offer
    BY <2>2, Zenon DEF Offer, run
  <2>3. CASE CountOffered
    BY <2>3, Zenon DEF CountOffered, run
  <2>4. CASE StopProducing
    BY <2>4, Zenon DEF StopProducing, run
  <2>5. QED
    BY <2>1, <2>2, <2>3, <2>4 DEF Produce
<1>3. Moved(0, 0, 0, 0, 0, 0, 0)
  <2>1. /\ Busy' = Busy /\ Tallying' = Tallying /\ Connected' = Connected
        /\ Refused' = Refused /\ Handling' = Handling /\ Left' = Left /\ Holders' = Holders
    BY <1>2 DEF Busy, Tallying, Connected, Refused, Handling, Left, Holders
  <2>2. QED
    BY <2>1, Sizes DEF Moved
<1>4. Numbers'
  BY <1>1, <1>2, Sizes DEF Numbers, Count, Fields
<1>5. (NoSocketLeak <=> sockets = Cardinality(Holders))
      /\ (NoSocketLeak <=> sockets = Cardinality(Holders))'
  BY DEF NoSocketLeak, Holders
<1>6. CounterRelations'
  BY <1>1, <1>2, <1>3, <1>5, Sizes
  DEF CounterRelations, Dropped, Moved, Count, Fields
<1>7. QED
  BY <1>4, <1>6

\* A step of a worker keeps the counters related.
LEMMA WorkCounts ==
  ASSUME BenchmarkIInv, Shape', NEW w \in Workers, Work(w)
  PROVE  (Numbers /\ CounterRelations)'
<1>1. /\ counters \in [Fields -> Nat] /\ jobs \in 0 .. Cardinality(Workers)
      /\ active \in [Workers -> 0 .. Cardinality(Workers)] /\ sockets \in Nat
      /\ CounterRelations /\ ctxDone \in BOOLEAN
      /\ pc \in [Workers -> Steps] /\ outcome \in [Workers -> Outcomes]
      /\ connection \in [Workers -> {"none", "open", "dead"}]
      /\ pc[w] = "joining" => outcome[w] # "dial_error"
  BY DEF BenchmarkIInv, Numbers, Shape, Callbacks
<1>2. /\ \A v \in Workers : v # w =>
           pc'[v] = pc[v] /\ outcome'[v] = outcome[v] /\ connection'[v] = connection[v]
      /\ ctxDone' = ctxDone /\ producer' = producer
  <2>1. CASE Receive(w)
    BY <1>1, <2>1 DEF Receive, Step, run, channel
  <2>2. CASE NoMoreJobs(w)
    BY <1>1, <2>2 DEF NoMoreJobs, Step, run, channel
  <2>3. CASE DropJob(w)
    BY <1>1, <2>3 DEF DropJob, Step, run, channel
  <2>4. CASE Begin(w)
    BY <1>1, <2>4 DEF Begin, Step, run, channel
  <2>5. CASE RaisePeak(w)
    BY <1>1, <2>5 DEF RaisePeak, Step, run, channel
  <2>6. CASE Reuse(w)
    BY <1>1, <2>6 DEF Reuse, Step, run, channel
  <2>7. CASE Dial(w)
    BY <1>1, <2>7 DEF Dial, Step, run, channel
  <2>8. CASE DialFails(w)
    BY <1>1, <2>8 DEF DialFails, Step, run, channel
  <2>9. CASE Exchange(w)
    BY <1>1, <2>9 DEF Exchange, Step, run, channel
  <2>10. CASE Join(w)
    BY <1>1, <2>10 DEF Join, Step, run, channel
  <2>11. CASE Record(w)
    BY <1>1, <2>11 DEF Record, Step, run, channel
  <2>12. CASE Tally(w)
    BY <1>1, <2>12, TallyEffect DEF CloseConnection
  <2>13. CASE EndRequest(w)
    BY <1>1, <2>13 DEF EndRequest, Step, run, channel
  <2>14. CASE Leave(w)
    BY <1>1, <2>14 DEF Leave, CloseConnection, Step, run, channel
  <2>15. QED
    BY <2>1, <2>2, <2>3, <2>4, <2>5, <2>6, <2>7, <2>8, <2>9, <2>10, <2>11, <2>12,
       <2>13, <2>14 DEF Work
<1>3. /\ Cardinality(Busy') <= Cardinality(Workers)
      /\ w \in Busy => Cardinality(Busy) > 0
      /\ connection[w] = "open" => Cardinality(Holders) > 0
  BY <1>2, WorkerMoves DEF Holders
<1>4. Moved(Bit(w \in Busy') - Bit(w \in Busy), Bit(w \in Tallying') - Bit(w \in Tallying),
            Bit(w \in Connected') - Bit(w \in Connected),
            Bit(w \in Refused') - Bit(w \in Refused),
            Bit(w \in Handling') - Bit(w \in Handling), Bit(w \in Left') - Bit(w \in Left),
            Bit(connection'[w] = "open") - Bit(connection[w] = "open"))
  <2>1. /\ w \in Holders <=> connection[w] = "open"
        /\ w \in Holders' <=> connection'[w] = "open"
    BY DEF Holders
  <2>2. QED
    BY <1>2, <2>1, WorkerMoves, Sizes DEF Moved, Bit
<1>5. (NoSocketLeak <=> sockets = Cardinality(Holders))
      /\ (NoSocketLeak <=> sockets = Cardinality(Holders))'
  BY DEF NoSocketLeak, Holders
<1>6. /\ w \in Busy <=> pc[w] \in {"raising", "connecting", "exchanging", "joining",
           "recording", "tallying", "leaving_request"}
      /\ w \in Tallying <=> pc[w] = "tallying"
      /\ w \in Connected <=> \/ pc[w] \in {"exchanging", "joining"}
                             \/ pc[w] = "recording" /\ outcome[w] # "dial_error"
      /\ w \in Refused <=> pc[w] = "tallying" /\ outcome[w] = "dial_error"
      /\ w \in Handling <=> pc[w] \in {"received", "raising", "connecting", "exchanging",
           "joining", "recording"}
      /\ w \in Left <=> pc[w] \in {"leaving", "gone"}
  BY DEF Busy, Tallying, Connected, Refused, Handling, Left
<1>7. /\ w \in Busy' <=> pc'[w] \in {"raising", "connecting", "exchanging", "joining",
           "recording", "tallying", "leaving_request"}
      /\ w \in Tallying' <=> pc'[w] = "tallying"
      /\ w \in Connected' <=> \/ pc'[w] \in {"exchanging", "joining"}
                              \/ pc'[w] = "recording" /\ outcome'[w] # "dial_error"
      /\ w \in Refused' <=> pc'[w] = "tallying" /\ outcome'[w] = "dial_error"
      /\ w \in Handling' <=> pc'[w] \in {"received", "raising", "connecting", "exchanging",
           "joining", "recording"}
      /\ w \in Left' <=> pc'[w] \in {"leaving", "gone"}
  BY DEF Busy, Tallying, Connected, Refused, Handling, Left
<1>8. CASE Receive(w)
  <2>1. /\ jobs > 0 /\ jobs' = jobs - 1
        /\ UNCHANGED <<active, sockets, counters>>
    BY <1>8, Zenon DEF Receive, run, channel
  <2>2. /\ pc[w] = "ranging" /\ pc'[w] = "received"
        /\ connection' = connection
    BY <1>1, <1>8 DEF Receive, Step, run, channel
  <2>3. Moved(0, 0, 0, 0, 1, 0, 0)
    <3>1. /\ w \notin Busy /\ w \notin Tallying /\ w \notin Handling /\ w \notin Left
          /\ w \notin Connected
          /\ w \notin Refused
          /\ w \notin Busy' /\ w \notin Tallying' /\ w \in Handling' /\ w \notin Left'
          /\ w \notin Connected'
          /\ w \notin Refused'
      BY <1>1, <1>6, <1>7, <2>2
    <3>2. QED
      BY <1>4, <2>2, <3>1, Sizes DEF Moved, Bit
  <2>4. Numbers'
    BY <1>1, <1>3, <1>5, <1>6, <2>1, <2>2, <2>3, Sizes
    DEF Numbers, Moved, CounterRelations, Count, Fields
  <2>5. CounterRelations'
    BY <1>1, <1>2, <1>3, <1>5, <2>1, <2>3, <2>4, Sizes
    DEF Numbers, Moved, CounterRelations, Dropped, Bit, Count, Fields
  <2>6. QED
    BY <2>4, <2>5
<1>9. CASE NoMoreJobs(w)
  <2>1. /\ UNCHANGED <<jobs, active, sockets, counters>>
    BY <1>9, Zenon DEF NoMoreJobs, run, channel
  <2>2. /\ pc[w] = "ranging" /\ pc'[w] = "leaving"
        /\ connection' = connection
    BY <1>1, <1>9 DEF NoMoreJobs, Step, run, channel
  <2>3. Moved(0, 0, 0, 0, 0, 1, 0)
    <3>1. /\ w \notin Busy /\ w \notin Tallying /\ w \notin Handling /\ w \notin Left
          /\ w \notin Connected
          /\ w \notin Refused
          /\ w \notin Busy' /\ w \notin Tallying' /\ w \notin Handling' /\ w \in Left'
          /\ w \notin Connected'
          /\ w \notin Refused'
      BY <1>1, <1>6, <1>7, <2>2
    <3>2. QED
      BY <1>4, <2>2, <3>1, Sizes DEF Moved, Bit
  <2>4. Numbers'
    BY <1>1, <1>3, <1>5, <1>6, <2>1, <2>2, <2>3, Sizes
    DEF Numbers, Moved, CounterRelations, Count, Fields
  <2>5. CounterRelations'
    BY <1>1, <1>2, <1>3, <1>5, <2>1, <2>3, <2>4, Sizes
    DEF Numbers, Moved, CounterRelations, Dropped, Bit, Count, Fields
  <2>6. QED
    BY <2>4, <2>5
<1>10. CASE DropJob(w)
  <2>1. /\ ctxDone
        /\ UNCHANGED <<jobs, active, sockets, counters>>
    BY <1>10, Zenon DEF DropJob, run, channel
  <2>2. /\ pc[w] = "received" /\ pc'[w] = "leaving"
        /\ connection' = connection
    BY <1>1, <1>10 DEF DropJob, Step, run, channel
  <2>3. Moved(0, 0, 0, 0, -1, 1, 0)
    <3>1. /\ w \notin Busy /\ w \notin Tallying /\ w \in Handling /\ w \notin Left
          /\ w \notin Connected
          /\ w \notin Refused
          /\ w \notin Busy' /\ w \notin Tallying' /\ w \notin Handling' /\ w \in Left'
          /\ w \notin Connected'
          /\ w \notin Refused'
      BY <1>1, <1>6, <1>7, <2>2
    <3>2. QED
      BY <1>4, <2>2, <3>1, Sizes DEF Moved, Bit
  <2>4. Numbers'
    BY <1>1, <1>3, <1>5, <1>6, <2>1, <2>2, <2>3, Sizes
    DEF Numbers, Moved, CounterRelations, Count, Fields
  <2>5. CounterRelations'
    BY <1>1, <1>2, <1>3, <1>5, <2>1, <2>3, <2>4, Sizes
    DEF Numbers, Moved, CounterRelations, Dropped, Bit, Count, Fields
  <2>6. QED
    BY <2>4, <2>5
<1>11. CASE Begin(w)
  <2>1. /\ Count("inFlight", 1)
        /\ active' = [active EXCEPT ![w] = counters'["inFlight"]]
        /\ UNCHANGED <<jobs, sockets>>
    BY <1>11, Zenon DEF Begin, run, channel
  <2>2. /\ pc[w] = "received" /\ pc'[w] = "raising"
        /\ connection' = connection
    BY <1>1, <1>11 DEF Begin, Step, run, channel
  <2>3. Moved(1, 0, 0, 0, 0, 0, 0)
    <3>1. /\ w \notin Busy /\ w \notin Tallying /\ w \in Handling /\ w \notin Left
          /\ w \notin Connected
          /\ w \notin Refused
          /\ w \in Busy' /\ w \notin Tallying' /\ w \in Handling' /\ w \notin Left'
          /\ w \notin Connected'
          /\ w \notin Refused'
      BY <1>1, <1>6, <1>7, <2>2
    <3>2. QED
      BY <1>4, <2>2, <3>1, Sizes DEF Moved, Bit
  <2>4. Numbers'
    BY <1>1, <1>3, <1>5, <1>6, <2>1, <2>2, <2>3, Sizes
    DEF Numbers, Moved, CounterRelations, Count, Fields
  <2>5. CounterRelations'
    BY <1>1, <1>2, <1>3, <1>5, <2>1, <2>3, <2>4, Sizes
    DEF Numbers, Moved, CounterRelations, Dropped, Bit, Count, Fields
  <2>6. QED
    BY <2>4, <2>5
<1>12. CASE RaisePeak(w)
  <2>1. /\ counters' = [counters EXCEPT !["peak"] =
                          IF @ < active[w] THEN active[w] ELSE @]
        /\ active' = [active EXCEPT ![w] = 0]
        /\ UNCHANGED <<jobs, sockets>>
    BY <1>12, Zenon DEF RaisePeak, run, channel
  <2>2. /\ pc[w] = "raising" /\ pc'[w] = "connecting"
        /\ connection' = connection
    BY <1>1, <1>12 DEF RaisePeak, Step, run, channel
  <2>3. Moved(0, 0, 0, 0, 0, 0, 0)
    <3>1. /\ w \in Busy /\ w \notin Tallying /\ w \in Handling /\ w \notin Left
          /\ w \notin Connected
          /\ w \notin Refused
          /\ w \in Busy' /\ w \notin Tallying' /\ w \in Handling' /\ w \notin Left'
          /\ w \notin Connected'
          /\ w \notin Refused'
      BY <1>1, <1>6, <1>7, <2>2
    <3>2. QED
      BY <1>4, <2>2, <3>1, Sizes DEF Moved, Bit
  <2>4. Numbers'
    BY <1>1, <1>3, <1>5, <1>6, <2>1, <2>2, <2>3, Sizes
    DEF Numbers, Moved, CounterRelations, Count, Fields
  <2>5. CounterRelations'
    BY <1>1, <1>2, <1>3, <1>5, <2>1, <2>3, <2>4, Sizes
    DEF Numbers, Moved, CounterRelations, Dropped, Bit, Count, Fields
  <2>6. QED
    BY <2>4, <2>5
<1>13. CASE Reuse(w)
  <2>1. /\ Count("reused", 1)
        /\ UNCHANGED <<jobs, active, sockets>>
    BY <1>13, Zenon DEF Reuse, run, channel
  <2>2. /\ pc[w] = "connecting" /\ pc'[w] = "exchanging"
        /\ connection' = connection
    BY <1>1, <1>13 DEF Reuse, Step, run, channel
  <2>3. Moved(0, 0, 1, 0, 0, 0, 0)
    <3>1. /\ w \in Busy /\ w \notin Tallying /\ w \in Handling /\ w \notin Left
          /\ w \notin Connected
          /\ w \notin Refused
          /\ w \in Busy' /\ w \notin Tallying' /\ w \in Handling' /\ w \notin Left'
          /\ w \in Connected'
          /\ w \notin Refused'
      BY <1>1, <1>6, <1>7, <2>2
    <3>2. QED
      BY <1>4, <2>2, <3>1, Sizes DEF Moved, Bit
  <2>4. Numbers'
    BY <1>1, <1>3, <1>5, <1>6, <2>1, <2>2, <2>3, Sizes
    DEF Numbers, Moved, CounterRelations, Count, Fields
  <2>5. CounterRelations'
    BY <1>1, <1>2, <1>3, <1>5, <2>1, <2>3, <2>4, Sizes
    DEF Numbers, Moved, CounterRelations, Dropped, Bit, Count, Fields
  <2>6. QED
    BY <2>4, <2>5
<1>14. CASE Dial(w)
  <2>1. /\ Count("new", 1)
        /\ sockets' = sockets + 1
        /\ UNCHANGED <<jobs, active>>
    BY <1>14, Zenon DEF Dial, run, channel
  <2>2. /\ pc[w] = "connecting" /\ pc'[w] = "exchanging"
        /\ connection[w] = "none" /\ connection'[w] = "open"
    BY <1>1, <1>14 DEF Dial, Step, run, channel
  <2>3. Moved(0, 0, 1, 0, 0, 0, 1)
    <3>1. /\ w \in Busy /\ w \notin Tallying /\ w \in Handling /\ w \notin Left
          /\ w \notin Connected
          /\ w \notin Refused
          /\ w \in Busy' /\ w \notin Tallying' /\ w \in Handling' /\ w \notin Left'
          /\ w \in Connected'
          /\ w \notin Refused'
      BY <1>1, <1>6, <1>7, <2>2
    <3>2. QED
      BY <1>4, <2>2, <3>1, Sizes DEF Moved, Bit
  <2>4. Numbers'
    BY <1>1, <1>3, <1>5, <1>6, <2>1, <2>2, <2>3, Sizes
    DEF Numbers, Moved, CounterRelations, Count, Fields
  <2>5. CounterRelations'
    BY <1>1, <1>2, <1>3, <1>5, <2>1, <2>3, <2>4, Sizes
    DEF Numbers, Moved, CounterRelations, Dropped, Bit, Count, Fields
  <2>6. QED
    BY <2>4, <2>5
<1>15. CASE DialFails(w)
  <2>1. /\ UNCHANGED <<jobs, active, sockets, counters>>
    BY <1>15, Zenon DEF DialFails, run, channel
  <2>2. /\ pc[w] = "connecting" /\ pc'[w] = "recording"
        /\ outcome'[w] = "dial_error"
        /\ connection' = connection
    BY <1>1, <1>15 DEF DialFails, Step, run, channel
  <2>3. Moved(0, 0, 0, 0, 0, 0, 0)
    <3>1. /\ w \in Busy /\ w \notin Tallying /\ w \in Handling /\ w \notin Left
          /\ w \notin Connected
          /\ w \notin Refused
          /\ w \in Busy' /\ w \notin Tallying' /\ w \in Handling' /\ w \notin Left'
          /\ w \notin Connected'
          /\ w \notin Refused'
      BY <1>1, <1>6, <1>7, <2>2
    <3>2. QED
      BY <1>4, <2>2, <3>1, Sizes DEF Moved, Bit
  <2>4. Numbers'
    BY <1>1, <1>3, <1>5, <1>6, <2>1, <2>2, <2>3, Sizes
    DEF Numbers, Moved, CounterRelations, Count, Fields
  <2>5. CounterRelations'
    BY <1>1, <1>2, <1>3, <1>5, <2>1, <2>3, <2>4, Sizes
    DEF Numbers, Moved, CounterRelations, Dropped, Bit, Count, Fields
  <2>6. QED
    BY <2>4, <2>5
<1>16. CASE Exchange(w)
  <2>1. /\ UNCHANGED <<jobs, active, sockets, counters>>
    BY <1>16, Zenon DEF Exchange, run, channel
  <2>2. /\ pc[w] = "exchanging" /\ pc'[w] = "joining"
        /\ outcome'[w] # "dial_error"
        /\ connection' = connection
    BY <1>1, <1>16 DEF Exchange, Step, run, channel
  <2>3. Moved(0, 0, 0, 0, 0, 0, 0)
    <3>1. /\ w \in Busy /\ w \notin Tallying /\ w \in Handling /\ w \notin Left
          /\ w \in Connected
          /\ w \notin Refused
          /\ w \in Busy' /\ w \notin Tallying' /\ w \in Handling' /\ w \notin Left'
          /\ w \in Connected'
          /\ w \notin Refused'
      BY <1>1, <1>6, <1>7, <2>2
    <3>2. QED
      BY <1>4, <2>2, <3>1, Sizes DEF Moved, Bit
  <2>4. Numbers'
    BY <1>1, <1>3, <1>5, <1>6, <2>1, <2>2, <2>3, Sizes
    DEF Numbers, Moved, CounterRelations, Count, Fields
  <2>5. CounterRelations'
    BY <1>1, <1>2, <1>3, <1>5, <2>1, <2>3, <2>4, Sizes
    DEF Numbers, Moved, CounterRelations, Dropped, Bit, Count, Fields
  <2>6. QED
    BY <2>4, <2>5
<1>17. CASE Join(w)
  <2>1. /\ UNCHANGED <<jobs, active, sockets, counters>>
    BY <1>17, Zenon DEF Join, run, channel
  <2>2. /\ pc[w] = "joining" /\ pc'[w] = "recording"
        /\ outcome' = outcome
        /\ connection' = connection
    BY <1>1, <1>17 DEF Join, Step, run, channel
  <2>3. Moved(0, 0, 0, 0, 0, 0, 0)
    <3>1. /\ w \in Busy /\ w \notin Tallying /\ w \in Handling /\ w \notin Left
          /\ w \in Connected
          /\ w \notin Refused
          /\ w \in Busy' /\ w \notin Tallying' /\ w \in Handling' /\ w \notin Left'
          /\ w \in Connected'
          /\ w \notin Refused'
      BY <1>1, <1>6, <1>7, <2>2
    <3>2. QED
      BY <1>4, <2>2, <3>1, Sizes DEF Moved, Bit
  <2>4. Numbers'
    BY <1>1, <1>3, <1>5, <1>6, <2>1, <2>2, <2>3, Sizes
    DEF Numbers, Moved, CounterRelations, Count, Fields
  <2>5. CounterRelations'
    BY <1>1, <1>2, <1>3, <1>5, <2>1, <2>3, <2>4, Sizes
    DEF Numbers, Moved, CounterRelations, Dropped, Bit, Count, Fields
  <2>6. QED
    BY <2>4, <2>5
<1>18. CASE Record(w)
  <2>1. /\ Count("completed", 1)
        /\ UNCHANGED <<jobs, active, sockets>>
    BY <1>18, Zenon DEF Record, run, channel
  <2>2. /\ pc[w] = "recording" /\ pc'[w] = "tallying"
        /\ outcome' = outcome
        /\ connection' = connection
    BY <1>1, <1>18 DEF Record, Step, run, channel
  <2>3. Moved(0, 1, 0 - Bit(outcome[w] # "dial_error"),
              Bit(outcome[w] = "dial_error"), -1, 0, 0)
    <3>1. /\ w \in Busy /\ w \notin Tallying /\ w \in Handling /\ w \notin Left
          /\ w \in Connected <=> outcome[w] # "dial_error"
          /\ w \notin Refused
          /\ w \in Busy' /\ w \in Tallying' /\ w \notin Handling' /\ w \notin Left'
          /\ w \notin Connected'
          /\ w \in Refused' <=> outcome[w] = "dial_error"
      BY <1>1, <1>6, <1>7, <2>2
    <3>2. QED
      BY <1>4, <2>2, <3>1, Sizes DEF Moved, Bit
  <2>4. Numbers'
    BY <1>1, <1>3, <1>5, <1>6, <2>1, <2>2, <2>3, Sizes
    DEF Numbers, Moved, CounterRelations, Count, Fields
  <2>5. CounterRelations'
    <3>1. CASE outcome[w] = "dial_error"
      BY <1>1, <1>2, <1>3, <1>5, <2>1, <2>3, <2>4, <3>1, Sizes
      DEF Numbers, Moved, CounterRelations, Dropped, Bit, Count, Fields
    <3>2. CASE outcome[w] # "dial_error"
      BY <1>1, <1>2, <1>3, <1>5, <2>1, <2>3, <2>4, <3>2, Sizes
      DEF Numbers, Moved, CounterRelations, Dropped, Bit, Count, Fields
    <3>3. QED
      BY <3>1, <3>2
  <2>6. QED
    BY <2>4, <2>5
<1>19. CASE Tally(w)
  <2>1. /\ \/ outcome[w] = "dial_error" /\ Count("dialErrors", 1)
           \/ outcome[w] = "exchange_error" /\ Count("exchangeErrors", 1)
           \/ outcome[w] \notin {"dial_error", "exchange_error"} /\ Count("statuses", 1)
        /\ \/ connection' = connection /\ sockets' = sockets
           \/ CloseConnection(w)
        /\ UNCHANGED <<jobs, active>>
    BY <1>19, TallyEffect, Zenon
  <2>2. /\ pc[w] = "tallying" /\ pc'[w] = "leaving_request"
    BY <1>1, <1>19, TallyEffect
  <2>3. Moved(0, -1, 0, 0 - Bit(outcome[w] = "dial_error"), 0, 0,
              Bit(connection'[w] = "open") - Bit(connection[w] = "open"))
    <3>1. /\ w \in Busy /\ w \in Tallying /\ w \notin Handling /\ w \notin Left
          /\ w \notin Connected
          /\ w \in Refused <=> outcome[w] = "dial_error"
          /\ w \in Busy' /\ w \notin Tallying' /\ w \notin Handling' /\ w \notin Left'
          /\ w \notin Connected'
          /\ w \notin Refused'
      BY <1>1, <1>6, <1>7, <2>2
    <3>2. QED
      BY <1>4, <2>2, <3>1, Sizes DEF Moved, Bit
  <2>4. Numbers'
    BY <1>1, <1>3, <1>5, <1>6, <2>1, <2>2, <2>3, Sizes
    DEF Numbers, Moved, CounterRelations, Count, Fields, CloseConnection
  <2>5. CounterRelations'
    BY <1>1, <1>2, <1>3, <1>5, <2>1, <2>3, <2>4, Sizes
    DEF Numbers, Moved, CounterRelations, Dropped, Bit, Count, Fields, CloseConnection
  <2>6. QED
    BY <2>4, <2>5
<1>20. CASE EndRequest(w)
  <2>1. /\ Count("inFlight", -1)
        /\ UNCHANGED <<jobs, active, sockets>>
    BY <1>20, Zenon DEF EndRequest, run, channel
  <2>2. /\ pc[w] = "leaving_request" /\ pc'[w] = "ranging"
        /\ connection' = connection
    BY <1>1, <1>20 DEF EndRequest, Step, run, channel
  <2>3. Moved(-1, 0, 0, 0, 0, 0, 0)
    <3>1. /\ w \in Busy /\ w \notin Tallying /\ w \notin Handling /\ w \notin Left
          /\ w \notin Connected
          /\ w \notin Refused
          /\ w \notin Busy' /\ w \notin Tallying' /\ w \notin Handling' /\ w \notin Left'
          /\ w \notin Connected'
          /\ w \notin Refused'
      BY <1>1, <1>6, <1>7, <2>2
    <3>2. QED
      BY <1>4, <2>2, <3>1, Sizes DEF Moved, Bit
  <2>4. Numbers'
    BY <1>1, <1>3, <1>5, <1>6, <2>1, <2>2, <2>3, Sizes
    DEF Numbers, Moved, CounterRelations, Count, Fields
  <2>5. CounterRelations'
    BY <1>1, <1>2, <1>3, <1>5, <2>1, <2>3, <2>4, Sizes
    DEF Numbers, Moved, CounterRelations, Dropped, Bit, Count, Fields
  <2>6. QED
    BY <2>4, <2>5
<1>21. CASE Leave(w)
  <2>1. /\ CloseConnection(w)
        /\ UNCHANGED <<jobs, active, counters>>
    BY <1>21, Zenon DEF Leave, run, channel
  <2>2. /\ pc[w] = "leaving" /\ pc'[w] = "gone"
        /\ connection'[w] = "none"
    BY <1>1, <1>21 DEF Leave, Step, run, channel, CloseConnection
  <2>3. Moved(0, 0, 0, 0, 0, 0, 0 - Bit(connection[w] = "open"))
    <3>1. /\ w \notin Busy /\ w \notin Tallying /\ w \notin Handling /\ w \in Left
          /\ w \notin Connected
          /\ w \notin Refused
          /\ w \notin Busy' /\ w \notin Tallying' /\ w \notin Handling' /\ w \in Left'
          /\ w \notin Connected'
          /\ w \notin Refused'
      BY <1>1, <1>6, <1>7, <2>2
    <3>2. QED
      BY <1>4, <2>2, <3>1, Sizes DEF Moved, Bit
  <2>4. Numbers'
    BY <1>1, <1>3, <1>5, <1>6, <2>1, <2>2, <2>3, Sizes
    DEF Numbers, Moved, CounterRelations, Count, Fields, CloseConnection
  <2>5. CounterRelations'
    BY <1>1, <1>2, <1>3, <1>5, <2>1, <2>2, <2>3, <2>4, Sizes
    DEF Numbers, Moved, CounterRelations, Dropped, Bit, Count, Fields, CloseConnection
  <2>6. QED
    BY <2>4, <2>5
<1>22. QED
  BY <1>8, <1>9, <1>10, <1>11, <1>12, <1>13, <1>14, <1>15, <1>16, <1>17, <1>18, <1>19,
     <1>20, <1>21 DEF Work

\* A callback that closes a connection keeps the counters related.
LEMMA CallbackCounts ==
  ASSUME BenchmarkIInv, NEW w \in Workers, Callback(w)
  PROVE  (Numbers /\ CounterRelations)'
<1>1. /\ counters \in [Fields -> Nat] /\ jobs \in 0 .. Cardinality(Workers)
      /\ active \in [Workers -> 0 .. Cardinality(Workers)] /\ sockets \in Nat
      /\ CounterRelations /\ ctxDone \in BOOLEAN
      /\ connection \in [Workers -> {"none", "open", "dead"}]
  BY DEF BenchmarkIInv, Numbers, Shape
<1>2. /\ UNCHANGED <<pc, outcome, active, counters, ctxDone, producer, jobs>>
      /\ \/ UNCHANGED <<connection, sockets>>
         \/ /\ connection' = [connection EXCEPT ![w] = IF @ = "open" THEN "dead" ELSE @]
            /\ sockets' = IF connection[w] = "open" THEN sockets - 1 ELSE sockets
  BY Zenon DEF Callback, Fire, CloseByContext, run, channel
<1>3. /\ Busy' = Busy /\ Tallying' = Tallying /\ Connected' = Connected
      /\ Refused' = Refused /\ Handling' = Handling /\ Left' = Left
  BY <1>2 DEF Busy, Tallying, Connected, Refused, Handling, Left
<1>4. /\ Cardinality(Holders') =
           Cardinality(Holders) + Bit(w \in Holders') - Bit(w \in Holders)
      /\ w \in Holders => Cardinality(Holders) > 0
  <2>1. /\ Holders \subseteq Workers /\ Holders' \subseteq Workers
        /\ \A v \in Workers : v # w => (v \in Holders <=> v \in Holders')
    BY <1>1, <1>2 DEF Holders
  <2>2. QED
    BY <2>1, OneMoves
<1>5. /\ w \in Holders <=> connection[w] = "open"
      /\ w \in Holders' <=> connection'[w] = "open"
  BY DEF Holders
<1>6. (NoSocketLeak <=> sockets = Cardinality(Holders))
      /\ (NoSocketLeak <=> sockets = Cardinality(Holders))'
  BY DEF NoSocketLeak, Holders
<1>7. sockets' = Cardinality(Holders)' /\ sockets' \in Nat
  BY <1>1, <1>2, <1>4, <1>5, <1>6, Sizes DEF CounterRelations, Bit
<1>8. QED
  BY <1>1, <1>2, <1>3, <1>6, <1>7 DEF Numbers, CounterRelations, Dropped

-----------------------------------------------------------------------------
(* The invariant and what follows from it.                                 *)

\* The initial state satisfies the inductive invariant.
LEMMA BenchmarkInit == Init => BenchmarkIInv
<1> SUFFICES ASSUME Init PROVE BenchmarkIInv
  OBVIOUS
<1>1. /\ Busy = {} /\ Tallying = {} /\ Connected = {} /\ Refused = {}
      /\ Handling = {} /\ Left = {} /\ Holders = {}
  BY DEF Init, Busy, Tallying, Connected, Refused, Handling, Left, Holders
<1>2. Cardinality({}) = 0
  BY FS_EmptySet
<1>3. Shape /\ Callbacks /\ Endings
  BY BenchmarkAssumption
  DEF Init, Shape, Callbacks, JoinBeforeRelease, Endings, Steps, Outcomes
<1>4. Numbers
  BY Sizes DEF Init, Numbers
<1>5. NoSocketLeak
  BY <1>1, <1>2 DEF NoSocketLeak, Holders, Init
<1>6. CounterRelations
  BY <1>1, <1>2, <1>5, Sizes DEF Init, CounterRelations, Dropped, Fields
<1>7. QED
  BY <1>3, <1>4, <1>6 DEF BenchmarkIInv

\* Every step preserves it.
LEMMA BenchmarkInductive == BenchmarkIInv /\ [Next]_vars => BenchmarkIInv'
<1> SUFFICES ASSUME BenchmarkIInv, [Next]_vars PROVE BenchmarkIInv'
  OBVIOUS
<1>1. Shape' /\ Callbacks' /\ Endings'
  BY ShapeInductive, CallbacksInductive, EndingsInductive DEF BenchmarkIInv
<1>2. (Numbers /\ CounterRelations)'
  <2>1. CASE Expire \/ Return \/ Produce
    BY <2>1, ProducerCounts
  <2>2. ASSUME NEW w \in Workers, Work(w) PROVE (Numbers /\ CounterRelations)'
    BY <1>1, <2>2, WorkCounts
  <2>3. ASSUME NEW w \in Workers, Callback(w) PROVE (Numbers /\ CounterRelations)'
    BY <2>3, CallbackCounts
  <2>4. CASE UNCHANGED vars
    <3>1. UNCHANGED <<pc, outcome, connection, active, counters, ctxDone, producer, jobs,
                      sockets>>
      BY <2>4 DEF vars
    <3>2. /\ Busy' = Busy /\ Tallying' = Tallying /\ Connected' = Connected
          /\ Refused' = Refused /\ Handling' = Handling /\ Left' = Left
          /\ NoSocketLeak' = NoSocketLeak
      BY <3>1
      DEF Busy, Tallying, Connected, Refused, Handling, Left, NoSocketLeak
    <3>3. QED
      BY <3>1, <3>2 DEF BenchmarkIInv, Numbers, CounterRelations, Dropped
  <2>5. QED
    BY <2>1, <2>2, <2>3, <2>4 DEF Next
<1>3. QED
  BY <1>1, <1>2 DEF BenchmarkIInv

\* The inductive invariant holds of every reachable state.
LEMMA BenchmarkAlways == Spec => []BenchmarkIInv
  BY BenchmarkInit, BenchmarkInductive, PTL DEF Spec

\* No counter goes below zero, every open socket is held by a worker, and no
\* callback of closeOnContextDone outlives the exchange it was armed for, for any
\* number of workers and whenever the time runs out.
THEOREM WorkersKeep == Spec => []WorkersInv
<1>1. BenchmarkIInv => WorkersInv
  BY DEF BenchmarkIInv, WorkersInv, TypeOK, Shape, Numbers, CounterRelations, Callbacks
<1>2. QED
  BY <1>1, BenchmarkAlways, PTL

\* The result of runBenchmark adds up: although each counter is updated on its
\* own, they agree once every worker is gone.
THEOREM ResultsAddUp == Spec => []ResultAddsUp
<1>1. BenchmarkIInv => ResultAddsUp
  <2> SUFFICES ASSUME BenchmarkIInv, returned PROVE ResultAddsUp
    BY DEF ResultAddsUp
  <2>1. /\ producer = "done" /\ \A w \in Workers : pc[w] = "gone"
        /\ ~ ctxDone => counters["offered"] = MaxRequests /\ jobs = 0
    BY BenchmarkAssumption DEF BenchmarkIInv, Endings
  <2>2. /\ Busy = {} /\ Tallying = {} /\ Connected = {} /\ Refused = {}
        /\ Handling = {} /\ Left = Workers
    BY <2>1 DEF Busy, Tallying, Connected, Refused, Handling, Left
  <2>3. Cardinality({}) = 0
    BY FS_EmptySet
  <2>4. /\ counters \in [Fields -> Nat] /\ jobs \in 0 .. Cardinality(Workers)
        /\ CounterRelations /\ ctxDone \in BOOLEAN
    BY DEF BenchmarkIInv, Numbers, Shape
  <2>5. QED
    BY <2>1, <2>2, <2>3, <2>4, Sizes
    DEF ResultAddsUp, Errors, CounterRelations, Dropped, Fields
<1>2. QED
  BY <1>1, BenchmarkAlways, PTL

\* No request is sent over a connection that the end of the time has closed under
\* its worker: a kept connection that died is closed before the next job begins.
THEOREM ConnectionsLive == Spec => LiveConnections
<1>1. BenchmarkIInv /\ [Next]_vars =>
        [\A w \in Workers : pc[w] = "connecting" /\ pc'[w] = "exchanging" =>
           connection'[w] = "open"]_vars
  <2> SUFFICES ASSUME BenchmarkIInv, Next, NEW w \in Workers,
                      pc[w] = "connecting", pc'[w] = "exchanging"
               PROVE  connection'[w] = "open"
    OBVIOUS
  <2>1. /\ pc \in [Workers -> Steps] /\ connection \in [Workers -> {"none", "open", "dead"}]
        /\ connection[w] # "dead"
    BY DEF BenchmarkIInv, Shape, Callbacks
  <2>2. ~ (Expire \/ Return \/ Produce)
    BY DEF Expire, Return, Produce, Offer, CountOffered, StopProducing
  <2>3. ASSUME NEW v \in Workers, Callback(v) PROVE FALSE
    BY <2>3 DEF Callback, Fire, CloseByContext
  <2>4. PICK v \in Workers : Work(v)
    BY <2>2, <2>3 DEF Next
  <2>5. CASE Reuse(v)
    BY <2>1, <2>5 DEF Reuse, Step
  <2>6. CASE Dial(v)
    BY <2>1, <2>6 DEF Dial, Step
  <2>7. CASE Tally(v)
    BY <2>1, <2>7, TallyEffect
  <2>8. CASE Receive(v) \/ NoMoreJobs(v) \/ DropJob(v) \/ Begin(v) \/ RaisePeak(v)
    BY <2>1, <2>8 DEF Receive, NoMoreJobs, DropJob, Begin, RaisePeak, Step
  <2>9. CASE DialFails(v) \/ Exchange(v) \/ Join(v) \/ Record(v) \/ EndRequest(v) \/ Leave(v)
    BY <2>1, <2>9 DEF DialFails, Exchange, Join, Record, EndRequest, Leave, Step
  <2>10. QED
    BY <2>4, <2>5, <2>6, <2>7, <2>8, <2>9 DEF Work
<1>2. QED
  BY <1>1, BenchmarkAlways, PTL DEF Spec, LiveConnections
=============================================================================
