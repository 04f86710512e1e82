------------------------------ MODULE Receipt ------------------------------
(***************************************************************************)
(* What an experiment is asked and what it answers, as functions: the      *)
(* schedule and the validation of a scenario (src/scenario.go), and the    *)
(* receipt derived from a ledger with its assertions (src/receipt.go).     *)
(*                                                                         *)
(* Times are numbers, a rate is a number of successes in a hundred.  What  *)
(* the seed's generator returns for a step is part of the scenario: its    *)
(* draw.  Events are numbered by their place in the ledger; the clock is   *)
(* read before the number is taken, so elapsed times may be out of order.  *)
(***************************************************************************)
EXTENDS Integers, SequencesExt, FiniteSets

Modes == {"healthy", "delayed", "failure", "truncated", "unavailable", "recovered"}

isFaultMode(mode) == mode \in {"delayed", "failure", "truncated", "unavailable"}

-----------------------------------------------------------------------------
(* The scenario: duration, initial (a mode for each fixture), steps, and   *)
(* requireRecovery.  A step: at, jitter, draw, fixture, mode.              *)

Resolved(steps) ==
  [i \in DOMAIN steps |->
     [index |-> i, at |-> steps[i].at + steps[i].draw,
      fixture |-> steps[i].fixture, mode |-> steps[i].mode]]

Before(a, b) == a.at < b.at \/ (a.at = b.at /\ a.index < b.index)

\* sort.SliceStable: each step at the place that the steps before it leave.
Place(steps, i) == 1 + Cardinality({j \in DOMAIN steps : Before(steps[j], steps[i])})

Sorted(steps) ==
  [k \in DOMAIN steps |-> steps[CHOOSE i \in DOMAIN steps : Place(steps, i) = k]]

schedule(steps) == Sorted(Resolved(steps))

\* A fixture has a mode at first, a step is at a fixture, and the generator is
\* asked for no more than the jitter.
IsScenario(scenario) ==
  /\ scenario.duration \in Int
  /\ scenario.initial \in [DOMAIN scenario.initial -> Modes]
  /\ scenario.steps \in Seq([at : Int, jitter : Int, draw : Int,
                             fixture : DOMAIN scenario.initial, mode : Modes])
  /\ \A s \in ToSet(scenario.steps) :
       IF s.jitter > 0 THEN - s.jitter <= s.draw /\ s.draw <= s.jitter ELSE s.draw = 0

StepsInTime(scenario) ==
  \A s \in ToSet(scenario.steps) :
    /\ 0 <= s.at /\ s.at < scenario.duration
    /\ 0 <= s.jitter /\ s.jitter <= s.at /\ s.jitter < scenario.duration - s.at

\* The modes of all fixtures after each of the steps.
resolvedModes(initial, steps) ==
  LET modes[k \in 0 .. Len(steps)] ==
        IF k = 0 THEN initial ELSE [modes[k - 1] EXCEPT ![steps[k].fixture] = steps[k].mode]
  IN modes

RecoversFaults(initial, steps) ==
  \A k \in DOMAIN steps :
    steps[k].mode = "recovered" => isFaultMode(resolvedModes(initial, steps)[k - 1][steps[k].fixture])

HasMode(steps, P(_)) == \E s \in ToSet(steps) : P(s.mode)

FaultsAndRecovers(scenario) ==
  /\ HasMode(scenario.steps, isFaultMode)
  /\ scenario.requireRecovery => HasMode(scenario.steps, LAMBDA mode : mode = "recovered")

\* Mutant: the steps are judged in the order of the file.
ValidateAsWritten(scenario) ==
  /\ \A f \in DOMAIN scenario.initial : scenario.initial[f] # "recovered"
  /\ scenario.steps # <<>> /\ StepsInTime(scenario)
  /\ RecoversFaults(scenario.initial, Resolved(scenario.steps))
  /\ FaultsAndRecovers(scenario)

validate(scenario) ==
  /\ \A f \in DOMAIN scenario.initial : scenario.initial[f] # "recovered"
  /\ scenario.steps # <<>> /\ StepsInTime(scenario)
  /\ RecoversFaults(scenario.initial, schedule(scenario.steps))
  /\ FaultsAndRecovers(scenario)

-----------------------------------------------------------------------------
(* The receipt.  An event: type, fixture, mode, status, elapsed.           *)

\* What the ledger may hold, and the thresholds that validate lets pass.
IsLedger(events) ==
  events \in Seq([type : STRING, fixture : STRING, mode : STRING, status : Int, elapsed : Nat])

IsExpectation(expected) ==
  expected \in [minimumSuccessRate : 0 .. 100, maximumFailureRun : Nat,
                maximumFailover : Nat, requireRecovery : BOOLEAN]

successfulStatus(status) == 200 <= status /\ status < 400

Completed(e) == e.type = "completed"
Succeeded(e) == Completed(e) /\ successfulStatus(e.status)

\* Where the ledger has them.
Completions(events) == {i \in DOMAIN events : Completed(events[i])}
Successes(events) == {i \in DOMAIN events : Succeeded(events[i])}

\* The failures since the last success, after each event.
failureRuns(events) ==
  LET run[k \in 0 .. Len(events)] ==
        CASE k = 0 -> 0
          [] k > 0 /\ ~ Completed(events[k]) -> run[k - 1]
          [] k > 0 /\ Succeeded(events[k]) -> 0
          [] OTHER -> run[k - 1] + 1
  IN run

\* The first event after i that Shows the effect, and how long it took.
Measure(events, i, Shows(_)) ==
  LET j == SelectInSubSeq(events, i + 1, Len(events), Shows)
  IN [fixture |-> events[i].fixture, sequence |-> i, observed |-> j # 0,
      duration |-> IF j = 0 THEN 0 ELSE Max({events[j].elapsed - events[i].elapsed, 0})]

Transitions(events, P(_)) ==
  {i \in DOMAIN events : events[i].type = "transition" /\ P(events[i].mode)}

deriveFailovers(events) ==
  {Measure(events, i, LAMBDA e : Succeeded(e) /\ e.fixture \notin {"", events[i].fixture}) :
     i \in Transitions(events, isFaultMode)}

deriveRecoveries(events) ==
  {Measure(events, i, LAMBDA e : Succeeded(e) /\ e.fixture = events[i].fixture) :
     i \in Transitions(events, LAMBDA mode : mode = "recovered")}

\* Mutant: one measurement is enough.
SomeObserved(measurements) == \E m \in measurements : m.observed

AllObserved(measurements) == measurements # {} /\ \A m \in measurements : m.observed

evaluateAssertions(expected, receipt) ==
  /\ receipt.successes * 100 >= expected.minimumSuccessRate * receipt.requests
  /\ receipt.requests = 0 => expected.minimumSuccessRate = 0
  /\ receipt.maximumFailureRun <= expected.maximumFailureRun
  /\ AllObserved(receipt.failovers)
  /\ Max({m.duration : m \in receipt.failovers} \cup {0}) <= expected.maximumFailover
  /\ expected.requireRecovery => AllObserved(receipt.recoveries)
  /\ receipt.benchmarkCompleted = receipt.requests

deriveReceipt(expected, events, benchmarkCompleted) ==
  LET receipt == [requests |-> Cardinality(Completions(events)),
                  successes |-> Cardinality(Successes(events)),
                  maximumFailureRun |-> Max(Range(failureRuns(events))),
                  failovers |-> deriveFailovers(events),
                  recoveries |-> deriveRecoveries(events),
                  benchmarkCompleted |-> benchmarkCompleted]
  IN [receipt |-> receipt, passed |-> evaluateAssertions(expected, receipt)]

-----------------------------------------------------------------------------
(* What a scenario and a receipt say, without the functions above          *)

\* A schedule that runs in the order of time, and of the file where times are
\* equal, in which every fixture recovers from a fault.
Runs(scenario, steps) ==
  LET Holds(k, f) ==   \* the mode of fixture f when step k is taken
        LET last == SelectLastInSubSeq(steps, 1, k - 1, LAMBDA s : s.fixture = f)
        IN IF last = 0 THEN scenario.initial[f] ELSE steps[last].mode
  IN /\ Len(steps) = Len(scenario.steps)
     /\ {s.index : s \in ToSet(steps)} = DOMAIN scenario.steps
     /\ \A i, j \in DOMAIN steps : i < j => Before(steps[i], steps[j])
     /\ \A k \in DOMAIN steps :
          /\ steps[k].at \in 0 .. scenario.duration - 1
          /\ steps[k].mode = scenario.steps[steps[k].index].mode
          /\ steps[k].mode = "recovered" => isFaultMode(Holds(k, steps[k].fixture))

InOrder(events) == \A i, j \in DOMAIN events : i < j => events[i].elapsed <= events[j].elapsed

\* Somebody else has answered, within the limit, after every fault; whoever was
\* to recover has answered after it; and no more than the allowed number of
\* requests failed in a row.
Evidence(expected, events) ==
  LET Answers(i, f) == \E j \in DOMAIN events : i < j /\ Succeeded(events[j]) /\ events[j].fixture = f
      Replaces(i) ==
        \E j \in DOMAIN events :
          /\ i < j /\ Succeeded(events[j]) /\ events[j].fixture \notin {"", events[i].fixture}
          /\ events[j].elapsed - events[i].elapsed <= expected.maximumFailover
      faults == Transitions(events, isFaultMode)
      recoveries == Transitions(events, LAMBDA mode : mode = "recovered")
  IN /\ faults # {} /\ \A i \in faults : Replaces(i)
     /\ expected.requireRecovery =>
          recoveries # {} /\ \A i \in recoveries : Answers(i, events[i].fixture)
     /\ \A i, j \in DOMAIN events :
          Cardinality(Completions(events) \cap (i .. j)) > expected.maximumFailureRun =>
            Successes(events) \cap (i .. j) # {}
=============================================================================
