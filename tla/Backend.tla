------------------------------ MODULE Backend ------------------------------
(***************************************************************************)
(* One proxyBackend of src/resilience.go: the admission semaphore, the     *)
(* in-flight counter and the circuit and active-health state that stateMu  *)
(* protects, used by request goroutines (tryReserve, Complete) and by the  *)
(* backend's one health worker (runProbe, src/health.go).                  *)
(*                                                                         *)
(* Every critical section of stateMu, every atomic or channel operation    *)
(* and every read of the clock is a step of its own, because other         *)
(* goroutines run between them.  The fields stateMu protects are one       *)
(* record, and the functions that run under the lock are operators on that *)
(* record.                                                                 *)
(***************************************************************************)
EXTENDS Integers, Sequences, FiniteSets

CONSTANTS Requests,                 \* request goroutines
          Prober,                   \* the health worker of this backend
          MaxInFlight,              \* capacity of the admission channel
          PassiveFailureThreshold,
          PassiveInterval,
          CircuitCooldown,
          HalfOpenMaxRequests,
          HalfOpenSuccesses,
          ActiveFailureThreshold,
          ActiveSuccessThreshold,
          MaxClock                  \* bound: the clock stops here

\* resilienceConfig.validate and backendConfig.validate.
ASSUME ConfigAssumption ==
  /\ IsFiniteSet(Requests)
  /\ Prober \notin Requests
  /\ MaxInFlight \in Nat \ {0}
  /\ PassiveFailureThreshold \in Nat \ {0}
  /\ PassiveInterval \in Nat \ {0}
  /\ CircuitCooldown \in Nat \ {0}
  /\ HalfOpenMaxRequests \in Nat \ {0}
  /\ HalfOpenSuccesses \in 1 .. HalfOpenMaxRequests
  /\ ActiveFailureThreshold \in Nat \ {0}
  /\ ActiveSuccessThreshold \in Nat \ {0}
  /\ MaxClock \in Nat

Actors == Requests \cup {Prober}

CircuitStates == {"closed", "open", "half-open"}

Outcomes == {"neutral", "success", "failure"}

NoTime == -1                        \* the zero time.Time

Time == 0 .. MaxClock

\* A nil *circuitTransition, and the pairs (From, To) of the others.
NoTransition == <<>>

Transitions == CircuitStates \X CircuitStates

-----------------------------------------------------------------------------
(* The functions that run under stateMu, on the record s of the circuit's  *)
(* fields and, for recordActive, the record h of the active health.        *)

\* The early return for from = to is never taken, and no caller opens a
\* circuit that is open: a transition happened exactly when the state changed.
transitionLocked(s, to, now) ==
  [circuit            |-> to,
   passiveFailures    |-> 0,
   passiveWindowStart |-> now,
   openedAt           |-> IF to = "open" THEN now
                          ELSE IF to = "closed" THEN NoTime ELSE s.openedAt,
   halfOpenInFlight   |-> 0,
   halfOpenSuccesses  |-> 0]

CooldownElapsed(s, now) ==
  s.circuit = "open" /\ now - s.openedAt >= CircuitCooldown

\* Mutant: elapsed time closes the circuit.
CloseAfterCooldown(s, now) ==
  IF CooldownElapsed(s, now) THEN transitionLocked(s, "closed", now) ELSE s

advanceCooldown(s, now) ==
  IF CooldownElapsed(s, now) THEN transitionLocked(s, "half-open", now) ELSE s

PermitFree(s) == s.halfOpenInFlight < HalfOpenMaxRequests

\* tryReserve's check under the lock.
Selectable(h, s) ==
  /\ h.healthy
  /\ s.circuit # "open"
  /\ s.circuit = "half-open" => PermitFree(s)

ClaimPermit(s) == [s EXCEPT !.halfOpenInFlight = @ + 1]

\* Mutant: the permit of a rejected or finished probe is forgotten.
ForgetPermit(s) == s

\* tryReserve returns the permit without the guard that recordPassive has.
UnclaimPermit(s) == [s EXCEPT !.halfOpenInFlight = @ - 1]

\* Mutant: any outcome returns a permit, also one of the closed period.
ReturnAnyPermit(s, permit) ==
  IF s.halfOpenInFlight > 0 THEN UnclaimPermit(s) ELSE s

ReturnPermit(s, permit) ==
  IF permit /\ s.halfOpenInFlight > 0 THEN UnclaimPermit(s) ELSE s

HalfOpenEvidence(s, outcome, now) ==
  IF outcome = "failure"
  THEN transitionLocked(s, "open", now)
  ELSE IF s.halfOpenSuccesses + 1 >= HalfOpenSuccesses
       THEN transitionLocked(s, "closed", now)
       ELSE [s EXCEPT !.halfOpenSuccesses = @ + 1]

WindowExpired(s, now) ==
  \/ s.passiveWindowStart = NoTime
  \/ now - s.passiveWindowStart >= PassiveInterval

\* Mutant: the circuit opens only above the threshold.
OpensAboveThreshold(s, outcome, now) ==
  LET failures == IF WindowExpired(s, now) THEN 1 ELSE s.passiveFailures + 1
      start    == IF WindowExpired(s, now) THEN now ELSE s.passiveWindowStart
  IN  IF outcome = "success"
      THEN [s EXCEPT !.passiveFailures = 0, !.passiveWindowStart = now]
      ELSE IF failures > PassiveFailureThreshold
           THEN transitionLocked(s, "open", now)
           ELSE [s EXCEPT !.passiveFailures = failures,
                          !.passiveWindowStart = start]

\* Mutant: the failures of a window that is over are still counted.
CountAcrossWindows(s, outcome, now) ==
  LET failures == s.passiveFailures + 1
      start    == IF WindowExpired(s, now) THEN now ELSE s.passiveWindowStart
  IN  IF outcome = "success"
      THEN [s EXCEPT !.passiveFailures = 0, !.passiveWindowStart = now]
      ELSE IF failures >= PassiveFailureThreshold
           THEN transitionLocked(s, "open", now)
           ELSE [s EXCEPT !.passiveFailures = failures,
                          !.passiveWindowStart = start]

\* Mutant: a success takes one failure back, whether there was one or not.
SuccessForgivesOne(s, outcome, now) ==
  LET failures == IF WindowExpired(s, now) THEN 1 ELSE s.passiveFailures + 1
      start    == IF WindowExpired(s, now) THEN now ELSE s.passiveWindowStart
  IN  IF outcome = "success"
      THEN [s EXCEPT !.passiveFailures = @ - 1, !.passiveWindowStart = now]
      ELSE IF failures >= PassiveFailureThreshold
           THEN transitionLocked(s, "open", now)
           ELSE [s EXCEPT !.passiveFailures = failures,
                          !.passiveWindowStart = start]

PassiveEvidence(s, outcome, now) ==
  LET failures == IF WindowExpired(s, now) THEN 1 ELSE s.passiveFailures + 1
      start    == IF WindowExpired(s, now) THEN now ELSE s.passiveWindowStart
  IN  IF outcome = "success"
      THEN [s EXCEPT !.passiveFailures = 0, !.passiveWindowStart = now]
      ELSE IF failures >= PassiveFailureThreshold
           THEN transitionLocked(s, "open", now)
           ELSE [s EXCEPT !.passiveFailures = failures,
                          !.passiveWindowStart = start]

recordPassive(s, outcome, permit, now) ==
  LET t == ReturnPermit(s, permit)
  IN  IF outcome = "neutral" THEN t
      ELSE IF t.circuit = "half-open" /\ permit
           THEN HalfOpenEvidence(t, outcome, now)
           ELSE IF t.circuit = "closed"
                THEN PassiveEvidence(t, outcome, now)
                ELSE t

\* The two probe counters are only ever compared with their thresholds, so
\* they count no further than that.
Bump(n, threshold) == IF n < threshold THEN n + 1 ELSE n

recordActive(h, success) ==
  LET good == Bump(h.activeSuccesses, ActiveSuccessThreshold)
      bad  == Bump(h.activeFailures, ActiveFailureThreshold)
  IN  IF success
      THEN [healthy         |-> h.healthy \/ good >= ActiveSuccessThreshold,
            activeFailures  |-> 0,
            activeSuccesses |-> good]
      ELSE [healthy         |-> h.healthy /\ bad < ActiveFailureThreshold,
            activeFailures  |-> bad,
            activeSuccesses |-> 0]

ProbePermitted(s) == s.circuit = "half-open" /\ PermitFree(s)

beginCircuitProbe(s, now) ==
  LET t == advanceCooldown(s, now)
  IN  IF ProbePermitted(t) THEN ClaimPermit(t) ELSE t

-----------------------------------------------------------------------------
VARIABLES clock,       \* what policy.Now returns
          health,      \* healthy, activeFailures, activeSuccesses
          breaker,     \* the other fields stateMu protects: the circuit
          admission,   \* tokens in the admission channel
          inFlight,    \* the atomic counter
          pc,          \* where each goroutine is
          at,          \* the time a goroutine last read, while it uses it
          halfOpen,    \* the goroutine owns a half-open permit
          outcome,     \* what it is about to report
          transition,  \* the transition it is about to publish
          told,        \* arrivals minus departures published, per state
          toldHealthy, \* the health the observer was last told
          streak       \* history: when the failures were read that a closed
                       \* circuit recorded since its last success

shared == <<health, breaker, admission, inFlight>>
local == <<pc, at, halfOpen, outcome, transition>>
observer == <<told, toldHealthy, streak>>
vars == <<clock, health, breaker, admission, inFlight, pc, at, halfOpen,
          outcome, transition, told, toldHealthy, streak>>

Health ==
  [healthy : BOOLEAN,
   activeFailures : 0 .. ActiveFailureThreshold,
   activeSuccesses : 0 .. ActiveSuccessThreshold]

Breaker ==
  [circuit : CircuitStates,
   passiveFailures : Nat,
   passiveWindowStart : Time \cup {NoTime},
   openedAt : Time \cup {NoTime},
   halfOpenInFlight : Int,
   halfOpenSuccesses : Nat]

RequestSteps ==
  {"idle", "reserving", "cooled", "checking", "claimed", "unclaiming",
   "admitted", "serving", "finishing", "recorded", "counted", "publishing"}

ProberSteps ==
  {"idle", "beginning", "begun", "probing", "reporting", "recording",
   "completing", "publishing"}

\* The shape of the state: the counters of a snapshot, and every goroutine at
\* a step of its function.
TypeOK ==
  /\ clock \in Time
  /\ health \in Health
  /\ breaker \in Breaker
  /\ admission \in Nat
  /\ inFlight \in Int
  /\ pc \in [Actors -> RequestSteps \cup ProberSteps]
  /\ \A r \in Requests : pc[r] \in RequestSteps
  /\ pc[Prober] \in ProberSteps
  /\ at \in [Actors -> Time]
  /\ halfOpen \in [Actors -> BOOLEAN]
  /\ outcome \in [Actors -> Outcomes]
  /\ transition \in [Actors -> Transitions \cup {NoTransition}]
  /\ told \in [CircuitStates -> Int]
  /\ toldHealthy \in BOOLEAN
  /\ streak \in Seq(Time)

\* newBackendPoolWithConfig.
InitialHealth ==
  [healthy |-> TRUE, activeFailures |-> 0, activeSuccesses |-> 0]

InitialBreaker ==
  [circuit |-> "closed", passiveFailures |-> 0, passiveWindowStart |-> NoTime,
   openedAt |-> NoTime, halfOpenInFlight |-> 0, halfOpenSuccesses |-> 0]

Init ==
  /\ clock = 0
  /\ health = InitialHealth
  /\ breaker = InitialBreaker
  /\ admission = 0
  /\ inFlight = 0
  /\ pc = [a \in Actors |-> "idle"]
  /\ at = [a \in Actors |-> 0]
  /\ halfOpen = [a \in Actors |-> FALSE]
  /\ outcome = [a \in Actors |-> "neutral"]
  /\ transition = [a \in Actors |-> NoTransition]
  /\ told = [c \in CircuitStates |-> IF c = "closed" THEN 1 ELSE 0]
  /\ toldHealthy = TRUE
  /\ streak = <<>>

-----------------------------------------------------------------------------
Tick ==
  /\ clock < MaxClock
  /\ clock' = clock + 1
  /\ UNCHANGED <<shared, local, observer>>

Step(a, from, to) ==
  /\ pc[a] = from
  /\ pc' = [pc EXCEPT ![a] = to]

\* The goroutine reads the clock into a local it passes down.
ReadClock(a) == at' = [at EXCEPT ![a] = clock]

\* A local that is dead keeps no value, so that states differ only in what
\* the goroutine can still use.
ForgetClock(a) == at' = [at EXCEPT ![a] = 0]

\* One critical section of stateMu, and the transition it hands back.
Locked(a, state) ==
  /\ breaker' = state
  /\ transition' = [transition EXCEPT ![a] =
       IF state.circuit = breaker.circuit
       THEN NoTransition
       ELSE <<breaker.circuit, state.circuit>>]

\* The history k of what the circuit s was told, when it becomes t: failures
\* add up until a success, or until a half-open probe decides the open circuit.
Noted(k, s, t, reported, now) ==
  IF s.circuit = "closed"
  THEN IF reported = "failure" THEN Append(k, now)
       ELSE IF reported = "success" THEN <<>> ELSE k
  ELSE IF t.circuit = s.circuit THEN k ELSE <<>>

\* publishTransition: the observer hears of it, after the lock was released.
Publish(a) ==
  /\ transition[a] # NoTransition
  /\ told' = [told EXCEPT ![transition[a][1]] = @ - 1,
                          ![transition[a][2]] = @ + 1]
  /\ transition' = [transition EXCEPT ![a] = NoTransition]
  /\ UNCHANGED <<toldHealthy, streak>>

-----------------------------------------------------------------------------
(* A request: reserveNextExcluding reads the clock and calls tryReserve;   *)
(* executeProxyRequest later calls Complete with the time it finished.     *)

BeginReserve(r) ==
  /\ Step(r, "idle", "reserving")
  /\ ReadClock(r)
  /\ UNCHANGED <<clock, shared, halfOpen, outcome, transition, observer>>

AdvanceCooldown(r) ==
  /\ pc[r] = "reserving"
  /\ Locked(r, advanceCooldown(breaker, at[r]))
  /\ pc' = [pc EXCEPT ![r] =
       IF CooldownElapsed(breaker, at[r]) THEN "cooled" ELSE "checking"]
  /\ ForgetClock(r)
  /\ UNCHANGED <<clock, health, admission, inFlight, halfOpen, outcome, observer>>

PublishCooldown(r) ==
  /\ Step(r, "cooled", "checking")
  /\ Publish(r)
  /\ UNCHANGED <<clock, shared, at, halfOpen, outcome>>

Claim(r) ==
  /\ Step(r, "checking", "claimed")
  /\ Selectable(health, breaker)
  /\ breaker' = IF breaker.circuit = "half-open"
                THEN ClaimPermit(breaker) ELSE breaker
  /\ halfOpen' = [halfOpen EXCEPT ![r] = breaker.circuit = "half-open"]
  /\ UNCHANGED <<clock, health, admission, inFlight, at, outcome, transition,
                 observer>>

Ineligible(r) ==
  /\ Step(r, "checking", "idle")
  /\ ~ Selectable(health, breaker)
  /\ UNCHANGED <<clock, shared, at, halfOpen, outcome, transition, observer>>

\* The select with a default case: a token is taken if there is room.
Admit(r) ==
  /\ Step(r, "claimed", "admitted")
  /\ admission < MaxInFlight
  /\ admission' = admission + 1
  /\ UNCHANGED <<clock, health, breaker, inFlight, at, halfOpen, outcome,
                 transition, observer>>

\* Mutant: a full semaphore does not stop the request.
IgnoreFullSemaphore(r) ==
  /\ Step(r, "claimed", "admitted")
  /\ admission >= MaxInFlight
  /\ UNCHANGED <<clock, shared, at, halfOpen, outcome, transition, observer>>

RejectAdmission(r) ==
  /\ pc[r] = "claimed"
  /\ admission >= MaxInFlight
  /\ pc' = [pc EXCEPT ![r] = IF halfOpen[r] THEN "unclaiming" ELSE "idle"]
  /\ UNCHANGED <<clock, shared, at, halfOpen, outcome, transition, observer>>

Unclaim(r) ==
  /\ Step(r, "unclaiming", "idle")
  /\ breaker' = UnclaimPermit(breaker)
  /\ halfOpen' = [halfOpen EXCEPT ![r] = FALSE]
  /\ UNCHANGED <<clock, health, admission, inFlight, at, outcome, transition,
                 observer>>

CountIn(r) ==
  /\ Step(r, "admitted", "serving")
  /\ inFlight' = inFlight + 1
  /\ UNCHANGED <<clock, health, breaker, admission, at, halfOpen, outcome,
                 transition, observer>>

\* Mutant: nothing ends an attempt at a backend that is being probed.
FinishWithoutDeadline(r) ==
  /\ Step(r, "serving", "finishing")
  /\ ~ halfOpen[r]
  /\ \E o \in Outcomes : outcome' = [outcome EXCEPT ![r] = o]
  /\ ReadClock(r)
  /\ UNCHANGED <<clock, shared, halfOpen, transition, observer>>

\* The attempt ended: any outcome, classified at the time it ended.
Finish(r) ==
  /\ Step(r, "serving", "finishing")
  /\ \E o \in Outcomes : outcome' = [outcome EXCEPT ![r] = o]
  /\ ReadClock(r)
  /\ UNCHANGED <<clock, shared, halfOpen, transition, observer>>

RecordOutcome(r) ==
  /\ Step(r, "finishing", "recorded")
  /\ Locked(r, recordPassive(breaker, outcome[r], halfOpen[r], at[r]))
  /\ streak' = Noted(streak, breaker, breaker', outcome[r], at[r])
  /\ halfOpen' = [halfOpen EXCEPT ![r] = FALSE]
  /\ outcome' = [outcome EXCEPT ![r] = "neutral"]
  /\ ForgetClock(r)
  /\ UNCHANGED <<clock, health, admission, inFlight, told, toldHealthy>>

CountOut(r) ==
  /\ Step(r, "recorded", "counted")
  /\ inFlight' = inFlight - 1
  /\ UNCHANGED <<clock, health, breaker, admission, at, halfOpen, outcome,
                 transition, observer>>

\* Mutant: Complete returns without publishing the transition.
ReleaseWithoutPublishing(r) ==
  /\ Step(r, "counted", "idle")
  /\ admission > 0
  /\ admission' = admission - 1
  /\ UNCHANGED <<clock, health, breaker, inFlight, at, halfOpen, outcome,
                 transition, observer>>

ReleaseToken(r) ==
  /\ pc[r] = "counted"
  /\ admission > 0
  /\ admission' = admission - 1
  /\ pc' = [pc EXCEPT ![r] =
       IF transition[r] = NoTransition THEN "idle" ELSE "publishing"]
  /\ UNCHANGED <<clock, health, breaker, inFlight, at, halfOpen, outcome,
                 transition, observer>>

PublishOutcome(a) ==
  /\ Step(a, "publishing", "idle")
  /\ Publish(a)
  /\ UNCHANGED <<clock, shared, at, halfOpen, outcome>>

InProgress(r) ==
  \/ AdvanceCooldown(r) \/ PublishCooldown(r) \/ Claim(r) \/ Ineligible(r)
  \/ Admit(r) \/ RejectAdmission(r) \/ Unclaim(r) \/ CountIn(r) \/ Finish(r)
  \/ RecordOutcome(r) \/ CountOut(r) \/ ReleaseToken(r) \/ PublishOutcome(r)

Request(r) == BeginReserve(r) \/ InProgress(r)

-----------------------------------------------------------------------------
(* The health worker's runProbe.                                           *)

BeginProbe ==
  /\ Step(Prober, "idle", "beginning")
  /\ ReadClock(Prober)
  /\ UNCHANGED <<clock, shared, halfOpen, outcome, transition, observer>>

\* Mutant: the health worker waits for a request to end the cooldown.
ClaimWithoutCooldown ==
  /\ Step(Prober, "beginning", "probing")
  /\ breaker' = IF ProbePermitted(breaker) THEN ClaimPermit(breaker) ELSE breaker
  /\ halfOpen' = [halfOpen EXCEPT ![Prober] = ProbePermitted(breaker)]
  /\ ForgetClock(Prober)
  /\ UNCHANGED <<clock, health, admission, inFlight, outcome, transition, observer>>

ClaimProbe ==
  /\ pc[Prober] = "beginning"
  /\ Locked(Prober, beginCircuitProbe(breaker, at[Prober]))
  /\ halfOpen' = [halfOpen EXCEPT ![Prober] =
       ProbePermitted(advanceCooldown(breaker, at[Prober]))]
  /\ pc' = [pc EXCEPT ![Prober] =
       IF CooldownElapsed(breaker, at[Prober]) THEN "begun" ELSE "probing"]
  /\ ForgetClock(Prober)
  /\ UNCHANGED <<clock, health, admission, inFlight, outcome, observer>>

PublishProbe ==
  /\ Step(Prober, "begun", "probing")
  /\ Publish(Prober)
  /\ UNCHANGED <<clock, shared, at, halfOpen, outcome>>

\* The probe returns, by its own timeout at the latest, or canceled by Stop,
\* which counts as a failure.
RecordProbe ==
  /\ pc[Prober] = "probing"
  /\ \E success \in BOOLEAN :
       /\ health' = recordActive(health, success)
       /\ outcome' = [outcome EXCEPT ![Prober] =
            IF success THEN "success" ELSE "failure"]
  /\ pc' = [pc EXCEPT ![Prober] =
       IF health'.healthy = health.healthy THEN "recording" ELSE "reporting"]
  /\ UNCHANGED <<clock, breaker, admission, inFlight, at, halfOpen, transition,
                 observer>>

\* OnHealthTransition.  The worker is the only writer of healthy.
ReportHealth ==
  /\ Step(Prober, "reporting", "recording")
  /\ toldHealthy' = ~ toldHealthy
  /\ UNCHANGED <<clock, shared, at, halfOpen, outcome, transition, told, streak>>

EndProbe ==
  /\ Step(Prober, "recording", "completing")
  /\ ReadClock(Prober)
  /\ UNCHANGED <<clock, shared, halfOpen, outcome, transition, observer>>

\* completeCircuitProbe: a probe without a permit leaves the circuit alone.
CompleteProbe ==
  LET state == IF halfOpen[Prober]
               THEN recordPassive(breaker, outcome[Prober], TRUE, at[Prober])
               ELSE breaker
  IN  /\ pc[Prober] = "completing"
      /\ Locked(Prober, state)
      /\ streak' = IF halfOpen[Prober]
                   THEN Noted(streak, breaker, state, outcome[Prober], at[Prober])
                   ELSE streak
      /\ pc' = [pc EXCEPT ![Prober] =
           IF state.circuit = breaker.circuit THEN "idle" ELSE "publishing"]
      /\ halfOpen' = [halfOpen EXCEPT ![Prober] = FALSE]
      /\ outcome' = [outcome EXCEPT ![Prober] = "neutral"]
      /\ ForgetClock(Prober)
      /\ UNCHANGED <<clock, health, admission, inFlight, told, toldHealthy>>

Probe ==
  \/ BeginProbe \/ ClaimProbe \/ PublishProbe \/ RecordProbe \/ ReportHealth
  \/ EndProbe \/ CompleteProbe \/ PublishOutcome(Prober)

-----------------------------------------------------------------------------
Next == Tick \/ Probe \/ \E r \in Requests : Request(r)

Spec == Init /\ [][Next]_vars

\* The clock advances, the health worker's ticker keeps firing, and a request
\* that has started ends: every network operation in it has a deadline.  That
\* clients keep sending requests is not assumed.
Fairness ==
  /\ WF_vars(Tick)
  /\ WF_vars(Probe)
  /\ \A r \in Requests : WF_vars(InProgress(r))

FairSpec == Spec /\ Fairness

-----------------------------------------------------------------------------
(* What the backend promises.                                              *)

TokenSteps == {"admitted", "serving", "finishing", "recorded", "counted"}

CountedSteps == {"serving", "finishing", "recorded"}

TokenHolders == {r \in Requests : pc[r] \in TokenSteps}

CountedRequests == {r \in Requests : pc[r] \in CountedSteps}

PermitHolders == {a \in Actors : halfOpen[a]}

\* Every token in the admission channel belongs to exactly one request between
\* tryReserve and the end of Complete, the bound is never exceeded, and the
\* in_flight of a snapshot counts requests that really hold a token: no path
\* through rejection, retry or completion loses or duplicates one.
AdmissionExact ==
  /\ admission = Cardinality(TokenHolders)
  /\ admission <= MaxInFlight
  /\ inFlight = Cardinality(CountedRequests)

\* No half-open permit is leaked, whatever the order in which probes of this
\* and of earlier half-open periods end: the counter that rejects probes never
\* exceeds the probes outstanding, so a backend with none is always probeable.
NoPermitLeak ==
  /\ breaker.halfOpenInFlight <= Cardinality(PermitHolders)
  /\ breaker.halfOpenInFlight <= HalfOpenMaxRequests

\* "maximum concurrent half-open probes" (src/proxy_cli.go, -half-open-max):
\* the reservations and health probes that hold a half-open permit.
BoundedProbes == Cardinality(PermitHolders) <= HalfOpenMaxRequests

\* With the default limit of one probe, the permit in use is counted, and it
\* was issued in the half-open period that its outcome will decide: the verdict
\* of an earlier period never closes or reopens the circuit.
ProbeIsCurrent ==
  HalfOpenMaxRequests = 1 =>
    /\ breaker.halfOpenInFlight = Cardinality(PermitHolders)
    /\ PermitHolders # {} => breaker.circuit = "half-open"

Latest(n) == Len(streak) - n + 1 .. Len(streak)

\* The latest n failures of the streak were all read within one interval.
Burst(n) ==
  \E t \in Time : \A i \in Latest(n) : t <= streak[i] /\ streak[i] < t + PassiveInterval

\* While the circuit is closed, no burst is too long.  The window is tumbling:
\* its end may divide a burst, and each part stays one below the threshold.
BurstsOpen ==
  breaker.circuit = "closed" =>
    \A n \in 1 .. Len(streak) : Burst(n) => n <= 2 * (PassiveFailureThreshold - 1)

\* The circuit opens on a whole threshold of failures in a row, none of which
\* was read after the end of the window that the first of them was counted in.
OpensOnEvidence ==
  breaker.circuit = "closed" /\ breaker'.circuit = "open" =>
    /\ PassiveFailureThreshold <= Len(streak')
    /\ PassiveFailureThreshold > 1 =>
         \A i \in Latest(PassiveFailureThreshold)' :
           streak'[i] < breaker.passiveWindowStart + PassiveInterval

\* "Passive refusal, timeout ... feed a rolling failure window" (src/README.md):
\* what the tumbling window of recordPassive keeps of that promise, for reports
\* that arrive in any order and with times read before the lock was taken.
\* A closed circuit opens on nothing less than PassiveFailureThreshold failures
\* of one window with no success between them, and it cannot stay closed
\* through 2 * PassiveFailureThreshold - 1 failures in a row that were read
\* within one interval.
EvidenceDecides == []BurstsOpen /\ [][OpensOnEvidence]_vars

Arriving(c) == {a \in Actors : transition[a] # NoTransition /\ transition[a][2] = c}

Departing(c) == {a \in Actors : transition[a] # NoTransition /\ transition[a][1] = c}

\* Between two probes the observer knows the health that selection uses.
HealthTold == pc[Prober] # "reporting" => toldHealthy = health.healthy

\* "Circuit ... callbacks add exact previous/new state events": counting the
\* events published and those about to be, the circuit has arrived in its state
\* once more than it has left it, and in no other.  No transition is lost,
\* invented or reported twice by goroutines that publish after unlocking, and
\* neither is one of health.
TransitionsAccounted ==
  /\ \A c \in CircuitStates :
       told[c] + Cardinality(Arriving(c)) - Cardinality(Departing(c))
         = IF breaker.circuit = c THEN 1 ELSE 0
  /\ HealthTold

Abstract == INSTANCE Circuit WITH circuit <- breaker.circuit,
                                  openedAt <- breaker.openedAt,
                                  evidence <- breaker.halfOpenSuccesses

\* The backend behaves as the circuit of module Circuit, under every
\* interleaving and with times read before the lock was taken: no open circuit
\* is left early, and none closes without its successes.
ImplementsCircuit == Abstract!Spec

\* An open circuit is probed even if no client ever calls again.  MaxClock
\* bounds the claim to circuits that can cool down before the clock stops.
OpenIsProbed ==
  \A t \in Time :
    t + CircuitCooldown <= MaxClock =>
      (breaker.circuit = "open" /\ breaker.openedAt = t)
        ~> breaker.circuit = "half-open"

\* A half-open circuit whose permits are all taken gets one back or is decided:
\* it is never stuck rejecting everybody.
PermitsReturn ==
  (breaker.circuit = "half-open" /\ ~ PermitFree(breaker))
    ~> (breaker.circuit # "half-open" \/ PermitFree(breaker))
=============================================================================
