--------------------------- MODULE BackendProofs ---------------------------
(***************************************************************************)
(* Theorems about one backend, modules Backend and UpstreamPool, for every *)
(* number of requests and every configuration that                         *)
(* resilienceConfig.validate accepts.  The first part is about tokens,     *)
(* counters and permits, the second about what the circuit tells the       *)
(* outside: it implements module Circuit, it opens on the failures of one  *)
(* window and on every burst of them, and the observer is told of every    *)
(* transition once.  The last part is about the pool of its connections.   *)
(***************************************************************************)
EXTENDS Backend, UpstreamPool, FiniteSetTheorems, TLAPS

-----------------------------------------------------------------------------
(* The functions under the lock keep the state well formed.                *)

\* What transitionLocked leaves behind.
LEMMA TransitionLockedType ==
  ASSUME NEW s \in Breaker, NEW to \in CircuitStates, NEW now \in Time
  PROVE  transitionLocked(s, to, now) \in Breaker
  BY DEF transitionLocked, Breaker, CircuitStates

\* advanceCooldown either leaves the state alone or makes it half-open.
LEMMA AdvanceCooldownType ==
  ASSUME NEW s \in Breaker, NEW now \in Time
  PROVE  advanceCooldown(s, now) \in Breaker
  BY TransitionLockedType DEF advanceCooldown, CircuitStates

\* Claiming and returning a permit changes the counter and nothing else.
LEMMA PermitType ==
  ASSUME NEW s \in Breaker, NEW permit \in BOOLEAN
  PROVE  /\ ClaimPermit(s) \in Breaker
         /\ UnclaimPermit(s) \in Breaker
         /\ ReturnPermit(s, permit) \in Breaker
  BY DEF ClaimPermit, UnclaimPermit, ReturnPermit, Breaker

\* The values a dead local is reset to.
LEMMA Defaults == 0 \in Time /\ "neutral" \in Outcomes
  BY ConfigAssumption DEF Time, Outcomes

\* Recording an outcome.
LEMMA RecordPassiveType ==
  ASSUME NEW s \in Breaker, NEW o \in Outcomes, NEW permit \in BOOLEAN,
         NEW now \in Time
  PROVE  recordPassive(s, o, permit, now) \in Breaker
<1> DEFINE t == ReturnPermit(s, permit)
<1>1. t \in Breaker
  BY PermitType
<1> HIDE DEF t
<1>2. HalfOpenEvidence(t, o, now) \in Breaker
  BY <1>1, TransitionLockedType DEF HalfOpenEvidence, Breaker, CircuitStates
<1>3. PassiveEvidence(t, o, now) \in Breaker
  <2> DEFINE failures == IF WindowExpired(t, now) THEN 1 ELSE t.passiveFailures + 1
             start    == IF WindowExpired(t, now) THEN now
                         ELSE t.passiveWindowStart
  <2>1. failures \in Nat /\ start \in Time \cup {NoTime}
    BY <1>1 DEF Breaker
  <2> HIDE DEF failures, start
  <2>2. [t EXCEPT !.passiveFailures = failures, !.passiveWindowStart = start]
          \in Breaker
    BY <1>1, <2>1 DEF Breaker
  <2>3. [t EXCEPT !.passiveFailures = 0, !.passiveWindowStart = now] \in Breaker
    BY <1>1 DEF Breaker
  <2>4. transitionLocked(t, "open", now) \in Breaker
    BY <1>1, TransitionLockedType DEF CircuitStates
  <2>5. QED
    BY <2>2, <2>3, <2>4 DEF PassiveEvidence, failures, start
<1>4. QED
  BY <1>1, <1>2, <1>3 DEF recordPassive, t

\* Recording a probe.
LEMMA RecordActiveType ==
  ASSUME NEW h \in Health, NEW success \in BOOLEAN
  PROVE  recordActive(h, success) \in Health
  BY ConfigAssumption DEF recordActive, Bump, Health

\* Beginning a probe.
LEMMA BeginCircuitProbeType ==
  ASSUME NEW s \in Breaker, NEW now \in Time
  PROVE  beginCircuitProbe(s, now) \in Breaker
  BY AdvanceCooldownType, PermitType DEF beginCircuitProbe

\* A critical section hands back a transition between circuit states.
LEMMA LockedType ==
  ASSUME NEW a \in Actors, NEW state \in Breaker, breaker \in Breaker,
         transition \in [Actors -> Transitions \cup {NoTransition}],
         Locked(a, state)
  PROVE  /\ breaker' \in Breaker
         /\ transition' \in [Actors -> Transitions \cup {NoTransition}]
  BY DEF Locked, Breaker, Transitions

\* Publishing moves one event from the goroutine to the observer.
LEMMA PublishType ==
  ASSUME NEW a \in Actors, TypeOK, Publish(a)
  PROVE  /\ transition' \in [Actors -> Transitions \cup {NoTransition}]
         /\ told' \in [CircuitStates -> Int]
         /\ toldHealthy' = toldHealthy
         /\ streak' = streak
  BY DEF Publish, TypeOK, Transitions

\* The history is one of times that were read.
LEMMA NotedType ==
  ASSUME NEW k \in Seq(Time), NEW s, NEW t, NEW o, NEW now \in Time
  PROVE  Noted(k, s, t, o, now) \in Seq(Time)
  BY DEF Noted

-----------------------------------------------------------------------------
(* Type correctness.                                                       *)

\* A pool just made by newBackendPoolWithConfig is well typed.
LEMMA InitTypeOK == Init => TypeOK
  BY ConfigAssumption
  DEF Init, TypeOK, InitialHealth, InitialBreaker, Health, Breaker, Actors, Time,
      CircuitStates, RequestSteps, ProberSteps, Outcomes

\* Every step of a request, of the prober and of the clock keeps the types.
LEMMA NextTypeOK == TypeOK /\ [Next]_vars => TypeOK'
<1> SUFFICES ASSUME TypeOK, [Next]_vars PROVE TypeOK'
  OBVIOUS
<1> USE ConfigAssumption
<1>1. CASE Tick
  BY <1>1 DEF TypeOK, Tick, shared, local, observer, Time
<1>2. ASSUME NEW r \in Requests, Request(r) PROVE TypeOK'
  <2> DEFINE Here == r \in Actors /\ r # Prober
  <2>0. Here
    BY DEF Actors
  <2>1. CASE BeginReserve(r)
    BY <2>0, <2>1
    DEF TypeOK, BeginReserve, Step, ReadClock, shared, observer, RequestSteps
  <2>2. CASE AdvanceCooldown(r)
    BY <2>0, <2>2, AdvanceCooldownType, LockedType
    DEF TypeOK, AdvanceCooldown, ForgetClock, observer, RequestSteps, Time
  <2>3. CASE PublishCooldown(r)
    BY <2>0, <2>3, PublishType
    DEF TypeOK, PublishCooldown, Step, shared, RequestSteps
  <2>4. CASE Claim(r)
    BY <2>0, <2>4, PermitType
    DEF TypeOK, Claim, Step, observer, RequestSteps
  <2>5. CASE Ineligible(r)
    BY <2>0, <2>5
    DEF TypeOK, Ineligible, Step, shared, observer, RequestSteps
  <2>6. CASE Admit(r)
    BY <2>0, <2>6 DEF TypeOK, Admit, Step, observer, RequestSteps
  <2>7. CASE RejectAdmission(r)
    BY <2>0, <2>7
    DEF TypeOK, RejectAdmission, shared, observer, RequestSteps
  <2>8. CASE Unclaim(r)
    BY <2>0, <2>8, PermitType DEF TypeOK, Unclaim, Step, observer, RequestSteps
  <2>9. CASE CountIn(r)
    BY <2>0, <2>9 DEF TypeOK, CountIn, Step, observer, RequestSteps
  <2>10. CASE Finish(r)
    BY <2>0, <2>10
    DEF TypeOK, Finish, Step, ReadClock, shared, observer, RequestSteps
  <2>11. CASE RecordOutcome(r)
    <3>1. recordPassive(breaker, outcome[r], halfOpen[r], at[r]) \in Breaker
      BY <2>0, RecordPassiveType DEF TypeOK
    <3>2. /\ breaker' \in Breaker
          /\ transition' \in [Actors -> Transitions \cup {NoTransition}]
      BY <2>0, <2>11, <3>1, LockedType DEF TypeOK, RecordOutcome
    <3>3. /\ pc' \in [Actors -> RequestSteps \cup ProberSteps]
          /\ \A q \in Requests : pc'[q] \in RequestSteps
          /\ pc'[Prober] \in ProberSteps
      BY <2>0, <2>11 DEF TypeOK, RecordOutcome, Step, RequestSteps
    <3>4. /\ halfOpen' \in [Actors -> BOOLEAN]
          /\ outcome' \in [Actors -> Outcomes]
          /\ at' \in [Actors -> Time]
      <4>1. /\ halfOpen' = [halfOpen EXCEPT ![r] = FALSE]
            /\ outcome' = [outcome EXCEPT ![r] = "neutral"]
            /\ at' = [at EXCEPT ![r] = 0]
        BY <2>11, Zenon DEF RecordOutcome, ForgetClock
      <4>2. QED
        BY <4>1, Defaults DEF TypeOK
    <3>5. streak' \in Seq(Time)
      BY <2>0, <2>11, NotedType DEF TypeOK, RecordOutcome
    <3>6. QED
      BY <2>11, <3>2, <3>3, <3>4, <3>5 DEF TypeOK, RecordOutcome
  <2>12. CASE CountOut(r)
    BY <2>0, <2>12 DEF TypeOK, CountOut, Step, observer, RequestSteps
  <2>13. CASE ReleaseToken(r)
    BY <2>0, <2>13 DEF TypeOK, ReleaseToken, observer, RequestSteps
  <2>14. CASE PublishOutcome(r)
    BY <2>0, <2>14, PublishType
    DEF TypeOK, PublishOutcome, Step, shared, RequestSteps
  <2>15. QED
    BY <1>2, <2>1, <2>2, <2>3, <2>4, <2>5, <2>6, <2>7, <2>8, <2>9, <2>10,
       <2>11, <2>12, <2>13, <2>14 DEF Request, InProgress
<1>3. CASE Probe
  <2>0. Prober \in Actors /\ \A r \in Requests : r # Prober
    BY DEF Actors
  <2>1. CASE BeginProbe
    BY <2>0, <2>1
    DEF TypeOK, BeginProbe, Step, ReadClock, shared, observer, ProberSteps
  <2>2. CASE ClaimProbe
    BY <2>0, <2>2, BeginCircuitProbeType, LockedType
    DEF TypeOK, ClaimProbe, ProbePermitted, ForgetClock, observer, ProberSteps, Time
  <2>3. CASE PublishProbe
    BY <2>0, <2>3, PublishType
    DEF TypeOK, PublishProbe, Step, shared, ProberSteps
  <2>4. CASE RecordProbe
    BY <2>0, <2>4, RecordActiveType
    DEF TypeOK, RecordProbe, observer, ProberSteps, Outcomes
  <2>5. CASE ReportHealth
    BY <2>0, <2>5 DEF TypeOK, ReportHealth, Step, shared, ProberSteps
  <2>6. CASE EndProbe
    BY <2>0, <2>6
    DEF TypeOK, EndProbe, Step, ReadClock, shared, observer, ProberSteps
  <2>7. CASE CompleteProbe
    <3> DEFINE state == IF halfOpen[Prober]
                        THEN recordPassive(breaker, outcome[Prober], TRUE, at[Prober])
                        ELSE breaker
    <3>1. state \in Breaker
      BY <2>0, RecordPassiveType DEF TypeOK
    <3>2. /\ breaker' \in Breaker
          /\ transition' \in [Actors -> Transitions \cup {NoTransition}]
      <4>1. Locked(Prober, state)
        BY <2>7 DEF CompleteProbe
      <4> HIDE DEF state
      <4>2. QED
        BY <2>0, <3>1, <4>1, LockedType DEF TypeOK
    <3>3. /\ pc' \in [Actors -> RequestSteps \cup ProberSteps]
          /\ \A q \in Requests : pc'[q] \in RequestSteps
          /\ pc'[Prober] \in ProberSteps
      <4>1. \E next \in {"idle", "publishing"} : pc' = [pc EXCEPT ![Prober] = next]
        BY <2>7, Zenon DEF CompleteProbe
      <4>2. QED
        BY <2>0, <4>1 DEF TypeOK, ProberSteps
    <3>4. /\ halfOpen' \in [Actors -> BOOLEAN]
          /\ outcome' \in [Actors -> Outcomes]
          /\ at' \in [Actors -> Time]
      <4>1. /\ halfOpen' = [halfOpen EXCEPT ![Prober] = FALSE]
            /\ outcome' = [outcome EXCEPT ![Prober] = "neutral"]
            /\ at' = [at EXCEPT ![Prober] = 0]
        BY <2>7, Zenon DEF CompleteProbe, ForgetClock
      <4>2. QED
        BY <4>1, Defaults DEF TypeOK
    <3>5. UNCHANGED <<clock, health, admission, inFlight, told, toldHealthy>>
      BY <2>7, Zenon DEF CompleteProbe
    <3>6. streak' \in Seq(Time)
      <4>1. streak' = IF halfOpen[Prober]
                      THEN Noted(streak, breaker, state, outcome[Prober], at[Prober])
                      ELSE streak
        BY <2>7, Zenon DEF CompleteProbe
      <4> HIDE DEF state
      <4>2. QED
        BY <2>0, <4>1, NotedType DEF TypeOK
    <3>7. QED
      BY <3>2, <3>3, <3>4, <3>5, <3>6 DEF TypeOK
  <2>8. CASE PublishOutcome(Prober)
    BY <2>0, <2>8, PublishType
    DEF TypeOK, PublishOutcome, Step, shared, ProberSteps
  <2>9. QED
    BY <1>3, <2>1, <2>2, <2>3, <2>4, <2>5, <2>6, <2>7, <2>8 DEF Probe
<1>4. CASE UNCHANGED vars
  BY <1>4 DEF TypeOK, vars
<1>5. QED
  BY <1>1, <1>2, <1>3, <1>4 DEF Next

\* Every goroutine is at a step of its function and every field of a snapshot
\* is in its range, in every execution.
THEOREM Typing == Spec => []TypeOK
  BY InitTypeOK, NextTypeOK, PTL DEF Spec

-----------------------------------------------------------------------------
(* Admission: the channel and the counter agree with the goroutines.       *)

\* The requests at one of the given steps.
Where(f, steps) == {q \in Requests : f[q] \in steps}

\* Only r moves.
Moves(r) == \A q \in Requests \ {r} : pc'[q] = pc[q]

\* A request that moves changes such a count by where it leaves and arrives.
LEMMA MoveCount ==
  ASSUME NEW r \in Requests, Moves(r), NEW steps
  PROVE  /\ Cardinality(Where(pc, steps)) \in Nat
         /\ Cardinality(Where(pc', steps)) =
              IF pc[r] \in steps
              THEN IF pc'[r] \in steps THEN Cardinality(Where(pc, steps))
                   ELSE Cardinality(Where(pc, steps)) - 1
              ELSE IF pc'[r] \in steps THEN Cardinality(Where(pc, steps)) + 1
                   ELSE Cardinality(Where(pc, steps))
<1>1. IsFiniteSet(Where(pc, steps)) /\ Cardinality(Where(pc, steps)) \in Nat
  BY ConfigAssumption, FS_Subset, FS_CardinalityType DEF Where
<1>2. /\ pc'[r] \in steps => Where(pc', steps) = Where(pc, steps) \cup {r}
      /\ pc'[r] \notin steps => Where(pc', steps) = Where(pc, steps) \ {r}
  BY DEF Where, Moves
<1>3. r \in Where(pc, steps) <=> pc[r] \in steps
  BY DEF Where
<1>4. /\ Cardinality(Where(pc, steps) \cup {r}) =
           IF r \in Where(pc, steps) THEN Cardinality(Where(pc, steps))
           ELSE Cardinality(Where(pc, steps)) + 1
      /\ Cardinality(Where(pc, steps) \ {r}) =
           IF r \in Where(pc, steps) THEN Cardinality(Where(pc, steps)) - 1
           ELSE Cardinality(Where(pc, steps))
  BY <1>1, FS_AddElement, FS_RemoveElement
<1>5. QED
  BY <1>1, <1>2, <1>3, <1>4

\* The two counts of AdmissionExact.
LEMMA Counts ==
  /\ TokenHolders = Where(pc, TokenSteps)
  /\ CountedRequests = Where(pc, CountedSteps)
  /\ TokenHolders' = Where(pc', TokenSteps)
  /\ CountedRequests' = Where(pc', CountedSteps)
  BY DEF TokenHolders, CountedRequests, Where

\* A step within the same phase of a request.
LEMMA SamePhase ==
  ASSUME TypeOK, AdmissionExact, NEW r \in Requests,
         NEW to, pc' = [pc EXCEPT ![r] = to],
         pc[r] \in TokenSteps <=> to \in TokenSteps,
         pc[r] \in CountedSteps <=> to \in CountedSteps,
         UNCHANGED <<admission, inFlight>>
  PROVE  AdmissionExact'
<1>1. Moves(r) /\ pc'[r] = to
  BY DEF Moves, TypeOK, Actors
<1>2. QED
  BY <1>1, MoveCount, Counts DEF AdmissionExact

\* No step breaks the count of tokens or of requests in flight: a step either
\* stays within a phase of its request or moves the counter with it.
LEMMA AdmissionInductive ==
  TypeOK /\ AdmissionExact /\ [Next]_vars => AdmissionExact'
<1> SUFFICES ASSUME TypeOK, AdmissionExact, [Next]_vars PROVE AdmissionExact'
  OBVIOUS
<1> USE ConfigAssumption
<1>1. ASSUME \A r \in Requests : pc'[r] = pc[r], UNCHANGED <<admission, inFlight>>
      PROVE  AdmissionExact'
  <2>1. /\ Where(pc', TokenSteps) = Where(pc, TokenSteps)
        /\ Where(pc', CountedSteps) = Where(pc, CountedSteps)
    BY <1>1 DEF Where
  <2>2. QED
    BY <1>1, <2>1, Counts DEF AdmissionExact
<1>2. CASE Tick
  BY <1>1, <1>2 DEF Tick, shared, local
<1>3. CASE Probe
  <2>1. \A r \in Requests : r # Prober /\ r \in Actors
    BY DEF Actors
  <2>2. \E to : pc' = [pc EXCEPT ![Prober] = to]
    BY <1>3, Zenon
    DEF Probe, BeginProbe, ClaimProbe, PublishProbe, RecordProbe, ReportHealth,
        EndProbe, CompleteProbe, PublishOutcome, Step
  <2>3. UNCHANGED <<admission, inFlight>>
    BY <1>3, Zenon
    DEF Probe, BeginProbe, ClaimProbe, PublishProbe, RecordProbe, ReportHealth,
        EndProbe, CompleteProbe, PublishOutcome, shared
  <2>4. QED
    BY <1>1, <2>1, <2>2, <2>3 DEF TypeOK
<1>4. ASSUME NEW r \in Requests, Request(r) PROVE AdmissionExact'
  <2>1. CASE BeginReserve(r)
    BY <2>1, SamePhase DEF BeginReserve, Step, shared, RequestSteps,
       TokenSteps, CountedSteps
  <2>2. CASE AdvanceCooldown(r)
    BY <2>2, SamePhase DEF AdvanceCooldown, RequestSteps,
       TokenSteps, CountedSteps
  <2>3. CASE PublishCooldown(r)
    BY <2>3, SamePhase DEF PublishCooldown, Step, shared, RequestSteps,
       TokenSteps, CountedSteps
  <2>4. CASE Claim(r)
    BY <2>4, SamePhase DEF Claim, Step, RequestSteps,
       TokenSteps, CountedSteps
  <2>5. CASE Ineligible(r)
    BY <2>5, SamePhase DEF Ineligible, Step, shared, RequestSteps,
       TokenSteps, CountedSteps
  <2>6. CASE Admit(r)
    <3>1. pc[r] = "claimed" /\ pc'[r] = "admitted" /\ Moves(r)
      BY <2>6 DEF Admit, Step, Moves, TypeOK, Actors
    <3>2. /\ "claimed" \notin TokenSteps /\ "claimed" \notin CountedSteps
          /\ "admitted" \in TokenSteps /\ "admitted" \notin CountedSteps
      BY DEF TokenSteps, CountedSteps
    <3>3. /\ Cardinality(Where(pc, TokenSteps)) \in Nat
          /\ Cardinality(Where(pc', TokenSteps)) =
               Cardinality(Where(pc, TokenSteps)) + 1
      BY <3>1, <3>2, MoveCount
    <3>4. /\ Cardinality(Where(pc, CountedSteps)) \in Nat
          /\ Cardinality(Where(pc', CountedSteps)) =
               Cardinality(Where(pc, CountedSteps))
      BY <3>1, <3>2, MoveCount
    <3>5. admission < MaxInFlight /\ admission' = admission + 1 /\ inFlight' = inFlight
      BY <2>6 DEF Admit
    <3>6. MaxInFlight \in Nat /\ admission \in Nat
      BY DEF TypeOK
    <3>7. QED
      BY <3>3, <3>4, <3>5, <3>6, Counts DEF AdmissionExact
  <2>7. CASE RejectAdmission(r)
    BY <2>7, SamePhase DEF RejectAdmission, shared, RequestSteps,
       TokenSteps, CountedSteps
  <2>8. CASE Unclaim(r)
    BY <2>8, SamePhase DEF Unclaim, Step, RequestSteps,
       TokenSteps, CountedSteps
  <2>9. CASE CountIn(r)
    <3>1. pc[r] = "admitted" /\ pc'[r] = "serving" /\ Moves(r)
      BY <2>9 DEF CountIn, Step, Moves, TypeOK, Actors
    <3>2. /\ "admitted" \in TokenSteps /\ "admitted" \notin CountedSteps
          /\ "serving" \in TokenSteps /\ "serving" \in CountedSteps
      BY DEF TokenSteps, CountedSteps
    <3>3. /\ Cardinality(Where(pc, TokenSteps)) \in Nat
          /\ Cardinality(Where(pc', TokenSteps)) =
               Cardinality(Where(pc, TokenSteps))
      BY <3>1, <3>2, MoveCount
    <3>4. /\ Cardinality(Where(pc, CountedSteps)) \in Nat
          /\ Cardinality(Where(pc', CountedSteps)) =
               Cardinality(Where(pc, CountedSteps)) + 1
      BY <3>1, <3>2, MoveCount
    <3>5. QED
      BY <2>9, <3>3, <3>4, Counts DEF AdmissionExact, CountIn
  <2>10. CASE Finish(r)
    BY <2>10, SamePhase DEF Finish, Step, shared, RequestSteps,
       TokenSteps, CountedSteps
  <2>11. CASE RecordOutcome(r)
    BY <2>11, SamePhase DEF RecordOutcome, Step, RequestSteps,
       TokenSteps, CountedSteps
  <2>12. CASE CountOut(r)
    <3>1. pc[r] = "recorded" /\ pc'[r] = "counted" /\ Moves(r)
      BY <2>12 DEF CountOut, Step, Moves, TypeOK, Actors
    <3>2. /\ "recorded" \in TokenSteps /\ "recorded" \in CountedSteps
          /\ "counted" \in TokenSteps /\ "counted" \notin CountedSteps
      BY DEF TokenSteps, CountedSteps
    <3>3. /\ Cardinality(Where(pc, TokenSteps)) \in Nat
          /\ Cardinality(Where(pc', TokenSteps)) =
               Cardinality(Where(pc, TokenSteps))
      BY <3>1, <3>2, MoveCount
    <3>4. /\ Cardinality(Where(pc, CountedSteps)) \in Nat
          /\ Cardinality(Where(pc', CountedSteps)) =
               Cardinality(Where(pc, CountedSteps)) - 1
      BY <3>1, <3>2, MoveCount
    <3>5. QED
      BY <2>12, <3>3, <3>4, Counts DEF AdmissionExact, CountOut
  <2>13. CASE ReleaseToken(r)
    <3>1. pc[r] = "counted" /\ pc'[r] \in {"idle", "publishing"} /\ Moves(r)
      BY <2>13 DEF ReleaseToken, Moves, TypeOK, Actors
    <3>2. /\ "counted" \in TokenSteps /\ "counted" \notin CountedSteps
          /\ "idle" \notin TokenSteps /\ "idle" \notin CountedSteps
          /\ "publishing" \notin TokenSteps /\ "publishing" \notin CountedSteps
      BY DEF TokenSteps, CountedSteps
    <3>3. /\ Cardinality(Where(pc, TokenSteps)) \in Nat
          /\ Cardinality(Where(pc', TokenSteps)) =
               Cardinality(Where(pc, TokenSteps)) - 1
      BY <3>1, <3>2, MoveCount
    <3>4. /\ Cardinality(Where(pc, CountedSteps)) \in Nat
          /\ Cardinality(Where(pc', CountedSteps)) =
               Cardinality(Where(pc, CountedSteps))
      BY <3>1, <3>2, MoveCount
    <3>5. admission > 0 /\ admission' = admission - 1 /\ inFlight' = inFlight
      BY <2>13 DEF ReleaseToken
    <3>6. MaxInFlight \in Nat /\ admission \in Nat
      BY DEF TypeOK
    <3>7. QED
      BY <3>3, <3>4, <3>5, <3>6, Counts DEF AdmissionExact
  <2>14. CASE PublishOutcome(r)
    BY <2>14, SamePhase DEF PublishOutcome, Step, shared, RequestSteps,
       TokenSteps, CountedSteps
  <2>15. QED
    BY <1>4, <2>1, <2>2, <2>3, <2>4, <2>5, <2>6, <2>7, <2>8, <2>9, <2>10,
       <2>11, <2>12, <2>13, <2>14 DEF Request, InProgress
<1>5. CASE UNCHANGED vars
  BY <1>1, <1>5 DEF vars
<1>6. QED
  BY <1>2, <1>3, <1>4, <1>5 DEF Next

\* The admission semaphore and the in-flight counter are exact, for any number
\* of requests: MaxInFlight is never exceeded and no token is lost.
THEOREM Admission == Spec => []AdmissionExact
<1>1. Init => AdmissionExact
  <2> SUFFICES ASSUME Init PROVE AdmissionExact
    OBVIOUS
  <2>1. TokenHolders = {} /\ CountedRequests = {}
    BY DEF Init, TokenHolders, CountedRequests, TokenSteps, CountedSteps, Actors
  <2>2. QED
    BY <2>1, ConfigAssumption, FS_EmptySet DEF Init, AdmissionExact
<1>2. QED
  BY <1>1, Typing, AdmissionInductive, PTL DEF Spec

-----------------------------------------------------------------------------
(* Half-open permits.                                                      *)

\* The permit counter after ReturnPermit.
Returned(s, permit) ==
  IF permit /\ s.halfOpenInFlight > 0 THEN s.halfOpenInFlight - 1
  ELSE s.halfOpenInFlight

\* What the end of a cooldown does to the circuit and the permit counter.
LEMMA AdvanceCooldownEffect ==
  ASSUME NEW s \in Breaker, NEW now \in Time
  PROVE  \/ advanceCooldown(s, now) = s
         \/ /\ s.circuit = "open"
            /\ advanceCooldown(s, now).circuit = "half-open"
            /\ advanceCooldown(s, now).halfOpenInFlight = 0
  BY DEF advanceCooldown, CooldownElapsed, transitionLocked

\* An outcome returns its permit; if it moves the circuit, the counter restarts.
\* Only the holder of a permit moves a half-open circuit.
LEMMA RecordPassiveEffect ==
  ASSUME NEW s \in Breaker, NEW o \in Outcomes, NEW permit \in BOOLEAN,
         NEW now \in Time
  PROVE  LET t == recordPassive(s, o, permit, now)
         IN  \/ /\ t.circuit = s.circuit
                /\ t.halfOpenInFlight = Returned(s, permit)
             \/ /\ t.halfOpenInFlight = 0
                /\ \/ s.circuit = "half-open" /\ permit /\ t.circuit # "half-open"
                   \/ s.circuit = "closed" /\ t.circuit = "open"
<1> DEFINE d == ReturnPermit(s, permit)
<1>1. /\ d \in Breaker
      /\ d.circuit = s.circuit
      /\ d.halfOpenInFlight = Returned(s, permit)
  BY PermitType DEF ReturnPermit, UnclaimPermit, Returned, Breaker
<1> HIDE DEF d
<1>2. LET t == HalfOpenEvidence(d, o, now)
      IN  \/ t.circuit = d.circuit /\ t.halfOpenInFlight = d.halfOpenInFlight
          \/ t.circuit \in {"open", "closed"} /\ t.halfOpenInFlight = 0
  BY <1>1 DEF HalfOpenEvidence, transitionLocked, Breaker
<1>3. LET t == PassiveEvidence(d, o, now)
      IN  \/ t.circuit = d.circuit /\ t.halfOpenInFlight = d.halfOpenInFlight
          \/ t.circuit = "open" /\ t.halfOpenInFlight = 0
  BY <1>1 DEF PassiveEvidence, transitionLocked, Breaker
<1>4. QED
  BY <1>1, <1>2, <1>3 DEF recordPassive, d

\* Claiming and returning touch the counter only.
LEMMA PermitEffect ==
  ASSUME NEW s \in Breaker
  PROVE  /\ ClaimPermit(s).circuit = s.circuit
         /\ ClaimPermit(s).halfOpenInFlight = s.halfOpenInFlight + 1
         /\ UnclaimPermit(s).circuit = s.circuit
         /\ UnclaimPermit(s).halfOpenInFlight = s.halfOpenInFlight - 1
  BY DEF ClaimPermit, UnclaimPermit, Breaker

\* Where a goroutine can own a permit, and where it must.
PermitSteps ==
  /\ \A r \in Requests :
       /\ halfOpen[r] => pc[r] \in {"claimed", "unclaiming", "admitted",
                                    "serving", "finishing"}
       /\ pc[r] = "unclaiming" => halfOpen[r]
  /\ halfOpen[Prober] => pc[Prober] \in {"begun", "probing", "reporting",
                                        "recording", "completing"}

\* The only permit that changes hands in a step is a's.
Permits(a) == \A b \in Actors \ {a} : halfOpen'[b] = halfOpen[b]

\* The number of permits outstanding changes with a's.
LEMMA PermitCount ==
  ASSUME NEW a \in Actors, Permits(a)
  PROVE  /\ Cardinality(PermitHolders) \in Nat
         /\ PermitHolders = {} <=> Cardinality(PermitHolders) = 0
         /\ PermitHolders' = {} <=> Cardinality(PermitHolders') = 0
         /\ Cardinality(PermitHolders') =
              IF halfOpen[a]
              THEN IF halfOpen'[a] THEN Cardinality(PermitHolders)
                   ELSE Cardinality(PermitHolders) - 1
              ELSE IF halfOpen'[a] THEN Cardinality(PermitHolders) + 1
                   ELSE Cardinality(PermitHolders)
<1>1. IsFiniteSet(Actors)
  BY ConfigAssumption, FS_AddElement DEF Actors
<1>2. /\ IsFiniteSet(PermitHolders) /\ Cardinality(PermitHolders) \in Nat
      /\ IsFiniteSet(PermitHolders')
  BY <1>1, FS_Subset, FS_CardinalityType DEF PermitHolders
<1>3. /\ halfOpen'[a] => PermitHolders' = PermitHolders \cup {a}
      /\ ~ halfOpen'[a] => PermitHolders' = PermitHolders \ {a}
  BY DEF PermitHolders, Permits
<1>4. a \in PermitHolders <=> halfOpen[a]
  BY DEF PermitHolders
<1>5. /\ Cardinality(PermitHolders \cup {a}) =
           IF a \in PermitHolders THEN Cardinality(PermitHolders)
           ELSE Cardinality(PermitHolders) + 1
      /\ Cardinality(PermitHolders \ {a}) =
           IF a \in PermitHolders THEN Cardinality(PermitHolders) - 1
           ELSE Cardinality(PermitHolders)
  BY <1>2, FS_AddElement, FS_RemoveElement
<1>6. /\ PermitHolders = {} <=> Cardinality(PermitHolders) = 0
      /\ PermitHolders' = {} <=> Cardinality(PermitHolders') = 0
  BY <1>2, FS_EmptySet
<1>7. QED
  BY <1>2, <1>3, <1>4, <1>5, <1>6

\* PermitSteps depends on no data: one look at every action shows it.
LEMMA PermitStepsInductive ==
  TypeOK /\ PermitSteps /\ [Next]_vars => PermitSteps'
<1> SUFFICES ASSUME TypeOK, PermitSteps, [Next]_vars PROVE PermitSteps'
  OBVIOUS
<1> USE ConfigAssumption
<1>0. \A r \in Requests : r # Prober /\ r \in Actors
  BY DEF Actors
<1>1. CASE Tick
  BY <1>1 DEF PermitSteps, Tick, local
<1>2. ASSUME NEW r \in Requests, Request(r) PROVE PermitSteps'
  <2>1. CASE BeginReserve(r)
    BY <1>0, <2>1 DEF PermitSteps, TypeOK, BeginReserve, Step
  <2>2. CASE AdvanceCooldown(r)
    BY <1>0, <2>2 DEF PermitSteps, TypeOK, AdvanceCooldown
  <2>3. CASE PublishCooldown(r)
    BY <1>0, <2>3 DEF PermitSteps, TypeOK, PublishCooldown, Step
  <2>4. CASE Claim(r)
    BY <1>0, <2>4 DEF PermitSteps, TypeOK, Claim, Step
  <2>5. CASE Ineligible(r)
    BY <1>0, <2>5 DEF PermitSteps, TypeOK, Ineligible, Step
  <2>6. CASE Admit(r)
    BY <1>0, <2>6 DEF PermitSteps, TypeOK, Admit, Step
  <2>7. CASE RejectAdmission(r)
    BY <1>0, <2>7 DEF PermitSteps, TypeOK, RejectAdmission
  <2>8. CASE Unclaim(r)
    BY <1>0, <2>8 DEF PermitSteps, TypeOK, Unclaim, Step
  <2>9. CASE CountIn(r)
    BY <1>0, <2>9 DEF PermitSteps, TypeOK, CountIn, Step
  <2>10. CASE Finish(r)
    BY <1>0, <2>10 DEF PermitSteps, TypeOK, Finish, Step
  <2>11. CASE RecordOutcome(r)
    BY <1>0, <2>11 DEF PermitSteps, TypeOK, RecordOutcome, Step
  <2>12. CASE CountOut(r)
    BY <1>0, <2>12 DEF PermitSteps, TypeOK, CountOut, Step
  <2>13. CASE ReleaseToken(r)
    BY <1>0, <2>13 DEF PermitSteps, TypeOK, ReleaseToken
  <2>14. CASE PublishOutcome(r)
    BY <1>0, <2>14 DEF PermitSteps, TypeOK, PublishOutcome, Step
  <2>15. QED
    BY <1>2, <2>1, <2>2, <2>3, <2>4, <2>5, <2>6, <2>7, <2>8, <2>9, <2>10,
       <2>11, <2>12, <2>13, <2>14 DEF Request, InProgress
<1>3. CASE Probe
  <2>0. Prober \in Actors
    BY DEF Actors
  <2>1. CASE BeginProbe
    BY <1>0, <2>0, <2>1 DEF PermitSteps, TypeOK, BeginProbe, Step
  <2>2. CASE ClaimProbe
    BY <1>0, <2>0, <2>2 DEF PermitSteps, TypeOK, ClaimProbe
  <2>3. CASE PublishProbe
    BY <1>0, <2>0, <2>3 DEF PermitSteps, TypeOK, PublishProbe, Step
  <2>4. CASE RecordProbe
    BY <1>0, <2>0, <2>4 DEF PermitSteps, TypeOK, RecordProbe
  <2>5. CASE ReportHealth
    BY <1>0, <2>0, <2>5 DEF PermitSteps, TypeOK, ReportHealth, Step
  <2>6. CASE EndProbe
    BY <1>0, <2>0, <2>6 DEF PermitSteps, TypeOK, EndProbe, Step
  <2>7. CASE CompleteProbe
    <3>1. /\ halfOpen' = [halfOpen EXCEPT ![Prober] = FALSE]
          /\ \E to : pc' = [pc EXCEPT ![Prober] = to]
      BY <2>7, Zenon DEF CompleteProbe
    <3>2. QED
      BY <1>0, <2>0, <3>1 DEF PermitSteps, TypeOK
  <2>8. CASE PublishOutcome(Prober)
    BY <1>0, <2>0, <2>8 DEF PermitSteps, TypeOK, PublishOutcome, Step
  <2>9. QED
    BY <1>3, <2>1, <2>2, <2>3, <2>4, <2>5, <2>6, <2>7, <2>8 DEF Probe
<1>4. CASE UNCHANGED vars
  BY <1>4 DEF PermitSteps, vars
<1>5. QED
  BY <1>1, <1>2, <1>3, <1>4 DEF Next

\* The two invariants about permits, which are proved together.
PermitInv == NoPermitLeak /\ ProbeIsCurrent

\* An outcome, of a request or of a probe, keeps them.
LEMMA RecordKeepsPermits ==
  ASSUME TypeOK, PermitInv, NEW a \in Actors,
         breaker' = recordPassive(breaker, outcome[a], halfOpen[a], at[a]),
         halfOpen' = [halfOpen EXCEPT ![a] = FALSE]
  PROVE  PermitInv'
<1>1. /\ Permits(a) /\ ~ halfOpen'[a]
      /\ breaker \in Breaker /\ breaker.halfOpenInFlight \in Int
      /\ halfOpen[a] \in BOOLEAN
  BY DEF Permits, TypeOK, Breaker
<1>2. \/ /\ breaker'.circuit = breaker.circuit
         /\ breaker'.halfOpenInFlight = Returned(breaker, halfOpen[a])
      \/ /\ breaker'.halfOpenInFlight = 0
         /\ \/ breaker.circuit = "half-open" /\ halfOpen[a]
            \/ breaker.circuit = "closed"
  BY RecordPassiveEffect DEF TypeOK
<1>3. /\ Cardinality(PermitHolders) \in Nat
      /\ PermitHolders = {} <=> Cardinality(PermitHolders) = 0
      /\ PermitHolders' = {} <=> Cardinality(PermitHolders') = 0
      /\ Cardinality(PermitHolders') =
           IF halfOpen[a] THEN Cardinality(PermitHolders) - 1
           ELSE Cardinality(PermitHolders)
  BY <1>1, PermitCount
<1>4. halfOpen[a] => PermitHolders # {}
  BY DEF PermitHolders
<1>5. HalfOpenMaxRequests \in Nat
  BY ConfigAssumption
<1>6. Cardinality(PermitHolders') \in Nat
  BY <1>1, <1>3, <1>4
<1>7. NoPermitLeak'
  BY <1>1, <1>2, <1>3, <1>4, <1>5, <1>6
  DEF PermitInv, NoPermitLeak, Returned
<1>8. ProbeIsCurrent'
  BY <1>1, <1>2, <1>3, <1>4, <1>5, <1>6
  DEF PermitInv, NoPermitLeak, ProbeIsCurrent, Returned
<1>9. QED
  BY <1>7, <1>8 DEF PermitInv

\* The end of a cooldown keeps them.
LEMMA CooldownKeepsPermits ==
  ASSUME TypeOK, PermitInv, NEW now \in Time,
         breaker' = advanceCooldown(breaker, now), halfOpen' = halfOpen
  PROVE  PermitInv'
<1>1. PermitHolders' = PermitHolders
  BY DEF PermitHolders
<1>2. \/ breaker' = breaker
      \/ /\ breaker.circuit = "open"
         /\ breaker'.circuit = "half-open"
         /\ breaker'.halfOpenInFlight = 0
  BY AdvanceCooldownEffect DEF TypeOK
<1>3. /\ Cardinality(PermitHolders) \in Nat
      /\ PermitHolders = {} <=> Cardinality(PermitHolders) = 0
  <2>1. Prober \in Actors /\ Permits(Prober)
    BY DEF Actors, Permits
  <2>2. QED
    BY <2>1, PermitCount
<1>4. HalfOpenMaxRequests \in Nat
  BY ConfigAssumption
<1>5. QED
  BY <1>1, <1>2, <1>3, <1>4 DEF PermitInv, NoPermitLeak, ProbeIsCurrent

\* A claim, after the check under the same lock, keeps them.  The breaker it
\* starts from is s, in which a cooldown may just have ended.
LEMMA ClaimKeepsPermits ==
  ASSUME NEW s \in Breaker, NEW a \in Actors, Permits(a),
         ~ halfOpen[a], halfOpen'[a], breaker' = ClaimPermit(s),
         s.circuit = "half-open", PermitFree(s),
         s.halfOpenInFlight <= Cardinality(PermitHolders),
         HalfOpenMaxRequests = 1 => s.halfOpenInFlight = Cardinality(PermitHolders)
  PROVE  PermitInv'
<1>1. /\ Cardinality(PermitHolders) \in Nat
      /\ Cardinality(PermitHolders') = Cardinality(PermitHolders) + 1
  BY PermitCount
<1>2. /\ breaker'.circuit = "half-open"
      /\ breaker'.halfOpenInFlight = s.halfOpenInFlight + 1
      /\ s.halfOpenInFlight \in Int
      /\ HalfOpenMaxRequests \in Nat
  BY PermitEffect, ConfigAssumption DEF Breaker
<1>3. QED
  BY <1>1, <1>2 DEF PermitInv, NoPermitLeak, ProbeIsCurrent, PermitFree

\* Steps that touch neither permits nor the circuit.
LEMMA OtherStepsKeepPermits ==
  ASSUME PermitInv, UNCHANGED <<breaker, halfOpen>>
  PROVE  PermitInv'
  BY DEF PermitInv, NoPermitLeak, ProbeIsCurrent, PermitHolders

\* Every step keeps the permits exact: claims and returns move the counter with
\* the holders, transitions restart it, other steps touch neither.
LEMMA PermitInductive ==
  TypeOK /\ PermitSteps /\ PermitInv /\ [Next]_vars => PermitInv'
<1> SUFFICES ASSUME TypeOK, PermitSteps, PermitInv, [Next]_vars PROVE PermitInv'
  OBVIOUS
<1>0. Prober \in Actors /\ \A r \in Requests : r # Prober /\ r \in Actors
  BY ConfigAssumption DEF Actors
<1>1. CASE Tick
  BY <1>1, OtherStepsKeepPermits DEF Tick, shared, local
<1>2. ASSUME NEW r \in Requests, Request(r) PROVE PermitInv'
  <2>1. CASE AdvanceCooldown(r)
    BY <1>0, <2>1, CooldownKeepsPermits DEF AdvanceCooldown, Locked, TypeOK
  <2>2. CASE Claim(r)
    <3>1. /\ Selectable(health, breaker)
          /\ halfOpen' = [halfOpen EXCEPT ![r] = breaker.circuit = "half-open"]
          /\ ~ halfOpen[r]
          /\ r \in Actors
      BY <1>0, <2>2 DEF Claim, Step, PermitSteps
    <3>2. CASE breaker.circuit = "half-open"
      <4>1. /\ Permits(r) /\ halfOpen'[r] /\ breaker \in Breaker
            /\ breaker' = ClaimPermit(breaker)
        BY <2>2, <3>1, <3>2 DEF Permits, TypeOK, Claim
      <4>2. QED
        BY <3>1, <3>2, <4>1, ClaimKeepsPermits
        DEF PermitInv, NoPermitLeak, ProbeIsCurrent, Selectable
    <3>3. CASE breaker.circuit # "half-open"
      <4>1. breaker' = breaker
        BY <2>2, <3>3 DEF Claim
      <4>2. halfOpen' = halfOpen
        BY <3>1, <3>3 DEF TypeOK
      <4>3. QED
        BY <4>1, <4>2, OtherStepsKeepPermits
    <3>4. QED
      BY <3>2, <3>3
  <2>3. CASE Unclaim(r)
    <3>1. /\ Permits(r) /\ halfOpen[r] /\ ~ halfOpen'[r] /\ r \in Actors
          /\ breaker' = UnclaimPermit(breaker)
          /\ breaker \in Breaker /\ breaker.halfOpenInFlight \in Int
      BY <1>0, <2>3 DEF Unclaim, Step, PermitSteps, Permits, TypeOK, Breaker
    <3>2. /\ Cardinality(PermitHolders) \in Nat
          /\ Cardinality(PermitHolders') = Cardinality(PermitHolders) - 1
          /\ PermitHolders' # {} => PermitHolders # {}
      BY <3>1, PermitCount DEF PermitHolders, Permits
    <3>3. /\ breaker'.circuit = breaker.circuit
          /\ breaker'.halfOpenInFlight = breaker.halfOpenInFlight - 1
          /\ HalfOpenMaxRequests \in Nat
      BY <3>1, PermitEffect, ConfigAssumption
    <3>4. QED
      BY <3>1, <3>2, <3>3 DEF PermitInv, NoPermitLeak, ProbeIsCurrent
  <2>4. CASE RecordOutcome(r)
    <3>1. /\ breaker' = recordPassive(breaker, outcome[r], halfOpen[r], at[r])
          /\ halfOpen' = [halfOpen EXCEPT ![r] = FALSE]
      BY <2>4, Zenon DEF RecordOutcome, Locked
    <3>2. QED
      BY <1>0, <3>1, RecordKeepsPermits
  <2>5. CASE \/ BeginReserve(r) \/ PublishCooldown(r) \/ Ineligible(r)
             \/ Admit(r) \/ RejectAdmission(r) \/ CountIn(r) \/ Finish(r)
             \/ CountOut(r) \/ ReleaseToken(r) \/ PublishOutcome(r)
    BY <2>5, OtherStepsKeepPermits
    DEF BeginReserve, PublishCooldown, Ineligible, Admit, RejectAdmission,
        CountIn, Finish, CountOut, ReleaseToken, PublishOutcome, shared
  <2>6. QED
    BY <1>2, <2>1, <2>2, <2>3, <2>4, <2>5 DEF Request, InProgress
<1>3. CASE Probe
  <2>1. CASE ClaimProbe
    <3> DEFINE s == advanceCooldown(breaker, at[Prober])
    <3>1. /\ breaker' = IF ProbePermitted(s) THEN ClaimPermit(s) ELSE s
          /\ halfOpen' = [halfOpen EXCEPT ![Prober] = ProbePermitted(s)]
          /\ ~ halfOpen[Prober]
      BY <1>0, <2>1 DEF ClaimProbe, Locked, beginCircuitProbe, PermitSteps
    <3>2. s \in Breaker /\ at[Prober] \in Time /\ breaker \in Breaker
      BY <1>0, AdvanceCooldownType DEF TypeOK
    <3>3. \/ s = breaker
          \/ breaker.circuit = "open" /\ s.halfOpenInFlight = 0
      BY <3>2, AdvanceCooldownEffect
    <3>4. CASE ~ ProbePermitted(s)
      <4>1. breaker' = s /\ halfOpen' = halfOpen
        <5> HIDE DEF s
        <5>1. halfOpen' = [halfOpen EXCEPT ![Prober] = FALSE]
          BY <3>1, <3>4 DEF ProbePermitted
        <5>2. halfOpen[Prober] = FALSE
          BY <1>0, <3>1 DEF TypeOK
        <5>3. QED
          BY <1>0, <3>1, <3>4, <5>1, <5>2 DEF TypeOK
      <4>2. QED
        BY <3>2, <4>1, CooldownKeepsPermits
    <3>5. CASE ProbePermitted(s)
      <4>1. Permits(Prober) /\ halfOpen'[Prober] /\ breaker' = ClaimPermit(s)
        <5> HIDE DEF s
        <5>1. halfOpen' = [halfOpen EXCEPT ![Prober] = TRUE]
          BY <3>1, <3>5 DEF ProbePermitted
        <5>2. QED
          BY <1>0, <3>1, <3>5, <5>1 DEF Permits, TypeOK
      <4>2. s.circuit = "half-open" /\ PermitFree(s)
        BY <3>5 DEF ProbePermitted
      <4>3. /\ s.halfOpenInFlight <= Cardinality(PermitHolders)
            /\ HalfOpenMaxRequests = 1 =>
                 s.halfOpenInFlight = Cardinality(PermitHolders)
        <5>1. /\ Cardinality(PermitHolders) \in Nat
              /\ PermitHolders = {} <=> Cardinality(PermitHolders) = 0
          BY <1>0, <4>1, PermitCount
        <5> HIDE DEF s
        <5>2. QED
          BY <3>3, <5>1 DEF PermitInv, NoPermitLeak, ProbeIsCurrent
      <4> HIDE DEF s
      <4>4. QED
        BY <1>0, <3>1, <3>2, <4>1, <4>2, <4>3, ClaimKeepsPermits
    <3>6. QED
      BY <3>4, <3>5
  <2>2. CASE CompleteProbe
    <3>1. /\ breaker' = IF halfOpen[Prober]
                        THEN recordPassive(breaker, outcome[Prober], TRUE, at[Prober])
                        ELSE breaker
          /\ halfOpen' = [halfOpen EXCEPT ![Prober] = FALSE]
      BY <2>2, Zenon DEF CompleteProbe, Locked
    <3>2. CASE halfOpen[Prober]
      <4>1. halfOpen[Prober] = TRUE
        BY <1>0, <3>2 DEF TypeOK
      <4>2. QED
        BY <1>0, <3>1, <4>1, RecordKeepsPermits
    <3>3. CASE ~ halfOpen[Prober]
      <4>1. halfOpen' = halfOpen /\ breaker' = breaker
        BY <1>0, <3>1, <3>3 DEF TypeOK
      <4>2. QED
        BY <4>1, OtherStepsKeepPermits
    <3>4. QED
      BY <3>2, <3>3
  <2>3. CASE \/ BeginProbe \/ PublishProbe \/ RecordProbe \/ ReportHealth
             \/ EndProbe \/ PublishOutcome(Prober)
    BY <2>3, OtherStepsKeepPermits
    DEF BeginProbe, PublishProbe, RecordProbe, ReportHealth, EndProbe,
        PublishOutcome, shared
  <2>4. QED
    BY <1>3, <2>1, <2>2, <2>3 DEF Probe
<1>4. CASE UNCHANGED vars
  BY <1>4, OtherStepsKeepPermits DEF vars
<1>5. QED
  BY <1>1, <1>2, <1>3, <1>4 DEF Next

\* Initially nobody owns a permit.
LEMMA PermitInit == Init => PermitSteps /\ PermitInv
<1> SUFFICES ASSUME Init PROVE PermitSteps /\ PermitInv
  OBVIOUS
<1>1. PermitHolders = {}
  BY DEF Init, PermitHolders
<1>2. breaker.halfOpenInFlight = 0 /\ Cardinality(PermitHolders) = 0
  BY <1>1, FS_EmptySet DEF Init, InitialBreaker
<1>3. QED
  BY <1>1, <1>2, ConfigAssumption
  DEF Init, PermitSteps, PermitInv, NoPermitLeak, ProbeIsCurrent, Actors

\* No half-open permit is leaked, for any limit and any number of requests.
THEOREM PermitsNeverLeak == Spec => []NoPermitLeak
<1>1. PermitSteps /\ PermitInv => NoPermitLeak
  BY DEF PermitInv
<1>2. QED
  BY <1>1, PermitInit, PermitStepsInductive, PermitInductive, Typing, PTL DEF Spec

\* With a limit of one, a probe is alone, and its verdict is about the half-open
\* period that granted it.
THEOREM SingleProbeIsCurrent == Spec => []ProbeIsCurrent
<1>1. PermitSteps /\ PermitInv => ProbeIsCurrent
  BY DEF PermitInv
<1>2. QED
  BY <1>1, PermitInit, PermitStepsInductive, PermitInductive, Typing, PTL DEF Spec

\* So the default configuration keeps the documented bound on concurrent probes.
THEOREM SingleProbeBound ==
  ASSUME HalfOpenMaxRequests = 1
  PROVE  Spec => []BoundedProbes
<1>1. PermitSteps /\ PermitInv => BoundedProbes
  BY DEF PermitInv, NoPermitLeak, ProbeIsCurrent, BoundedProbes
<1>2. QED
  BY <1>1, PermitInit, PermitStepsInductive, PermitInductive, Typing, PTL DEF Spec

-----------------------------------------------------------------------------
(* How a step can change the fields of the circuit.                        *)

\* What goroutine a does to them in one critical section of stateMu, other than
\* to report an outcome.
Prepares(a) ==
  \/ breaker' = breaker
  \/ breaker.circuit = "half-open" /\ breaker' = ClaimPermit(breaker)
  \/ breaker' = UnclaimPermit(breaker)
  \/ breaker' = advanceCooldown(breaker, at[a])
  \/ breaker' = beginCircuitProbe(breaker, at[a])

\* To report one.
Reports(a) ==
  /\ \E permit \in BOOLEAN :
       breaker' = recordPassive(breaker, outcome[a], permit, at[a])
  /\ streak' = Noted(streak, breaker, breaker', outcome[a], at[a])

Effect(a) == (streak' = streak /\ Prepares(a)) \/ Reports(a)

\* Every step other than a tick is one goroutine's, and has such an effect.
LEMMA StepEffect ==
  ASSUME TypeOK, [Next]_vars
  PROVE  \/ Tick
         \/ clock' = clock /\ \E a \in Actors : Effect(a)
<1>0. Prober \in Actors /\ \A r \in Requests : r \in Actors
  BY DEF Actors
<1>1. ASSUME NEW r \in Requests, Request(r)
      PROVE  clock' = clock /\ Effect(r)
  <2>1. CASE AdvanceCooldown(r)
    BY <2>1, Zenon DEF AdvanceCooldown, Locked, observer, Effect, Prepares
  <2>2. CASE Claim(r)
    BY <2>2 DEF Claim, observer, Effect, Prepares
  <2>3. CASE Unclaim(r)
    BY <2>3, Zenon DEF Unclaim, observer, Effect, Prepares
  <2>4. CASE RecordOutcome(r)
    <3>1. /\ clock' = clock
          /\ breaker' = recordPassive(breaker, outcome[r], halfOpen[r], at[r])
          /\ streak' = Noted(streak, breaker, breaker', outcome[r], at[r])
      BY <2>4, Zenon DEF RecordOutcome, Locked
    <3>2. halfOpen[r] \in BOOLEAN
      BY <1>0 DEF TypeOK
    <3>3. QED
      BY <3>1, <3>2, Zenon DEF Effect, Reports
  <2>5. CASE \/ BeginReserve(r) \/ PublishCooldown(r) \/ Ineligible(r)
             \/ Admit(r) \/ RejectAdmission(r) \/ CountIn(r) \/ Finish(r)
             \/ CountOut(r) \/ ReleaseToken(r) \/ PublishOutcome(r)
    BY <2>5, Zenon
    DEF BeginReserve, PublishCooldown, Ineligible, Admit, RejectAdmission,
        CountIn, Finish, CountOut, ReleaseToken, PublishOutcome, Publish,
        shared, observer, Effect, Prepares
  <2>6. QED
    BY <1>1, <2>1, <2>2, <2>3, <2>4, <2>5 DEF Request, InProgress
<1>2. ASSUME Probe
      PROVE  clock' = clock /\ Effect(Prober)
  <2>1. CASE ClaimProbe
    BY <2>1, Zenon DEF ClaimProbe, Locked, observer, Effect, Prepares
  <2>2. CASE CompleteProbe
    <3>1. /\ clock' = clock
          /\ breaker' = IF halfOpen[Prober]
                        THEN recordPassive(breaker, outcome[Prober], TRUE, at[Prober])
                        ELSE breaker
          /\ streak' = IF halfOpen[Prober]
                       THEN Noted(streak, breaker, breaker', outcome[Prober], at[Prober])
                       ELSE streak
      BY <2>2, Zenon DEF CompleteProbe, Locked
    <3>2. QED
      BY <3>1, Zenon DEF Effect, Prepares, Reports
  <2>3. CASE \/ BeginProbe \/ PublishProbe \/ RecordProbe \/ ReportHealth
             \/ EndProbe \/ PublishOutcome(Prober)
    BY <2>3, Zenon
    DEF BeginProbe, PublishProbe, RecordProbe, ReportHealth, EndProbe,
        PublishOutcome, Publish, shared, observer, Effect, Prepares
  <2>4. QED
    BY <1>2, <2>1, <2>2, <2>3 DEF Probe
<1>3. CASE UNCHANGED vars
  BY <1>0, <1>3, Zenon DEF vars, Effect, Prepares
<1>4. QED
  BY <1>0, <1>1, <1>2, <1>3 DEF Next

-----------------------------------------------------------------------------
(* The backend implements the circuit of module Circuit.                   *)

\* The three fields that module Circuit speaks of move from those of s to those
\* of t as one of its actions allows, at time now or not at all.
Allowed(s, t, now) ==
  \/ /\ t.circuit = s.circuit
     /\ t.openedAt = s.openedAt
     /\ t.halfOpenSuccesses = s.halfOpenSuccesses
  \/ /\ s.circuit \in {"closed", "half-open"}
     /\ t.circuit = "open"
     /\ t.openedAt = now
     /\ t.halfOpenSuccesses = 0
  \/ /\ s.circuit = "open"
     /\ now - s.openedAt >= CircuitCooldown
     /\ t.circuit = "half-open"
     /\ t.openedAt = s.openedAt
     /\ t.halfOpenSuccesses = 0
  \/ /\ s.circuit = "half-open"
     /\ s.halfOpenSuccesses + 1 < HalfOpenSuccesses
     /\ t.circuit = s.circuit
     /\ t.openedAt = s.openedAt
     /\ t.halfOpenSuccesses = s.halfOpenSuccesses + 1
  \/ /\ s.circuit = "half-open"
     /\ s.halfOpenSuccesses + 1 >= HalfOpenSuccesses
     /\ t.circuit = "closed"
     /\ t.openedAt = NoTime
     /\ t.halfOpenSuccesses = 0

\* Claiming and returning a permit is invisible there.
LEMMA PermitsAllowed ==
  ASSUME NEW s \in Breaker, NEW permit \in BOOLEAN, NEW now \in Time
  PROVE  /\ Allowed(s, ClaimPermit(s), now)
         /\ Allowed(s, UnclaimPermit(s), now)
         /\ Allowed(s, ReturnPermit(s, permit), now)
  BY DEF Allowed, ClaimPermit, UnclaimPermit, ReturnPermit, Breaker

\* Elapsed time takes an open circuit to half-open and no further.
LEMMA CooldownAllowed ==
  ASSUME NEW s \in Breaker, NEW now \in Time
  PROVE  /\ Allowed(s, advanceCooldown(s, now), now)
         /\ Allowed(s, beginCircuitProbe(s, now), now)
<1> DEFINE t == advanceCooldown(s, now)
<1>1. t \in Breaker /\ Allowed(s, t, now)
  BY AdvanceCooldownType
  DEF Allowed, advanceCooldown, CooldownElapsed, transitionLocked, Breaker
<1> HIDE DEF t
<1>2. /\ ClaimPermit(t).circuit = t.circuit
      /\ ClaimPermit(t).openedAt = t.openedAt
      /\ ClaimPermit(t).halfOpenSuccesses = t.halfOpenSuccesses
  BY <1>1 DEF ClaimPermit, Breaker
<1>3. Allowed(s, ClaimPermit(t), now)
  BY <1>1, <1>2 DEF Allowed
<1>4. beginCircuitProbe(s, now) = IF ProbePermitted(t) THEN ClaimPermit(t) ELSE t
  BY DEF beginCircuitProbe, t
<1>5. QED
  BY <1>1, <1>3, <1>4 DEF t

\* An outcome opens the circuit, counts a success or closes it on the last one.
LEMMA OutcomeAllowed ==
  ASSUME NEW s \in Breaker, NEW o \in Outcomes, NEW permit \in BOOLEAN,
         NEW now \in Time
  PROVE  Allowed(s, recordPassive(s, o, permit, now), now)
<1> DEFINE d == ReturnPermit(s, permit)
<1>1. /\ d \in Breaker
      /\ d.circuit = s.circuit
      /\ d.openedAt = s.openedAt
      /\ d.halfOpenSuccesses = s.halfOpenSuccesses
  BY PermitType DEF ReturnPermit, UnclaimPermit, Breaker
<1> HIDE DEF d
<1>2. d.circuit = "half-open" => Allowed(d, HalfOpenEvidence(d, o, now), now)
  BY <1>1, ConfigAssumption
  DEF Allowed, HalfOpenEvidence, transitionLocked, Breaker
<1>3. d.circuit = "closed" => Allowed(d, PassiveEvidence(d, o, now), now)
  BY <1>1 DEF Allowed, PassiveEvidence, transitionLocked, Breaker
<1>4. Allowed(d, d, now)
  BY DEF Allowed
<1>5. Allowed(d, recordPassive(s, o, permit, now), now)
  BY <1>2, <1>3, <1>4 DEF recordPassive, d
<1>6. QED
  BY <1>1, <1>5 DEF Allowed

\* Whatever a goroutine does under the lock is allowed at the time it read.
LEMMA EffectAllowed ==
  ASSUME TypeOK, NEW a \in Actors, Effect(a)
  PROVE  Allowed(breaker, breaker', at[a])
<1>1. breaker \in Breaker /\ at[a] \in Time /\ outcome[a] \in Outcomes
  BY DEF TypeOK
<1>2. CASE breaker' = breaker
  BY <1>2 DEF Allowed
<1>3. CASE breaker' = ClaimPermit(breaker) \/ breaker' = UnclaimPermit(breaker)
  BY <1>1, <1>3, PermitsAllowed
<1>4. CASE \/ breaker' = advanceCooldown(breaker, at[a])
           \/ breaker' = beginCircuitProbe(breaker, at[a])
  BY <1>1, <1>4, CooldownAllowed
<1>5. ASSUME NEW permit \in BOOLEAN,
             breaker' = recordPassive(breaker, outcome[a], permit, at[a])
      PROVE  Allowed(breaker, breaker', at[a])
  BY <1>1, <1>5, OutcomeAllowed
<1>6. QED
  BY <1>2, <1>3, <1>4, <1>5 DEF Effect, Prepares, Reports

\* A time a goroutine still uses was read at or before the present: what it
\* decides with it under the lock, it may decide late but never early.
TimesPast == \A a \in Actors : at[a] <= clock

\* The clock only advances, and a goroutine reads it or forgets what it read.
LEMMA TimesPastInductive == TypeOK /\ TimesPast /\ [Next]_vars => TimesPast'
<1> SUFFICES ASSUME TypeOK, TimesPast, [Next]_vars PROVE TimesPast'
  OBVIOUS
<1>1. CASE Tick
  BY <1>1, ConfigAssumption DEF Tick, local, TimesPast, TypeOK, Time
<1>2. ASSUME NEW a \in Actors, clock' = clock,
             \/ at' = at
             \/ ReadClock(a)
             \/ ForgetClock(a)
      PROVE  TimesPast'
  <2>1. clock \in Time /\ at \in [Actors -> Time]
    BY DEF TypeOK
  <2>2. QED
    BY <1>2, <2>1, ConfigAssumption DEF TimesPast, Time, ReadClock, ForgetClock
<1>3. ASSUME NEW r \in Requests, Request(r) PROVE TimesPast'
  <2>1. /\ clock' = clock
        /\ at' = at \/ ReadClock(r) \/ ForgetClock(r)
    BY <1>3, Zenon
    DEF Request, InProgress, BeginReserve, AdvanceCooldown, PublishCooldown,
        Claim, Ineligible, Admit, RejectAdmission, Unclaim, CountIn, Finish,
        RecordOutcome, CountOut, ReleaseToken, PublishOutcome
  <2>2. QED
    BY <1>2, <2>1 DEF Actors
<1>4. CASE Probe
  <2>1. /\ clock' = clock
        /\ at' = at \/ ReadClock(Prober) \/ ForgetClock(Prober)
    BY <1>4, Zenon
    DEF Probe, BeginProbe, ClaimProbe, PublishProbe, RecordProbe, ReportHealth,
        EndProbe, CompleteProbe, PublishOutcome
  <2>2. QED
    BY <1>2, <2>1 DEF Actors
<1>5. CASE UNCHANGED vars
  BY <1>5 DEF vars, TimesPast
<1>6. QED
  BY <1>1, <1>3, <1>4, <1>5 DEF Next

\* A step of the backend is a step of the circuit, or none.
LEMMA StepImplements ==
  ASSUME TypeOK, TimesPast, [Next]_vars
  PROVE  [Abstract!Next]_(Abstract!vars)
<1> USE DEF Abstract!Next, Abstract!vars
<1>1. CASE Tick
  BY <1>1 DEF Tick, shared, Abstract!Tick
<1>2. ASSUME clock' = clock, NEW a \in Actors, Effect(a)
      PROVE  [Abstract!Next]_(Abstract!vars)
  <2>1. Allowed(breaker, breaker', at[a])
    BY <1>2, EffectAllowed
  <2>2. /\ at[a] \in 0 .. clock
        /\ breaker.openedAt \in Int
        /\ clock \in Int /\ CircuitCooldown \in Int
    BY ConfigAssumption DEF TypeOK, TimesPast, Time, Breaker, NoTime
  <2>3. QED
    BY <1>2, <2>1, <2>2
    DEF Allowed, Abstract!Trip, Abstract!Reopen, Abstract!Open, Abstract!Cool,
        Abstract!Probed, Abstract!Recover, Abstract!NoTime, NoTime
<1>3. QED
  BY <1>1, <1>2, StepEffect

\* The backend implements its circuit breaker's promise, for every number of
\* requests and every configuration: an open circuit is never left before its
\* cooldown, measured by a clock read outside the lock, has passed, and a
\* half-open circuit closes on its last success and on nothing else.
THEOREM BackendImplementsCircuit == Spec => ImplementsCircuit
<1>1. Init => Abstract!Init
  BY DEF Init, InitialBreaker, Abstract!Init, Abstract!NoTime, NoTime
<1>2. Init => TimesPast
  BY DEF Init, TimesPast
<1>3. TypeOK /\ TimesPast /\ [Next]_vars => [Abstract!Next]_(Abstract!vars)
  BY StepImplements
<1>4. QED
  BY <1>1, <1>2, <1>3, TimesPastInductive, Typing, PTL
  DEF Spec, ImplementsCircuit, Abstract!Spec

-----------------------------------------------------------------------------
(* What the failures do to a closed circuit.                               *)

\* Burst, of any history k.
BurstOf(k, n) ==
  \E t \in Time :
    \A i \in Len(k) - n + 1 .. Len(k) : t <= k[i] /\ k[i] < t + PassiveInterval

\* The invariant behind EvidenceDecides.  The failures a closed circuit counts
\* are the latest of its history and of one window, which the first of them
\* began unless the history did; and a burst is no longer than what the window
\* before and the present one can hold.
Counted(s, k) ==
  s.circuit = "closed" =>
    /\ s.passiveFailures <= Len(k)
    /\ s.passiveFailures < PassiveFailureThreshold
    /\ \A i \in Len(k) - s.passiveFailures + 1 .. Len(k) :
         k[i] < s.passiveWindowStart + PassiveInterval
    /\ s.passiveFailures < Len(k) =>
         /\ s.passiveFailures >= 1
         /\ k[Len(k) - s.passiveFailures + 1] = s.passiveWindowStart
    /\ \A n \in 1 .. Len(k) :
         BurstOf(k, n) => n <= PassiveFailureThreshold - 1 + s.passiveFailures

\* OpensOnEvidence, of a step from s to t that leaves the history k.
OpenedBy(s, t, k) ==
  s.circuit = "closed" /\ t.circuit = "open" =>
    /\ PassiveFailureThreshold <= Len(k)
    /\ PassiveFailureThreshold > 1 =>
         \A i \in Len(k) - PassiveFailureThreshold + 1 .. Len(k) :
           k[i] < s.passiveWindowStart + PassiveInterval

\* A burst that goes on was one before, and its failures are of one interval.
LEMMA BurstGoesOn ==
  ASSUME NEW k \in Seq(Time), NEW now \in Time, NEW n \in 2 .. Len(k) + 1,
         BurstOf(Append(k, now), n)
  PROVE  /\ BurstOf(k, n - 1)
         /\ \A i \in Len(k) - n + 2 .. Len(k) : now < k[i] + PassiveInterval
<1> DEFINE longer == Append(k, now)
<1>1. PICK t \in Time :
        \A i \in Len(longer) - n + 1 .. Len(longer) :
          t <= longer[i] /\ longer[i] < t + PassiveInterval
  BY Zenon DEF BurstOf
<1>2. /\ Len(longer) = Len(k) + 1 /\ longer[Len(k) + 1] = now
      /\ \A i \in 1 .. Len(k) : longer[i] = k[i]
  OBVIOUS
<1> HIDE DEF longer
<1>3. ASSUME NEW i \in Len(k) - n + 2 .. Len(k)
      PROVE  i \in 1 .. Len(k) /\ t <= k[i] /\ k[i] < t + PassiveInterval
  BY <1>1, <1>2, <1>3
<1>4. now < t + PassiveInterval
  BY <1>1, <1>2
<1>5. \A i \in Len(k) - n + 2 .. Len(k) : now < k[i] + PassiveInterval
  BY <1>3, <1>4, ConfigAssumption DEF Time
<1>6. BurstOf(k, n - 1)
  <2>1. Len(k) - (n - 1) + 1 = Len(k) - n + 2
    OBVIOUS
  <2>2. QED
    BY <1>3, <2>1 DEF BurstOf
<1>7. QED
  BY <1>5, <1>6

\* A failure: it is counted in the window or begins one.  A burst that reaches
\* over the end of a window does not hold the whole of it.
LEMMA FailureCounted ==
  ASSUME NEW s \in Breaker, NEW k \in Seq(Time), NEW now \in Time,
         s.circuit = "closed", Counted(s, k)
  PROVE  /\ Counted(PassiveEvidence(s, "failure", now), Append(k, now))
         /\ OpenedBy(s, PassiveEvidence(s, "failure", now), Append(k, now))
<1> DEFINE failures == IF WindowExpired(s, now) THEN 1 ELSE s.passiveFailures + 1
           start    == IF WindowExpired(s, now) THEN now ELSE s.passiveWindowStart
           next     == [s EXCEPT !.passiveFailures = failures,
                                 !.passiveWindowStart = start]
           longer   == Append(k, now)
<1> USE ConfigAssumption
<1>1. PassiveEvidence(s, "failure", now) =
        IF failures >= PassiveFailureThreshold
        THEN transitionLocked(s, "open", now) ELSE next
  BY DEF PassiveEvidence
<1>2. /\ longer \in Seq(Time) /\ Len(longer) = Len(k) + 1
      /\ longer[Len(k) + 1] = now
      /\ \A i \in 1 .. Len(k) : longer[i] = k[i]
      /\ Len(k) \in Nat
  OBVIOUS
<1>3. /\ s.passiveFailures \in Nat /\ s.passiveFailures <= Len(k)
      /\ s.passiveFailures < PassiveFailureThreshold
      /\ s.passiveWindowStart \in Int /\ now \in Int
      /\ PassiveInterval \in Nat \ {0} /\ PassiveFailureThreshold \in Nat \ {0}
  BY DEF Counted, Breaker, Time, NoTime
<1>4. failures \in Nat \ {0} /\ failures <= Len(k) + 1 /\ start \in Int
  BY <1>3
<1>5. next \in Breaker /\ next.circuit = "closed"
      /\ next.passiveFailures = failures /\ next.passiveWindowStart = start
  BY <1>4 DEF Breaker
<1>6. \A i \in Len(longer) - failures + 1 .. Len(longer) :
        longer[i] < start + PassiveInterval
  <2>1. CASE WindowExpired(s, now)
    BY <1>2, <1>3, <2>1
  <2>2. CASE ~ WindowExpired(s, now)
    <3>1. now < s.passiveWindowStart + PassiveInterval
      BY <1>3, <2>2 DEF WindowExpired
    <3>2. \A i \in Len(k) - s.passiveFailures + 1 .. Len(k) :
            k[i] < s.passiveWindowStart + PassiveInterval
      BY DEF Counted
    <3>3. QED
      BY <1>2, <1>3, <2>2, <3>1, <3>2
  <2>3. QED
    BY <2>1, <2>2
<1>7. failures < Len(longer) => longer[Len(longer) - failures + 1] = start
  <2>1. CASE WindowExpired(s, now)
    BY <1>2, <2>1
  <2>2. CASE ~ WindowExpired(s, now)
    <3>1. s.passiveFailures < Len(k) =>
            /\ s.passiveFailures >= 1
            /\ k[Len(k) - s.passiveFailures + 1] = s.passiveWindowStart
      BY DEF Counted
    <3>2. QED
      BY <1>2, <1>3, <2>2, <3>1
  <2>3. QED
    BY <2>1, <2>2
<1>8. ASSUME NEW n \in 1 .. Len(longer), BurstOf(longer, n)
      PROVE  n <= PassiveFailureThreshold - 1 + failures
  <2>1. CASE n = 1
    BY <1>3, <1>4, <2>1
  <2>2. CASE n # 1
    <3>1. /\ n \in 2 .. Len(k) + 1
          /\ BurstOf(k, n - 1)
          /\ \A i \in Len(k) - n + 2 .. Len(k) : now < k[i] + PassiveInterval
      BY <1>2, <1>8, <2>2, BurstGoesOn
    <3>2. n - 1 <= PassiveFailureThreshold - 1 + s.passiveFailures
      BY <3>1 DEF Counted
    <3>3. CASE ~ WindowExpired(s, now)
      BY <1>3, <3>1, <3>2, <3>3
    <3>4. CASE WindowExpired(s, now)
      <4>1. CASE s.passiveFailures = Len(k)
        BY <1>2, <1>3, <3>1, <3>4, <4>1
      <4>2. CASE s.passiveFailures < Len(k)
        <5>1. /\ s.passiveFailures >= 1
              /\ k[Len(k) - s.passiveFailures + 1] = s.passiveWindowStart
          BY <4>2 DEF Counted
        <5>2. s.passiveWindowStart # NoTime
          BY <1>2, <1>3, <5>1 DEF Time, NoTime
        <5>3. now >= s.passiveWindowStart + PassiveInterval
          BY <1>3, <3>4, <5>2 DEF WindowExpired
        <5>4. ~ (Len(k) - s.passiveFailures + 1 \in Len(k) - n + 2 .. Len(k))
          <6>1. SUFFICES ASSUME Len(k) - s.passiveFailures + 1 \in Len(k) - n + 2 .. Len(k)
                         PROVE  FALSE
            OBVIOUS
          <6>2. now < k[Len(k) - s.passiveFailures + 1] + PassiveInterval
            BY <3>1, <6>1
          <6>3. QED
            BY <1>3, <5>1, <5>3, <6>2
        <5>5. n <= s.passiveFailures
          BY <1>2, <1>3, <3>1, <5>1, <5>4
        <5>6. QED
          BY <1>3, <1>4, <3>1, <5>5
      <4>3. QED
        BY <1>2, <1>3, <4>1, <4>2
    <3>5. QED
      BY <3>3, <3>4
  <2>3. QED
    BY <2>1, <2>2
<1> HIDE DEF longer, failures, start, next
<1>9. CASE failures >= PassiveFailureThreshold
  <2>1. transitionLocked(s, "open", now).circuit = "open"
    BY DEF transitionLocked
  <2>2. Counted(transitionLocked(s, "open", now), longer)
    BY <2>1 DEF Counted
  <2>3. PassiveFailureThreshold <= Len(longer)
    BY <1>2, <1>3, <1>4, <1>9
  <2>4. ASSUME PassiveFailureThreshold > 1,
               NEW i \in Len(longer) - PassiveFailureThreshold + 1 .. Len(longer)
        PROVE  longer[i] < s.passiveWindowStart + PassiveInterval
    <3>1. failures = PassiveFailureThreshold /\ start = s.passiveWindowStart
      BY <1>3, <1>9, <2>4 DEF failures, start
    <3>2. QED
      BY <1>6, <2>4, <3>1
  <2>5. QED
    BY <1>1, <1>9, <2>2, <2>3, <2>4 DEF OpenedBy, longer
<1>10. CASE ~ (failures >= PassiveFailureThreshold)
  <2>1. Counted(next, longer)
    BY <1>2, <1>3, <1>4, <1>5, <1>6, <1>7, <1>8, <1>10 DEF Counted
  <2>2. OpenedBy(s, next, longer)
    BY <1>5 DEF OpenedBy
  <2>3. QED
    BY <1>1, <1>10, <2>1, <2>2 DEF longer
<1>11. QED
  BY <1>9, <1>10

\* With no failures counted and none in the history there is nothing to show.
LEMMA NothingCounted ==
  ASSUME NEW s \in Breaker, s.passiveFailures = 0
  PROVE  Counted(s, <<>>)
  BY ConfigAssumption DEF Counted

\* Reporting an outcome, with or without a permit.
LEMMA OutcomeCounted ==
  ASSUME NEW s \in Breaker, NEW k \in Seq(Time), Counted(s, k),
         NEW o \in Outcomes, NEW permit \in BOOLEAN, NEW now \in Time,
         NEW t, t = recordPassive(s, o, permit, now),
         NEW j, j = Noted(k, s, t, o, now)
  PROVE  Counted(t, j) /\ OpenedBy(s, t, j)
<1> DEFINE d == ReturnPermit(s, permit)
<1>1. /\ d \in Breaker
      /\ d.circuit = s.circuit
      /\ d.passiveFailures = s.passiveFailures
      /\ d.passiveWindowStart = s.passiveWindowStart
  BY PermitType DEF ReturnPermit, UnclaimPermit, Breaker
<1> HIDE DEF d
<1>2. Counted(d, k)
  BY <1>1 DEF Counted
<1>3. t = IF o = "neutral" THEN d
          ELSE IF d.circuit = "half-open" /\ permit
               THEN HalfOpenEvidence(d, o, now)
               ELSE IF d.circuit = "closed"
                    THEN PassiveEvidence(d, o, now)
                    ELSE d
  BY DEF recordPassive, d
<1>4. CASE s.circuit = "closed"
  <2>1. CASE o = "neutral"
    BY <1>1, <1>2, <1>3, <1>4, <2>1 DEF Noted, OpenedBy
  <2>2. CASE o = "success"
    <3>1. /\ j = <<>>
          /\ t = [d EXCEPT !.passiveFailures = 0, !.passiveWindowStart = now]
      BY <1>1, <1>3, <1>4, <2>2 DEF Noted, PassiveEvidence
    <3>2. t \in Breaker
      BY RecordPassiveType
    <3>3. t.passiveFailures = 0 /\ t.circuit = "closed"
      BY <1>1, <1>4, <3>1 DEF Breaker
    <3>4. QED
      BY <3>1, <3>2, <3>3, NothingCounted DEF OpenedBy
  <2>3. CASE o = "failure"
    <3>1. j = Append(k, now) /\ t = PassiveEvidence(d, "failure", now)
      BY <1>1, <1>3, <1>4, <2>3 DEF Noted
    <3>2. Counted(t, j) /\ OpenedBy(d, t, j)
      BY <1>1, <1>2, <1>4, <3>1, FailureCounted
    <3>3. QED
      BY <1>1, <3>2 DEF OpenedBy
  <2>4. QED
    BY <2>1, <2>2, <2>3 DEF Outcomes
<1>5. CASE s.circuit # "closed"
  <2>1. OpenedBy(s, t, j)
    BY <1>5 DEF OpenedBy
  <2>2. CASE t.circuit # "closed"
    BY <2>1, <2>2 DEF Counted
  <2>3. CASE t.circuit = "closed"
    <3>1. j = <<>>
      BY <1>5, <2>3 DEF Noted
    <3>2. t = transitionLocked(d, "closed", now)
      BY <1>1, <1>3, <1>5, <2>3 DEF HalfOpenEvidence, transitionLocked, Breaker
    <3>3. t \in Breaker /\ t.passiveFailures = 0
      BY <1>1, <3>2, TransitionLockedType DEF transitionLocked, CircuitStates
    <3>4. QED
      BY <2>1, <3>1, <3>3, NothingCounted
  <2>4. QED
    BY <2>2, <2>3
<1>6. QED
  BY <1>4, <1>5

\* Whatever else a goroutine does under the lock leaves a closed circuit as it is.
LEMMA PreparationCounted ==
  ASSUME TypeOK, NEW a \in Actors, Prepares(a), Counted(breaker, streak),
         streak' = streak
  PROVE  Counted(breaker', streak') /\ OpenedBy(breaker, breaker', streak')
<1>1. breaker \in Breaker
  BY DEF TypeOK
<1>2. CASE breaker.circuit = "closed"
  <2>1. advanceCooldown(breaker, at[a]) = breaker
    BY <1>2 DEF advanceCooldown, CooldownElapsed
  <2>2. beginCircuitProbe(breaker, at[a]) = breaker
    BY <1>2, <2>1 DEF beginCircuitProbe, ProbePermitted
  <2>3. breaker' = breaker \/ breaker' = UnclaimPermit(breaker)
    BY <1>2, <2>1, <2>2 DEF Prepares
  <2>4. /\ breaker'.circuit = breaker.circuit
        /\ breaker'.passiveFailures = breaker.passiveFailures
        /\ breaker'.passiveWindowStart = breaker.passiveWindowStart
    BY <1>1, <2>3 DEF UnclaimPermit, Breaker
  <2>5. QED
    BY <1>2, <2>4 DEF Counted, OpenedBy
<1>3. CASE breaker.circuit # "closed"
  <2> DEFINE cooled == advanceCooldown(breaker, at[a])
  <2>1. cooled \in Breaker /\ cooled.circuit # "closed"
    BY <1>1, <1>3, AdvanceCooldownType
    DEF advanceCooldown, transitionLocked, TypeOK
  <2>2. ASSUME NEW s \in Breaker, s.circuit # "closed"
        PROVE  ClaimPermit(s).circuit # "closed" /\ UnclaimPermit(s).circuit # "closed"
    BY <2>2 DEF ClaimPermit, UnclaimPermit, Breaker
  <2>3. beginCircuitProbe(breaker, at[a]) =
          IF ProbePermitted(cooled) THEN ClaimPermit(cooled) ELSE cooled
    BY DEF beginCircuitProbe
  <2> HIDE DEF cooled
  <2>4. breaker'.circuit # "closed"
    BY <1>1, <1>3, <2>1, <2>2, <2>3 DEF Prepares, cooled
  <2>5. QED
    BY <1>3, <2>4 DEF Counted, OpenedBy
<1>4. QED
  BY <1>2, <1>3

\* Every step counts as it should, however old the time it is given.
LEMMA CountedInductive ==
  ASSUME TypeOK, Counted(breaker, streak), [Next]_vars
  PROVE  Counted(breaker, streak)' /\ OpenedBy(breaker, breaker', streak')
<1>1. CASE Tick \/ UNCHANGED vars
  <2>1. breaker' = breaker /\ streak' = streak
    BY <1>1 DEF Tick, shared, observer, vars
  <2>2. QED
    BY <2>1 DEF Counted, OpenedBy, BurstOf
<1>2. ASSUME NEW a \in Actors, Effect(a)
      PROVE  Counted(breaker, streak)' /\ OpenedBy(breaker, breaker', streak')
  <2>1. CASE Prepares(a) /\ streak' = streak
    BY <2>1, PreparationCounted
  <2>2. CASE Reports(a)
    <3>1. /\ breaker \in Breaker /\ streak \in Seq(Time)
          /\ at[a] \in Time /\ outcome[a] \in Outcomes
      BY DEF TypeOK
    <3>2. PICK permit \in BOOLEAN :
            breaker' = recordPassive(breaker, outcome[a], permit, at[a])
      BY <2>2 DEF Reports
    <3>3. streak' = Noted(streak, breaker, breaker', outcome[a], at[a])
      BY <2>2 DEF Reports
    <3>4. QED
      BY <3>1, <3>2, <3>3, OutcomeCounted
  <2>3. QED
    BY <1>2, <2>1, <2>2 DEF Effect
<1>3. QED
  BY <1>1, <1>2, StepEffect

\* For every threshold, interval and number of requests, and however old the
\* times they report: a closed circuit opens on nothing less than a threshold
\* of failures of one window, and no burst of twice that length less one leaves
\* it closed.
THEOREM EvidenceOpens == Spec => EvidenceDecides
<1> DEFINE CountedNow == Counted(breaker, streak)
<1>1. Init => CountedNow
  <2>1. breaker = InitialBreaker /\ streak = <<>> => CountedNow
    BY ConfigAssumption DEF Counted, InitialBreaker
  <2>2. QED
    BY <2>1 DEF Init
<1>2. TypeOK /\ CountedNow /\ [Next]_vars => CountedNow'
  BY CountedInductive
<1>3. TypeOK /\ CountedNow /\ [Next]_vars => [OpensOnEvidence]_vars
  <2> SUFFICES ASSUME TypeOK, CountedNow, [Next]_vars PROVE OpensOnEvidence
    OBVIOUS
  <2>1. OpenedBy(breaker, breaker', streak')
    BY CountedInductive
  <2>2. QED
    BY <2>1 DEF OpenedBy, OpensOnEvidence, Latest
<1>4. TypeOK /\ CountedNow => BurstsOpen
  <2> SUFFICES ASSUME TypeOK, CountedNow, breaker.circuit = "closed",
                      NEW n \in 1 .. Len(streak), Burst(n)
               PROVE  n <= 2 * (PassiveFailureThreshold - 1)
    BY DEF BurstsOpen
  <2>1. BurstOf(streak, n)
    BY DEF Burst, BurstOf, Latest
  <2>2. /\ n <= PassiveFailureThreshold - 1 + breaker.passiveFailures
        /\ breaker.passiveFailures < PassiveFailureThreshold
    BY <2>1 DEF Counted
  <2>3. /\ breaker.passiveFailures \in Nat /\ PassiveFailureThreshold \in Nat
        /\ n \in Nat
    BY ConfigAssumption DEF TypeOK, Breaker
  <2>4. QED
    BY <2>2, <2>3
<1> HIDE DEF CountedNow
<1>5. QED
  BY <1>1, <1>2, <1>3, <1>4, Typing, PTL DEF Spec, EvidenceDecides

-----------------------------------------------------------------------------
(* The observer is told of every transition exactly once.                  *)

\* TransitionsAccounted's ledger of circuit events.
Ledger ==
  \A c \in CircuitStates :
    told[c] + Cardinality(Arriving(c)) - Cardinality(Departing(c))
      = IF breaker.circuit = c THEN 1 ELSE 0

\* A goroutine carries a transition only between the critical section that
\* made it and its publication: it enters the next one with none to overwrite.
TransitionSteps ==
  \A a \in Actors :
    transition[a] # NoTransition =>
      pc[a] \in {"cooled", "recorded", "counted", "publishing", "begun"}

\* While a change of health is being reported, the observer knows the opposite.
HealthKnown ==
  toldHealthy = IF pc[Prober] = "reporting" THEN ~ health.healthy ELSE health.healthy

\* The only pending transition that changes is a's.
Pending(a) == \A b \in Actors \ {a} : transition'[b] = transition[b]

\* Whether the transition t arrives in, or departs from, the state c.
Arrives(t, c) == t # NoTransition /\ t[2] = c

Departs(t, c) == t # NoTransition /\ t[1] = c

\* The two counts of the ledger change with a's pending transition.
LEMMA PendingCount ==
  ASSUME NEW a \in Actors, Pending(a), NEW c \in CircuitStates
  PROVE  /\ Cardinality(Arriving(c)) \in Nat
         /\ Cardinality(Departing(c)) \in Nat
         /\ Cardinality(Arriving(c)') = Cardinality(Arriving(c))
              + (IF Arrives(transition'[a], c) THEN 1 ELSE 0)
              - (IF Arrives(transition[a], c) THEN 1 ELSE 0)
         /\ Cardinality(Departing(c)') = Cardinality(Departing(c))
              + (IF Departs(transition'[a], c) THEN 1 ELSE 0)
              - (IF Departs(transition[a], c) THEN 1 ELSE 0)
<1>1. IsFiniteSet(Actors)
  BY ConfigAssumption, FS_AddElement DEF Actors
<1>2. /\ IsFiniteSet(Arriving(c)) /\ Cardinality(Arriving(c)) \in Nat
      /\ IsFiniteSet(Departing(c)) /\ Cardinality(Departing(c)) \in Nat
  BY <1>1, FS_Subset, FS_CardinalityType DEF Arriving, Departing
<1>3. /\ Arriving(c)' = IF Arrives(transition'[a], c) THEN Arriving(c) \cup {a}
                        ELSE Arriving(c) \ {a}
      /\ a \in Arriving(c) <=> Arrives(transition[a], c)
  BY DEF Arriving, Arrives, Pending
<1>4. /\ Departing(c)' = IF Departs(transition'[a], c) THEN Departing(c) \cup {a}
                         ELSE Departing(c) \ {a}
      /\ a \in Departing(c) <=> Departs(transition[a], c)
  BY DEF Departing, Departs, Pending
<1>5. /\ Cardinality(Arriving(c) \cup {a}) = IF a \in Arriving(c)
           THEN Cardinality(Arriving(c)) ELSE Cardinality(Arriving(c)) + 1
      /\ Cardinality(Arriving(c) \ {a}) = IF a \in Arriving(c)
           THEN Cardinality(Arriving(c)) - 1 ELSE Cardinality(Arriving(c))
  BY <1>2, FS_AddElement, FS_RemoveElement
<1>6. /\ Cardinality(Departing(c) \cup {a}) = IF a \in Departing(c)
           THEN Cardinality(Departing(c)) ELSE Cardinality(Departing(c)) + 1
      /\ Cardinality(Departing(c) \ {a}) = IF a \in Departing(c)
           THEN Cardinality(Departing(c)) - 1 ELSE Cardinality(Departing(c))
  BY <1>2, FS_AddElement, FS_RemoveElement
<1>7. Cardinality(Arriving(c)') = Cardinality(Arriving(c))
              + (IF Arrives(transition'[a], c) THEN 1 ELSE 0)
              - (IF Arrives(transition[a], c) THEN 1 ELSE 0)
  BY <1>2, <1>3, <1>5
<1>8. Cardinality(Departing(c)') = Cardinality(Departing(c))
              + (IF Departs(transition'[a], c) THEN 1 ELSE 0)
              - (IF Departs(transition[a], c) THEN 1 ELSE 0)
  BY <1>2, <1>4, <1>6
<1>9. QED
  BY <1>2, <1>7, <1>8

\* A critical section enters the transition it makes.
LEMMA LockedAccounts ==
  ASSUME TypeOK, Ledger, NEW a \in Actors, NEW state \in Breaker,
         transition[a] = NoTransition, Locked(a, state), told' = told
  PROVE  Ledger'
<1> SUFFICES ASSUME NEW c \in CircuitStates
             PROVE  told'[c] + Cardinality(Arriving(c)') - Cardinality(Departing(c)')
                      = IF breaker'.circuit = c THEN 1 ELSE 0
  BY DEF Ledger
<1>1. /\ breaker' = state
      /\ transition'[a] = IF state.circuit = breaker.circuit THEN NoTransition
                          ELSE <<breaker.circuit, state.circuit>>
      /\ Pending(a)
  BY DEF Locked, TypeOK, Pending
<1>2. /\ ~ Arrives(transition[a], c) /\ ~ Departs(transition[a], c)
      /\ Arrives(transition'[a], c) <=>
           state.circuit # breaker.circuit /\ state.circuit = c
      /\ Departs(transition'[a], c) <=>
           state.circuit # breaker.circuit /\ breaker.circuit = c
  BY <1>1 DEF Arrives, Departs, NoTransition
<1>3. told[c] \in Int
  BY DEF TypeOK
<1>4. told[c] + Cardinality(Arriving(c)) - Cardinality(Departing(c))
        = IF breaker.circuit = c THEN 1 ELSE 0
  BY DEF Ledger
<1>5. QED
  BY <1>1, <1>2, <1>3, <1>4, PendingCount

\* Publishing moves an entry from the goroutine to the observer.
LEMMA PublishAccounts ==
  ASSUME TypeOK, Ledger, NEW a \in Actors, Publish(a), breaker' = breaker
  PROVE  Ledger'
<1> SUFFICES ASSUME NEW c \in CircuitStates
             PROVE  told'[c] + Cardinality(Arriving(c)') - Cardinality(Departing(c)')
                      = IF breaker'.circuit = c THEN 1 ELSE 0
  BY DEF Ledger
<1>1. transition'[a] = NoTransition /\ Pending(a)
  BY DEF Publish, TypeOK, Pending
<1>2. PICK from \in CircuitStates, to \in CircuitStates : transition[a] = <<from, to>>
  BY DEF Publish, TypeOK, Transitions
<1>3. told'[c] = told[c] - (IF from = c THEN 1 ELSE 0) + (IF to = c THEN 1 ELSE 0)
  BY <1>2 DEF Publish, TypeOK
<1>4. /\ Arrives(transition[a], c) <=> to = c
      /\ Departs(transition[a], c) <=> from = c
      /\ ~ Arrives(transition'[a], c) /\ ~ Departs(transition'[a], c)
  BY <1>1, <1>2 DEF Arrives, Departs, NoTransition
<1>5. told[c] \in Int
  BY DEF TypeOK
<1>6. told[c] + Cardinality(Arriving(c)) - Cardinality(Departing(c))
        = IF breaker.circuit = c THEN 1 ELSE 0
  BY DEF Ledger
<1>7. QED
  BY <1>1, <1>3, <1>4, <1>5, <1>6, PendingCount

\* Steps that neither move the circuit nor publish.
LEMMA OtherStepsAccount ==
  ASSUME Ledger, UNCHANGED <<told, transition>>, breaker'.circuit = breaker.circuit
  PROVE  Ledger'
  BY DEF Ledger, Arriving, Departing

\* Every step keeps the ledger.
LEMMA LedgerInductive ==
  TypeOK /\ TransitionSteps /\ Ledger /\ [Next]_vars => Ledger'
<1> SUFFICES ASSUME TypeOK, TransitionSteps, Ledger, [Next]_vars PROVE Ledger'
  OBVIOUS
<1>0. /\ Prober \in Actors /\ \A r \in Requests : r \in Actors
      /\ breaker \in Breaker
  BY DEF Actors, TypeOK
<1>1. ASSUME NEW r \in Requests, Request(r) PROVE Ledger'
  <2>1. CASE AdvanceCooldown(r)
    <3>1. transition[r] = NoTransition /\ told' = told
      BY <1>0, <2>1 DEF AdvanceCooldown, TransitionSteps, observer
    <3>2. advanceCooldown(breaker, at[r]) \in Breaker
      BY <1>0, AdvanceCooldownType DEF TypeOK
    <3>3. QED
      BY <1>0, <2>1, <3>1, <3>2, LockedAccounts DEF AdvanceCooldown
  <2>2. CASE RecordOutcome(r)
    <3>1. transition[r] = NoTransition /\ told' = told
      BY <1>0, <2>2 DEF RecordOutcome, Step, TransitionSteps, observer
    <3>2. recordPassive(breaker, outcome[r], halfOpen[r], at[r]) \in Breaker
      BY <1>0, RecordPassiveType DEF TypeOK
    <3>3. Locked(r, recordPassive(breaker, outcome[r], halfOpen[r], at[r]))
      BY <2>2, Zenon DEF RecordOutcome
    <3>4. QED
      BY <1>0, <3>1, <3>2, <3>3, LockedAccounts
  <2>3. CASE PublishCooldown(r) \/ PublishOutcome(r)
    BY <1>0, <2>3, PublishAccounts DEF PublishCooldown, PublishOutcome, shared
  <2>4. CASE Claim(r) \/ Unclaim(r)
    BY <1>0, <2>4, OtherStepsAccount, PermitEffect DEF Claim, Unclaim, observer
  <2>5. CASE \/ BeginReserve(r) \/ Ineligible(r) \/ Admit(r)
             \/ RejectAdmission(r) \/ CountIn(r) \/ Finish(r)
             \/ CountOut(r) \/ ReleaseToken(r)
    <3>1. UNCHANGED <<told, transition, breaker>>
      BY <2>5, Zenon
      DEF BeginReserve, Ineligible, Admit, RejectAdmission, CountIn, Finish,
          CountOut, ReleaseToken, shared, observer
    <3>2. QED
      BY <3>1, OtherStepsAccount
  <2>6. QED
    BY <1>1, <2>1, <2>2, <2>3, <2>4, <2>5 DEF Request, InProgress
<1>2. CASE Probe
  <2>1. CASE ClaimProbe
    <3>1. transition[Prober] = NoTransition /\ told' = told
      BY <1>0, <2>1 DEF ClaimProbe, TransitionSteps, observer
    <3>2. beginCircuitProbe(breaker, at[Prober]) \in Breaker
      BY <1>0, BeginCircuitProbeType DEF TypeOK
    <3>3. Locked(Prober, beginCircuitProbe(breaker, at[Prober]))
      BY <2>1, Zenon DEF ClaimProbe
    <3>4. QED
      BY <1>0, <3>1, <3>2, <3>3, LockedAccounts
  <2>2. CASE CompleteProbe
    <3> DEFINE state == IF halfOpen[Prober]
                        THEN recordPassive(breaker, outcome[Prober], TRUE, at[Prober])
                        ELSE breaker
    <3>1. state \in Breaker
      BY <1>0, RecordPassiveType DEF TypeOK
    <3>2. pc[Prober] = "completing" /\ Locked(Prober, state) /\ told' = told
      BY <2>2, Zenon DEF CompleteProbe, observer
    <3> HIDE DEF state
    <3>3. transition[Prober] = NoTransition
      BY <1>0, <3>2 DEF TransitionSteps
    <3>4. QED
      BY <1>0, <3>1, <3>2, <3>3, LockedAccounts
  <2>3. CASE PublishProbe \/ PublishOutcome(Prober)
    BY <1>0, <2>3, PublishAccounts DEF PublishProbe, PublishOutcome, shared
  <2>4. CASE BeginProbe \/ RecordProbe \/ ReportHealth \/ EndProbe
    <3>1. UNCHANGED <<told, transition, breaker>>
      BY <2>4, Zenon DEF BeginProbe, RecordProbe, ReportHealth, EndProbe, shared,
         observer
    <3>2. QED
      BY <3>1, OtherStepsAccount
  <2>5. QED
    BY <1>2, <2>1, <2>2, <2>3, <2>4 DEF Probe
<1>3. CASE Tick \/ UNCHANGED vars
  BY <1>3, OtherStepsAccount DEF Tick, shared, local, observer, vars
<1>4. QED
  BY <1>1, <1>2, <1>3 DEF Next

\* A critical section that leaves the circuit where it was makes no transition.
LEMMA QuietCooldown ==
  ASSUME TypeOK, NEW a \in Actors, ~ CooldownElapsed(breaker, at[a])
  PROVE  /\ advanceCooldown(breaker, at[a]).circuit = breaker.circuit
         /\ beginCircuitProbe(breaker, at[a]).circuit = breaker.circuit
<1>1. advanceCooldown(breaker, at[a]) = breaker /\ breaker \in Breaker
  BY DEF advanceCooldown, TypeOK
<1>2. QED
  BY <1>1, PermitEffect DEF beginCircuitProbe

\* TransitionSteps: a goroutine returns to a step before a critical section
\* only after it published what the last one made.
LEMMA TransitionStepsInductive ==
  TypeOK /\ TransitionSteps /\ [Next]_vars => TransitionSteps'
<1> SUFFICES ASSUME TypeOK, TransitionSteps, [Next]_vars PROVE TransitionSteps'
  OBVIOUS
<1>0. Prober \in Actors /\ \A r \in Requests : r \in Actors
  BY DEF Actors
<1>1. ASSUME NEW a \in Actors, NEW to, pc' = [pc EXCEPT ![a] = to],
             \A b \in Actors \ {a} : transition'[b] = transition[b],
             transition'[a] # NoTransition =>
               to \in {"cooled", "recorded", "counted", "publishing", "begun"}
      PROVE  TransitionSteps'
  BY <1>1 DEF TransitionSteps, TypeOK
<1>2. ASSUME NEW r \in Requests, Request(r) PROVE TransitionSteps'
  <2>1. CASE AdvanceCooldown(r)
    <3>1. CASE CooldownElapsed(breaker, at[r])
      BY <1>0, <1>1, <2>1, <3>1 DEF AdvanceCooldown, Locked, TypeOK
    <3>2. CASE ~ CooldownElapsed(breaker, at[r])
      <4>1. /\ pc' = [pc EXCEPT ![r] = "checking"]
            /\ transition' = [transition EXCEPT ![r] = NoTransition]
        BY <1>0, <2>1, <3>2, QuietCooldown DEF AdvanceCooldown, Locked
      <4>2. QED
        BY <1>0, <1>1, <4>1 DEF TypeOK
    <3>3. QED
      BY <3>1, <3>2
  <2>2. CASE RecordOutcome(r)
    <3>1. /\ pc' = [pc EXCEPT ![r] = "recorded"]
          /\ \E t : transition' = [transition EXCEPT ![r] = t]
      BY <2>2, Zenon DEF RecordOutcome, Step, Locked
    <3>2. QED
      BY <1>0, <1>1, <3>1 DEF TypeOK
  <2>3. CASE PublishCooldown(r) \/ PublishOutcome(r)
    BY <1>0, <1>1, <2>3 DEF PublishCooldown, PublishOutcome, Publish, Step, TypeOK
  <2>4. CASE CountOut(r)
    BY <1>0, <1>1, <2>4 DEF CountOut, Step
  <2>5. CASE ReleaseToken(r)
    BY <1>0, <1>1, <2>5 DEF ReleaseToken
  <2>6. CASE \/ BeginReserve(r) \/ Claim(r) \/ Ineligible(r) \/ Admit(r)
             \/ RejectAdmission(r) \/ Unclaim(r) \/ CountIn(r) \/ Finish(r)
    <3>1. /\ pc[r] \in {"idle", "checking", "claimed", "unclaiming", "admitted",
                        "serving"}
          /\ \E to : pc' = [pc EXCEPT ![r] = to]
          /\ transition' = transition
      BY <2>6
      DEF BeginReserve, Claim, Ineligible, Admit, RejectAdmission, Unclaim,
          CountIn, Finish, Step
    <3>2. transition[r] = NoTransition
      BY <1>0, <3>1 DEF TransitionSteps
    <3>3. QED
      BY <1>0, <1>1, <3>1, <3>2
  <2>7. QED
    BY <1>2, <2>1, <2>2, <2>3, <2>4, <2>5, <2>6 DEF Request, InProgress
<1>3. CASE Probe
  <2>1. CASE ClaimProbe
    <3>1. /\ pc' = [pc EXCEPT ![Prober] =
               IF CooldownElapsed(breaker, at[Prober]) THEN "begun" ELSE "probing"]
          /\ Locked(Prober, beginCircuitProbe(breaker, at[Prober]))
      BY <2>1, Zenon DEF ClaimProbe
    <3>2. CASE CooldownElapsed(breaker, at[Prober])
      <4>1. \E t : transition' = [transition EXCEPT ![Prober] = t]
        BY <3>1, Zenon DEF Locked
      <4>2. QED
        BY <1>0, <1>1, <3>1, <3>2, <4>1 DEF TypeOK
    <3>3. CASE ~ CooldownElapsed(breaker, at[Prober])
      <4>1. /\ pc' = [pc EXCEPT ![Prober] = "probing"]
            /\ transition' = [transition EXCEPT ![Prober] = NoTransition]
        BY <1>0, <3>1, <3>3, QuietCooldown DEF Locked
      <4>2. QED
        BY <1>0, <1>1, <4>1 DEF TypeOK
    <3>4. QED
      BY <3>2, <3>3
  <2>2. CASE CompleteProbe
    <3>1. PICK state :
            /\ Locked(Prober, state)
            /\ pc' = [pc EXCEPT ![Prober] =
                 IF state.circuit = breaker.circuit THEN "idle" ELSE "publishing"]
      BY <2>2, Zenon DEF CompleteProbe
    <3>2. CASE state.circuit = breaker.circuit
      <4>1. transition' = [transition EXCEPT ![Prober] = NoTransition]
        BY <3>1, <3>2 DEF Locked
      <4>2. QED
        BY <1>0, <1>1, <3>1, <3>2, <4>1 DEF TypeOK
    <3>3. CASE state.circuit # breaker.circuit
      <4>1. \E t : transition' = [transition EXCEPT ![Prober] = t]
        BY <3>1, Zenon DEF Locked
      <4>2. QED
        BY <1>0, <1>1, <3>1, <3>3, <4>1 DEF TypeOK
    <3>4. QED
      BY <3>2, <3>3
  <2>3. CASE PublishProbe \/ PublishOutcome(Prober)
    BY <1>0, <1>1, <2>3 DEF PublishProbe, PublishOutcome, Publish, Step, TypeOK
  <2>4. CASE BeginProbe \/ RecordProbe \/ ReportHealth \/ EndProbe
    <3>1. /\ pc[Prober] \in {"idle", "probing", "reporting", "recording"}
          /\ \E to : pc' = [pc EXCEPT ![Prober] = to]
          /\ transition' = transition
      BY <2>4 DEF BeginProbe, RecordProbe, ReportHealth, EndProbe, Step
    <3>2. transition[Prober] = NoTransition
      BY <1>0, <3>1 DEF TransitionSteps
    <3>3. QED
      BY <1>0, <1>1, <3>1, <3>2
  <2>5. QED
    BY <1>3, <2>1, <2>2, <2>3, <2>4 DEF Probe
<1>4. CASE Tick \/ UNCHANGED vars
  BY <1>4 DEF Tick, local, vars, TransitionSteps
<1>5. QED
  BY <1>2, <1>3, <1>4 DEF Next

\* HealthKnown: the one health worker reports a change before its next probe.
LEMMA HealthKnownInductive ==
  TypeOK /\ HealthKnown /\ [Next]_vars => HealthKnown'
<1> SUFFICES ASSUME TypeOK, HealthKnown, [Next]_vars PROVE HealthKnown'
  OBVIOUS
<1>0. Prober \in Actors /\ \A r \in Requests : r \in Actors /\ r # Prober
  BY ConfigAssumption DEF Actors
<1>1. ASSUME UNCHANGED <<health, toldHealthy>>, NEW a \in Actors, NEW to,
             pc' = [pc EXCEPT ![a] = to],
             a = Prober => pc[a] # "reporting" /\ to # "reporting"
      PROVE  HealthKnown'
  BY <1>0, <1>1 DEF HealthKnown, TypeOK
<1>2. ASSUME NEW r \in Requests, Request(r) PROVE HealthKnown'
  <2>1. /\ UNCHANGED <<health, toldHealthy>>
        /\ \E to : pc' = [pc EXCEPT ![r] = to]
    BY <1>2, Zenon
    DEF Request, InProgress, BeginReserve, AdvanceCooldown, PublishCooldown,
        Claim, Ineligible, Admit, RejectAdmission, Unclaim, CountIn, Finish,
        RecordOutcome, CountOut, ReleaseToken, PublishOutcome, Publish, Step,
        shared, observer
  <2>2. QED
    BY <1>0, <1>1, <2>1
<1>3. CASE Probe
  <2>1. CASE RecordProbe
    <3>1. /\ toldHealthy' = toldHealthy /\ pc[Prober] = "probing"
          /\ pc' = [pc EXCEPT ![Prober] =
               IF health'.healthy = health.healthy THEN "recording" ELSE "reporting"]
      BY <2>1 DEF RecordProbe, observer
    <3>2. health.healthy \in BOOLEAN /\ health'.healthy \in BOOLEAN
      BY NextTypeOK DEF TypeOK, Health
    <3>3. toldHealthy = health.healthy
      BY <3>1 DEF HealthKnown
    <3>4. pc'[Prober] = IF health'.healthy = health.healthy THEN "recording"
                        ELSE "reporting"
      BY <1>0, <3>1 DEF TypeOK
    <3>5. QED
      BY <3>1, <3>2, <3>3, <3>4 DEF HealthKnown
  <2>2. CASE ReportHealth
    <3>1. /\ pc[Prober] = "reporting" /\ pc'[Prober] = "recording"
          /\ toldHealthy' = ~ toldHealthy
          /\ health' = health
          /\ toldHealthy \in BOOLEAN /\ health.healthy \in BOOLEAN
      BY <1>0, <2>2 DEF ReportHealth, Step, shared, TypeOK, Health
    <3>2. QED
      BY <3>1 DEF HealthKnown
  <2>3. CASE CompleteProbe
    <3>1. /\ UNCHANGED <<health, toldHealthy>> /\ pc[Prober] = "completing"
          /\ \E to \in {"idle", "publishing"} : pc' = [pc EXCEPT ![Prober] = to]
      BY <2>3, Zenon DEF CompleteProbe, observer
    <3>2. QED
      BY <1>0, <1>1, <3>1
  <2>4. CASE ClaimProbe
    <3>1. /\ UNCHANGED <<health, toldHealthy>> /\ pc[Prober] = "beginning"
          /\ \E to \in {"begun", "probing"} : pc' = [pc EXCEPT ![Prober] = to]
      BY <2>4, Zenon DEF ClaimProbe, observer
    <3>2. QED
      BY <1>0, <1>1, <3>1
  <2>5. CASE BeginProbe \/ PublishProbe \/ EndProbe \/ PublishOutcome(Prober)
    BY <1>0, <1>1, <2>5
    DEF BeginProbe, PublishProbe, EndProbe, PublishOutcome, Publish, Step, shared,
        observer
  <2>6. QED
    BY <1>3, <2>1, <2>2, <2>3, <2>4, <2>5 DEF Probe
<1>4. CASE Tick \/ UNCHANGED vars
  BY <1>4 DEF Tick, shared, local, observer, vars, HealthKnown
<1>5. QED
  BY <1>2, <1>3, <1>4 DEF Next

\* Transitions published after the lock was released, by any number of
\* goroutines and in any order, add up: the observer misses none and hears none
\* twice, of the circuit and of the health.
THEOREM TransitionsTold == Spec => []TransitionsAccounted
<1>1. Init => TransitionSteps /\ Ledger /\ HealthKnown
  <2> SUFFICES ASSUME Init PROVE TransitionSteps /\ Ledger /\ HealthKnown
    OBVIOUS
  <2>1. \A a \in Actors : transition[a] = NoTransition
    BY DEF Init
  <2>2. \A c \in CircuitStates : Arriving(c) = {} /\ Departing(c) = {}
    BY <2>1 DEF Arriving, Departing
  <2>3. /\ breaker.circuit = "closed"
        /\ told = [c \in CircuitStates |-> IF c = "closed" THEN 1 ELSE 0]
    BY DEF Init, InitialBreaker
  <2>4. Ledger
    BY <2>2, <2>3, FS_EmptySet DEF Ledger
  <2>5. QED
    BY <2>1, <2>4 DEF Init, InitialHealth, TransitionSteps, HealthKnown, Actors
<1>2. Ledger /\ HealthKnown => TransitionsAccounted
  BY DEF Ledger, HealthKnown, TransitionsAccounted, HealthTold
<1>3. QED
  BY <1>1, <1>2, TransitionStepsInductive, LedgerInductive, HealthKnownInductive,
     Typing, PTL DEF Spec

-----------------------------------------------------------------------------
(* The pool of connections: a stack without duplicates.                    *)

Elements(s) == {s[i] : i \in DOMAIN s}

Distinct(s) == \A i, j \in DOMAIN s : i # j => s[i] # s[j]

\* Taking the last entry removes it and nothing else.
LEMMA PopEntry ==
  ASSUME NEW s \in Seq(Conns), s # <<>>, Distinct(s)
  PROVE  LET rest == SubSeq(s, 1, Len(s) - 1)
         IN  /\ s[Len(s)] \in Conns
             /\ rest \in Seq(Conns)
             /\ Len(rest) = Len(s) - 1
             /\ Distinct(rest)
             /\ Elements(s) = Elements(rest) \cup {s[Len(s)]}
             /\ s[Len(s)] \notin Elements(rest)
<1> DEFINE rest == SubSeq(s, 1, Len(s) - 1)
<1>1. Len(s) \in Nat \ {0} /\ DOMAIN s = 1 .. Len(s)
  OBVIOUS
<1>2. /\ rest \in Seq(Conns)
      /\ Len(rest) = Len(s) - 1
      /\ \A i \in 1 .. Len(s) - 1 : rest[i] = s[i]
  BY <1>1
<1>3. DOMAIN rest = 1 .. Len(s) - 1
  BY <1>2
<1>4. s[Len(s)] \in Conns
  BY <1>1
<1> HIDE DEF rest
<1>5. Distinct(rest) /\ s[Len(s)] \notin Elements(rest)
  BY <1>1, <1>2, <1>3 DEF Distinct, Elements
<1>6. Elements(s) = Elements(rest) \cup {s[Len(s)]}
  BY <1>1, <1>2, <1>3 DEF Elements
<1>7. QED
  BY <1>2, <1>4, <1>5, <1>6 DEF rest

\* Adding an entry that is not there keeps the others.
LEMMA PushEntry ==
  ASSUME NEW s \in Seq(Conns), Distinct(s), NEW c \in Conns, c \notin Elements(s)
  PROVE  /\ Append(s, c) \in Seq(Conns)
         /\ Len(Append(s, c)) = Len(s) + 1
         /\ Distinct(Append(s, c))
         /\ Elements(Append(s, c)) = Elements(s) \cup {c}
<1> DEFINE t == Append(s, c)
<1>1. Len(s) \in Nat /\ DOMAIN s = 1 .. Len(s)
  OBVIOUS
<1>2. /\ t \in Seq(Conns)
      /\ Len(t) = Len(s) + 1
      /\ t[Len(s) + 1] = c
      /\ \A i \in 1 .. Len(s) : t[i] = s[i]
  BY <1>1
<1>3. DOMAIN t = 1 .. Len(s) + 1
  BY <1>2
<1> HIDE DEF t
<1>4. Distinct(t)
  BY <1>1, <1>2, <1>3 DEF Distinct, Elements
<1>5. Elements(t) = Elements(s) \cup {c}
  BY <1>1, <1>2, <1>3 DEF Elements
<1>6. QED
  BY <1>2, <1>4, <1>5 DEF t

-----------------------------------------------------------------------------
(* The inductive invariant of the pool.                                    *)

HoldingSteps == {"popped", "owned", "using", "recycling", "joining", "closing"}

\* What PoolInv does not say: an attempt past acquireConnection works on a
\* socket that was dialed, so that the dialer cannot hand it out again; the
\* attempt gives it up in recycleConnection and nowhere else; and sockets are
\* retired by the one call of closeIdleConnections that closes the pool.
Placed ==
  /\ \A a \in Attempts :
       /\ stage[a] \in HoldingSteps => conn[a] \in used
       /\ reusable[a] => stage[a] \in {"joining", "closing"}
  /\ Idle \cup retired \subseteq used
  /\ ~ poolClosed => retired = {}

\* PoolInv, but for the callbacks, which no other part of it depends on.
PoolOwned == PoolTypeOK /\ OneOwner /\ PoolBound /\ NoLeak

PoolIInv == PoolOwned /\ Placed

\* A new pool is empty.
LEMMA PoolStarts == PoolInit => PoolIInv
<1> SUFFICES ASSUME PoolInit PROVE PoolIInv
  OBVIOUS
<1>1. /\ idle \in Seq(Conns) /\ Len(idle) = 0 /\ DOMAIN idle = {}
      /\ retired = {} /\ ~ poolClosed /\ open = {}
      /\ MaxIdleConnections \in Nat
  BY PoolAssumption DEF PoolInit
<1>2. \A a \in Attempts : stage[a] = "start" /\ ~ reusable[a]
  BY DEF PoolInit
<1>3. PoolTypeOK
  BY <1>1 DEF PoolInit, PoolTypeOK, Steps
<1>4. Idle = {}
  BY <1>1 DEF Idle
<1>5. OneOwner /\ PoolBound /\ NoLeak
  BY <1>1, <1>2, <1>4 DEF OneOwner, PoolBound, NoLeak, Owns
<1>6. Placed
  BY <1>1, <1>2, <1>4 DEF Placed, HoldingSteps
<1>7. QED
  BY <1>3, <1>5, <1>6 DEF PoolIInv, PoolOwned

\* Only attempt a moves, and it keeps what Placed says of it.
AttemptMoves(a) ==
  /\ stage' \in [Attempts -> Steps]
  /\ conn' \in [Attempts -> Conns \cup {None}]
  /\ reusable' \in [Attempts -> BOOLEAN]
  /\ canceled' \in [Attempts -> BOOLEAN]
  /\ closer' \in [Attempts -> {"none", "armed", "firing", "fired"}]
  /\ \A b \in Attempts \ {a} :
       stage'[b] = stage[b] /\ conn'[b] = conn[b] /\ reusable'[b] = reusable[b]
  /\ stage'[a] \in HoldingSteps => conn'[a] \in used'
  /\ reusable'[a] => stage'[a] \in {"joining", "closing"}

\* A step that leaves the pool alone: a may only give up its socket, and only
\* once it is closed.
LEMMA AttemptStep ==
  ASSUME PoolIInv, NEW a \in Attempts, AttemptMoves(a),
         UNCHANGED <<used, pool>>, open' \subseteq open,
         Owns(a)' => Owns(a) /\ conn'[a] = conn[a],
         Owns(a) /\ ~ Owns(a)' => conn[a] \notin open'
  PROVE  PoolIInv'
<1>1. /\ \A b \in Attempts : Owns(b)' => Owns(b) /\ conn'[b] = conn[b]
      /\ \A b \in Attempts \ {a} : Owns(b) => Owns(b)'
  BY DEF AttemptMoves, Owns
<1>2. PoolTypeOK'
  BY DEF PoolIInv, PoolOwned, PoolTypeOK, AttemptMoves, pool
<1>3. Idle' = Idle
  BY DEF Idle, pool
<1>4. OneOwner'
  BY <1>1, <1>3 DEF PoolIInv, PoolOwned, OneOwner, pool
<1>5. PoolBound'
  BY DEF PoolIInv, PoolOwned, PoolBound, pool
<1>6. NoLeak'
  BY <1>1, <1>3 DEF PoolIInv, PoolOwned, NoLeak, pool
<1>7. Placed'
  BY <1>3 DEF PoolIInv, Placed, AttemptMoves, pool
<1>8. QED
  BY <1>2, <1>4, <1>5, <1>6, <1>7 DEF PoolIInv, PoolOwned

\* acquireConnection takes the last entry: its owner is now the attempt.
LEMMA PopStep ==
  ASSUME PoolIInv, NEW a \in Attempts, Pop(a)
  PROVE  PoolIInv'
<1> DEFINE c == idle[Len(idle)]
<1>0. idle \in Seq(Conns) /\ idle # <<>> /\ Distinct(idle) /\ Elements(idle) = Idle
  BY DEF Pop, PoolIInv, PoolOwned, PoolTypeOK, OneOwner, Distinct, Elements, Idle
<1>1. /\ c \in Conns
      /\ idle' \in Seq(Conns)
      /\ Len(idle') = Len(idle) - 1
      /\ Distinct(idle')
      /\ Elements(idle') = Idle'
      /\ Idle = Idle' \cup {c} /\ c \notin Idle'
  BY <1>0, PopEntry DEF Pop, Elements, Idle
<1>2. /\ conn' = [conn EXCEPT ![a] = c]
      /\ stage' = [stage EXCEPT ![a] = "popped"]
      /\ stage[a] = "acquiring"
      /\ ~ poolClosed
      /\ UNCHANGED <<open, used, poolClosed, retired, reusable, canceled, closer>>
  BY DEF Pop, Goto
<1> HIDE DEF c
<1>3. /\ c \in used /\ c \notin retired
      /\ \A b \in Attempts : Owns(b) => conn[b] # c /\ conn[b] \notin Idle'
  BY <1>1 DEF PoolIInv, PoolOwned, OneOwner, Placed
<1>4. /\ \A b \in Attempts \ {a} : Owns(b)' <=> Owns(b)
      /\ \A b \in Attempts \ {a} : conn'[b] = conn[b]
      /\ ~ Owns(a) /\ Owns(a)' /\ conn'[a] = c
  BY <1>2 DEF PoolIInv, PoolOwned, PoolTypeOK, Placed, Owns
<1>5. PoolTypeOK'
  BY <1>1, <1>2 DEF PoolIInv, PoolOwned, PoolTypeOK, Steps
<1>6. OneOwner'
  BY <1>1, <1>2, <1>3, <1>4 DEF PoolIInv, PoolOwned, OneOwner, Distinct
<1>7. PoolBound'
  <2>1. Len(idle) \in Nat /\ MaxIdleConnections \in Nat
    BY <1>0, PoolAssumption
  <2>2. QED
    BY <1>1, <1>2, <2>1 DEF PoolIInv, PoolOwned, PoolBound
<1>8. NoLeak'
  BY <1>1, <1>2, <1>4 DEF PoolIInv, PoolOwned, NoLeak
<1>9. Placed'
  BY <1>1, <1>2, <1>3 DEF PoolIInv, PoolOwned, PoolTypeOK, Placed
<1>10. QED
  BY <1>5, <1>6, <1>7, <1>8, <1>9 DEF PoolIInv, PoolOwned

\* The dialer returns a socket nobody has: it was never used before.
LEMMA DialStep ==
  ASSUME PoolIInv, NEW a \in Attempts, Dial(a)
  PROVE  PoolIInv'
<1>1. PICK c \in Conns \ used :
        /\ open' = open \cup {c}
        /\ used' = used \cup {c}
        /\ conn' = [conn EXCEPT ![a] = c]
  BY DEF Dial
<1>2. /\ stage' = [stage EXCEPT ![a] = "owned"]
      /\ stage[a] = "dialing"
      /\ UNCHANGED <<idle, poolClosed, retired, reusable, canceled, closer>>
  BY DEF Dial, Goto, pool
<1>3. Idle' = Idle
  BY <1>2 DEF Idle
<1>4. /\ c \notin Idle /\ c \notin retired
      /\ \A b \in Attempts : Owns(b) => conn[b] # c
  BY DEF PoolIInv, Placed, Owns, HoldingSteps
<1>5. /\ \A b \in Attempts \ {a} : (Owns(b)' <=> Owns(b)) /\ conn'[b] = conn[b]
      /\ ~ Owns(a) /\ Owns(a)' /\ conn'[a] = c
  BY <1>1, <1>2 DEF PoolIInv, PoolOwned, PoolTypeOK, Placed, Owns
<1>6. PoolTypeOK'
  BY <1>1, <1>2 DEF PoolIInv, PoolOwned, PoolTypeOK, Steps
<1>7. OneOwner'
  BY <1>2, <1>3, <1>4, <1>5 DEF PoolIInv, PoolOwned, OneOwner
<1>8. PoolBound'
  BY <1>2 DEF PoolIInv, PoolOwned, PoolBound
<1>9. NoLeak'
  BY <1>1, <1>2, <1>3, <1>5 DEF PoolIInv, PoolOwned, NoLeak
<1>10. Placed'
  BY <1>1, <1>2, <1>3 DEF PoolIInv, PoolOwned, PoolTypeOK, Placed
<1>11. QED
  BY <1>6, <1>7, <1>8, <1>9, <1>10 DEF PoolIInv, PoolOwned

\* recycleConnection: the pool becomes the owner.
LEMMA RecycleStep ==
  ASSUME PoolIInv, NEW a \in Attempts, Recycle(a)
  PROVE  PoolIInv'
<1>0. /\ idle \in Seq(Conns) /\ Distinct(idle) /\ Elements(idle) = Idle
      /\ stage[a] = "recycling" /\ Owns(a)
      /\ conn[a] \in used /\ conn[a] \in Conns
      /\ conn[a] \notin Idle /\ conn[a] \notin retired
  BY DEF Recycle, PoolIInv, PoolOwned, PoolTypeOK, OneOwner, Distinct, Elements, Idle,
     Placed, Owns, HoldingSteps
<1>1. /\ idle' \in Seq(Conns)
      /\ Len(idle') = Len(idle) + 1
      /\ Distinct(idle')
      /\ Idle' = Idle \cup {conn[a]}
  BY <1>0, PushEntry DEF Recycle, Elements, Idle
<1>2. /\ reusable' = [reusable EXCEPT ![a] = TRUE]
      /\ stage' = [stage EXCEPT ![a] = "joining"]
      /\ Len(idle) < MaxIdleConnections
      /\ ~ poolClosed
      /\ UNCHANGED <<open, used, poolClosed, retired, conn, canceled, closer>>
  BY DEF Recycle, Goto, Room
<1>3. /\ \A b \in Attempts \ {a} : (Owns(b)' <=> Owns(b)) /\ conn'[b] = conn[b]
      /\ ~ Owns(a)' /\ conn'[a] = conn[a]
  BY <1>2 DEF PoolIInv, PoolOwned, PoolTypeOK, Owns
<1>4. PoolTypeOK'
  BY <1>1, <1>2 DEF PoolIInv, PoolOwned, PoolTypeOK, Steps
<1>5. OneOwner'
  BY <1>0, <1>1, <1>2, <1>3 DEF PoolIInv, PoolOwned, OneOwner, Distinct
<1>6. PoolBound'
  <2>1. Len(idle) \in Nat /\ MaxIdleConnections \in Nat
    BY <1>0, PoolAssumption
  <2>2. QED
    BY <1>1, <1>2, <2>1 DEF PoolBound
<1>7. NoLeak'
  BY <1>1, <1>2, <1>3 DEF PoolIInv, PoolOwned, NoLeak
<1>8. Placed'
  BY <1>0, <1>1, <1>2 DEF PoolIInv, PoolOwned, PoolTypeOK, Placed
<1>9. QED
  BY <1>4, <1>5, <1>6, <1>7, <1>8 DEF PoolIInv, PoolOwned

\* closeIdleConnections takes the whole stack under the lock, and closes the
\* sockets it took one by one after it.
LEMMA ClosingStep ==
  ASSUME PoolIInv, ClosePool \/ CloseRetired
  PROVE  PoolIInv'
<1>1. /\ UNCHANGED <<used, stage, conn, reusable, canceled, closer>>
      /\ open' \subseteq open
      /\ \A a \in Attempts : Owns(a)' <=> Owns(a)
  BY DEF ClosePool, CloseRetired, Owns
<1>2. CASE ClosePool
  <2>1. /\ retired' = Idle /\ retired = {} /\ idle' = <<>>
        /\ Len(idle') = 0 /\ DOMAIN idle' = {} /\ idle' \in Seq(Conns)
        /\ poolClosed' = TRUE /\ open' = open
    BY <1>2 DEF ClosePool, PoolIInv, Placed, Idle
  <2>2. Idle' = {} /\ Idle \subseteq Conns
    BY <2>1 DEF Idle, PoolIInv, PoolOwned, PoolTypeOK
  <2>3. PoolTypeOK'
    BY <1>1, <2>1, <2>2 DEF PoolIInv, PoolOwned, PoolTypeOK
  <2>4. OneOwner' /\ NoLeak'
    BY <1>1, <2>1, <2>2 DEF PoolIInv, PoolOwned, OneOwner, NoLeak
  <2>5. PoolBound'
    BY <2>1, PoolAssumption DEF PoolBound
  <2>6. Placed'
    BY <1>1, <2>1, <2>2 DEF PoolIInv, Placed
  <2>7. QED
    BY <2>3, <2>4, <2>5, <2>6 DEF PoolIInv, PoolOwned
<1>3. CASE CloseRetired
  <2>1. /\ UNCHANGED <<idle, poolClosed>>
        /\ \E c \in retired : open' = open \ {c} /\ retired' = retired \ {c}
        /\ Idle' = Idle
    BY <1>3 DEF CloseRetired, Idle
  <2>2. PoolTypeOK'
    BY <1>1, <2>1 DEF PoolIInv, PoolOwned, PoolTypeOK
  <2>3. OneOwner'
    BY <1>1, <2>1 DEF PoolIInv, PoolOwned, OneOwner
  <2>4. NoLeak'
    BY <1>1, <2>1 DEF PoolIInv, PoolOwned, NoLeak
  <2>5. PoolBound' /\ Placed'
    BY <1>1, <2>1 DEF PoolIInv, PoolOwned, PoolBound, Placed
  <2>6. QED
    BY <2>2, <2>3, <2>4, <2>5 DEF PoolIInv, PoolOwned
<1>4. QED
  BY <1>2, <1>3

\* Every step keeps the invariant: four operations move a socket between
\* owners, the others leave it with its attempt or close it first.
LEMMA PoolInductive == PoolIInv /\ [PoolNext]_poolVars => PoolIInv'
<1> SUFFICES ASSUME PoolIInv, [PoolNext]_poolVars PROVE PoolIInv'
  OBVIOUS
<1>0. /\ stage \in [Attempts -> Steps]
      /\ conn \in [Attempts -> Conns \cup {None}]
      /\ reusable \in [Attempts -> BOOLEAN]
      /\ canceled \in [Attempts -> BOOLEAN]
      /\ closer \in [Attempts -> {"none", "armed", "firing", "fired"}]
      /\ Placed
  BY DEF PoolIInv, PoolOwned, PoolTypeOK
<1> USE DEF Steps, HoldingSteps
<1>1. ASSUME NEW a \in Attempts, Start(a) \/ AcquireEmpty(a) PROVE PoolIInv'
  <2>1. AttemptMoves(a) /\ ~ Owns(a)'
    BY <1>0, <1>1 DEF Start, AcquireEmpty, Goto, AttemptMoves, Owns, Placed
  <2>2. ~ Owns(a)
    BY <1>1 DEF Start, AcquireEmpty, Owns
  <2>3. QED
    BY <1>1, <2>1, <2>2, AttemptStep DEF Start, AcquireEmpty
<1>2. ASSUME NEW a \in Attempts, AcquireClosed(a) \/ DialFails(a) PROVE PoolIInv'
  <2>1. AttemptMoves(a) /\ ~ Owns(a)'
    BY <1>0, <1>2 DEF AcquireClosed, DialFails, Return, Goto, AttemptMoves, Owns, Placed
  <2>2. ~ Owns(a)
    BY <1>2 DEF AcquireClosed, DialFails, Owns
  <2>3. QED
    BY <1>2, <2>1, <2>2, AttemptStep DEF AcquireClosed, DialFails
<1>3. ASSUME NEW a \in Attempts, Expired(a) PROVE PoolIInv'
  <2>1. AttemptMoves(a) /\ ~ Owns(a)'
    BY <1>0, <1>3 DEF Expired, Goto, AttemptMoves, Owns, Placed
  <2>2. QED
    BY <1>3, <2>1, AttemptStep DEF Expired
<1>4. ASSUME NEW a \in Attempts,
             Fresh(a) \/ Exchanged(a) \/ NotReusable(a)
      PROVE  PoolIInv'
  <2>1. AttemptMoves(a)
    BY <1>0, <1>4 DEF Fresh, Exchanged, NotReusable, Goto, AttemptMoves, Placed
  <2>2. Owns(a)' <=> Owns(a)
    BY <1>0, <1>4 DEF Fresh, Exchanged, NotReusable, Goto, Owns
  <2>3. UNCHANGED <<open, used, pool, conn>>
    BY <1>4 DEF Fresh, Exchanged, NotReusable
  <2>4. QED
    BY <2>1, <2>2, <2>3, AttemptStep
<1>5. ASSUME NEW a \in Attempts, Arm(a) \/ Join(a) PROVE PoolIInv'
  <2>1. AttemptMoves(a)
    BY <1>0, <1>5 DEF Arm, Join, Goto, AttemptMoves, Placed
  <2>2. Owns(a)' <=> Owns(a)
    BY <1>0, <1>5 DEF Arm, Join, Goto, Owns
  <2>3. UNCHANGED <<open, used, pool, conn>>
    BY <1>5 DEF Arm, Join
  <2>4. QED
    BY <2>1, <2>2, <2>3, AttemptStep
<1>6. ASSUME NEW a \in Attempts, Cancel(a) \/ Fire(a) PROVE PoolIInv'
  <2>1. AttemptMoves(a)
    BY <1>0, <1>6 DEF Cancel, Fire, AttemptMoves, Placed
  <2>2. Owns(a)' <=> Owns(a)
    BY <1>6 DEF Cancel, Fire, Owns
  <2>3. UNCHANGED <<used, pool, conn>> /\ open' \subseteq open
    BY <1>6 DEF Cancel, Fire
  <2>4. QED
    BY <2>1, <2>2, <2>3, AttemptStep
<1>7. ASSUME NEW a \in Attempts, RefuseRecycle(a) PROVE PoolIInv'
  <2>1. AttemptMoves(a)
    BY <1>0, <1>7 DEF RefuseRecycle, Goto, AttemptMoves, Placed
  <2>2. Owns(a)' <=> Owns(a)
    BY <1>0, <1>7 DEF RefuseRecycle, Goto, Owns
  <2>3. UNCHANGED <<used, pool, conn>> /\ open' \subseteq open
    BY <1>7 DEF RefuseRecycle
  <2>4. QED
    BY <2>1, <2>2, <2>3, AttemptStep
<1>8. ASSUME NEW a \in Attempts, DeferredClose(a) PROVE PoolIInv'
  <2>1. AttemptMoves(a) /\ ~ Owns(a)'
    BY <1>0, <1>8 DEF DeferredClose, Return, Goto, AttemptMoves, Owns, Placed
  <2>2. Owns(a) => conn[a] \notin open'
    BY <1>8 DEF DeferredClose, Owns
  <2>3. UNCHANGED <<used, pool>> /\ open' \subseteq open
    BY <1>8 DEF DeferredClose
  <2>4. QED
    BY <2>1, <2>2, <2>3, AttemptStep
<1>9. CASE UNCHANGED poolVars
  BY <1>9
  DEF poolVars, PoolIInv, PoolOwned, PoolTypeOK, OneOwner, PoolBound, NoLeak, Placed, Idle, Owns
<1>10. QED
  BY <1>1, <1>2, <1>3, <1>4, <1>5, <1>6, <1>7, <1>8, <1>9, PopStep, DialStep,
     RecycleStep, ClosingStep DEF PoolNext, Attempting

\* A callback is registered before the connection is used and joined before the
\* attempt goes on to close or forget it, canceled or not.
LEMMA CallbackInductive ==
  PoolTypeOK /\ CallbackJoined /\ [PoolNext]_poolVars => CallbackJoined'
<1> SUFFICES ASSUME PoolTypeOK, CallbackJoined, [PoolNext]_poolVars
             PROVE  CallbackJoined'
  OBVIOUS
<1> USE DEF CallbackJoined, Goto
<1>0. /\ stage \in [Attempts -> Steps]
      /\ closer \in [Attempts -> {"none", "armed", "firing", "fired"}]
  BY DEF PoolTypeOK
<1>1. ASSUME NEW a \in Attempts,
             \/ Start(a) \/ AcquireEmpty(a) \/ Pop(a) \/ Expired(a) \/ Fresh(a)
             \/ Dial(a) \/ Exchanged(a) \/ NotReusable(a) \/ Recycle(a)
             \/ RefuseRecycle(a)
      PROVE  CallbackJoined'
  BY <1>0, <1>1
  DEF Start, AcquireEmpty, Pop, Expired, Fresh, Dial, Exchanged, NotReusable,
      Recycle, RefuseRecycle
<1>2. ASSUME NEW a \in Attempts,
             AcquireClosed(a) \/ DialFails(a) \/ DeferredClose(a)
      PROVE  CallbackJoined'
  BY <1>0, <1>2 DEF AcquireClosed, DialFails, DeferredClose, Return
<1>3. ASSUME NEW a \in Attempts, Cancel(a) \/ Arm(a) \/ Fire(a) \/ Join(a)
      PROVE  CallbackJoined'
  BY <1>0, <1>3 DEF Cancel, Arm, Fire, Join
<1>4. CASE ClosePool \/ CloseRetired \/ UNCHANGED poolVars
  BY <1>4 DEF ClosePool, CloseRetired, poolVars
<1>5. QED
  BY <1>1, <1>2, <1>3, <1>4 DEF PoolNext, Attempting

\* Whatever the order of attempts, callbacks and closeIdleConnections: a socket
\* has one owner, the pool keeps its bound and stays empty once closed, no open
\* socket is forgotten, and no callback outlives the attempt that registered it.
THEOREM PoolCorrect == PoolSpec => []PoolInv
<1>1. PoolIInv /\ CallbackJoined => PoolInv
  BY DEF PoolIInv, PoolOwned, PoolInv
<1>2. PoolIInv => PoolTypeOK
  BY DEF PoolIInv, PoolOwned
<1>3. PoolInit => CallbackJoined
  BY DEF PoolInit, CallbackJoined
<1>4. QED
  BY <1>1, <1>2, <1>3, PoolStarts, PoolInductive, CallbackInductive, PTL DEF PoolSpec
=============================================================================
