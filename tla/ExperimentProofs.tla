-------------------------- MODULE ExperimentProofs --------------------------
(***************************************************************************)
(* Proofs about Experiment: what a run without a failed service records is *)
(* final, and the ledger tells every cause before its effect, for every    *)
(* scenario and any number of fixtures, requests and probes; an accepted   *)
(* scenario has a schedule that runs, and a receipt passes exactly on the  *)
(* evidence, for every scenario and every ledger.                          *)
(*                                                                         *)
(* The receipt is final because of the order of the teardown: Stages says  *)
(* what has been joined when the runner is at each of its steps, AtRest    *)
(* what a server that ended without error has left.                        *)
(***************************************************************************)
EXTENDS Experiment, FiniteSetTheorems, WellFoundedInduction, TLAPS

Recording == {"recording_ledger", "recording_fixtures", "returned"}

Canceled == {"canceling", "waiting_for_services"} \cup Recording

Joined == {"waiting_for_idle", "joining_health"} \cup Canceled

\* What the runner has waited for.
Stages ==
  /\ runner \in Joined => scheduler.pc = "done"
  /\ runner \in Canceled => \A f \in Fixtures : worker[f].pc = "gone"
  /\ runner \in Recording /\ Clean => \A s \in Services : service[s] = "ok"

\* A server that has returned without error has no request in its handlers.
AtRest ==
  /\ service["proxy"] = "ok" => \A r \in Requests : request[r].pc \in {"new", "done"}
  /\ \A f \in Fixtures : service[f] = "ok" => active[f] = 0

\* The ledger has the completion of r.
Told(r) == \E i \in DOMAIN ledger : ledger[i].type = "completed" /\ ledger[i].request = r

\* What is recorded is what there is.
Recorded ==
  Clean =>
    /\ runner \in {"recording_fixtures", "returned"} => Len(ledger) = recorded.events
    /\ runner = "returned" => \A f \in Fixtures : recorded.active[f] = 0

\* The ledger has the transition to profile n, if n is not an initial one.
Announced(n) ==
  n \notin {0, None} => \E j \in DOMAIN ledger : ledger[j] = [type |-> "fixture", step |-> n]

\* Profiles are announced before they are loaded.
Causes ==
  /\ scheduler.pc = "applying" => Due /\ Announced(scheduler.next)
  /\ \A f \in Fixtures : Announced(profile[f])
  /\ \A r \in Requests : Announced(request[r].served)

LabIInv ==
  /\ TypeOK /\ Stages /\ AtRest /\ Recorded
  /\ \A r \in Requests : request[r].pc = "done" => Told(r)
  /\ Causes /\ CauseBeforeEffect

-----------------------------------------------------------------------------
(* The schedule                                                            *)

\* The length and the members of a sequence.
LEMMA SeqFacts ==
  ASSUME NEW R, NEW s \in Seq(R)
  PROVE  Len(s) \in Nat /\ \A i \in 1 .. Len(s) : s[i] \in R
OBVIOUS

\* What Resolved makes of a list of n steps.
Listed(steps, n) ==
  /\ DOMAIN steps = 1 .. n
  /\ \A i \in 1 .. n : steps[i].at \in Int /\ steps[i].index = i

\* Of two steps of a list, one comes before the other, and not both.
LEMMA BeforeOrders ==
  ASSUME NEW n \in Nat, NEW steps, Listed(steps, n),
         NEW i \in 1 .. n, NEW j \in 1 .. n
  PROVE  /\ ~ Before(steps[i], steps[i])
         /\ i # j => Before(steps[i], steps[j]) \/ Before(steps[j], steps[i])
         /\ \A k \in 1 .. n :
              Before(steps[i], steps[j]) /\ Before(steps[j], steps[k])
                => Before(steps[i], steps[k])
BY DEF Listed, Before

\* The steps before another are fewer than all.
LEMMA PlaceInRange ==
  ASSUME NEW n \in Nat, NEW steps, Listed(steps, n), NEW i \in 1 .. n
  PROVE  Place(steps, i) \in 1 .. n
<1> DEFINE B == {j \in 1 .. n : Before(steps[j], steps[i])}
<1>1. IsFiniteSet(1 .. n) /\ Cardinality(1 .. n) = n
  BY FS_Interval
<1>2. IsFiniteSet(B) /\ Cardinality(B) < n
  <2>1. B \subseteq 1 .. n /\ B # 1 .. n
    BY BeforeOrders
  <2> HIDE DEF B
  <2>2. IsFiniteSet(B) /\ Cardinality(B) <= n /\ Cardinality(B) # n
    BY <2>1, <1>1, FS_Subset
  <2> QED BY <2>2, FS_CardinalityType
<1>3. Place(steps, i) = 1 + Cardinality(B)
  BY DEF Place, Listed
<1> HIDE DEF B
<1>4. Cardinality(B) \in Nat
  BY <1>2, FS_CardinalityType
<1> QED BY <1>2, <1>3, <1>4

\* A step that comes before another has a lower place.
LEMMA PlaceFollowsOrder ==
  ASSUME NEW n \in Nat, NEW steps, Listed(steps, n),
         NEW i \in 1 .. n, NEW j \in 1 .. n, Before(steps[i], steps[j])
  PROVE  Place(steps, i) < Place(steps, j)
<1> DEFINE B(m) == {l \in 1 .. n : Before(steps[l], steps[m])}
<1>1. B(i) \subseteq B(j) /\ i \in B(j) /\ i \notin B(i) /\ B(j) \subseteq 1 .. n
  BY BeforeOrders
<1>2. Place(steps, i) = 1 + Cardinality(B(i)) /\ Place(steps, j) = 1 + Cardinality(B(j))
  BY DEF Place, Listed
<1> HIDE DEF B
<1>3. IsFiniteSet(B(i)) /\ IsFiniteSet(B(j))
  <2>1. IsFiniteSet(1 .. n)
    BY FS_Interval
  <2>2. IsFiniteSet(B(j))
    BY <1>1, <2>1, FS_Subset
  <2> QED BY <1>1, <2>2, FS_Subset
<1>4. Cardinality(B(i)) <= Cardinality(B(j)) /\ Cardinality(B(i)) # Cardinality(B(j))
  BY <1>1, <1>3, FS_Subset
<1>5. Cardinality(B(i)) \in Nat /\ Cardinality(B(j)) \in Nat
  BY <1>3, FS_CardinalityType
<1> QED BY <1>2, <1>4, <1>5

\* The steps of a list in their order.
Ordered(steps, n, order) ==
  /\ order \in [1 .. n -> 1 .. n]
  /\ \A i \in 1 .. n : \E k \in 1 .. n : order[k] = i
  /\ \A k, l \in 1 .. n : k < l => Before(steps[order[k]], steps[order[l]])

\* Every place is taken once, so sorting loses no step and orders all.
LEMMA SortedOrders ==
  ASSUME NEW n \in Nat, NEW steps, Listed(steps, n)
  PROVE  \E order : /\ Ordered(steps, n, order)
                    /\ Sorted(steps) = [k \in 1 .. n |-> steps[order[k]]]
<1> DEFINE place == [i \in 1 .. n |-> Place(steps, i)]
           order == [k \in 1 .. n |-> CHOOSE i \in 1 .. n : Place(steps, i) = k]
<1>1. \A i \in 1 .. n : Place(steps, i) \in 1 .. n
  BY PlaceInRange
<1>2. \A i, j \in 1 .. n : Place(steps, i) = Place(steps, j) => i = j
  <2> SUFFICES ASSUME NEW i \in 1 .. n, NEW j \in 1 .. n,
                      Place(steps, i) = Place(steps, j), i # j
               PROVE  FALSE
    OBVIOUS
  <2>1. Before(steps[i], steps[j]) \/ Before(steps[j], steps[i])
    BY BeforeOrders
  <2>2. Place(steps, i) < Place(steps, j) \/ Place(steps, j) < Place(steps, i)
    BY <2>1, PlaceFollowsOrder
  <2> QED BY <2>2, <1>1
<1>3. \A k \in 1 .. n : \E i \in 1 .. n : Place(steps, i) = k
  <2>1. place \in Injection(1 .. n, 1 .. n)
    BY <1>1, <1>2 DEF Injection, IsInjective
  <2>2. place \in Surjection(1 .. n, 1 .. n)
    <3> HIDE DEF place
    <3> QED BY <2>1, FS_Injection, FS_Interval
  <2> QED BY <2>2 DEF Surjection
<1>4. \A k \in 1 .. n : order[k] \in 1 .. n /\ Place(steps, order[k]) = k
  BY <1>3
<1>5. Sorted(steps) = [k \in 1 .. n |-> steps[order[k]]]
  BY DEF Sorted, Listed
<1>6. order \in [1 .. n -> 1 .. n]
  BY <1>4
<1> HIDE DEF order
<1>7. \A i \in 1 .. n : \E k \in 1 .. n : order[k] = i
  BY <1>1, <1>2, <1>4
<1>8. ASSUME NEW k \in 1 .. n, NEW l \in 1 .. n, k < l
      PROVE  Before(steps[order[k]], steps[order[l]])
  <2>1. order[k] # order[l]
    BY <1>4, <1>8
  <2>2. CASE Before(steps[order[l]], steps[order[k]])
    <3>1. Place(steps, order[l]) < Place(steps, order[k])
      BY <2>2, <1>6, PlaceFollowsOrder
    <3> QED BY <3>1, <1>4, <1>8
  <2> QED BY <2>1, <2>2, <1>6, BeforeOrders
<1> QED BY <1>5, <1>6, <1>7, <1>8 DEF Ordered

\* The least-number principle, which stands for induction.
LEMMA Least ==
  ASSUME NEW T \in SUBSET Nat, NEW t \in T
  PROVE  \E x \in T : \A y \in T : x <= y
<1>1. IsWellFoundedOn(OpToRel(<, Nat), Nat)
  BY NatLessThanWellFounded, Zenon
<1>2. PICK x \in T : \A y \in T : ~ (<<y, x>> \in OpToRel(<, Nat))
  BY <1>1, WFMin, Zenon
<1>3. \A y \in T : ~ (y < x)
  BY <1>2 DEF OpToRel
<1> QED BY <1>3

\* A set of numbers with a bound has a greatest member.
LEMMA Greatest ==
  ASSUME NEW k \in Nat, NEW T \in SUBSET (1 .. k), T # {}
  PROVE  Max(T) \in T /\ \A y \in T : Max(T) >= y
<1> DEFINE U == {k - y : y \in T}
<1>1. U \in SUBSET Nat /\ U # {}
  <2>1. \A y \in T : k - y \in Nat
    OBVIOUS
  <2> QED BY <2>1
<1>2. PICK u \in U : \A v \in U : u <= v
  BY <1>1, Least
<1>3. PICK x \in T : u = k - x
  BY <1>2
<1>4. ASSUME NEW y \in T PROVE x >= y
  <2>1. k - y \in U
    OBVIOUS
  <2>2. k - x <= k - y
    BY <1>2, <1>3, <2>1
  <2>3. x \in 1 .. k /\ y \in 1 .. k
    OBVIOUS
  <2> QED BY <2>2, <2>3
<1> QED BY <1>4 DEF Max

\* The mode of fixture f after the first k steps.
ModeAfter(initial, steps, k, f) ==
  LET I == {i \in 1 .. k : steps[i].fixture = f}
  IN  IF I # {} THEN steps[Max(I)].mode ELSE initial[f]

\* One more step is the latest of its own fixture, and of no other.
LEMMA OneMoreStep ==
  ASSUME NEW initial, NEW steps, NEW k \in Nat, k # 0, NEW f
  PROVE  ModeAfter(initial, steps, k, f) =
           IF steps[k].fixture = f THEN steps[k].mode
           ELSE ModeAfter(initial, steps, k - 1, f)
<1> DEFINE I(m) == {i \in 1 .. m : steps[i].fixture = f}
<1>1. CASE steps[k].fixture = f
  <2>1. k \in I(k) /\ I(k) \in SUBSET (1 .. k)
    BY <1>1
  <2>2. Max(I(k)) \in I(k) /\ Max(I(k)) >= k
    <3> HIDE DEF I
    <3> QED BY <2>1, Greatest
  <2>3. Max(I(k)) = k
    BY <2>2
  <2> QED BY <1>1, <2>1, <2>3 DEF ModeAfter
<1>2. CASE steps[k].fixture # f
  <2>1. I(k) = I(k - 1)
    BY <1>2
  <2> QED BY <1>2, <2>1 DEF ModeAfter
<1> QED BY <1>1, <1>2

\* The modes that validate keeps are those of the latest steps.
LEMMA ModesAreLatest ==
  ASSUME NEW F, NEW initial \in [F -> Modes], NEW steps, NEW n \in Nat, Len(steps) = n,
         \A k \in 1 .. n : steps[k].fixture \in F
  PROVE  \A k \in 0 .. n :
           resolvedModes(initial, steps)[k] = [f \in F |-> ModeAfter(initial, steps, k, f)]
<1> DEFINE Step(m) == [k \in 0 .. n |->
                         IF k = 0 THEN initial
                         ELSE [m[k - 1] EXCEPT ![steps[k].fixture] = steps[k].mode]]
           after == [k \in 0 .. n |-> [f \in F |-> ModeAfter(initial, steps, k, f)]]
           modes == resolvedModes(initial, steps)
<1>1. after = Step(after)
  <2>1. after[0] = initial
    <3>1. \A f \in F : ModeAfter(initial, steps, 0, f) = initial[f]
      BY DEF ModeAfter
    <3> QED BY <3>1
  <2>2. ASSUME NEW k \in 0 .. n, k # 0
        PROVE  after[k] = [after[k - 1] EXCEPT ![steps[k].fixture] = steps[k].mode]
    <3>1. \A f \in F : ModeAfter(initial, steps, k, f) =
                         IF steps[k].fixture = f THEN steps[k].mode
                         ELSE ModeAfter(initial, steps, k - 1, f)
      <4>1. k \in Nat /\ k # 0
        BY <2>2
      <4> TAKE f \in F
      <4> QED BY ONLY <4>1, OneMoreStep
    <3>2. k - 1 \in 0 .. n
      BY <2>2
    <3> QED BY <2>2, <3>1, <3>2
  <2> QED BY <2>1, <2>2
<1>2. modes = CHOOSE m : m = Step(m)
  BY DEF resolvedModes
<1> HIDE DEF after, modes
<1>3. modes = Step(modes)
  BY <1>1, <1>2
<1>4. SUFFICES ASSUME NEW b \in 0 .. n, modes[b] # after[b]
               PROVE  FALSE
  BY DEF modes, after
<1> DEFINE T == {k \in 0 .. n : modes[k] # after[k]}
<1>5. T \in SUBSET Nat /\ b \in T
  BY <1>4
<1>6. PICK k \in T : \A y \in T : k <= y
  <2> HIDE DEF T
  <2> QED BY <1>5, Least
<1>7. k # 0 => k - 1 \in 0 .. n /\ modes[k - 1] = after[k - 1]
  BY <1>6
<1>8. modes[k] = after[k]
  <2>1. k \in 0 .. n
    BY <1>6
  <2>2. CASE k = 0
    BY <2>1, <2>2, <1>1, <1>3
  <2>3. CASE k # 0
    <3> HIDE DEF T
    <3>1. /\ modes[k] = [modes[k - 1] EXCEPT ![steps[k].fixture] = steps[k].mode]
          /\ after[k] = [after[k - 1] EXCEPT ![steps[k].fixture] = steps[k].mode]
      BY <2>1, <2>3, <1>1, <1>3
    <3> QED BY <2>3, <3>1, <1>7
  <2> QED BY <2>2, <2>3
<1> QED BY <1>6, <1>8

\* The schedule is made of the resolved steps of the file.
LEMMA ScheduleFacts ==
  ASSUME NEW s, IsScenario(s)
  PROVE  LET n == Len(s.steps)
             resolved == Resolved(s.steps)
         IN /\ n \in Nat /\ DOMAIN s.steps = 1 .. n
            /\ Listed(resolved, n)
            /\ schedule(s.steps) \in Seq([index : Nat, at : Int, fixture : DOMAIN s.initial, mode : Modes])
            /\ Len(schedule(s.steps)) = n
            /\ DOMAIN schedule(s.steps) = 1 .. n
            /\ \E order : /\ Ordered(resolved, n, order)
                          /\ \A k \in 1 .. n : schedule(s.steps)[k] = resolved[order[k]]
<1> DEFINE n == Len(s.steps)
           resolved == Resolved(s.steps)
           F == DOMAIN s.initial
           R == [index : Nat, at : Int, fixture : F, mode : Modes]
           C == [at : Int, jitter : Int, draw : Int, fixture : F, mode : Modes]
<1>1. n \in Nat /\ DOMAIN s.steps = 1 .. n /\ \A i \in 1 .. n : s.steps[i] \in C
  <2>1. s.steps \in Seq(C)
    BY DEF IsScenario
  <2> HIDE DEF C
  <2> QED BY <2>1
<1>2. resolved \in [1 .. n -> R] /\ \A i \in 1 .. n : resolved[i].index = i
  BY <1>1 DEF Resolved
<1>3. Listed(resolved, n)
  <2>1. \A r \in R : r.at \in Int
    OBVIOUS
  <2> HIDE DEF R, resolved
  <2> QED BY <1>2, <2>1 DEF Listed
<1> HIDE DEF R, resolved
<1>4. PICK order : Ordered(resolved, n, order) /\ Sorted(resolved) = [k \in 1 .. n |-> resolved[order[k]]]
  BY <1>1, <1>3, SortedOrders
<1>5. schedule(s.steps) = [k \in 1 .. n |-> resolved[order[k]]]
  BY <1>4 DEF schedule, resolved
<1>6. schedule(s.steps) \in [1 .. n -> R]
  BY <1>2, <1>4, <1>5 DEF Ordered
<1>7. schedule(s.steps) \in Seq(R) /\ Len(schedule(s.steps)) = n
  BY <1>1, <1>6
<1> QED BY <1>1, <1>3, <1>4, <1>5, <1>6, <1>7 DEF R, resolved

\* In time: jitter does not take a step out of the scenario.
LEMMA ResolvedInTime ==
  ASSUME NEW s, IsScenario(s), StepsInTime(s), NEW i \in DOMAIN s.steps
  PROVE  /\ Resolved(s.steps)[i].at \in 0 .. s.duration - 1
         /\ Resolved(s.steps)[i].mode = s.steps[i].mode
         /\ Resolved(s.steps)[i].index = i
<1> DEFINE C == [at : Int, jitter : Int, draw : Int, fixture : DOMAIN s.initial, mode : Modes]
           c == s.steps[i]
<1>1. c \in C /\ c \in ToSet(s.steps)
  <2>1. s.steps \in Seq(C)
    BY DEF IsScenario
  <2> HIDE DEF C
  <2> QED BY <2>1 DEF ToSet
<1>2. /\ 0 <= c.at /\ c.at < s.duration
      /\ 0 <= c.jitter /\ c.jitter <= c.at /\ c.jitter < s.duration - c.at
  BY <1>1 DEF StepsInTime
<1>3. IF c.jitter > 0 THEN - c.jitter <= c.draw /\ c.draw <= c.jitter ELSE c.draw = 0
  BY <1>1 DEF IsScenario
<1>4. c.at \in Int /\ c.jitter \in Int /\ c.draw \in Int /\ s.duration \in Int
  BY <1>1 DEF IsScenario
<1> HIDE DEF c
<1>5. c.at + c.draw \in 0 .. s.duration - 1
  BY <1>2, <1>3, <1>4
<1> QED BY <1>5 DEF Resolved, c

\* A scenario that is accepted runs as it should.
LEMMA AcceptedRuns ==
  ASSUME NEW s, IsScenario(s), validate(s)
  PROVE  Runs(s, schedule(s.steps))
<1> DEFINE n == Len(s.steps)
           resolved == Resolved(s.steps)
           steps == schedule(s.steps)
           F == DOMAIN s.initial
<1>1. /\ n \in Nat /\ DOMAIN s.steps = 1 .. n
      /\ Listed(resolved, n)
      /\ steps \in Seq([index : Nat, at : Int, fixture : F, mode : Modes])
      /\ Len(steps) = n /\ DOMAIN steps = 1 .. n
  BY ScheduleFacts
<1>2. PICK order : /\ Ordered(resolved, n, order)
                   /\ \A k \in 1 .. n : steps[k] = resolved[order[k]]
  BY ScheduleFacts
<1>3. StepsInTime(s) /\ RecoversFaults(s.initial, steps)
  BY DEF validate
<1>4. \A i \in 1 .. n : /\ resolved[i].at \in 0 .. s.duration - 1
                        /\ resolved[i].mode = s.steps[i].mode
                        /\ resolved[i].index = i
  BY <1>1, <1>3, ResolvedInTime
<1>5. \A k \in 1 .. n : steps[k].fixture \in F
  <2> DEFINE R == [index : Nat, at : Int, fixture : F, mode : Modes]
  <2>1. \A k \in 1 .. n : steps[k] \in R
    <3> HIDE DEF R, steps
    <3>1. steps \in Seq(R)
      BY <1>1 DEF R
    <3> QED BY <1>1, <3>1
  <2> QED BY <2>1
<1> HIDE DEF steps, resolved, n
<1>6. \A k \in 1 .. n : order[k] \in 1 .. n
  BY <1>2 DEF Ordered
<1>7. {t.index : t \in ToSet(steps)} = DOMAIN s.steps
  <2>1. \A k \in 1 .. n : steps[k].index = order[k]
    BY <1>2, <1>4, <1>6
  <2>2. \A i \in 1 .. n : \E k \in 1 .. n : order[k] = i
    BY <1>2 DEF Ordered
  <2>3. ToSet(steps) = {steps[k] : k \in 1 .. n}
    BY <1>1 DEF ToSet
  <2>4. {t.index : t \in ToSet(steps)} = {order[k] : k \in 1 .. n}
    BY <2>1, <2>3
  <2> QED BY <1>1, <1>6, <2>2, <2>4
<1>8. ASSUME NEW i \in DOMAIN steps, NEW j \in DOMAIN steps, i < j
      PROVE  Before(steps[i], steps[j])
  <2>1. i \in 1 .. n /\ j \in 1 .. n
    BY <1>1
  <2>2. Before(resolved[order[i]], resolved[order[j]])
    BY <1>2, <1>8, <2>1 DEF Ordered
  <2> QED BY <1>2, <2>1, <2>2
<1>9. \A k \in 1 .. n : /\ steps[k].at \in 0 .. s.duration - 1
                        /\ steps[k].mode = s.steps[steps[k].index].mode
  BY <1>2, <1>4, <1>6
<1>10. ASSUME NEW k \in 1 .. n, steps[k].mode = "recovered"
       PROVE  isFaultMode(ModeAfter(s.initial, steps, k - 1, steps[k].fixture))
  <2>1. s.initial \in [F -> Modes]
    BY DEF IsScenario
  <2>2. k - 1 \in 0 .. n
    BY <1>1
  <2>3. resolvedModes(s.initial, steps)[k - 1] = [f \in F |-> ModeAfter(s.initial, steps, k - 1, f)]
    <3> HIDE DEF F
    <3>1. n \in Nat /\ Len(steps) = n
      BY <1>1
    <3> QED BY ONLY <1>5, <2>1, <2>2, <3>1, ModesAreLatest
  <2>4. isFaultMode(resolvedModes(s.initial, steps)[k - 1][steps[k].fixture])
    BY <1>1, <1>3, <1>10 DEF RecoversFaults
  <2> QED BY <2>3, <2>4, <1>5
<1>11. ASSUME NEW k \in 1 .. n
       PROVE  ModeAfter(s.initial, steps, k - 1, steps[k].fixture) =
                LET last == SelectLastInSubSeq(steps, 1, k - 1,
                              LAMBDA t : t.fixture = steps[k].fixture)
                IN IF last = 0 THEN s.initial[steps[k].fixture] ELSE steps[last].mode
  <2> DEFINE I == {i \in 1 .. k - 1 : steps[i].fixture = steps[k].fixture}
  <2>1. I # {} => Max(I) # 0
    <3>1. I \in SUBSET (1 .. k - 1) /\ k - 1 \in Nat
      BY <1>1
    <3> HIDE DEF I
    <3>2. I # {} => Max(I) \in I
      BY <3>1, Greatest
    <3> QED BY <3>1, <3>2
  <2> QED BY <2>1 DEF ModeAfter, SelectLastInSubSeq
<1>12. ASSUME NEW k \in DOMAIN steps
       PROVE  /\ steps[k].at \in 0 .. s.duration - 1
              /\ steps[k].mode = s.steps[steps[k].index].mode
              /\ steps[k].mode = "recovered" =>
                   isFaultMode(LET last == SelectLastInSubSeq(steps, 1, k - 1,
                                             LAMBDA t : t.fixture = steps[k].fixture)
                               IN IF last = 0 THEN s.initial[steps[k].fixture]
                                  ELSE steps[last].mode)
  <2>1. k \in 1 .. n
    BY <1>1
  <2> QED BY <2>1, <1>9, <1>10, <1>11
<1>13. Len(steps) = Len(s.steps)
  BY <1>1 DEF n
<1> QED BY <1>7, <1>8, <1>12, <1>13 DEF Runs, steps

-----------------------------------------------------------------------------
(* The receipt                                                             *)

\* A finite set of numbers has a greatest member.
LEMMA FiniteHasGreatest ==
  ASSUME NEW S \in SUBSET Int, IsFiniteSet(S), S # {}
  PROVE  Max(S) \in S /\ \A y \in S : Max(S) >= y
<1>0. PICK n \in Nat : ExistsSurjection(1 .. n, S)
  BY FS_NatSurjection
<1>1. PICK f : f \in Surjection(1 .. n, S)
  BY <1>0 DEF ExistsSurjection
<1>2. f \in [1 .. n -> S] /\ \A y \in S : \E i \in 1 .. n : f[i] = y
  BY <1>1 DEF Surjection
<1> DEFINE T == {m \in 1 .. n : \E i \in 1 .. m : \A j \in 1 .. m : f[i] >= f[j]}
<1>3. n \in 1 .. n /\ 1 \in T
  <2>1. n # 0
    <3>1. n = 0 => 1 .. n = {}
      OBVIOUS
    <3> QED BY <1>2, <3>1
  <2>2. \A j \in 1 .. 1 : j = 1
    OBVIOUS
  <2>3. 1 \in 1 .. n /\ n \in 1 .. n
    BY <2>1
  <2>4. f[1] \in Int
    BY <1>2, <2>3
  <2> QED BY <2>2, <2>3, <2>4
<1>4. ASSUME NEW m \in T, m # n PROVE m + 1 \in T
  <2>1. PICK i \in 1 .. m : \A j \in 1 .. m : f[i] >= f[j]
    OBVIOUS
  <2>2. m \in 1 .. n /\ m + 1 \in 1 .. n
    BY <1>4
  <2>3. \A j \in 1 .. m + 1 : j \in 1 .. m \/ j = m + 1
    BY <2>2
  <2>4. \A j \in 1 .. m + 1 : j \in 1 .. n /\ f[j] \in Int
    <3>1. \A j \in 1 .. m + 1 : j \in 1 .. n
      BY <2>2
    <3> QED BY <1>2, <3>1
  <2>5. m + 1 \in 1 .. m + 1 /\ i \in 1 .. m + 1
    BY <2>2
  <2>6. CASE f[i] >= f[m + 1]
    BY <2>1, <2>2, <2>3, <2>5, <2>6
  <2>7. CASE ~ (f[i] >= f[m + 1])
    <3>1. \A j \in 1 .. m + 1 : f[m + 1] >= f[j]
      BY <2>1, <2>3, <2>4, <2>5, <2>7
    <3> QED BY <2>2, <2>5, <3>1
  <2> QED BY <2>6, <2>7
<1>5. n \in T
  <2>1. T \in SUBSET (1 .. n) /\ T # {}
    BY <1>3
  <2> HIDE DEF T
  <2>2. Max(T) \in T /\ \A y \in T : Max(T) >= y
    BY <2>1, Greatest
  <2>3. PICK m \in T : \A y \in T : m >= y
    BY <2>2
  <2>4. m \in 1 .. n /\ ~ (m >= m + 1)
    BY <2>1
  <2>5. m = n
    BY <1>4, <2>3, <2>4
  <2> QED BY <2>5
<1>6. PICK i \in 1 .. n : \A j \in 1 .. n : f[i] >= f[j]
  BY <1>5
<1>7. f[i] \in S /\ \A y \in S : f[i] >= y
  BY <1>2, <1>6
<1> QED BY <1>7 DEF Max

\* The completions since the last success, after k events.
OpenRun(events, k) ==
  {i \in Completions(events) : i <= k /\ \A j \in i .. k : j \notin Successes(events)}

\* One more event: a failure joins the run, a success ends it.
LEMMA OneMoreEvent ==
  ASSUME NEW events, NEW n \in Nat, DOMAIN events = 1 .. n, NEW k \in 1 .. n
  PROVE  /\ k \notin Completions(events) => OpenRun(events, k) = OpenRun(events, k - 1)
         /\ k \in Successes(events) => OpenRun(events, k) = {}
         /\ k \in Completions(events) \ Successes(events) =>
              /\ OpenRun(events, k) = OpenRun(events, k - 1) \cup {k}
              /\ k \notin OpenRun(events, k - 1)
<1>1. Completions(events) \subseteq 1 .. n /\ Successes(events) \subseteq Completions(events)
  BY DEF Completions, Successes, Succeeded
<1>2. \A i \in 1 .. n : i <= k - 1 => i .. k = (i .. k - 1) \cup {k}
  OBVIOUS
<1>3. \A i \in 1 .. n : i <= k => k \in i .. k
  OBVIOUS
<1>4. \A i \in 1 .. n : i <= k <=> i <= k - 1 \/ i = k
  OBVIOUS
<1>5. k .. k = {k} /\ ~ (k <= k - 1)
  OBVIOUS
<1> QED BY <1>1, <1>2, <1>3, <1>4, <1>5 DEF OpenRun

\* The run of failures is the number of completions since the last success.
LEMMA RunsAreTails ==
  ASSUME NEW events, NEW n \in Nat, Len(events) = n, DOMAIN events = 1 .. n
  PROVE  /\ failureRuns(events) = [k \in 0 .. n |-> Cardinality(OpenRun(events, k))]
         /\ \A k \in 0 .. n : IsFiniteSet(OpenRun(events, k))
<1> DEFINE Step(run) ==
             [k \in 0 .. n |->
                CASE k = 0 -> 0
                  [] k > 0 /\ ~ Completed(events[k]) -> run[k - 1]
                  [] k > 0 /\ Succeeded(events[k]) -> 0
                  [] OTHER -> run[k - 1] + 1]
           tails == [k \in 0 .. n |-> Cardinality(OpenRun(events, k))]
           runs == failureRuns(events)
<1>1. \A k \in 0 .. n : IsFiniteSet(OpenRun(events, k))
  <2>1. IsFiniteSet(1 .. n)
    BY FS_Interval
  <2>2. \A k \in 0 .. n : OpenRun(events, k) \subseteq 1 .. n
    BY DEF OpenRun, Completions
  <2> QED BY <2>1, <2>2, FS_Subset
<1>2. tails[0] = 0
  <2>1. OpenRun(events, 0) = {}
    BY DEF OpenRun, Completions
  <2> QED BY <2>1, FS_EmptySet
<1>3. ASSUME NEW k \in 1 .. n
      PROVE  tails[k] = CASE ~ Completed(events[k]) -> tails[k - 1]
                          [] Succeeded(events[k]) -> 0
                          [] OTHER -> tails[k - 1] + 1
  <2>1. k \in 0 .. n /\ k - 1 \in 0 .. n
    OBVIOUS
  <2>2. /\ Completed(events[k]) <=> k \in Completions(events)
        /\ Succeeded(events[k]) <=> k \in Successes(events)
        /\ Succeeded(events[k]) => Completed(events[k])
    BY DEF Completions, Successes, Succeeded
  <2>3. CASE ~ Completed(events[k])
    <3>1. OpenRun(events, k) = OpenRun(events, k - 1)
      BY <2>2, <2>3, OneMoreEvent
    <3> QED BY <2>1, <2>2, <2>3, <3>1
  <2>4. CASE Succeeded(events[k])
    <3>1. OpenRun(events, k) = {}
      BY <2>2, <2>4, OneMoreEvent
    <3> QED BY <2>1, <2>2, <2>4, <3>1, FS_EmptySet
  <2>5. CASE Completed(events[k]) /\ ~ Succeeded(events[k])
    <3>1. /\ OpenRun(events, k) = OpenRun(events, k - 1) \cup {k}
          /\ k \notin OpenRun(events, k - 1)
      BY <2>2, <2>5, OneMoreEvent
    <3>2. Cardinality(OpenRun(events, k)) = Cardinality(OpenRun(events, k - 1)) + 1
      BY <1>1, <2>1, <3>1, FS_AddElement
    <3> QED BY <2>1, <2>5, <3>2
  <2> QED BY <2>3, <2>4, <2>5
<1> HIDE DEF tails
<1>4. tails = Step(tails)
  <2>1. tails = [k \in 0 .. n |-> tails[k]]
    BY DEF tails
  <2>2. ASSUME NEW k \in 0 .. n PROVE tails[k] = Step(tails)[k]
    <3>1. CASE k = 0
      BY <1>2, <3>1
    <3>2. CASE k # 0
      <4>1. k \in 1 .. n /\ k > 0
        BY <3>2
      <4> QED BY <1>3, <4>1, <3>2
    <3> QED BY <3>1, <3>2
  <2> QED BY <2>1, <2>2
<1>5. runs = CHOOSE run : run = Step(run)
  BY DEF failureRuns
<1> HIDE DEF runs
<1>6. runs = Step(runs)
  <2> HIDE DEF Step
  <2> QED BY <1>4, <1>5
<1>7. \A k \in 0 .. n : runs[k] = tails[k]
  <2> SUFFICES ASSUME NEW b \in 0 .. n, runs[b] # tails[b]
               PROVE  FALSE
    OBVIOUS
  <2> DEFINE T == {k \in 0 .. n : runs[k] # tails[k]}
  <2>1. T \in SUBSET Nat /\ b \in T
    OBVIOUS
  <2>2. PICK k \in T : \A y \in T : k <= y
    <3> HIDE DEF T
    <3> QED BY <2>1, Least
  <2>3. k \in 0 .. n /\ runs[k] # tails[k]
    OBVIOUS
  <2>4. k # 0 => k - 1 \in 0 .. n /\ runs[k - 1] = tails[k - 1]
    BY <2>2
  <2>5. runs[k] = Step(runs)[k] /\ tails[k] = Step(tails)[k]
    BY <1>4, <1>6
  <2> HIDE DEF T
  <2>6. Step(runs)[k] = Step(tails)[k]
    BY <2>3, <2>4
  <2> QED BY <2>3, <2>5, <2>6
<1>8. runs = tails
  BY <1>6, <1>7 DEF tails
<1> QED BY <1>1, <1>8 DEF runs, tails

\* The longest run is within a bound if every window of more completions than
\* that has a success.
LEMMA RunsAndWindows ==
  ASSUME NEW events, NEW n \in Nat, Len(events) = n, DOMAIN events = 1 .. n, NEW M \in Nat
  PROVE  Max(Range(failureRuns(events))) <= M
           <=> \A i, j \in DOMAIN events :
                 Cardinality(Completions(events) \cap (i .. j)) > M
                   => Successes(events) \cap (i .. j) # {}
<1> DEFINE R == Range(failureRuns(events))
           C == Completions(events)
           S == Successes(events)
<1>1. /\ failureRuns(events) = [k \in 0 .. n |-> Cardinality(OpenRun(events, k))]
      /\ \A k \in 0 .. n : IsFiniteSet(OpenRun(events, k))
  BY RunsAreTails
<1>2. R = {Cardinality(OpenRun(events, k)) : k \in 0 .. n}
  BY <1>1 DEF Range
<1>3. \A k \in 0 .. n : Cardinality(OpenRun(events, k)) \in Nat
  BY <1>1, FS_CardinalityType
<1>4. Max(R) \in R /\ \A y \in R : Max(R) >= y
  <2>1. R \in SUBSET Int /\ R # {}
    <3>1. 0 \in 0 .. n
      OBVIOUS
    <3> QED BY <1>2, <1>3, <3>1
  <2>2. IsFiniteSet(R)
    <3>1. failureRuns(events) \in Surjection(0 .. n, R)
      BY <1>1, <1>2 DEF Surjection
    <3>2. IsFiniteSet(0 .. n)
      BY FS_Interval
    <3> HIDE DEF R
    <3> QED BY <3>1, <3>2, FS_Surjection
  <2> HIDE DEF R
  <2> QED BY <2>1, <2>2, FiniteHasGreatest
<1>5. Max(R) <= M <=> \A k \in 0 .. n : Cardinality(OpenRun(events, k)) <= M
  <2> HIDE DEF R
  <2>1. R \subseteq Int
    BY <1>2, <1>3
  <2>2. Max(R) <= M <=> \A y \in R : y <= M
    <3>1. PICK m \in Int : m = Max(R)
      BY <1>4, <2>1
    <3> QED BY <1>4, <2>1, <3>1
  <2> QED BY <1>2, <2>2
<1>6. C \subseteq 1 .. n /\ S \subseteq C
  BY DEF Completions, Successes, Succeeded
<1>7. IsFiniteSet(C)
  BY <1>6, FS_Interval, FS_Subset
<1>8. ASSUME \A k \in 0 .. n : Cardinality(OpenRun(events, k)) <= M,
             NEW i \in 1 .. n, NEW j \in 1 .. n,
             Cardinality(C \cap (i .. j)) > M
      PROVE  S \cap (i .. j) # {}
  <2> SUFFICES ASSUME S \cap (i .. j) = {}
               PROVE  FALSE
    OBVIOUS
  <2>1. C \cap (i .. j) \subseteq OpenRun(events, j)
    <3> SUFFICES ASSUME NEW x \in C, x \in i .. j
                 PROVE  x \in OpenRun(events, j)
      OBVIOUS
    <3>1. x <= j /\ x .. j \subseteq i .. j
      OBVIOUS
    <3> QED BY <3>1 DEF OpenRun
  <2>2. j \in 0 .. n
    OBVIOUS
  <2> HIDE DEF C, S
  <2>3. Cardinality(C \cap (i .. j)) <= Cardinality(OpenRun(events, j))
    BY <1>1, <2>1, <2>2, FS_Subset
  <2>4. Cardinality(C \cap (i .. j)) \in Nat
    BY <1>1, <2>1, <2>2, FS_Subset, FS_CardinalityType
  <2>5. Cardinality(OpenRun(events, j)) <= M /\ Cardinality(OpenRun(events, j)) \in Nat
    BY <1>3, <1>8, <2>2
  <2> QED BY <1>8, <2>3, <2>4, <2>5
<1>9. ASSUME \A i, j \in 1 .. n :
               Cardinality(C \cap (i .. j)) > M => S \cap (i .. j) # {},
             NEW k \in 0 .. n
      PROVE  Cardinality(OpenRun(events, k)) <= M
  <2> SUFFICES ASSUME ~ (Cardinality(OpenRun(events, k)) <= M)
               PROVE  FALSE
    OBVIOUS
  <2>1. OpenRun(events, k) # {}
    <3>1. Cardinality(OpenRun(events, k)) # 0
      BY <1>3
    <3>2. Cardinality({}) = 0
      BY FS_EmptySet
    <3> QED BY ONLY <3>1, <3>2
  <2>2. OpenRun(events, k) \in SUBSET Nat
    BY <1>6 DEF OpenRun
  <2>3. PICK i \in OpenRun(events, k) : \A y \in OpenRun(events, k) : i <= y
    BY <2>1, <2>2, Least
  <2>4. i \in 1 .. n /\ i <= k /\ \A y \in i .. k : y \notin S
    BY <1>6 DEF OpenRun
  <2>5. k \in 1 .. n
    BY <2>4
  <2>6. OpenRun(events, k) \subseteq C \cap (i .. k)
    <3> SUFFICES ASSUME NEW x \in OpenRun(events, k)
                 PROVE  x \in C /\ x \in i .. k
      OBVIOUS
    <3>1. x \in C /\ x <= k /\ x \in 1 .. n
      BY <1>6 DEF OpenRun
    <3>2. i <= x
      BY <2>3
    <3> QED BY <2>4, <2>5, <3>1, <3>2
  <2>7. IsFiniteSet(C \cap (i .. k))
    BY <1>7, FS_Subset
  <2> HIDE DEF C, S
  <2>8. Cardinality(OpenRun(events, k)) <= Cardinality(C \cap (i .. k))
    BY <2>6, <2>7, FS_Subset
  <2>9. Cardinality(C \cap (i .. k)) > M
    BY <1>3, <2>7, <2>8, FS_CardinalityType
  <2> QED BY <1>9, <2>4, <2>5, <2>9
<1> QED BY <1>5, <1>8, <1>9

\* The events that show a failover from, or a recovery of, what event i is about.
Replacements(events, i) ==
  {j \in i + 1 .. Len(events) :
     Succeeded(events[j]) /\ events[j].fixture \notin {"", events[i].fixture}}

Recoverers(events, i) ==
  {j \in i + 1 .. Len(events) :
     Succeeded(events[j]) /\ events[j].fixture = events[i].fixture}

Faults(events) == Transitions(events, isFaultMode)

Recoveries(events) == Transitions(events, LAMBDA mode : mode = "recovered")

\* What is measured from event i to the first of the events J.
Reading(events, i, J) ==
  [fixture |-> events[i].fixture, sequence |-> i, observed |-> J # {},
   duration |-> IF J = {} THEN 0
                ELSE Max({events[Min(J)].elapsed - events[i].elapsed, 0})]

\* The first of the events that follow.
LEMMA FirstOf ==
  ASSUME NEW i \in Nat, NEW n \in Nat, NEW J \in SUBSET (i + 1 .. n), J # {}
  PROVE  Min(J) \in J /\ \A y \in J : Min(J) <= y
<1>1. J \in SUBSET Nat
  OBVIOUS
<1>2. PICK j \in J : \A y \in J : j <= y
  BY <1>1, Least
<1> QED BY <1>2 DEF Min

\* Each transition is measured once.
LEMMA MeasuredAre ==
  ASSUME NEW events, NEW n \in Nat, Len(events) = n, DOMAIN events = 1 .. n
  PROVE  /\ deriveFailovers(events) =
              {Reading(events, i, Replacements(events, i)) : i \in Faults(events)}
         /\ deriveRecoveries(events) =
              {Reading(events, i, Recoverers(events, i)) : i \in Recoveries(events)}
         /\ Faults(events) \subseteq 1 .. n /\ Recoveries(events) \subseteq 1 .. n
<1>1. \A i \in 1 .. n : Replacements(events, i) # {} => Min(Replacements(events, i)) # 0
  <2> TAKE i \in 1 .. n
  <2>1. Replacements(events, i) \in SUBSET (i + 1 .. n)
    BY DEF Replacements
  <2>2. Replacements(events, i) # {} => Min(Replacements(events, i)) \in Replacements(events, i)
    <3>1. i \in Nat
      OBVIOUS
    <3> QED BY ONLY n \in Nat, <2>1, <3>1, FirstOf
  <2> QED BY <2>1, <2>2
<1>2. \A i \in 1 .. n : Recoverers(events, i) # {} => Min(Recoverers(events, i)) # 0
  <2> TAKE i \in 1 .. n
  <2>1. Recoverers(events, i) \in SUBSET (i + 1 .. n)
    BY DEF Recoverers
  <2>2. Recoverers(events, i) # {} => Min(Recoverers(events, i)) \in Recoverers(events, i)
    <3>1. i \in Nat
      OBVIOUS
    <3> QED BY ONLY n \in Nat, <2>1, <3>1, FirstOf
  <2> QED BY <2>1, <2>2
<1>3. Faults(events) \subseteq 1 .. n /\ Recoveries(events) \subseteq 1 .. n
  BY DEF Faults, Recoveries, Transitions
<1>4. deriveFailovers(events) =
        {Reading(events, i, Replacements(events, i)) : i \in Faults(events)}
  BY <1>1, <1>3 DEF deriveFailovers, Faults, Measure, SelectInSubSeq, Reading, Replacements
<1>5. deriveRecoveries(events) =
        {Reading(events, i, Recoverers(events, i)) : i \in Recoveries(events)}
  BY <1>2, <1>3 DEF deriveRecoveries, Recoveries, Measure, SelectInSubSeq, Reading, Recoverers
<1> QED BY <1>3, <1>4, <1>5

\* A measurement within a bound: the first of the events came in time.
LEMMA ReadingFacts ==
  ASSUME NEW n \in Nat, NEW events, \A k \in 1 .. n : events[k].elapsed \in Nat,
         NEW i \in 1 .. n, NEW J \in SUBSET (i + 1 .. n)
  PROVE  /\ Reading(events, i, J).observed <=> J # {}
         /\ Reading(events, i, J).duration \in Nat
         /\ J # {} => \E j \in J :
              /\ \A y \in J : j <= y
              /\ \A F \in Nat : Reading(events, i, J).duration <= F
                                  <=> events[j].elapsed - events[i].elapsed <= F
         /\ J = {} => Reading(events, i, J).duration = 0
<1>1. CASE J = {}
  BY <1>1 DEF Reading
<1>2. CASE J # {}
  <2> DEFINE j == Min(J)
             x == events[j].elapsed - events[i].elapsed
             d == Max({x, 0})
  <2>1. j \in J /\ \A y \in J : j <= y
    <3>1. i \in Nat
      OBVIOUS
    <3> QED BY ONLY n \in Nat, J \in SUBSET (i + 1 .. n), <1>2, <3>1, FirstOf
  <2> HIDE DEF j
  <2>2. x \in Int
    <3>1. j \in 1 .. n
      BY <2>1
    <3>2. events[j].elapsed \in Nat /\ events[i].elapsed \in Nat
      BY <3>1
    <3> QED BY <3>2
  <2> HIDE DEF x
  <2>3. d = IF x >= 0 THEN x ELSE 0
    <3>1. \E m \in {x, 0} : \A y \in {x, 0} : m >= y
      BY <2>2
    <3>2. d \in {x, 0} /\ \A y \in {x, 0} : d >= y
      BY <3>1 DEF Max
    <3> HIDE DEF d
    <3> QED BY <2>2, <3>2
  <2>4. /\ Reading(events, i, J).observed = TRUE
        /\ Reading(events, i, J).duration = d
    BY <1>2 DEF Reading, d, x, j
  <2> HIDE DEF d
  <2>5. d \in Nat /\ \A F \in Nat : d <= F <=> x <= F
    BY <2>2, <2>3
  <2> QED BY <1>2, <2>1, <2>4, <2>5 DEF x
<1> QED BY <1>1, <1>2

\* The longest of the durations is within a bound if each of them is.
LEMMA LongestWithin ==
  ASSUME NEW n \in Nat, NEW I \in SUBSET (1 .. n), NEW duration \in [I -> Nat], NEW F \in Nat
  PROVE  Max({duration[i] : i \in I} \cup {0}) <= F <=> \A i \in I : duration[i] <= F
<1> DEFINE D == {duration[i] : i \in I}
           S == D \cup {0}
<1>1. IsFiniteSet(S)
  <2>1. duration \in Surjection(I, D)
    BY DEF Surjection
  <2>2. IsFiniteSet(I)
    <3>1. IsFiniteSet(1 .. n)
      BY FS_Interval
    <3> QED BY <3>1, FS_Subset
  <2> HIDE DEF D
  <2>3. IsFiniteSet(D)
    BY <2>1, <2>2, FS_Surjection
  <2> QED BY <2>3, FS_AddElement
<1>2. S \in SUBSET Int /\ S # {}
  OBVIOUS
<1>3. Max(S) \in S /\ \A y \in S : Max(S) >= y
  <2> HIDE DEF S
  <2> QED BY <1>1, <1>2, FiniteHasGreatest
<1>4. Max(S) <= F <=> \A y \in S : y <= F
  <2> HIDE DEF S
  <2>1. PICK m \in Int : m = Max(S)
    BY <1>2, <1>3
  <2> QED BY <1>2, <1>3, <2>1
<1>5. (\A y \in S : y <= F) <=> \A i \in I : duration[i] <= F
  OBVIOUS
<1> QED BY <1>4, <1>5

\* All the conditions of a receipt that passes.
LEMMA PassedIs ==
  ASSUME NEW expected, NEW events, NEW benchmark
  PROVE  deriveReceipt(expected, events, benchmark).passed =
           (/\ Cardinality(Successes(events)) * 100
                 >= expected.minimumSuccessRate * Cardinality(Completions(events))
            /\ Cardinality(Completions(events)) = 0 => expected.minimumSuccessRate = 0
            /\ Max(Range(failureRuns(events))) <= expected.maximumFailureRun
            /\ AllObserved(deriveFailovers(events))
            /\ Max({m.duration : m \in deriveFailovers(events)} \cup {0})
                 <= expected.maximumFailover
            /\ expected.requireRecovery => AllObserved(deriveRecoveries(events))
            /\ benchmark = Cardinality(Completions(events)))
BY DEF deriveReceipt, evaluateAssertions

\* The conditions on measurements, in terms of the events.
LEMMA MeasurementsSay ==
  ASSUME NEW n \in Nat, NEW events, Len(events) = n, DOMAIN events = 1 .. n,
         \A k \in 1 .. n : events[k].elapsed \in Nat, NEW F \in Nat
  PROVE  /\ AllObserved(deriveFailovers(events))
              <=> Faults(events) # {} /\ \A i \in Faults(events) : Replacements(events, i) # {}
         /\ AllObserved(deriveRecoveries(events))
              <=> /\ Recoveries(events) # {}
                  /\ \A i \in Recoveries(events) : Recoverers(events, i) # {}
         /\ Max({m.duration : m \in deriveFailovers(events)} \cup {0}) <= F
              <=> \A i \in Faults(events) :
                    Reading(events, i, Replacements(events, i)).duration <= F
<1> DEFINE failover(i) == Reading(events, i, Replacements(events, i))
           recovery(i) == Reading(events, i, Recoverers(events, i))
<1>1. /\ deriveFailovers(events) = {failover(i) : i \in Faults(events)}
      /\ deriveRecoveries(events) = {recovery(i) : i \in Recoveries(events)}
      /\ Faults(events) \subseteq 1 .. n /\ Recoveries(events) \subseteq 1 .. n
  BY MeasuredAre
<1>2. ASSUME NEW i \in 1 .. n
      PROVE  /\ failover(i).observed <=> Replacements(events, i) # {}
             /\ recovery(i).observed <=> Recoverers(events, i) # {}
             /\ failover(i).duration \in Nat
  <2>1. /\ Replacements(events, i) \in SUBSET (i + 1 .. n)
        /\ Recoverers(events, i) \in SUBSET (i + 1 .. n)
    BY DEF Replacements, Recoverers
  <2> QED BY <2>1, ReadingFacts
<1> HIDE DEF failover, recovery
<1>3. AllObserved(deriveFailovers(events))
        <=> Faults(events) # {} /\ \A i \in Faults(events) : Replacements(events, i) # {}
  BY <1>1, <1>2 DEF AllObserved
<1>4. AllObserved(deriveRecoveries(events))
        <=> /\ Recoveries(events) # {}
            /\ \A i \in Recoveries(events) : Recoverers(events, i) # {}
  BY <1>1, <1>2 DEF AllObserved
<1>5. Max({m.duration : m \in deriveFailovers(events)} \cup {0}) <= F
        <=> \A i \in Faults(events) : failover(i).duration <= F
  <2> DEFINE duration == [i \in Faults(events) |-> failover(i).duration]
  <2>1. duration \in [Faults(events) -> Nat]
    BY <1>1, <1>2
  <2>2. {m.duration : m \in deriveFailovers(events)} = {duration[i] : i \in Faults(events)}
    BY <1>1
  <2>3. \A i \in Faults(events) : duration[i] = failover(i).duration
    OBVIOUS
  <2> HIDE DEF duration
  <2>4. Max({duration[i] : i \in Faults(events)} \cup {0}) <= F
          <=> \A i \in Faults(events) : duration[i] <= F
    BY <1>1, <2>1, LongestWithin
  <2> QED BY <2>2, <2>3, <2>4
<1> QED BY <1>3, <1>4, <1>5 DEF failover

\* A receipt passes on the evidence, and only on it.
LEMMA PassesOnEvidence ==
  ASSUME NEW events, IsLedger(events), NEW expected, IsExpectation(expected)
  PROVE  LET completed == Cardinality(Completions(events))
             passed == deriveReceipt(expected, events, completed).passed
         IN /\ ~ deriveReceipt(expected, events, completed + 1).passed
            /\ passed => Evidence(expected, events)
            /\ InOrder(events) /\ Evidence(expected, events)
                 /\ 100 * Cardinality(Successes(events)) >= expected.minimumSuccessRate * completed
                 => passed
<1> DEFINE n == Len(events)
           C == Completions(events)
           S == Successes(events)
           F == expected.maximumFailover
           M == expected.maximumFailureRun
           failover(i) == Reading(events, i, Replacements(events, i))
<1>1. n \in Nat /\ DOMAIN events = 1 .. n /\ \A k \in 1 .. n : events[k].elapsed \in Nat
  <2> DEFINE R == [type : STRING, fixture : STRING, mode : STRING, status : Int, elapsed : Nat]
  <2>1. \A e \in R : e.elapsed \in Nat
    OBVIOUS
  <2>2. events \in Seq(R)
    BY DEF IsLedger
  <2> HIDE DEF R
  <2>3. DOMAIN events = 1 .. n /\ n \in Nat /\ \A k \in 1 .. n : events[k] \in R
    BY <2>2, SeqFacts
  <2> QED BY <2>1, <2>3
<1>2. F \in Nat /\ M \in Nat /\ expected.minimumSuccessRate \in 0 .. 100
  BY DEF IsExpectation
<1>3. C \subseteq 1 .. n /\ S \subseteq C /\ IsFiniteSet(C) /\ Cardinality(C) \in Nat
  <2>1. C \subseteq 1 .. n /\ S \subseteq C
    BY <1>1 DEF Completions, Successes, Succeeded
  <2>2. IsFiniteSet(1 .. n)
    BY <1>1, FS_Interval
  <2> QED BY <2>1, <2>2, FS_Subset, FS_CardinalityType
<1> HIDE DEF n, F, M, C, S
<1>4. /\ AllObserved(deriveFailovers(events))
           <=> Faults(events) # {} /\ \A i \in Faults(events) : Replacements(events, i) # {}
      /\ AllObserved(deriveRecoveries(events))
           <=> /\ Recoveries(events) # {}
               /\ \A i \in Recoveries(events) : Recoverers(events, i) # {}
      /\ Max({m.duration : m \in deriveFailovers(events)} \cup {0}) <= F
           <=> \A i \in Faults(events) : failover(i).duration <= F
  BY <1>1, <1>2, MeasurementsSay DEF n
<1> DEFINE Windows == \A i, j \in DOMAIN events :
                         Cardinality(C \cap (i .. j)) > M => S \cap (i .. j) # {}
<1>5. Max(Range(failureRuns(events))) <= M <=> Windows
  BY <1>1, <1>2, RunsAndWindows DEF n, C, S
<1> HIDE DEF Windows
<1> DEFINE Timely(i, j) == events[j].elapsed - events[i].elapsed <= F
<1>6. Evidence(expected, events) <=>
        /\ Faults(events) # {}
        /\ \A i \in Faults(events) : \E j \in Replacements(events, i) : Timely(i, j)
        /\ expected.requireRecovery =>
             /\ Recoveries(events) # {}
             /\ \A i \in Recoveries(events) : Recoverers(events, i) # {}
        /\ Windows
  <2>1. Faults(events) \subseteq 1 .. n /\ Recoveries(events) \subseteq 1 .. n
    BY <1>1, MeasuredAre DEF n
  <2>2. \A i \in 1 .. n : \A j \in DOMAIN events : i < j <=> j \in i + 1 .. n
    BY <1>1
  <2>3. \A i \in 1 .. n : i + 1 .. n \subseteq DOMAIN events
    BY <1>1
  <2>4. \A i \in Faults(events) :
          (\E j \in DOMAIN events :
             /\ i < j /\ Succeeded(events[j]) /\ events[j].fixture \notin {"", events[i].fixture}
             /\ events[j].elapsed - events[i].elapsed <= expected.maximumFailover)
          <=> \E j \in Replacements(events, i) : Timely(i, j)
    BY <2>1, <2>2, <2>3 DEF Replacements, n, F
  <2>5. \A i \in Recoveries(events) :
          (\E j \in DOMAIN events :
             i < j /\ Succeeded(events[j]) /\ events[j].fixture = events[i].fixture)
          <=> Recoverers(events, i) # {}
    BY <2>1, <2>2, <2>3 DEF Recoverers, n
  <2> QED BY <2>4, <2>5 DEF Evidence, Faults, Recoveries, Windows, C, S, M
<1>7. ASSUME NEW i \in Faults(events)
      PROVE  /\ Replacements(events, i) # {} /\ failover(i).duration <= F
                  => \E j \in Replacements(events, i) : Timely(i, j)
             /\ InOrder(events) /\ (\E j \in Replacements(events, i) : Timely(i, j))
                  => Replacements(events, i) # {} /\ failover(i).duration <= F
  <2>1. i \in 1 .. n
    BY <1>1, MeasuredAre DEF n
  <2> DEFINE J == Replacements(events, i)
  <2>2. J \in SUBSET (i + 1 .. n)
    BY DEF Replacements, n
  <2> HIDE DEF J
  <2>3. J # {} => \E j \in J :
          /\ \A y \in J : j <= y
          /\ Reading(events, i, J).duration <= F <=> Timely(i, j)
    <3>1. J # {} => \E j \in J :
            /\ \A y \in J : j <= y
            /\ \A G \in Nat : Reading(events, i, J).duration <= G
                                <=> events[j].elapsed - events[i].elapsed <= G
      <4>1. \A k \in 1 .. n : events[k].elapsed \in Nat
        BY <1>1
      <4>2. n \in Nat
        BY <1>1
      <4> QED BY ONLY <2>1, <2>2, <4>1, <4>2, ReadingFacts, ZenonT(60)
    <3> QED BY <1>2, <3>1
  <2>4. ASSUME InOrder(events), NEW j \in J, NEW y \in J, j <= y, Timely(i, y)
        PROVE  Timely(i, j)
    <3>1. j \in 1 .. n /\ y \in 1 .. n
      BY <2>1, <2>2
    <3>2. events[j].elapsed <= events[y].elapsed
      BY <1>1, <2>4, <3>1 DEF InOrder
    <3>3. /\ events[j].elapsed \in Nat /\ events[y].elapsed \in Nat
          /\ events[i].elapsed \in Nat
      BY <1>1, <2>1, <3>1
    <3> QED BY <1>2, <2>4, <3>2, <3>3
  <2> HIDE DEF Timely
  <2>5. J # {} /\ Reading(events, i, J).duration <= F => \E j \in J : Timely(i, j)
    BY <2>3
  <2>6. ASSUME InOrder(events), NEW y \in J, Timely(i, y)
        PROVE  Reading(events, i, J).duration <= F
    <3>1. PICK j \in J : j <= y /\ (Reading(events, i, J).duration <= F <=> Timely(i, j))
      BY <2>3
    <3> QED BY <2>4, <2>6, <3>1
  <2>7. failover(i) = Reading(events, i, J)
    BY DEF J
  <2> HIDE DEF failover
  <2> QED BY <2>5, <2>6, <2>7 DEF J
<1> HIDE DEF Timely, failover
<1>8. Faults(events) # {} /\ (\A i \in Faults(events) : Replacements(events, i) # {})
        => Cardinality(C) # 0
  <2> SUFFICES ASSUME NEW i \in Faults(events), NEW j \in Replacements(events, i)
               PROVE  Cardinality(C) # 0
    OBVIOUS
  <2>1. j \in i + 1 .. n /\ Succeeded(events[j]) /\ i \in 1 .. n
    BY <1>1, MeasuredAre DEF Replacements, n
  <2>2. j \in C
    BY <1>1, <2>1 DEF C, Completions, Succeeded
  <2> QED BY <1>3, <2>2, FS_EmptySet
<1> DEFINE passed(b) == deriveReceipt(expected, events, b).passed
           Enough == 100 * Cardinality(S) >= expected.minimumSuccessRate * Cardinality(C)
           Others == /\ AllObserved(deriveFailovers(events))
                     /\ Max({m.duration : m \in deriveFailovers(events)} \cup {0}) <= F
                     /\ expected.requireRecovery => AllObserved(deriveRecoveries(events))
                     /\ Windows
<1>9. ASSUME NEW b
      PROVE  passed(b) <=> /\ Enough /\ Others
                           /\ Cardinality(C) = 0 => expected.minimumSuccessRate = 0
                           /\ b = Cardinality(C)
  <2>1. Cardinality(S) * 100 = 100 * Cardinality(S)
    <3>1. Cardinality(S) \in Nat
      BY <1>3, FS_Subset, FS_CardinalityType
    <3> QED BY <3>1
  <2>2. passed(b) =
          (/\ Cardinality(S) * 100 >= expected.minimumSuccessRate * Cardinality(C)
           /\ Cardinality(C) = 0 => expected.minimumSuccessRate = 0
           /\ Max(Range(failureRuns(events))) <= M
           /\ AllObserved(deriveFailovers(events))
           /\ Max({m.duration : m \in deriveFailovers(events)} \cup {0}) <= F
           /\ expected.requireRecovery => AllObserved(deriveRecoveries(events))
           /\ b = Cardinality(C))
    BY PassedIs DEF C, S, F, M
  <2> HIDE DEF passed
  <2> QED BY <1>5, <2>1, <2>2
<1> HIDE DEF passed, Enough
<1>10. ~ passed(Cardinality(C) + 1)
  <2>1. passed(Cardinality(C) + 1) => Cardinality(C) + 1 = Cardinality(C)
    BY <1>9
  <2> QED BY <1>3, <2>1
<1>11. passed(Cardinality(C)) => Evidence(expected, events)
  BY <1>4, <1>6, <1>7, <1>9
<1>12. InOrder(events) /\ Evidence(expected, events) /\ Enough => passed(Cardinality(C))
  BY <1>4, <1>6, <1>7, <1>8, <1>9
<1> QED BY <1>10, <1>11, <1>12 DEF passed, Enough, C, S

-----------------------------------------------------------------------------
(* The ledger                                                              *)

\* What the proofs use of the constants.
LEMMA LabConstants ==
  /\ Len(Schedule) \in Nat
  /\ \A i \in 1 .. Len(Schedule) : Schedule[i].fixture \in Fixtures
  /\ "proxy" \notin Fixtures /\ "proxy" \in Services /\ \A f \in Fixtures : f \in Services
  /\ None \notin Nat /\ MaxProbes \in Nat
  /\ IsFiniteSet(Requests)
<1> HIDE DEF Schedule
<1>1. Schedule \in Seq([index : Nat, at : Int, fixture : Fixtures, mode : Modes])
  <2>1. IsScenario(Scenario)
    BY ExperimentAssumption
  <2> QED BY <2>1, ScheduleFacts DEF Schedule, Fixtures
<1>2. Len(Schedule) \in Nat /\ \A i \in 1 .. Len(Schedule) : Schedule[i].fixture \in Fixtures
  <2> PICK R : R = [index : Nat, at : Int, fixture : Fixtures, mode : Modes]
    OBVIOUS
  <2>1. \A step \in R : step.fixture \in Fixtures
    OBVIOUS
  <2>2. Schedule \in Seq(R)
    BY <1>1
  <2>3. Len(Schedule) \in Nat /\ \A i \in 1 .. Len(Schedule) : Schedule[i] \in R
    BY <2>2, SeqFacts
  <2> QED BY <2>1, <2>3
<1> QED BY <1>2, ExperimentAssumption DEF Services

\* The receipt's ledger is recorded and no service had failed.
Sealed == Clean /\ runner \in {"recording_fixtures", "returned"}

\* The ledger is as it was, or one event longer and not recorded yet.
Grows == ledger' = ledger \/ (~ Sealed /\ \E e \in Events : ledger' = Append(ledger, e))

\* One more event, of a sequence.
LEMMA AppendFacts ==
  ASSUME NEW s \in Seq(Events), NEW e \in Events
  PROVE  /\ Append(s, e) \in Seq(Events)
         /\ Len(Append(s, e)) = Len(s) + 1 /\ Len(s) \in Nat
         /\ DOMAIN s = 1 .. Len(s) /\ DOMAIN Append(s, e) = 1 .. Len(s) + 1
         /\ Append(s, e)[Len(s) + 1] = e
         /\ \A i \in 1 .. Len(s) : Append(s, e)[i] = s[i]
<1> HIDE DEF Events
<1> QED OBVIOUS

\* A ledger that grows tells no less.
LEMMA TellsNoLess ==
  ASSUME ledger \in Seq(Events), Grows
  PROVE  /\ \A n : Announced(n) => Announced(n)'
         /\ \A r : Told(r) => Told(r)'
<1>1. CASE ledger' = ledger
  BY <1>1 DEF Announced, Told
<1>2. ASSUME NEW e \in Events, ledger' = Append(ledger, e)
      PROVE  \A i \in DOMAIN ledger : i \in DOMAIN ledger' /\ ledger'[i] = ledger[i]
  <2>1. /\ DOMAIN ledger = 1 .. Len(ledger) /\ DOMAIN ledger' = 1 .. Len(ledger) + 1
        /\ \A i \in 1 .. Len(ledger) : ledger'[i] = ledger[i]
        /\ Len(ledger) \in Nat
    BY <1>2, AppendFacts
  <2> QED BY <2>1
<1>3. CASE \A i \in DOMAIN ledger : i \in DOMAIN ledger' /\ ledger'[i] = ledger[i]
  BY <1>3 DEF Announced, Told
<1> QED BY <1>1, <1>2, <1>3 DEF Grows

\* An event keeps CauseBeforeEffect if its own cause is told.
LEMMA CauseAppended ==
  ASSUME ledger \in Seq(Events), CauseBeforeEffect, NEW e \in Events,
         ledger' = Append(ledger, e),
         e.type = "completed" => Announced(e.served)
  PROVE  CauseBeforeEffect'
<1> PICK n : n = Len(ledger)
  OBVIOUS
<1>1. /\ DOMAIN ledger = 1 .. n /\ DOMAIN ledger' = 1 .. n + 1 /\ n \in Nat
      /\ ledger'[n + 1] = e /\ \A i \in 1 .. n : ledger'[i] = ledger[i]
  BY AppendFacts
<1> SUFFICES ASSUME NEW i \in 1 .. n + 1, ledger'[i].type = "completed",
                    ledger'[i].served \notin {0, None}
             PROVE  \E j \in 1 .. i - 1 : ledger'[j] = [type |-> "fixture", step |-> ledger'[i].served]
  BY <1>1 DEF CauseBeforeEffect
<1>2. CASE i \in 1 .. n
  <2>1. \E j \in 1 .. i - 1 : ledger[j] = [type |-> "fixture", step |-> ledger[i].served]
    BY <1>1, <1>2 DEF CauseBeforeEffect
  <2>2. \A j \in 1 .. i - 1 : j \in 1 .. n
    BY <1>1, <1>2
  <2> QED BY <2>1, <2>2, <1>1, <1>2
<1>3. CASE i = n + 1
  <2>1. \E j \in 1 .. n : ledger[j] = [type |-> "fixture", step |-> e.served]
    BY <1>1, <1>3 DEF Announced
  <2>2. i - 1 = n /\ ledger'[i] = e
    BY <1>1, <1>3
  <2> QED BY <2>1, <2>2, <1>1
<1> QED BY <1>1, <1>2, <1>3

-----------------------------------------------------------------------------
(* Steps that leave the runner where it is                                 *)

\* Nothing that was joined comes back, nothing that ended begins again.
Monotone ==
  /\ runner' = runner /\ recorded' = recorded
  /\ scheduler.pc = "done" => scheduler'.pc = "done"
  /\ \A f \in Fixtures : worker[f].pc = "gone" => worker'[f].pc = "gone"
  /\ \A s \in Services : service[s] = "ok" => service'[s] = "ok"
  /\ Grows

\* Such steps keep what the runner relies on.
LEMMA StagesKept ==
  ASSUME Stages, Recorded, Monotone
  PROVE  Stages' /\ Recorded'
<1>1. Stages'
  BY DEF Stages, Monotone, Clean
<1>2. Recorded'
  BY DEF Recorded, Monotone, Grows, Sealed, Clean
<1> QED BY <1>1, <1>2

\* The services: they end, and the counters of a server that ended are at zero.
LEMMA ServiceKeeps ==
  ASSUME LabIInv, NEW s \in Services, ServiceEnds(s) \/ ServiceFails(s)
  PROVE  LabIInv'
<1> USE DEF LabIInv
<1>1. /\ service[s] = "serving"
      /\ UNCHANGED <<runner, ctxDone, healthDone, recorded, scheduler, profile, active, worker, request, ledger>>
  BY DEF ServiceEnds, ServiceFails, lab
<1> PICK v \in {"ok", "failed"} : service' = [service EXCEPT ![s] = v] /\ (v = "ok" => Handling(s) = 0)
  BY DEF ServiceEnds, ServiceFails
<1>2. /\ service' \in [Services -> {"new", "serving", "ok", "failed"}]
      /\ service'[s] = v /\ \A t \in Services : t # s => service'[t] = service[t]
  BY DEF TypeOK
<1>3. TypeOK'
  BY <1>1, <1>2 DEF TypeOK
<1>4. Stages' /\ Recorded'
  <2>1. Monotone
    BY <1>1, <1>2 DEF Monotone, Grows
  <2> QED BY <2>1, StagesKept
<1>5. AtRest'
  <2>1. ASSUME service'["proxy"] = "ok", NEW r \in Requests PROVE request[r].pc \in {"new", "done"}
    <3>1. CASE s # "proxy"
      BY <3>1, <2>1, <1>2, LabConstants DEF AtRest
    <3>2. CASE s = "proxy"
      <4> DEFINE S == {q \in Requests : request[q].pc \notin {"new", "done"}}
      <4>1. Cardinality(S) = 0
        BY <3>2, <2>1, <1>2 DEF Handling
      <4>2. IsFiniteSet(S)
        BY LabConstants, FS_Subset
      <4>3. S = {}
        BY <4>1, <4>2, FS_EmptySet
      <4> QED BY <4>3
    <3> QED BY <3>1, <3>2
  <2>2. ASSUME NEW f \in Fixtures, service'[f] = "ok" PROVE active[f] = 0
    <3>1. CASE s # f
      BY <3>1, <2>2, <1>2, LabConstants DEF AtRest
    <3>2. CASE s = f
      BY <3>2, <2>2, <1>2, LabConstants DEF Handling
    <3> QED BY <3>1, <3>2
  <2> QED BY <2>1, <2>2, <1>1 DEF AtRest
<1>6. Causes' /\ CauseBeforeEffect' /\ \A r \in Requests : request'[r].pc = "done" => Told(r)'
  BY <1>1 DEF Causes, Due, Announced, CauseBeforeEffect, Told
<1> QED BY <1>3, <1>4, <1>5, <1>6

\* A handler of a fixture is through with its request.
LEMMA FixtureKeeps ==
  ASSUME LabIInv, NEW f \in Fixtures, FixtureLeaves(f)
  PROVE  LabIInv'
<1> USE DEF LabIInv
<1>1. /\ active[f] > 0 /\ active' = [active EXCEPT ![f] = @ - 1]
      /\ UNCHANGED <<runner, ctxDone, healthDone, recorded, scheduler, profile, service, worker, request, ledger>>
  BY DEF FixtureLeaves, lab
<1>2. /\ active' \in [Fixtures -> Nat] /\ active'[f] = active[f] - 1
      /\ \A g \in Fixtures : g # f => active'[g] = active[g]
  <2>1. active \in [Fixtures -> Nat] /\ active[f] - 1 \in Nat
    BY <1>1 DEF TypeOK
  <2> QED BY <2>1, <1>1
<1>3. TypeOK'
  BY <1>1, <1>2 DEF TypeOK
<1>4. Stages' /\ Recorded'
  <2>1. Monotone
    BY <1>1 DEF Monotone, Grows
  <2> QED BY <2>1, StagesKept
<1>5. AtRest'
  <2>1. active[f] # 0
    BY <1>1 DEF TypeOK
  <2> QED BY <2>1, <1>1, <1>2 DEF AtRest
<1>6. Causes' /\ CauseBeforeEffect' /\ \A r \in Requests : request'[r].pc = "done" => Told(r)'
  BY <1>1 DEF Causes, Due, Announced, CauseBeforeEffect, Told
<1> QED BY <1>3, <1>4, <1>5, <1>6

RequestRecords ==
  [pc : {"new", "started", "calling", "served", "uncounted", "done"}, served : Profiles \cup {None}]

WorkerRecords ==
  [pc : {"none", "probing", "calling", "reporting", "sleeping", "gone"}, probes : 0 .. MaxProbes]

\* A request that the proxy serves takes a step to u, and perhaps a fixture
\* takes it in.
Requested(r, u) ==
  /\ request' = [request EXCEPT ![r] = u]
  /\ \/ active' = active
     \/ \E f \in Fixtures : service[f] = "serving" /\ active' = [active EXCEPT ![f] = @ + 1]
  /\ UNCHANGED <<runner, ctxDone, healthDone, recorded, scheduler, profile, service, worker>>

\* The ledger is told if the request is done.
Tells(r, u) ==
  IF u.pc = "done"
  THEN ledger' = Append(ledger, [type |-> "completed", request |-> r, served |-> u.served])
  ELSE ledger' = ledger

\* Such a step is one in the handlers of a proxy that still serves, tells the
\* ledger of a completion or nothing, and names a profile that is announced.
LEMMA RequestKeeps ==
  ASSUME LabIInv, NEW r \in Requests, NEW u \in RequestRecords, Requested(r, u),
         Announced(u.served),
         request[r].pc = "new" => service["proxy"] = "serving",
         request[r].pc # "done", u.pc # "new",
         Tells(r, u)
  PROVE  LabIInv'
<1> USE DEF LabIInv, Tells
<1>1. UNCHANGED <<runner, ctxDone, healthDone, recorded, scheduler, profile, service, worker>>
  BY DEF Requested
<1>2. /\ request \in [Requests -> RequestRecords]
      /\ request' \in [Requests -> RequestRecords] /\ request'[r] = u
      /\ \A q \in Requests : q # r => request'[q] = request[q]
  BY DEF TypeOK, RequestRecords, Requested
<1>3. /\ active' \in [Fixtures -> Nat]
      /\ \A f \in Fixtures : service[f] # "serving" => active'[f] = active[f]
  <2>1. active \in [Fixtures -> Nat]
    BY DEF TypeOK
  <2>2. CASE active' = active
    BY <2>1, <2>2
  <2>3. ASSUME NEW f \in Fixtures, service[f] = "serving", active' = [active EXCEPT ![f] = @ + 1]
        PROVE  /\ active' \in [Fixtures -> Nat]
               /\ \A g \in Fixtures : service[g] # "serving" => active'[g] = active[g]
    <3>1. active[f] + 1 \in Nat
      BY <2>1
    <3> QED BY <2>1, <2>3, <3>1
  <2> QED BY <2>2, <2>3 DEF Requested
<1> PICK e : e = [type |-> "completed", request |-> r, served |-> u.served]
  OBVIOUS
<1>4. e \in Events /\ e.type = "completed" /\ e.request = r /\ e.served = u.served
  BY DEF Events, RequestRecords
<1>5. ledger \in Seq(Events)
  BY DEF TypeOK
<1>6. service["proxy"] # "ok"
  BY LabConstants DEF AtRest, TypeOK
<1>7. ~ Sealed
  BY <1>6, LabConstants DEF Sealed, Stages, Recording
<1>8. ledger' \in Seq(Events)
  BY <1>4, <1>5, AppendFacts
<1>9. Grows
  BY <1>4, <1>7 DEF Grows
<1>10. (\A n : Announced(n) => Announced(n)') /\ (\A q : Told(q) => Told(q)')
  BY <1>5, <1>9, TellsNoLess
<1>11. TypeOK'
  BY <1>1, <1>2, <1>3, <1>8 DEF TypeOK, RequestRecords
<1>12. Stages' /\ Recorded'
  <2>1. Monotone
    BY <1>1, <1>9 DEF Monotone
  <2> QED BY <2>1, StagesKept
<1>13. AtRest'
  BY <1>1, <1>3, <1>6, LabConstants DEF AtRest
<1>14. ASSUME NEW q \in Requests, request'[q].pc = "done" PROVE Told(q)'
  <2>1. CASE q # r
    BY <2>1, <1>2, <1>10, <1>14
  <2>2. CASE q = r
    <3>1. ledger' = Append(ledger, e)
      BY <2>2, <1>2, <1>14
    <3>2. Len(ledger) + 1 \in DOMAIN ledger' /\ ledger'[Len(ledger) + 1] = e
      BY <3>1, <1>4, <1>5, AppendFacts
    <3> QED BY <3>2, <2>2, <1>4 DEF Told
  <2> QED BY <2>1, <2>2
<1>15. Causes'
  <2>1. \A q \in Requests : Announced(request'[q].served)
    BY <1>2 DEF Causes
  <2>2. \A q \in Requests : Announced(request[q].served)'
    BY <2>1, <1>10
  <2> QED BY <2>2, <1>1, <1>10 DEF Causes, Due
<1>16. CauseBeforeEffect'
  <2>1. CASE ledger' = ledger
    BY <2>1 DEF CauseBeforeEffect
  <2>2. CASE ledger' = Append(ledger, e)
    BY <2>2, <1>4, <1>5, CauseAppended
  <2> QED BY <2>1, <2>2
<1> QED BY <1>11, <1>12, <1>13, <1>14, <1>15, <1>16

\* Every step of a request is such a step.
LEMMA HandleKeeps ==
  ASSUME LabIInv, NEW r \in Requests, BeginRequest(r) \/ Handle(r)
  PROVE  LabIInv'
<1> TypeOK /\ Causes
  BY DEF LabIInv
<1>1. request \in [Requests -> RequestRecords] /\ request[r] \in RequestRecords
  BY DEF TypeOK, RequestRecords
<1>2. Announced(request[r].served) /\ Announced(None) /\ \A f \in Fixtures : Announced(profile[f])
  BY DEF Causes, Announced
<1>3. \A f \in Fixtures : profile[f] \in Profiles \cup {None}
  BY DEF TypeOK
<1>4. ASSUME NEW next \in {"started", "served", "uncounted"},
             request[r].pc # "done",
             request[r].pc = "new" => service["proxy"] = "serving",
             request' = [request EXCEPT ![r].pc = next],
             UNCHANGED <<lab, scheduler, profile, service, active, worker, ledger>>
      PROVE  LabIInv'
  <2> PICK u : u = [request[r] EXCEPT !.pc = next]
    OBVIOUS
  <2>1. u \in RequestRecords /\ u.pc = next /\ u.served = request[r].served
    BY <1>1 DEF RequestRecords
  <2>2. Requested(r, u) /\ Tells(r, u)
    BY <1>1, <1>4, <2>1 DEF Requested, Tells, lab
  <2> QED BY <2>1, <2>2, <1>2, <1>4, RequestKeeps
<1>5. CASE BeginRequest(r)
  BY <1>5, <1>4 DEF BeginRequest
<1>6. CASE FixtureAnswers(r)
  BY <1>6, <1>4 DEF FixtureAnswers
<1>7. CASE Uncount(r)
  BY <1>7, <1>4 DEF Uncount
<1>8. CASE CallFixture(r)
  <2> PICK f \in Fixtures :
        /\ FixtureTakes(f)
        /\ request' = [request EXCEPT ![r] = [pc |-> "calling", served |-> profile[f]]]
    BY <1>8 DEF CallFixture
  <2> PICK u : u = [pc |-> "calling", served |-> profile[f]]
    OBVIOUS
  <2>1. u \in RequestRecords /\ u.pc = "calling" /\ u.served = profile[f]
    BY <1>3 DEF RequestRecords
  <2>2. Requested(r, u) /\ Tells(r, u) /\ request[r].pc = "started"
    BY <1>8, <2>1 DEF CallFixture, FixtureTakes, Requested, Tells, lab
  <2> QED BY <2>1, <2>2, <1>2, RequestKeeps
<1>9. CASE DialRefused(r)
  <2> PICK f \in Fixtures :
        request' = [request EXCEPT ![r] = [pc |-> "served", served |-> profile[f]]]
    BY <1>9 DEF DialRefused
  <2> PICK u : u = [pc |-> "served", served |-> profile[f]]
    OBVIOUS
  <2>1. u \in RequestRecords /\ u.pc = "served" /\ u.served = profile[f]
    BY <1>3 DEF RequestRecords
  <2>2. Requested(r, u) /\ Tells(r, u) /\ request[r].pc = "started"
    BY <1>9, <2>1 DEF DialRefused, Requested, Tells, lab
  <2> QED BY <2>1, <2>2, <1>2, RequestKeeps
<1>10. CASE GiveUp(r)
  <2> PICK u : u = [request[r] EXCEPT !.pc = "served", !.served = None]
    OBVIOUS
  <2>1. u \in RequestRecords /\ u.pc = "served" /\ u.served = None
    BY <1>1 DEF RequestRecords
  <2>2. Requested(r, u) /\ Tells(r, u) /\ request[r].pc \in {"started", "calling"}
    BY <1>1, <1>10, <2>1 DEF GiveUp, Requested, Tells, lab
  <2> QED BY <2>1, <2>2, <1>2, RequestKeeps
<1>11. CASE PublishCompleted(r)
  <2> PICK u : u = [request[r] EXCEPT !.pc = "done"]
    OBVIOUS
  <2>1. u \in RequestRecords /\ u.pc = "done" /\ u.served = request[r].served
    BY <1>1 DEF RequestRecords
  <2>2. Requested(r, u) /\ Tells(r, u) /\ request[r].pc = "uncounted"
    BY <1>1, <1>11, <2>1 DEF PublishCompleted, Requested, Tells, lab
  <2> QED BY <2>1, <2>2, <1>2, RequestKeeps
<1> QED BY <1>5, <1>6, <1>7, <1>8, <1>9, <1>10, <1>11 DEF Handle

\* A health worker that has not left takes a step to u.
Worked(f, u) ==
  /\ worker' = [worker EXCEPT ![f] = u]
  /\ \/ active' = active
     \/ service[f] = "serving" /\ active' = [active EXCEPT ![f] = @ + 1]
  /\ ledger' \in {ledger, Append(ledger, [type |-> "health", fixture |-> f])}
  /\ UNCHANGED <<runner, ctxDone, healthDone, recorded, scheduler, profile, service, request>>

\* Such a step keeps the invariant: the ledger is not recorded before the
\* workers are joined.
LEMMA WorkedKeeps ==
  ASSUME LabIInv, NEW f \in Fixtures, NEW u \in WorkerRecords, Worked(f, u),
         worker[f].pc # "gone"
  PROVE  LabIInv'
<1> USE DEF LabIInv
<1>1. UNCHANGED <<runner, ctxDone, healthDone, recorded, scheduler, profile, service, request>>
  BY DEF Worked
<1>2. /\ worker' \in [Fixtures -> WorkerRecords] /\ worker'[f] = u
      /\ \A g \in Fixtures : g # f => worker'[g] = worker[g]
  BY DEF TypeOK, WorkerRecords, Worked
<1>3. /\ active' \in [Fixtures -> Nat]
      /\ \A g \in Fixtures : service[g] # "serving" => active'[g] = active[g]
  <2>1. active \in [Fixtures -> Nat] /\ active[f] + 1 \in Nat
    BY DEF TypeOK
  <2> QED BY <2>1 DEF Worked
<1> PICK e : e = [type |-> "health", fixture |-> f]
  OBVIOUS
<1>4. e \in Events /\ e.type = "health" /\ ledger \in Seq(Events)
  BY DEF Events, TypeOK
<1>5. ledger' = ledger \/ ledger' = Append(ledger, e)
  BY DEF Worked
<1>6. ~ Sealed
  BY DEF Sealed, Stages, Recording, Canceled
<1>7. ledger' \in Seq(Events) /\ Grows
  BY <1>4, <1>5, <1>6, AppendFacts DEF Grows
<1>8. (\A n : Announced(n) => Announced(n)') /\ (\A q : Told(q) => Told(q)')
  BY <1>4, <1>7, TellsNoLess
<1>9. TypeOK'
  BY <1>1, <1>2, <1>3, <1>7 DEF TypeOK, WorkerRecords
<1>10. Stages' /\ Recorded'
  <2>1. Monotone
    BY <1>1, <1>2, <1>7 DEF Monotone
  <2> QED BY <2>1, StagesKept
<1>11. AtRest'
  BY <1>1, <1>3 DEF AtRest
<1>12. Causes' /\ \A q \in Requests : request'[q].pc = "done" => Told(q)'
  BY <1>1, <1>8 DEF Causes, Due
<1>13. CauseBeforeEffect'
  <2>1. CASE ledger' = ledger
    BY <2>1 DEF CauseBeforeEffect
  <2>2. CASE ledger' = Append(ledger, e)
    BY <2>2, <1>4, CauseAppended
  <2> QED BY <2>1, <2>2, <1>5
<1> QED BY <1>9, <1>10, <1>11, <1>12, <1>13

\* Every step of a health worker is such a step.
LEMMA WorkKeeps ==
  ASSUME LabIInv, NEW f \in Fixtures, Work(f)
  PROVE  LabIInv'
<1> TypeOK
  BY DEF LabIInv
<1>1. worker \in [Fixtures -> WorkerRecords] /\ worker[f] \in WorkerRecords
  BY DEF TypeOK, WorkerRecords
<1>2. ASSUME NEW next \in {"calling", "reporting", "sleeping", "gone"},
             worker[f].pc # "gone", worker' = [worker EXCEPT ![f].pc = next],
             \/ active' = active
             \/ service[f] = "serving" /\ active' = [active EXCEPT ![f] = @ + 1],
             ledger' \in {ledger, Append(ledger, [type |-> "health", fixture |-> f])},
             UNCHANGED <<lab, scheduler, profile, service, request>>
      PROVE  LabIInv'
  <2> PICK u : u = [worker[f] EXCEPT !.pc = next]
    OBVIOUS
  <2>1. u \in WorkerRecords
    BY <1>1 DEF WorkerRecords
  <2>2. worker' = [worker EXCEPT ![f] = u]
    BY <1>1, <1>2
  <2>3. Worked(f, u)
    BY <1>2, <2>2, Zenon DEF Worked, lab
  <2> QED BY <2>1, <2>3, <1>2, WorkedKeeps
<1>3. CASE Probe(f)
  BY <1>3, <1>2 DEF Probe, FixtureTakes
<1>4. CASE ProbeReturns(f)
  BY <1>4, <1>2 DEF ProbeReturns
<1>5. CASE Report(f)
  BY <1>5, <1>2 DEF Report
<1>6. CASE Leave(f)
  BY <1>6, <1>2 DEF Leave
<1>7. CASE NextProbe(f)
  <2> PICK u : u = [pc |-> "probing", probes |-> worker[f].probes - 1]
    OBVIOUS
  <2>1. worker[f].probes \in 0 .. MaxProbes /\ worker[f].probes > 0
    BY <1>1, <1>7 DEF NextProbe, WorkerRecords
  <2>2. worker[f].probes - 1 \in 0 .. MaxProbes
    BY <2>1, LabConstants
  <2>3. u \in WorkerRecords
    BY <2>2 DEF WorkerRecords
  <2>4. worker' = [worker EXCEPT ![f] = u] /\ worker[f].pc = "sleeping"
    BY <1>1, <1>7 DEF NextProbe
  <2>5. Worked(f, u)
    BY <1>7, <2>4 DEF Worked, NextProbe, lab
  <2> QED BY <2>3, <2>4, <2>5, WorkedKeeps
<1> QED BY <1>3, <1>4, <1>5, <1>6, <1>7 DEF Work

SchedulerRecords == [pc : {"none", "waiting", "applying", "done"}, next : 1 .. Len(Schedule) + 1]

\* runSchedule: a step is announced, then applied.
LEMMA ScheduleKeeps ==
  ASSUME LabIInv, RunSchedule
  PROVE  LabIInv'
<1> USE DEF LabIInv
<1>1. /\ UNCHANGED <<runner, ctxDone, healthDone, recorded, service, active, worker, request>>
      /\ scheduler.pc # "done"
  BY DEF RunSchedule, Announce, Apply, ScheduleDone, lab
<1>2. /\ scheduler \in SchedulerRecords /\ scheduler.next \in 1 .. Len(Schedule) + 1
      /\ scheduler.next \in Nat /\ ledger \in Seq(Events)
  BY LabConstants DEF TypeOK, SchedulerRecords
<1> PICK e : e = [type |-> "fixture", step |-> scheduler.next]
  OBVIOUS
<1>3. Due => e \in Events /\ e.type = "fixture" /\ scheduler.next \in Profiles
  BY <1>2, LabConstants DEF Due, Events, Profiles
<1>4. ~ Sealed
  BY <1>1 DEF Sealed, Stages, Recording, Canceled, Joined
<1>5. ledger' \in Seq(Events) /\ Grows
  <2>1. ledger' = ledger \/ (Due /\ ledger' = Append(ledger, e))
    BY DEF RunSchedule, Announce, Apply, ScheduleDone
  <2> QED BY <2>1, <1>2, <1>3, <1>4, AppendFacts DEF Grows
<1>6. (\A n : Announced(n) => Announced(n)') /\ (\A q : Told(q) => Told(q)')
  BY <1>2, <1>5, TellsNoLess
<1>7. Stages' /\ Recorded'
  <2>1. Monotone
    BY <1>1, <1>5 DEF Monotone
  <2> QED BY <2>1, StagesKept
<1>8. AtRest' /\ \A q \in Requests : request'[q].pc = "done" => Told(q)'
  BY <1>1, <1>6 DEF AtRest
<1>9. CASE Announce
  <2> PICK u : u = [scheduler EXCEPT !.pc = "applying"]
    OBVIOUS
  <2>1. u \in SchedulerRecords /\ u.pc = "applying" /\ u.next = scheduler.next
    BY <1>2 DEF SchedulerRecords
  <2>2. scheduler' = u /\ profile' = profile /\ ledger' = Append(ledger, e) /\ Due
    BY <1>9 DEF Announce
  <2>3. TypeOK'
    BY <1>1, <1>5, <2>1, <2>2 DEF TypeOK, SchedulerRecords
  <2>4. Len(ledger) + 1 \in DOMAIN ledger' /\ ledger'[Len(ledger) + 1] = e
    BY <1>2, <1>3, <2>2, AppendFacts
  <2>5. Announced(scheduler.next)'
    BY <2>1, <2>2, <2>4 DEF Announced
  <2>6. Causes'
    BY <1>1, <1>6, <2>1, <2>2, <2>5 DEF Causes, Due
  <2>7. CauseBeforeEffect'
    BY <1>2, <1>3, <2>2, CauseAppended
  <2> QED BY <1>7, <1>8, <2>3, <2>6, <2>7
<1>10. CASE Apply
  <2> PICK u : u = [pc |-> "waiting", next |-> scheduler.next + 1]
    OBVIOUS
  <2> PICK g : g = Schedule[scheduler.next].fixture
    OBVIOUS
  <2>1. Due /\ Announced(scheduler.next)
    BY <1>10 DEF Apply, Causes
  <2>2. g \in Fixtures /\ scheduler.next + 1 \in 1 .. Len(Schedule) + 1 /\ scheduler.next \in Profiles
    BY <1>2, <1>3, <2>1, LabConstants DEF Due
  <2>3. u \in SchedulerRecords /\ u.pc = "waiting"
    BY <2>2 DEF SchedulerRecords
  <2>4. scheduler' = u /\ profile' = [profile EXCEPT ![g] = scheduler.next] /\ ledger' = ledger
    BY <1>10 DEF Apply
  <2>5. /\ profile' \in [Fixtures -> Profiles]
        /\ \A f \in Fixtures : profile'[f] = profile[f] \/ profile'[f] = scheduler.next
    BY <2>2, <2>4 DEF TypeOK
  <2>6. TypeOK'
    BY <1>1, <1>5, <2>3, <2>4, <2>5 DEF TypeOK, SchedulerRecords
  <2>7. \A f \in Fixtures : Announced(profile'[f])
    BY <2>1, <2>5 DEF Causes
  <2>8. Causes'
    <3>1. \A f \in Fixtures : Announced(profile[f])'
      BY <2>7, <1>6
    <3> QED BY <3>1, <1>1, <1>6, <2>3, <2>4 DEF Causes
  <2>9. CauseBeforeEffect'
    BY <2>4 DEF CauseBeforeEffect
  <2> QED BY <1>7, <1>8, <2>6, <2>8, <2>9
<1>11. CASE ScheduleDone
  <2> PICK u : u = [scheduler EXCEPT !.pc = "done"]
    OBVIOUS
  <2>1. u \in SchedulerRecords /\ u.pc = "done"
    BY <1>2 DEF SchedulerRecords
  <2>2. scheduler' = u /\ profile' = profile /\ ledger' = ledger
    BY <1>11 DEF ScheduleDone
  <2>3. TypeOK'
    BY <1>1, <1>5, <2>1, <2>2 DEF TypeOK, SchedulerRecords
  <2>4. Causes' /\ CauseBeforeEffect'
    BY <1>1, <1>6, <2>1, <2>2 DEF Causes, CauseBeforeEffect
  <2> QED BY <1>7, <1>8, <2>3, <2>4
<1> QED BY <1>9, <1>10, <1>11 DEF RunSchedule

-----------------------------------------------------------------------------
(* Steps of the runner                                                     *)

\* Joining, canceling and recording leave everyone else alone.
LEMMA RunnerKeeps ==
  ASSUME LabIInv, UNCHANGED rest,
         runner' \in RunnerSteps, ctxDone' \in BOOLEAN, healthDone' \in BOOLEAN,
         recorded' \in [events : Nat, active : [Fixtures -> Nat], failed : BOOLEAN],
         Stages', Recorded'
  PROVE  LabIInv'
<1> USE DEF LabIInv
<1>1. UNCHANGED <<scheduler, profile, service, active, worker, request, ledger>>
  BY DEF rest
<1>2. TypeOK'
  <2>1. {ctxDone', healthDone'} \subseteq BOOLEAN
    OBVIOUS
  <2> QED BY <1>1, <2>1 DEF TypeOK
<1>3. AtRest' /\ Causes' /\ CauseBeforeEffect' /\ \A r \in Requests : request'[r].pc = "done" => Told(r)'
  BY <1>1 DEF AtRest, Causes, Due, Announced, CauseBeforeEffect, Told
<1> QED BY <1>2, <1>3

\* Launch: the goroutines start, the servers serve.
LEMMA LaunchKeeps ==
  ASSUME LabIInv, Launch
  PROVE  LabIInv'
<1> USE DEF LabIInv
<1>1. /\ runner = "new" /\ runner' = "loading"
      /\ UNCHANGED <<ctxDone, healthDone, profile, active, request, ledger, recorded>>
  BY DEF Launch
<1>2. service' \in [Services -> {"new", "serving", "ok", "failed"}] /\ \A s \in Services : service'[s] = "serving"
  BY DEF Launch
<1>3. worker' \in [Fixtures -> WorkerRecords]
  <2>1. [pc |-> "probing", probes |-> MaxProbes] \in WorkerRecords
    BY LabConstants DEF WorkerRecords
  <2> QED BY <2>1 DEF Launch
<1> PICK u : u = [scheduler EXCEPT !.pc = "waiting"]
  OBVIOUS
<1>4. scheduler' = u /\ u \in SchedulerRecords /\ u.pc = "waiting"
  BY DEF Launch, TypeOK, SchedulerRecords
<1>5. TypeOK'
  BY <1>1, <1>2, <1>3, <1>4 DEF TypeOK, RunnerSteps, WorkerRecords, SchedulerRecords
<1>6. Stages' /\ Recorded'
  BY <1>1 DEF Stages, Recorded, Joined, Canceled, Recording
<1>7. AtRest'
  BY <1>2, LabConstants DEF AtRest
<1>8. Causes' /\ CauseBeforeEffect' /\ \A r \in Requests : request'[r].pc = "done" => Told(r)'
  BY <1>1, <1>4 DEF Causes, Announced, CauseBeforeEffect, Told
<1> QED BY <1>5, <1>6, <1>7, <1>8

\* run, after the launch: each step has waited for what the next relies on.
LEMMA RunKeeps ==
  ASSUME LabIInv, Run
  PROVE  LabIInv'
<1> DEFINE Records == [events : Nat, active : [Fixtures -> Nat], failed : BOOLEAN]
<1> /\ TypeOK /\ Stages /\ AtRest /\ Recorded
  BY DEF LabIInv
<1>1. /\ recorded \in Records /\ ctxDone \in BOOLEAN /\ healthDone \in BOOLEAN
      /\ active \in [Fixtures -> Nat] /\ Len(ledger) \in Nat
  <2>1. ledger \in Seq(Events)
    BY DEF TypeOK
  <2>2. Len(ledger) \in Nat
    BY <2>1, SeqFacts
  <2>3. {ctxDone, healthDone} \subseteq BOOLEAN
    BY DEF TypeOK
  <2> QED BY <2>2, <2>3 DEF TypeOK
<1>2. ASSUME BenchmarkReturns \/ JoinSchedule \/ StopHealth \/ JoinHealth \/ CancelLab
      PROVE  LabIInv'
  <2>1. /\ UNCHANGED rest /\ recorded' = recorded
        /\ runner' \in {"joining_schedule", "waiting_for_idle", "joining_health", "canceling", "waiting_for_services"}
        /\ ctxDone' \in BOOLEAN /\ healthDone' \in BOOLEAN
        /\ runner' \in Joined => scheduler.pc = "done"
        /\ runner' \in Canceled => \A f \in Fixtures : worker[f].pc = "gone"
    <3>1. CASE BenchmarkReturns
      BY <3>1, <1>1 DEF BenchmarkReturns, Advance, Joined, Canceled, Recording
    <3>2. CASE JoinSchedule
      BY <3>2, <1>1 DEF JoinSchedule, Advance, Joined, Canceled, Recording
    <3>3. CASE StopHealth
      BY <3>3, <1>1 DEF StopHealth, Advance, Stages, Joined, Canceled, Recording
    <3>4. CASE JoinHealth
      BY <3>4, <1>1 DEF JoinHealth, Advance, Stages, Joined, Canceled, Recording
    <3>5. CASE CancelLab
      BY <3>5, <1>1 DEF CancelLab, Advance, Stages, Joined, Canceled, Recording
    <3> QED BY <1>2, <3>1, <3>2, <3>3, <3>4, <3>5
  <2>2. runner' \in RunnerSteps /\ runner' \notin Recording
    BY <2>1 DEF RunnerSteps, Recording
  <2>3. Stages' /\ Recorded'
    BY <2>1, <2>2 DEF Stages, Recorded, rest, Recording
  <2> QED BY <1>1, <2>1, <2>2, <2>3, RunnerKeeps
<1>3. ASSUME WaitServices PROVE LabIInv'
  <2> PICK failed \in BOOLEAN : failed = (\E s \in Services : service[s] = "failed")
    OBVIOUS
  <2>1. /\ runner = "waiting_for_services" /\ runner' = "recording_ledger" /\ UNCHANGED <<ctxDone, healthDone, rest>>
        /\ \A s \in Services : service[s] \in {"ok", "failed"}
        /\ recorded' = [recorded EXCEPT !.failed = failed]
    BY <1>3 DEF WaitServices, Advance
  <2>2. recorded' \in Records /\ recorded'.failed = failed
    BY <1>1, <2>1
  <2>3. Clean' => \A s \in Services : service[s] = "ok"
    BY <2>1, <2>2 DEF Clean
  <2>4. Stages'
    BY <2>1, <2>3 DEF Stages, rest, Joined, Canceled, Recording
  <2>5. Recorded' /\ runner' \in RunnerSteps
    BY <2>1 DEF Recorded, RunnerSteps
  <2> QED BY <1>1, <2>1, <2>2, <2>4, <2>5, RunnerKeeps
<1>4. ASSUME RecordLedger PROVE LabIInv'
  <2>1. /\ runner = "recording_ledger" /\ runner' = "recording_fixtures" /\ UNCHANGED <<ctxDone, healthDone, rest>>
        /\ recorded' = [recorded EXCEPT !.events = Len(ledger)]
    BY <1>4 DEF RecordLedger, Advance
  <2>2. recorded' \in Records /\ recorded'.failed = recorded.failed /\ recorded'.events = Len(ledger)
    BY <1>1, <2>1
  <2>3. Stages'
    BY <2>1, <2>2 DEF Stages, rest, Joined, Canceled, Recording, Clean
  <2>4. Recorded' /\ runner' \in RunnerSteps
    BY <2>1, <2>2 DEF Recorded, RunnerSteps, rest
  <2> QED BY <1>1, <2>1, <2>2, <2>3, <2>4, RunnerKeeps
<1>5. ASSUME RecordFixtures PROVE LabIInv'
  <2>1. /\ runner = "recording_fixtures" /\ runner' = "returned" /\ UNCHANGED <<ctxDone, healthDone, rest>>
        /\ recorded' = [recorded EXCEPT !.active = active]
    BY <1>5 DEF RecordFixtures, Advance
  <2>2. /\ recorded' \in Records /\ recorded'.failed = recorded.failed
        /\ recorded'.events = recorded.events /\ recorded'.active = active
    BY <1>1, <2>1
  <2>3. Stages'
    BY <2>1, <2>2 DEF Stages, rest, Joined, Canceled, Recording, Clean
  <2>4. Clean => \A f \in Fixtures : active[f] = 0
    BY <2>1, LabConstants DEF Stages, Recording, AtRest
  <2>5. Recorded' /\ runner' \in RunnerSteps
    BY <2>1, <2>2, <2>4 DEF Recorded, RunnerSteps, rest, Clean
  <2> QED BY <1>1, <2>1, <2>2, <2>3, <2>5, RunnerKeeps
<1> QED BY <1>2, <1>3, <1>4, <1>5, LaunchKeeps DEF Run

\* Interrupt, and steps of no one.
LEMMA InterruptKeeps ==
  ASSUME LabIInv, Interrupt \/ UNCHANGED vars
  PROVE  LabIInv'
<1>1. /\ runner' = runner /\ recorded' = recorded /\ healthDone' = healthDone
      /\ ctxDone' \in {ctxDone, TRUE} /\ UNCHANGED rest
  BY DEF Interrupt, vars, rest
<1>2. TypeOK /\ Stages /\ Recorded
  BY DEF LabIInv
<1>3. Stages' /\ Recorded'
  <2>1. Monotone
    BY <1>1 DEF Monotone, rest, Grows
  <2> QED BY <1>2, <2>1, StagesKept
<1>4. {ctxDone, healthDone} \subseteq BOOLEAN
  BY <1>2 DEF TypeOK
<1>5. ctxDone' \in BOOLEAN /\ healthDone' \in BOOLEAN
  BY <1>1, <1>4
<1> QED BY <1>1, <1>2, <1>3, <1>5, RunnerKeeps DEF TypeOK

-----------------------------------------------------------------------------
(* The theorems                                                            *)

\* The invariant holds before the launch.
LEMMA LabStart == Init => LabIInv
<1> SUFFICES ASSUME Init PROVE LabIInv
  OBVIOUS
<1>1. TypeOK
  <2>1. 0 \in Profiles /\ 1 \in 1 .. Len(Schedule) + 1 /\ MaxProbes \in 0 .. MaxProbes
    BY LabConstants DEF Profiles
  <2>2. runner \in RunnerSteps /\ {ctxDone, healthDone} \subseteq BOOLEAN
    BY DEF Init, RunnerSteps
  <2>3. scheduler \in SchedulerRecords
    BY <2>1 DEF Init, SchedulerRecords
  <2>4. profile \in [Fixtures -> Profiles] /\ active \in [Fixtures -> Nat]
    BY <2>1 DEF Init
  <2>5. service \in [Services -> {"new", "serving", "ok", "failed"}]
    BY DEF Init
  <2>6. worker \in [Fixtures -> WorkerRecords]
    <3>1. [pc |-> "none", probes |-> MaxProbes] \in WorkerRecords
      BY <2>1 DEF WorkerRecords
    <3> QED BY <3>1 DEF Init
  <2>7. request \in [Requests -> RequestRecords]
    <3>1. [pc |-> "new", served |-> None] \in RequestRecords
      BY DEF RequestRecords
    <3> QED BY <3>1 DEF Init
  <2>8. ledger \in Seq(Events)
    <3> HIDE DEF Events
    <3> QED BY DEF Init
  <2>9. recorded \in [events : Nat, active : [Fixtures -> Nat], failed : BOOLEAN]
    <3> PICK zero : zero = [f \in Fixtures |-> 0]
      OBVIOUS
    <3>1. zero \in [Fixtures -> Nat]
      OBVIOUS
    <3>2. recorded = [events |-> 0, active |-> zero, failed |-> FALSE]
      BY DEF Init
    <3> QED BY <3>1, <3>2
  <2> QED BY <2>2, <2>3, <2>4, <2>5, <2>6, <2>7, <2>8, <2>9
          DEF TypeOK, SchedulerRecords, WorkerRecords, RequestRecords
<1>2. Stages /\ Recorded
  BY DEF Init, Stages, Recorded, Joined, Canceled, Recording
<1>3. AtRest
  BY LabConstants DEF Init, AtRest
<1>4. Causes /\ \A r \in Requests : request[r].pc = "done" => Told(r)
  BY DEF Init, Causes, Announced
<1>5. CauseBeforeEffect
  BY DEF Init, CauseBeforeEffect
<1> QED BY <1>1, <1>2, <1>3, <1>4, <1>5 DEF LabIInv

\* Every step of anyone keeps the invariant.
LEMMA LabStep == LabIInv /\ [Next]_vars => LabIInv'
BY RunKeeps, ScheduleKeeps, InterruptKeeps, ServiceKeeps, FixtureKeeps, WorkKeeps, HandleKeeps DEF Next

\* The inductive invariant holds throughout.
LEMMA LabKeeps == Spec => []LabIInv
BY LabStart, LabStep, PTL DEF Spec

\* Whatever the scenario, and however requests and probes race with the
\* schedule, runSchedule has told the ledger of a fixture's new profile before
\* any completion that the profile decided.
THEOREM LabCorrect == Spec => []LabInv
<1>1. LabIInv => LabInv
  BY DEF LabIInv, LabInv
<1> QED BY <1>1, LabKeeps, PTL

\* What experimentLab.run records after a teardown without failed services is
\* final and complete, for any number of fixtures, requests and probes.
THEOREM ReceiptsAreFinal == Spec => []ReceiptIsFinal
<1>1. LabIInv => ReceiptIsFinal
  <2> SUFFICES ASSUME LabIInv, Clean, runner \in {"recording_fixtures", "returned"}
               PROVE  /\ Len(ledger) = recorded.events
                      /\ \A r \in Requests : request[r].pc # "new" =>
                           \E i \in 1 .. recorded.events : ledger[i].type = "completed" /\ ledger[i].request = r
                      /\ runner = "returned" => \A f \in Fixtures : recorded.active[f] = 0
    BY DEF ReceiptIsFinal
  <2>1. /\ Len(ledger) = recorded.events
        /\ runner = "returned" => \A f \in Fixtures : recorded.active[f] = 0
    BY DEF LabIInv, Recorded
  <2>2. service["proxy"] = "ok"
    BY LabConstants DEF LabIInv, Stages, Recording
  <2>3. \A r \in Requests : request[r].pc # "new" => Told(r)
    BY <2>2 DEF LabIInv, AtRest
  <2>4. DOMAIN ledger = 1 .. recorded.events
    <3>1. ledger \in Seq(Events)
      BY DEF LabIInv, TypeOK
    <3>2. DOMAIN ledger = 1 .. Len(ledger)
      <4> HIDE DEF Events
      <4> QED BY <3>1
    <3> QED BY <2>1, <3>2
  <2> QED BY <2>1, <2>3, <2>4 DEF Told
<1> QED BY <1>1, LabKeeps, PTL

\* What scenario.validate accepts has a schedule in the order of time in which
\* every recovery ends a fault, whatever the draws of the generator.
THEOREM SchedulesResolve == Spec => []ScheduleResolves
<1>1. ScheduleResolves
  BY AcceptedRuns, ExperimentAssumption DEF ScheduleResolves
<1> QED BY <1>1, PTL

\* What deriveReceipt passes has its evidence in the ledger, and evidence in the
\* order of the clock is not overlooked, whatever the ledger and the thresholds.
THEOREM ReceiptsAreExact == Spec => []ReceiptExact
<1>1. ReceiptExact
  BY PassesOnEvidence, ExperimentAssumption DEF ReceiptExact
<1> QED BY <1>1, PTL
=============================================================================
