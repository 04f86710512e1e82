----------------------------- MODULE Experiment -----------------------------
(***************************************************************************)
(* One run of an experiment lab (src/experiment.go): the services it       *)
(* starts, the fault schedule, the health workers (src/health.go), the     *)
(* fixtures (src/fixture.go), and the teardown after which the ledger and  *)
(* the fixtures are recorded for the receipt.                              *)
(*                                                                         *)
(* A server's Serve is what TCPServer.tla promises of it: it returns       *)
(* without an error after the context is done and its handlers have        *)
(* returned, or with an error, and then handlers may be left running.  The *)
(* load is any set of requests: the proxy's address is public.  A profile  *)
(* is the number of the schedule step that set it, 0 for the initial one.  *)
(* The schedule and the receipt are those of Receipt.tla.                  *)
(* Of the events, the ledger keeps what the measurements look for: the     *)
(* transitions of fixtures, the completions of requests, and the last word *)
(* of a health probe.                                                      *)
(***************************************************************************)
EXTENDS Receipt, FiniteSets

CONSTANTS Scenario,        \* the one that is run
          Requests,        \* what clients send to the proxy
          MaxProbes,       \* bound: probes of each health worker
          Scenarios,       \* what files may describe
          Ledgers,         \* what runs may have told
          Expectations,    \* assertions about them
          None

Fixtures == DOMAIN Scenario.initial

Schedule == schedule(Scenario.steps)

ASSUME ExperimentAssumption ==
  /\ IsFiniteSet(Fixtures) /\ IsFiniteSet(Requests)
  /\ "proxy" \notin Fixtures
  /\ IsScenario(Scenario) /\ validate(Scenario)
  /\ \A scenario \in Scenarios : IsScenario(scenario)
  /\ \A events \in Ledgers : IsLedger(events)
  /\ \A expected \in Expectations : IsExpectation(expected)
  /\ MaxProbes \in Nat
  /\ None \notin Nat

Profiles == 0 .. Len(Schedule)

\* The administration server is one more of these, and reads snapshots only.
Services == {"proxy"} \cup Fixtures

VARIABLES runner,        \* the goroutine of run
          ctxDone,       \* the lab's context
          healthDone,    \* the health checker's context, a child of it
          scheduler,      \* the goroutine of runSchedule: pc, next
          profile,       \* each fixture's atomic profile
          service,       \* each Serve, and its result
          active,        \* each fixture's counter of requests in its handlers
          worker,        \* health workers: pc, probes left
          request,       \* requests in the proxy's handlers: pc, served
          ledger,        \* transitions, completions and health changes
          recorded       \* what the receipt is derived from

vars == <<runner, ctxDone, healthDone, scheduler, profile, service, active,
          worker, request, ledger, recorded>>
lab == <<runner, ctxDone, healthDone, recorded>>

RunnerSteps == {"new", "loading", "joining_schedule", "waiting_for_idle",
                "joining_health", "canceling", "waiting_for_services",
                "recording_ledger", "recording_fixtures", "returned"}

Events == [type : {"fixture"}, step : Profiles]
     \cup [type : {"completed"}, request : Requests, served : Profiles \cup {None}]
     \cup [type : {"health"}, fixture : Fixtures]

\* Goroutines are at steps of their functions, counters are numbers.
TypeOK ==
  /\ runner \in RunnerSteps
  /\ {ctxDone, healthDone} \subseteq BOOLEAN
  /\ scheduler \in [pc : {"none", "waiting", "applying", "done"}, next : 1 .. Len(Schedule) + 1]
  /\ profile \in [Fixtures -> Profiles]
  /\ service \in [Services -> {"new", "serving", "ok", "failed"}]
  /\ active \in [Fixtures -> Nat]
  /\ worker \in [Fixtures -> [pc : {"none", "probing", "calling", "reporting",
                                    "sleeping", "gone"},
                              probes : 0 .. MaxProbes]]
  /\ request \in [Requests -> [pc : {"new", "started", "calling", "served",
                                     "uncounted", "done"},
                               served : Profiles \cup {None}]]
  /\ ledger \in Seq(Events)
  /\ recorded \in [events : Nat, active : [Fixtures -> Nat], failed : BOOLEAN]

Init ==
  /\ runner = "new" /\ ctxDone = FALSE /\ healthDone = FALSE
  /\ scheduler = [pc |-> "none", next |-> 1]
  /\ profile = [f \in Fixtures |-> 0]
  /\ service = [s \in Services |-> "new"]
  /\ active = [f \in Fixtures |-> 0]
  /\ worker = [f \in Fixtures |-> [pc |-> "none", probes |-> MaxProbes]]
  /\ request = [r \in Requests |-> [pc |-> "new", served |-> None]]
  /\ ledger = <<>>
  /\ recorded = [events |-> 0, active |-> [f \in Fixtures |-> 0], failed |-> FALSE]

Mode(f) == IF profile[f] = 0 THEN Scenario.initial[f] ELSE Schedule[profile[f]].mode

-----------------------------------------------------------------------------
(* Services and fixtures                                                   *)

\* The requests in a server's handlers.
Handling(s) ==
  IF s = "proxy" THEN Cardinality({r \in Requests : request[r].pc \notin {"new", "done"}})
  ELSE active[s]

\* Mutant: the server does not wait for its handlers.
EndWhileHandling(s) ==
  /\ service[s] = "serving" /\ ctxDone
  /\ service' = [service EXCEPT ![s] = "ok"]
  /\ UNCHANGED <<lab, scheduler, profile, active, worker, request, ledger>>

ServiceEnds(s) ==
  /\ service[s] = "serving" /\ ctxDone
  /\ Handling(s) = 0
  /\ service' = [service EXCEPT ![s] = "ok"]
  /\ UNCHANGED <<lab, scheduler, profile, active, worker, request, ledger>>

\* Accepting fails, or handlers outlast the forced close.
ServiceFails(s) ==
  /\ service[s] = "serving"
  /\ service' = [service EXCEPT ![s] = "failed"]
  /\ UNCHANGED <<lab, scheduler, profile, active, worker, request, ledger>>

\* A fixture's handler takes a request and loads the profile.
FixtureTakes(f) == /\ service[f] = "serving"
                   /\ active' = [active EXCEPT ![f] = @ + 1]

\* The handler is through with a request: it has written a response, which the
\* other side may have read long ago, or given up.
FixtureLeaves(f) ==
  /\ active[f] > 0
  /\ active' = [active EXCEPT ![f] = @ - 1]
  /\ UNCHANGED <<lab, scheduler, profile, service, worker, request, ledger>>

-----------------------------------------------------------------------------
(* A request in the proxy                                                  *)

BeginRequest(r) ==
  /\ request[r].pc = "new" /\ service["proxy"] = "serving"
  /\ request' = [request EXCEPT ![r].pc = "started"]
  /\ UNCHANGED <<lab, scheduler, profile, service, active, worker, ledger>>

\* The attempt that decides the answer reaches a fixture.
CallFixture(r) ==
  /\ request[r].pc = "started"
  /\ \E f \in Fixtures :
       /\ FixtureTakes(f)
       /\ request' = [request EXCEPT ![r] = [pc |-> "calling", served |-> profile[f]]]
  /\ UNCHANGED <<lab, scheduler, profile, service, worker, ledger>>

\* The lab's DialContext refuses, by the mode right now.
DialRefused(r) ==
  /\ request[r].pc = "started"
  /\ \E f \in Fixtures :
       /\ Mode(f) = "unavailable"
       /\ request' = [request EXCEPT ![r] = [pc |-> "served", served |-> profile[f]]]
  /\ UNCHANGED <<lab, scheduler, profile, service, active, worker, ledger>>

FixtureAnswers(r) ==
  /\ request[r].pc = "calling"
  /\ request' = [request EXCEPT ![r].pc = "served"]
  /\ UNCHANGED <<lab, scheduler, profile, service, active, worker, ledger>>

\* No backend, a timeout, or the proxy is stopping: no fixture decides.
GiveUp(r) ==
  /\ request[r].pc \in {"started", "calling"}
  /\ request' = [request EXCEPT ![r].pc = "served", ![r].served = None]
  /\ UNCHANGED <<lab, scheduler, profile, service, active, worker, ledger>>

\* metrics.completeRequest comes before the completion event.
Uncount(r) ==
  /\ request[r].pc = "served"
  /\ request' = [request EXCEPT ![r].pc = "uncounted"]
  /\ UNCHANGED <<lab, scheduler, profile, service, active, worker, ledger>>

PublishCompleted(r) ==
  /\ request[r].pc = "uncounted"
  /\ request' = [request EXCEPT ![r].pc = "done"]
  /\ ledger' = Append(ledger, [type |-> "completed", request |-> r, served |-> request[r].served])
  /\ UNCHANGED <<lab, scheduler, profile, service, active, worker>>

-----------------------------------------------------------------------------
(* The health workers                                                      *)

WorkerContextDone == healthDone \/ ctxDone

Probe(f) ==
  /\ worker[f].pc = "probing"
  /\ \/ FixtureTakes(f) /\ worker' = [worker EXCEPT ![f].pc = "calling"]
     \/ worker' = [worker EXCEPT ![f].pc = "reporting"] /\ UNCHANGED active
  /\ UNCHANGED <<lab, scheduler, profile, service, request, ledger>>

ProbeReturns(f) ==
  /\ worker[f].pc = "calling"
  /\ worker' = [worker EXCEPT ![f].pc = "reporting"]
  /\ UNCHANGED <<lab, scheduler, profile, service, active, request, ledger>>

\* recordActive and completeCircuitProbe, which publish a change or none.
Report(f) ==
  /\ worker[f].pc = "reporting"
  /\ worker' = [worker EXCEPT ![f].pc = "sleeping"]
  /\ ledger' \in {ledger, Append(ledger, [type |-> "health", fixture |-> f])}
  /\ UNCHANGED <<lab, scheduler, profile, service, active, request>>

\* The ticker; select may prefer it to a context that is done.
NextProbe(f) ==
  /\ worker[f].pc = "sleeping" /\ worker[f].probes > 0
  /\ worker' = [worker EXCEPT ![f] = [pc |-> "probing", probes |-> @.probes - 1]]
  /\ UNCHANGED <<lab, scheduler, profile, service, active, request, ledger>>

\* Mutant: the worker listens to the context of the lab.
LeaveWithLab(f) ==
  /\ worker[f].pc = "sleeping" /\ ctxDone
  /\ worker' = [worker EXCEPT ![f].pc = "gone"]
  /\ UNCHANGED <<lab, scheduler, profile, service, active, request, ledger>>

Leave(f) ==
  /\ worker[f].pc = "sleeping" /\ WorkerContextDone
  /\ worker' = [worker EXCEPT ![f].pc = "gone"]
  /\ UNCHANGED <<lab, scheduler, profile, service, active, request, ledger>>

-----------------------------------------------------------------------------
(* runSchedule                                                             *)

Due == scheduler.next <= Len(Schedule)

\* Mutant: the transition is not told.
AnnounceNothing ==
  /\ scheduler.pc = "waiting" /\ Due
  /\ scheduler' = [scheduler EXCEPT !.pc = "applying"]
  /\ UNCHANGED <<lab, profile, service, active, worker, request, ledger>>

\* A step that is late is not stopped by the context.
Announce ==
  /\ scheduler.pc = "waiting" /\ Due
  /\ scheduler' = [scheduler EXCEPT !.pc = "applying"]
  /\ ledger' = Append(ledger, [type |-> "fixture", step |-> scheduler.next])
  /\ UNCHANGED <<lab, profile, service, active, worker, request>>

Apply ==
  /\ scheduler.pc = "applying"
  /\ profile' = [profile EXCEPT ![Schedule[scheduler.next].fixture] = scheduler.next]
  /\ scheduler' = [pc |-> "waiting", next |-> scheduler.next + 1]
  /\ UNCHANGED <<lab, service, active, worker, request, ledger>>

ScheduleDone ==
  /\ scheduler.pc = "waiting" /\ (ctxDone \/ ~ Due)
  /\ scheduler' = [scheduler EXCEPT !.pc = "done"]
  /\ UNCHANGED <<lab, profile, service, active, worker, request, ledger>>

-----------------------------------------------------------------------------
(* run                                                                     *)

\* The signal context, the parent of the lab's.
Interrupt ==
  /\ ~ ctxDone /\ runner # "new"
  /\ ctxDone' = TRUE
  /\ UNCHANGED <<runner, healthDone, scheduler, profile, service, active, worker,
                 request, ledger, recorded>>

Launch ==
  /\ runner = "new"
  /\ runner' = "loading"
  /\ service' = [s \in Services |-> "serving"]
  /\ worker' = [f \in Fixtures |-> [pc |-> "probing", probes |-> MaxProbes]]
  /\ scheduler' = [scheduler EXCEPT !.pc = "waiting"]
  /\ UNCHANGED <<ctxDone, healthDone, profile, active, request, ledger, recorded>>

Advance(from, to) == runner = from /\ runner' = to

rest == <<scheduler, profile, service, active, worker, request, ledger>>

BenchmarkReturns ==
  /\ Advance("loading", "joining_schedule")
  /\ UNCHANGED <<ctxDone, healthDone, recorded, rest>>

JoinSchedule ==
  /\ Advance("joining_schedule", "waiting_for_idle")
  /\ scheduler.pc = "done"
  /\ UNCHANGED <<ctxDone, healthDone, recorded, rest>>

\* waitForObserverIdle, which may find a moment without requests or give up,
\* and the head of health.Stop.
StopHealth ==
  /\ Advance("waiting_for_idle", "joining_health")
  /\ healthDone' = TRUE
  /\ UNCHANGED <<ctxDone, recorded, rest>>

\* Mutant: Stop cancels the workers and does not wait.
JoinNoWorker ==
  /\ Advance("joining_health", "canceling")
  /\ UNCHANGED <<ctxDone, healthDone, recorded, rest>>

JoinHealth ==
  /\ Advance("joining_health", "canceling")
  /\ \A f \in Fixtures : worker[f].pc = "gone"
  /\ UNCHANGED <<ctxDone, healthDone, recorded, rest>>

\* pool.Close and cancel.
CancelLab ==
  /\ Advance("canceling", "waiting_for_services")
  /\ ctxDone' = TRUE
  /\ UNCHANGED <<healthDone, recorded, rest>>

WaitServices ==
  /\ Advance("waiting_for_services", "recording_ledger")
  /\ \A s \in Services : service[s] \in {"ok", "failed"}
  /\ recorded' = [recorded EXCEPT !.failed = \E s \in Services : service[s] = "failed"]
  /\ UNCHANGED <<ctxDone, healthDone, rest>>

RecordLedger ==
  /\ Advance("recording_ledger", "recording_fixtures")
  /\ recorded' = [recorded EXCEPT !.events = Len(ledger)]
  /\ UNCHANGED <<ctxDone, healthDone, rest>>

RecordFixtures ==
  /\ Advance("recording_fixtures", "returned")
  /\ recorded' = [recorded EXCEPT !.active = active]
  /\ UNCHANGED <<ctxDone, healthDone, rest>>

-----------------------------------------------------------------------------
Run ==
  \/ Launch \/ BenchmarkReturns \/ JoinSchedule \/ StopHealth \/ JoinHealth
  \/ CancelLab \/ WaitServices \/ RecordLedger \/ RecordFixtures

RunSchedule == Announce \/ Apply \/ ScheduleDone

Work(f) == Probe(f) \/ ProbeReturns(f) \/ Report(f) \/ NextProbe(f) \/ Leave(f)

Handle(r) ==
  CallFixture(r) \/ DialRefused(r) \/ FixtureAnswers(r) \/ GiveUp(r) \/ Uncount(r) \/ PublishCompleted(r)

Next ==
  \/ Run \/ RunSchedule \/ Interrupt
  \/ \E s \in Services : ServiceEnds(s) \/ ServiceFails(s)
  \/ \E f \in Fixtures : FixtureLeaves(f) \/ Work(f)
  \/ \E r \in Requests : BeginRequest(r) \/ Handle(r)

Spec == Init /\ [][Next]_vars

\* Every goroutine runs; network operations have deadlines, and the benchmark
\* returns.  Nobody has to interrupt the lab or to send requests.
FairSpec ==
  /\ Spec /\ WF_vars(Run) /\ WF_vars(RunSchedule)
  /\ \A s \in Services : WF_vars(ServiceEnds(s))
  /\ \A f \in Fixtures : WF_vars(Work(f)) /\ WF_vars(FixtureLeaves(f))
  /\ \A r \in Requests : WF_vars(Handle(r))

-----------------------------------------------------------------------------
Clean == ~ recorded.failed

\* "This prevents post-receipt events and guarantees every recorded fixture has
\* zero active work" (ARCHITECTURE.md:235): what was recorded for a run that
\* returns without error is the whole ledger, for good, with the completion of
\* every request that was begun, and fixtures at rest.
ReceiptIsFinal ==
  Clean =>
    /\ runner \in {"recording_fixtures", "returned"} =>
         /\ Len(ledger) = recorded.events
         /\ \A r \in Requests : request[r].pc # "new" =>
              \E i \in 1 .. recorded.events : ledger[i].type = "completed" /\ ledger[i].request = r
    /\ runner = "returned" => \A f \in Fixtures : recorded.active[f] = 0

\* The ledger tells a transition before anything the new profile causes: the
\* measurements of the receipt look for effects after their cause only.
CauseBeforeEffect ==
  \A i \in DOMAIN ledger :
    ledger[i].type = "completed" /\ ledger[i].served \notin {0, None} =>
      \E j \in 1 .. i - 1 : ledger[j] = [type |-> "fixture", step |-> ledger[i].served]

\* What the schedule and the requests keep: counters and the order of the ledger.
LabInv == TypeOK /\ CauseBeforeEffect

\* "step must resolve within the scenario duration", "recovers fixture before a
\* fault" (src/scenario.go): a scenario that is accepted has a schedule in the
\* order of time in which every recovery ends a fault, jitter and ties included.
ScheduleResolves ==
  runner = "new" => \A s \in Scenarios : validate(s) => Runs(s, schedule(s.steps))

\* "Receipts derive request success, failure streak, failover, and recovery from
\* sequenced ledger events" (README.md:299): a receipt that passes has the
\* evidence in its ledger, and all of the benchmark's requests.  If the clock
\* was read in the order of the events, no evidence is overlooked.
ReceiptExact ==
  runner = "new" =>
    \A events \in Ledgers, expected \in Expectations :
      LET completed == Cardinality(Completions(events))
          Enough == 100 * Cardinality(Successes(events)) >= expected.minimumSuccessRate * completed
      IN /\ ~ deriveReceipt(expected, events, completed + 1).passed
         /\ \A passed \in {deriveReceipt(expected, events, completed).passed} :
              /\ passed => Evidence(expected, events)
              /\ InOrder(events) /\ Evidence(expected, events) /\ Enough => passed

\* The run returns, interrupted or not, and although services fail.
RunReturns == runner = "loading" ~> runner = "returned"
=============================================================================
