---------------------------- MODULE MCExperiment ----------------------------
(* Instances of Experiment for TLC. *)
EXTENDS Experiment

Step(at, jitter, draw, fixture, mode) ==
  [at |-> at, jitter |-> jitter, draw |-> draw, fixture |-> fixture, mode |-> mode]

MCFixtures == {"f1", "f2"}

\* A fixture fails and recovers.
MCScenario ==
  [duration |-> 3, initial |-> [f \in {"f1"} |-> "healthy"], requireRecovery |-> TRUE,
   steps |-> <<Step(1, 1, -1, "f1", "unavailable"), Step(2, 0, 0, "f1", "recovered")>>]

\* Up to three steps, in time and out of it; jitter may reorder them.
MCSteps ==
  {Step(t.at, t.jitter, t.draw, f, mode) :
     t \in {u \in [at : 0 .. 3, jitter : 0 .. 1, draw : -1 .. 1] :
             -u.jitter <= u.draw /\ u.draw <= u.jitter /\ (u.at = 3 => u.draw = 0)
               /\ (u.at = 0 => u.draw >= 0)},
     f \in MCFixtures, mode \in {"unavailable", "recovered"}}
MCScenarios ==
  [duration : {3}, initial : [MCFixtures -> {"healthy", "failure"}], requireRecovery : {FALSE},
   steps : BoundedSeq(MCSteps, 2) \cup
             {s \in [1 .. 3 -> {t \in MCSteps : t.fixture = "f1" /\ t.at < 3}] : s[1].jitter = 1}]

Event(type, fixture, mode, status, elapsed) ==
  [type |-> type, fixture |-> fixture, mode |-> mode, status |-> status, elapsed |-> elapsed]
MCEvents ==
  {Event("transition", t.fixture, t.mode, 0, e) :
     t \in {[fixture |-> "f1", mode |-> "truncated"], [fixture |-> "f1", mode |-> "recovered"],
            [fixture |-> "f2", mode |-> "unavailable"]}, e \in 0 .. 1}
    \cup {Event("completed", c.fixture, "", c.status, e) :
            c \in {[fixture |-> "f1", status |-> 200], [fixture |-> "f2", status |-> 399],
                   [fixture |-> "", status |-> 502]}, e \in 0 .. 1}
MCLedgers == BoundedSeq(MCEvents, 4)
MCExpectations ==
  {[minimumSuccessRate |-> 0, maximumFailureRun |-> 1, maximumFailover |-> 0, requireRecovery |-> TRUE],
   [minimumSuccessRate |-> 50, maximumFailureRun |-> 2, maximumFailover |-> 1, requireRecovery |-> FALSE]}
=============================================================================
