CONSTANTS
  Scenario <- MCScenario
  Requests = {r1}
  MaxProbes = 1
  Scenarios <- MCScenarios
  Ledgers <- MCLedgers
  Expectations <- MCExpectations
  None = None
SPECIFICATION FairSpec
INVARIANTS LabInv ReceiptIsFinal ScheduleResolves ReceiptExact
PROPERTY RunReturns
CHECK_DEADLOCK FALSE
