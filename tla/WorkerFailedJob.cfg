SPECIFICATION FairSpec
CONSTANTS
  Workers = {w1, w2}
  Nobody = Nobody
  NRuns = 2
  NSteps = 2
  TableRuns = {}
  MaxAttempts = 1
  MaxFaults = 1
  MaxStops = 0
PROPERTY FailedJobFailsRun
CHECK_DEADLOCK FALSE
