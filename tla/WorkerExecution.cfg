\* Two worker processes, two consecutive runs of a three-step pipeline:
\* the first one exports a file, the second one to a table.
SPECIFICATION FairSpec
CONSTANTS
  Workers = {w1, w2}
  Nobody = Nobody
  NRuns = 2
  NSteps = 3
  TableRuns = {2}
  MaxAttempts = 2
  MaxFaults = 2
  MaxStops = 1
CHECK_DEADLOCK FALSE
INVARIANTS WorkerInvariant CheckpointAfterSuccess
PROPERTIES ClaimedJobEnds
