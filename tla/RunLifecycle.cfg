\* Four runs of a pipeline; two workers, polling or not, and two source jobs of
\* one run.
SPECIFICATION LifecycleSpec
CONSTANTS
  RunIds = {r1, r2, r3, r4}
  NoRun = NoRun
  Workers = {w1, w2}
  Nobody = nobody
  Jobs = {j1, j2}
  MaxAttempts = 2
  MaxReleases = 1
  MaxFaults = 1
CHECK_DEADLOCK FALSE
INVARIANTS QueueInOrder CancellationInvariant
PROPERTIES FirstInFirstOut CancellationSticks CancelledOnRequest CancellationCompletes
