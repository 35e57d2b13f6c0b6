\* Four requests for one pipeline; the scheduler keeps promoting, workers keep polling.
SPECIFICATION FairSpec
CONSTANTS
  p1 = p1 r1 = r1 r2 = r2 r3 = r3 r4 = r4 g1 = g1 c1 = c1 d1 = d1
  Pipelines = {p1}
  Runs = {r1, r2, r3, r4}
  PipelineOf <- OnePipeline
  ScheduledFor <- AllManual
  NotScheduled = NotScheduled
  Creators = {c1}
  Promoters = {d1}
  Nobody = Nobody
  PromotionLimit = 100
  Graphs = {g1}
  Executable = {g1}
  MaxClock = 4
PROPERTY BacklogProgresses
CHECK_DEADLOCK FALSE
