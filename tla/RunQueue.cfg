\* Three requests for one pipeline and one for another, two creators, two promoters.
SPECIFICATION MCSpec
CONSTANTS
  p1 = p1 p2 = p2 r1 = r1 r2 = r2 r3 = r3 r4 = r4 g1 = g1 g2 = g2
  c1 = c1 c2 = c2 d1 = d1 d2 = d2
  Pipelines = {p1, p2}
  Runs = {r1, r2, r3, r4}
  PipelineOf <- RequestedPipeline
  ScheduledFor <- AllManual
  NotScheduled = NotScheduled
  Creators = {c1, c2}
  Promoters = {d1, d2}
  Nobody = Nobody
  PromotionLimit = 2
  Graphs = {g1, g2}
  Executable = {g1}
  MaxClock = 3
CHECK_DEADLOCK FALSE
INVARIANTS RunQueueInvariant
PROPERTIES TurnKeptUntilTerminal CreateLeavesActiveRun PromotionAdvancesBacklog TransactionsEnd ImplementsStateMachine
