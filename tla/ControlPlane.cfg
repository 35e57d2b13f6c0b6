\* Two tabs and two clicks; one editor and one copy of a pipeline.
SPECIFICATION Spec
CONSTANTS
    Tabs = {t1, t2}
    MaxClicks = 2
    MaxFaults = 1
    MaxStops = 1
    Editors = {e1}
    Copiers = {c1}
    Shapes = {"a", "b"}
    MaxWrites = 2
    MaxRuns = 1
    MaxReads = 1
CHECK_DEADLOCK FALSE
INVARIANTS RequestInvariant EditingInvariant
PROPERTIES ClickEnds ActiveRunFreezesPipeline
