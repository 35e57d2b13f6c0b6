\* One tab, one run and one save.
SPECIFICATION EditingSpec
CONSTANTS
    Editors = {e1}
    Copiers = {}
    Shapes = {"a", "b"}
    MaxWrites = 1
    MaxRuns = 1
    MaxReads = 1
INVARIANT IdleUpdateSucceeds
CHECK_DEADLOCK FALSE
