\* Shapes of four steps and four edges, two settings; five edits of a draft.
SPECIFICATION Spec
CONSTANTS
    Keys = {"req", "opt", "url"}
    Catalog <- SmallCatalog
    Registered <- WorkerComponents
    MaxSteps = 4
    MaxEdges = 4
    MaxConfig = 2
    Values = {"blank", "set"}
    DefaultValue = "blank"
    MaxEdits = 5
    MaxSaves = 2
    MaxLostReplies = 1
    Connects <- ConnectsSourcesToExports
CHECK_DEADLOCK FALSE
INVARIANTS JudgementsAgree WizardInvariant
