\* Two invocations of stack-up or stack-reset, one fault; two migration runs at once.
SPECIFICATION Spec
CONSTANTS
    Cmds = {c1, c2}
    NoFile = nofile
    Torn = torn
    Services = {web, worker}
    Stubborn = {worker}
    MaxFaults = 1
    Runners = {a, b}
    N = 3
    K = 2
    Kinds = {tables, indexes}
    MaxCrashes = 1
    MaxRetries = 3
CHECK_DEADLOCK FALSE
INVARIANTS StackInvariant MigrationInvariant
PROPERTIES InvocationsEnd PartialIsUntouched RecognisedIsMigrated
