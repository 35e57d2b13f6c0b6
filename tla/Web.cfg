SPECIFICATION Spec
CONSTANTS
    LoginPages = {l1}
    Bootstraps = {b1}
    Browsers = {c1, c2}
    Emails = {e1, e2}
    Usernames = {n1, n2}
    DefaultEmail = e1
    DefaultUsername = n1
    Missing = missing
    Malformed = malformed
    TokenIds = {t1}
    MaxResets = 1
    Second = c2
    Services = {"scheduler", "worker"}
    Pages = {p1, p2}
    DayInputs = {0, 1}
    DefaultDays = 2
    NoDays = nodays
    MaxLoads = 2
    MaxChanges = 2
    MaxSaves = 3
    Star = star
    Other = other
    Empty = empty
    Numbers = {5, 23, 100}
    RawCrons <- SomeCrons
    Timezones = {utc}
    Ids = {1, 2}
    MaxTriggerEdits = 3
    FileSource = file_source
    JsonSource = json_source
    RestComponent = rest
    TextKey = text
    Components = {file_source, json_source, rest}
    Keys = {path, json, text}
    FileKey = path
    JsonKey = json
    Declared <- DeclaredKeys
    Values = {v1, v2}
    Unset = unset
    Garbage = garbage
    None = none
    UploadIds = {u1, u2}
    MaxEdits = 5
CHECK_DEADLOCK FALSE
INVARIANTS AccountsInvariant PagesInvariant TriggersInvariant FormInvariant
PROPERTIES EstablishedChangesByResetOrOwner SubmissionsAreAnswered LoadingEnds
