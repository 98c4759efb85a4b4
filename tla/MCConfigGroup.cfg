\* One request at a time, every file fitting in one page, hooks that may fail,
\* releases published and deleted, and the metrics reporter ticking between
\* any two store calls.
CONSTANTS
    Clients <- MCClients1
    c1 = c1
    NFiles = 2
    MaxPageSize = 2
    MaxGroupId = 3
    HookCanFail = TRUE
    NoFile = NoFile
    NS = NS
    GroupName = GroupName
SPECIFICATION SystemSpec
INVARIANT SystemTypeOK FileGaugeCurrent
PROPERTY FileGaugeCleared
