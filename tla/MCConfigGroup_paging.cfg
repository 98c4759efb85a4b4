\* One request at a time, one file more than a page: the paged delete leaves
\* a file without its group, and a group query by file name then hands the
\* missing group to batchTransfer.
CONSTANTS
    Clients <- MCClients1
    c1 = c1
    NFiles = 3
    MaxPageSize = 2
    MaxGroupId = 3
    HookCanFail = TRUE
    NoFile = NoFile
    NS = NS
    GroupName = GroupName
SPECIFICATION SystemSpec
INVARIANT QueryGroupFound
