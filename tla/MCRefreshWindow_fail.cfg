\* Fetches may fail: the deferred lastFetchTime update moves the window past unapplied writes.
CONSTANTS
    k1 = k1
    k2 = k2
    Keys <- MCKeys
    MaxVer = 2
    MaxTime = 6
    DiffTime = 2
    CommitLag = 1
    FetchCanFail = TRUE
SPECIFICATION Spec
INVARIANT WindowCovers
