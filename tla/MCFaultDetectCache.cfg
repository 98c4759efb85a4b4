\* Rules keep their target: every lookup is sound once the cache is synced.
CONSTANTS
    N = N
    M = M
    A = A
    B = B
    r1 = r1
    r2 = r2
    AllMatched = AllMatched
    Rules = {r1, r2}
    Namespaces = {N, M}
    SvcNames = {A, B}
    Targets <- MCTargets
    MaxVer = 2
    Retarget = FALSE
SPECIFICATION Spec
INVARIANT TypeOK
INVARIANT LookupSound
PROPERTY TombstoneEventuallyGone
