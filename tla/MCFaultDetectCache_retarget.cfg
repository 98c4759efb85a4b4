\* A rule moved to another target stays in the bucket of its old target.
CONSTANTS
    N = N
    M = M
    A = A
    B = B
    r1 = r1
    r2 = r2
    AllMatched = AllMatched
    Rules = {r1, r2}
    Namespaces = {N, M}
    SvcNames = {A, B}
    Targets <- MCTargets
    MaxVer = 2
    Retarget = TRUE
SPECIFICATION Spec
INVARIANT LookupSound
