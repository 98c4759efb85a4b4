\* One revision worker and one Clear at any point: the instance index, the
\* counts and the revision digest are coherent, every record not lost to a
\* failed round or a Clear converges to the store, and checkAll brings the
\* instance total back unless a Clear tore it.
CONSTANTS
    i1 = i1
    i2 = i2
    s1 = s1
    w1 = w1
    w2 = w2
    Instances <- MCInstances
    Services <- MCServices
    InsSvc <- MCInsSvc
    Workers = {w1}
    QueueCap = 1
    MaxVer = 2
    MaxWrites = 3
    NoSvc = NoSvc
    MaxClears = 1
    HealthFlags <- MCHealthFlags
SPECIFICATION Spec
INVARIANT TypeOK
 
 
INVARIANT RevisionCoherent
PROPERTY EventuallyMirrored
 
