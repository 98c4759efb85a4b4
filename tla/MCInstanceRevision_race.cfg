\* Two revision workers: a worker that read the instances before a newer
\* batch publishes its digest after the worker that read the newer batch.
CONSTANTS
    i1 = i1
    i2 = i2
    s1 = s1
    w1 = w1
    w2 = w2
    Instances <- MCInstances
    Services <- MCServices
    InsSvc <- MCInsSvc
    Workers = {w1, w2}
    QueueCap = 1
    MaxVer = 2
    MaxWrites = 3
    NoSvc = NoSvc
    MaxClears = 1
    HealthFlags <- MCHealthFlags
SPECIFICATION Spec
INVARIANT RevisionCoherent
