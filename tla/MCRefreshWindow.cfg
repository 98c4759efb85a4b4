\* Fetches may fail and writes commit a second after their stamp, with a
\* diffTime of 2 s and the clock running long enough for a failed round to
\* leave a write behind: successful rounds never do, and the cache converges
\* on every key no failure dropped.
CONSTANTS
    k1 = k1
    k2 = k2
    Keys <- MCKeys
    MaxVer = 2
    MaxTime = 8
    DiffTime = 2
    CommitLag = 1
    FetchCanFail = TRUE
SPECIFICATION Spec
INVARIANT TypeOK WindowCoversUnlessFailed
PROPERTY EventuallyMirrored
