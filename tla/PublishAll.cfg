\* One call, every fault of the API and the network, three commits by hand.
SPECIFICATION FairSpec
CONSTANTS
    p1 = p1
    p2 = p2
    b1 = b1
    b2 = b2
    other = other
    Absent = Absent
    Publishers = {p1}
    Content <- ContentOf
    Blobs = {b1, b2, other}
    Faults <- AllFaults
    ConflictRetries = 2
    MaxEdits = 3
INVARIANT TypeOK
INVARIANT TruthfulSuccess
PROPERTY KeepsPromise
PROPERTY EveryCallReturns
CHECK_DEADLOCK FALSE
