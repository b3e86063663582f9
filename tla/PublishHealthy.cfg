\* Two calls and two commits by hand on a healthy API.
SPECIFICATION Spec
CONSTANTS
    p1 = p1
    p2 = p2
    b1 = b1
    b2 = b2
    other = other
    Absent = Absent
    Publishers = {p1, p2}
    Content <- ContentOf
    Blobs = {b1, b2, other}
    Faults = {}
    ConflictRetries = 2
    MaxEdits = 2
INVARIANT FailsOnlyWhenBeaten
CHECK_DEADLOCK FALSE
