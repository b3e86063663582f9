\* Three configs, four validators, limits met by more configs than asked for.
SPECIFICATION FairSpec
CONSTANTS
    c1 = c1
    c2 = c2
    c3 = c3
    Configs = {c1, c2, c3}
    Settings <- Calls
INVARIANT TypeOK
INVARIANT Delivers
INVARIANT NothingLeftBehind
INVARIANT NobodyForgotten
PROPERTY CallEnds
CHECK_DEADLOCK FALSE
