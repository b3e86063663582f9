\* Two lists of three configs and two, ten configurations of the stages.
SPECIFICATION Spec
CONSTANTS
    c1 = c1
    c2 = c2
    c3 = c3
    c4 = c4
    c5 = c5
    Configs = {c1, c2, c3, c4, c5}
    Lists <- TwoLists
    Key <- SameServer
    Traits <- SomeQuic
    Settings <- Configurations
INVARIANT TypeOK
INVARIANT VerdictsAreEarned
INVARIANT AliveWithinBudget
INVARIANT OutputIsVouchedFor
INVARIANT OneVerdictPerKey
CHECK_DEADLOCK FALSE
