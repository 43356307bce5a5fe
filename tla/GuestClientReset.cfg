CONSTANTS
    c1 = c1
    c2 = c2
    Chains = {c1, c2}
    ChainTokens = {0, 1}
    Prior = {c1}
    MaxInflight = 2
    IdModulus = 4
    MaxEpoch = 2
    Failures = {"response"}
    Nothing = Nothing
SPECIFICATION Spec
INVARIANTS
    SlotsMatchTheQueue
    ChainsAreAccountedFor
    AnswersAreFresh
    CurrentPendingsMatch
CHECK_DEADLOCK FALSE
