CONSTANTS
    c1 = c1
    c2 = c2
    Chains = {c1, c2}
    ChainTokens = {0, 1}
    Prior = {c1}
    MaxInflight = 2
    IdModulus = 4
    MaxEpoch = 1
    Failures <- AllFailures
    Nothing = Nothing
SPECIFICATION Spec
INVARIANTS
    RequestIdsAreUnambiguous
PROPERTIES
    PolledRequestsSettle
CHECK_DEADLOCK FALSE
