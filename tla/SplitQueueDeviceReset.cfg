CONSTANTS
    c1 = c1
    c2 = c2
    c3 = c3
    MaxSize = 2
    MaxChainDescriptors = 2
    IndexModulus = 4
    Chains = {c1, c2, c3}
    DescriptorCount <- SmallDescriptorCount
    LocalHead <- SmallLocalHead
    Valid = {c1, c2, c3}
    MaxEpoch = 3
    SetIndices = {1, 3}
    Nothing = Nothing
SPECIFICATION Spec
INVARIANT
    EveryPublishedChainReturns
