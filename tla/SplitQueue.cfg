CONSTANTS
    c1 = c1
    c2 = c2
    c3 = c3
    MaxSize = 4
    MaxChainDescriptors = 3
    IndexModulus = 8
    Chains = {c1, c2, c3}
    DescriptorCount <- LargeDescriptorCount
    LocalHead <- LargeLocalHead
    Valid = {c1, c2}
    MaxEpoch = 1
    SetIndices = {}
    Nothing = Nothing
SPECIFICATION Spec
INVARIANTS
    TypeOK
    NeverCorrupt
    DescriptorsAreOwnedOnce
