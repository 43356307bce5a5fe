CONSTANTS
    MaxSlots = 2
    GenerationMask = 1
    Namespaces <- MCNamespaces
    Kind = 2
    Values = {v1, v2}
    NoValue = none
SPECIFICATION Spec
INVARIANTS
    TypeOK
    IdentityNeverAliases
    FreeStackIsExactlyVacant
    FullOnlyWhenExhausted
PROPERTY
    ImplementsRegistry
CHECK_DEADLOCK FALSE
