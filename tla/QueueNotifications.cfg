\* Deadlock is not checked: the guest may stop publishing.
CONSTANTS
    Chains = {c1, c2, c3}
SPECIFICATION Spec
INVARIANT
    NoLostWakeup
PROPERTY
    PublishedChainsReturn
CHECK_DEADLOCK FALSE
