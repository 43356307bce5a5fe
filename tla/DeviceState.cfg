\* Two contexts, so that a submission may mix them; two buffers, either of
\* which may be bound twice.
CONSTANTS
    Contexts = {c1, c2}
    Buffers = {b1, b2}
    Programs = {p1, p2}
    Queues = {q1}
    Events = {e1, e2}
    MaxContexts = 2
    ChildLimit <- MCChildLimit
    MaxBindings = 2
    MaxBufferBytes = 2
    Policy <- MCPolicy
    MaxReferences = 3
    Sizes <- MCSizes
    MaxSequence = 2
    NoContext = NoContext
SPECIFICATION GraphSpec
SYMMETRY Symmetry
INVARIANTS
    ReferencesAreExact
    ChildCountsAreExact
    RetainedIsExact
    SubmissionsKeepTheirResources
    ParentsOutliveChildren
