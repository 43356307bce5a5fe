CONSTANTS
    Contexts = {c1}
    Buffers = {b1, b2}
    Programs = {p1}
    Queues = {q1}
    Events = {e1, e2}
    MaxContexts = 1
    ChildLimit <- MCChildLimit
    MaxBindings = 2
    MaxBufferBytes = 2
    Policy <- MCPolicy
    MaxReferences = 2
    Sizes <- MCSizes
    MaxSequence = 2
    NoContext = NoContext
    CanCancel = TRUE
    Namespaces <- MCNamespaces
    NoObject = NoObject
    NoReport = NoReport
SPECIFICATION Spec
INVARIANTS
    GuestViewIsExact
    HandlesAreAccountedFor
    ExecutionsKeepTheirResources
    PolicyIsRespected
    ResetReportIsExact
PROPERTIES
    ImplementsGraph
    EngineReturns
