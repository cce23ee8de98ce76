\* Two callers, the timer and the visitors interleave, every fault; one plugin
\* is deinitialized, and another may take its place, at its address or not.
CONSTANTS
    Objects = {o1, o2}
    NoObject = NoObject
    Callers = {c1, c2}
    Timer = timer
    Btrmgr = btrmgr
    Power = power
    Faults = {"adapters", "start", "stop"}
    LifeFaults = {"register", "unregister", "power", "manager"}
    MaxCalls = 3
    MaxDeactivations = 1
SPECIFICATION FairSpec
INVARIANTS
    TypeOK
    RunningIsTimed
    DiscoveryIsKnown
    RegisteredWhileUp
    NobodyAstray
PROPERTIES
    RunningEnds
    DiscoveryEndsUndisturbed
\* The calls and deactivations are bounded: when they are used up nothing has to
\* happen.
CHECK_DEADLOCK FALSE
