\* One caller against the timer, nothing fails, and the plugin stays active.
CONSTANTS
    Objects = {o1}
    NoObject = NoObject
    Callers = {c1}
    Timer = timer
    Btrmgr = btrmgr
    Power = power
    Faults = {}
    LifeFaults = {}
    MaxCalls = 3
    MaxDeactivations = 0
SPECIFICATION FairSpec
PROPERTY DiscoveryEnds
\* The calls are bounded: when they are used up the threads stay idle.
CHECK_DEADLOCK FALSE
