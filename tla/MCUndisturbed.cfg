\* One caller, no restart; only reading the AS file may fail.
CONSTANTS
    headset = headset
    remote = remote
    Devices = {headset, remote, beacon}
    Hids = {remote}
    Anonymous = {beacon}
    Times = {0}
    Volumes = {1}
    NoInfo = NoInfo
    NoFile = NoFile
    BadFile = BadFile
    Threads = {t1}
    NoThread = NoThread
    Operations <- AllOperations
    Builds <- AllBuilds
    Faults = {"fileRead"}
    MaxCalls = 4
    MaxRestarts = 0
    InitialStores <- MCStores
    InitialFiles <- MCFiles
    InitialPaired <- MCPaired
SPECIFICATION Spec
INVARIANTS
    StoreAgreesWithCache
    CachedDevicesArePaired
    MarkerMeansStored
    FileAgreesWithCache
PROPERTY RollbackKeepsDevices
\* The calls are bounded: when they are used up the threads stay idle.
CHECK_DEADLOCK FALSE
