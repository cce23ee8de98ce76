\* One caller, every fault, one restart, two devices.
CONSTANTS
    headset = headset
    remote = remote
    Devices = {headset, remote}
    Hids = {remote}
    Anonymous = {}
    Times = {1}
    Volumes = {1}
    NoInfo = NoInfo
    NoFile = NoFile
    BadFile = BadFile
    Threads = {t1}
    NoThread = NoThread
    Operations <- AllOperations
    Builds <- AllBuilds
    Faults <- AllFaults
    MaxCalls = 3
    MaxRestarts = 1
    InitialStores <- MCStores
    InitialFiles <- MCFiles
    InitialPaired <- MCPaired
SPECIFICATION Spec
INVARIANT TypeOK
PROPERTIES
    MigrationIsFaithful
    NothingPersistedBeforeMigration
    ClearEmptiesStore
    SuccessMeansSaved
    StartupKeepsSettings
    ImplementsMigratedStore
\* The calls are bounded: when they are used up the threads stay idle.
CHECK_DEADLOCK FALSE
