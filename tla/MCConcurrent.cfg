\* Three callers at once, failing store calls, one restart.
CONSTANTS
    headset = headset
    remote = remote
    Devices = {headset}
    Hids = {}
    Anonymous = {}
    Times = {1}
    Volumes = {1}
    NoInfo = NoInfo
    NoFile = NoFile
    BadFile = BadFile
    Threads = {t1, t2, t3}
    NoThread = NoThread
    Operations = {"performMigration", "clearMigration", "setAutoConnect", "setLastConnectTimeUtc", "pair"}
    Builds = {"migration"}
    Faults = {"btrmgr", "storeRead", "storeWrite", "storeDelete"}
    MaxCalls = 3
    MaxRestarts = 1
    InitialStores <- NoStore
    InitialFiles <- OneFile
    InitialPaired <- HeadsetPaired
SPECIFICATION FairSpec
INVARIANT MigrationInv
PROPERTIES
    MarkerWrittenLast
    MigrationSuccessIsReal
    ClearedIsNotTrusted
    SuccessMeansSaved
    EveryCallReturns
\* The calls are bounded: when they are used up the threads stay idle.
CHECK_DEADLOCK FALSE
