\* Two setAutoConnect at once.
CONSTANTS
    headset = headset
    remote = remote
    Devices = {headset}
    Hids = {}
    Anonymous = {}
    Times = {1}
    Volumes = {1}
    NoInfo = NoInfo
    NoFile = NoFile
    BadFile = BadFile
    Threads = {t1, t2}
    NoThread = NoThread
    Operations = {"performMigration", "setAutoConnect"}
    Builds = {"migration"}
    Faults = {}
    MaxCalls = 3
    MaxRestarts = 0
    InitialStores <- NoStore
    InitialFiles <- OneFile
    InitialPaired <- HeadsetPaired
SPECIFICATION Spec
INVARIANT StoreAgreesWithCache
\* The calls are bounded: when they are used up the threads stay idle.
CHECK_DEADLOCK FALSE
