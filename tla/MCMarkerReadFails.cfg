\* One failing read of the marker at startup.
CONSTANTS
    headset = headset
    remote = remote
    Devices = {headset}
    Hids = {}
    Anonymous = {}
    Times = {1}
    Volumes = {1}
    NoInfo = NoInfo
    NoFile = NoFile
    BadFile = BadFile
    Threads = {t1}
    NoThread = NoThread
    Operations = {"performMigration"}
    Builds = {"migration"}
    Faults = {"storeRead"}
    MaxCalls = 2
    MaxRestarts = 1
    InitialStores <- NoStore
    InitialFiles <- OneFile
    InitialPaired <- HeadsetPaired
SPECIFICATION Spec
INVARIANT MigratedCacheIsLoaded
\* The calls are bounded: when they are used up the threads stay idle.
CHECK_DEADLOCK FALSE
