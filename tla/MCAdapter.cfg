\* Two writers, every failure, two stops of the process or the machine.
CONSTANTS
    Writers = {w1, w2}
    NoWriter = NoWriter
    Payloads = {p1, p2}
    Chunks = 2
    NoFile = NoFile
    Unread = Unread
    Faults = {"read", "open", "write", "fsync", "fsyncDir", "rename", "remove"}
    MaxWrites = 3
    MaxStops = 2
SPECIFICATION FairSpec
INVARIANTS
    TypeOK
    AlwaysWhole
    NoTmpLeftBehind
PROPERTIES
    MergeBaseIsCurrent
    RenamePublishesOwnPayload
    ImplementsAtomicFile
    EveryWriteReturns
\* The calls are bounded: when they are used up the writers stay idle.
CHECK_DEADLOCK FALSE
