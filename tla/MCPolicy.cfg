\* Everything happens; BTRMGR may fail.
CONSTANTS
    Devices = {headset, remote}
    Hids = {remote}
    Builds = {"migration", "plain"}
    NotMigrated = NotMigrated
    Activities = {"power", "earlyPower", "request", "setAutoConnect", "connect", "disconnect", "pair", "unpair", "enable", "disable", "performMigration", "clearMigration", "btrmgrFails"}
    InitialPower = {"unknown", "standby"}
    \* The harder start: Bluetooth that is on already only helps the properties.
    InitialAdapter = {FALSE}
    MaxEvents = 3
SPECIFICATION FairSpec
INVARIANTS
    TypeOK
    AsleepIsQuiet
    AwakeIsOn
    StartupLeavesNoUnwanted
PROPERTIES
    HidsStayConnected
    RejectsOnKnownStatus
    RequestIsAnswered
\* The activities are bounded: when they are used up the plugin rests.
CHECK_DEADLOCK FALSE
