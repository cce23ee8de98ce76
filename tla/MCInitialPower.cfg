\* The plugin is started with the power on.
CONSTANTS
    Devices = {headset, remote}
    Hids = {remote}
    Builds = {"migration"}
    NotMigrated = NotMigrated
    Activities = {}
    InitialPower = {"on"}
    InitialAdapter = {FALSE, TRUE}
    MaxEvents = 0
SPECIFICATION Spec
INVARIANT InitialPowerStateIsHandled
\* The activities are bounded: when they are used up the plugin rests.
CHECK_DEADLOCK FALSE
