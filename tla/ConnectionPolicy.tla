-------------------------- MODULE ConnectionPolicy --------------------------
(***************************************************************************)
(* Which devices the Bluetooth plugin itself connects and disconnects: the *)
(* clean-up at the end of Initialize, the power mode policy, and the answer*)
(* to a device that asks for a connection.  All three read the autoconnect *)
(* status the device manager keeps, while clients change it.               *)
(*                                                                         *)
(* Threads: the one that runs Initialize, the PowerManager notifications   *)
(* (one at a time), the BTRMGR callback (one event at a time), and the     *)
(* JSON-RPC workers, whose calls are one action here as far as they touch  *)
(* this state; DeviceManager has them step by step.                        *)
(*                                                                         *)
(* The power states OFF, STANDBY and LIGHT_SLEEP are one value, "standby": *)
(* the code tests for them together.                                       *)
(*                                                                         *)
(* In the build without migration ("plain") the flag is never set: there   *)
(* the plugin has the clean-up of Initialize and nothing else of this.     *)
(***************************************************************************)
EXTENDS Integers

CONSTANTS
    Devices,       \* the remote Bluetooth devices
    Hids,          \* those of type "HUMAN INTERFACE DEVICE"
    Builds,        \* the builds the plugin may be, see AllBuilds
    NotMigrated,   \* PersistentStore has no migration marker
    Activities,    \* what happens around the plugin, see AllActivities
    InitialPower,  \* power states the plugin may be started in
    InitialAdapter,\* whether Bluetooth may be on, or off, when it is
    MaxEvents      \* bound: activities in a behaviour

AllBuilds == {"migration", "plain"}

AllActivities ==
    {"power",           \* the power state changes once the plugin is up
     "earlyPower",      \* it changes while Initialize runs
     "request",         \* a device asks for a connection
     "setAutoConnect", "connect", "disconnect", "pair", "unpair", "enable", "disable",
     "performMigration", "clearMigration",   \* clients call
     "btrmgrFails"}     \* BTRMGR fails a call of the plugin

PowerStates == {"unknown", "on", "standby", "deepSleep"}

Status == {"disabled", "enabled", "unset"}

\* A cache, reduced to the autoconnect status of each paired device.
Caches == UNION {[D -> Status] : D \in SUBSET Devices}
EmptyCache == [d \in {} |-> "unset"]

ASSUME PolicyAssumption ==
    /\ Devices # {} /\ Hids \subseteq Devices
    /\ Builds \subseteq AllBuilds
    /\ NotMigrated \notin Caches
    /\ Activities \subseteq AllActivities
    /\ InitialPower \subseteq PowerStates
    /\ InitialAdapter \subseteq BOOLEAN
    /\ MaxEvents \in Nat

VARIABLES
    build,       \* the build of the plugin
    stage,       \* how far Initialize is
    saved,       \* what PersistentStore held when the plugin was started
    isMigrated,  \* the device manager's _isMigrated
    cache,       \* its _pairedDeviceCache
    switching,   \* the migration call under way: "no", "importing", "clearing"
    connected,   \* the devices BTRMGR has connected
    adapterOn,   \* Bluetooth is on
    power,       \* the power state
    ppc, from,   \* the notification: its next step, and the state left, until it is read
    leaving,     \* the devices it still has to disconnect
    rpc, asker,  \* the connection request: its next step, and the device
    answer,      \* what was answered: "none", "accepted", "rejected", "notified"
    doomed,      \* the devices the clean-up still has to disconnect
    happened,    \* history: the activities since the power policy last applied
    events

managerVars == <<saved, isMigrated, cache, switching>>
powerVars   == <<power, ppc, from, leaving>>
requestVars == <<rpc, asker, answer>>
history     == <<happened, events>>
vars == <<build, stage, managerVars, connected, adapterOn, powerVars, requestVars, doomed, history>>

TypeOK ==
    /\ build \in AllBuilds
    /\ stage \in {"power", "init", "list", "cleanUp", "up"}
    /\ saved \in Caches \cup {NotMigrated}
    /\ isMigrated \in BOOLEAN
    /\ cache \in Caches
    /\ switching \in {"no", "importing", "clearing"}
    /\ connected \in SUBSET Devices
    /\ adapterOn \in BOOLEAN
    /\ power \in PowerStates
    /\ ppc \in {"idle", "isMigrated", "snapshot", "disconnect"}
    /\ from \in PowerStates
    /\ leaving \in SUBSET Devices
    /\ rpc \in {"idle", "isMigrated", "askFlag", "askCache", "respond", "connect"}
    /\ asker \in Devices
    /\ answer \in {"none", "accepted", "rejected", "notified"}
    /\ doomed \in SUBSET Devices
    /\ happened \in SUBSET Activities
    /\ events \in Nat

\* A manager that is just constructed, over whatever the store has.
ManagerAtStart ==
    /\ saved \in Caches \cup {NotMigrated}
    /\ isMigrated = FALSE
    /\ cache = EmptyCache
    /\ switching = "no"

\* What the plugin finds of BTRMGR and PowerManager when it is started.
WorldAtStart ==
    /\ connected \in SUBSET Devices
    /\ adapterOn \in InitialAdapter
    /\ power \in InitialPower
    /\ from = power

Init ==
    /\ build \in Builds
    /\ stage = "power"
    /\ ManagerAtStart
    /\ WorldAtStart
    /\ ppc = "idle"
    /\ leaving = {}
    /\ rpc = "idle"
    /\ asker = CHOOSE d \in Devices : TRUE
    /\ answer = "none"
    /\ doomed = {}
    /\ happened = {}
    /\ events = 0

Happens(activity) == activity \in Activities

Event(activity) ==
    /\ Happens(activity)
    /\ events < MaxEvents
    /\ events' = events + 1
    /\ happened' = happened \cup {activity}

\* setDeviceConnection: BTRMGR connects or disconnects the device, or fails.
SetDeviceConnection(newConnected) ==
    \/ connected' = newConnected /\ UNCHANGED happened
    \/ /\ Happens("btrmgrFails")
       /\ happened' = happened \cup {"btrmgrFails"}
       /\ UNCHANGED connected

DisconnectDevice(d) == SetDeviceConnection(connected \ {d})

-----------------------------------------------------------------------------
(* onPowerModeChanged                                                      *)

NonHids(c) == DOMAIN c \ Hids

FallsAsleep(old, new) == new = "standby" /\ old \in {"on", "unknown"}

\* Seeded fault: the remote control goes with the others.
ToDisconnectAll(c, old, new) ==
    IF new = "deepSleep" THEN DOMAIN c
    ELSE IF FallsAsleep(old, new) THEN {d \in DOMAIN c : c[d] = "disabled"}
    ELSE {}

\* Seeded fault: deep sleep is one more standby.
ToDisconnectDisabled(c, old, new) ==
    IF new = "deepSleep" \/ FallsAsleep(old, new)
    THEN {d \in NonHids(c) : c[d] = "disabled"}
    ELSE {}

\* The devices of cache c that a transition disconnects.
ToDisconnect(c, old, new) ==
    CASE FallsAsleep(old, new) -> {d \in NonHids(c) : c[d] = "disabled"}
      [] new = "deepSleep" -> NonHids(c)
      [] OTHER -> {}

\* A transition on which the policy acts; unless something is under way that
\* may connect a device afterwards, what happened before it no longer matters.
ComesIntoForce(old, new) == FallsAsleep(old, new) \/ new \in {"on", "deepSleep"}
AtRest == stage = "up" /\ rpc = "idle" /\ switching = "no"

\* PowerManager calls the observer; the next call waits for its return.
PowerChanges ==
    /\ ppc = "idle"
    /\ events < MaxEvents
    /\ \E new \in PowerStates \ {power, "unknown"} : power' = new
    /\ LET activity == IF stage = "up" THEN "power" ELSE "earlyPower"
           past == IF AtRest /\ ComesIntoForce(power, power') THEN {} ELSE happened
       IN  Happens(activity) /\ happened' = past \cup {activity}
    /\ events' = events + 1
    /\ from' = power
    /\ ppc' = "isMigrated"
    /\ UNCHANGED <<build, stage, managerVars, connected, adapterOn, leaving, requestVars, doomed>>

PwIsMigrated ==
    /\ ppc = "isMigrated"
    /\ \/ isMigrated /\ ppc' = "snapshot" /\ UNCHANGED from
       \/ ~isMigrated /\ ppc' = "idle" /\ from' = power
    /\ UNCHANGED <<build, stage, managerVars, connected, adapterOn, power, leaving, requestVars,
                   doomed, history>>

\* setBluetoothEnabled(ENABLE_BLUETOOTH_ENABLED): BTRMGR does it, or fails.
EnableBluetooth ==
    \/ adapterOn' = TRUE /\ UNCHANGED happened
    \/ /\ Happens("btrmgrFails")
       /\ happened' = happened \cup {"btrmgrFails"}
       /\ UNCHANGED adapterOn

\* Seeded fault: only the way out of standby is a way to power on.
PwSnapshotFromStandby ==
    /\ ppc = "snapshot"
    /\ leaving' = ToDisconnect(cache, from, power)
    /\ ppc' = IF leaving' = {} THEN "idle" ELSE "disconnect"
    /\ from' = power
    /\ IF power = "on" /\ from = "standby" /\ NonHids(cache) # {} THEN EnableBluetooth
       ELSE UNCHANGED <<adapterOn, happened>>
    /\ UNCHANGED <<build, stage, managerVars, connected, power, requestVars, doomed, events>>

\* getPairedDeviceInfos, and what follows from the copy.
PwSnapshot ==
    /\ ppc = "snapshot"
    /\ leaving' = ToDisconnect(cache, from, power)
    /\ ppc' = IF leaving' = {} THEN "idle" ELSE "disconnect"
    /\ from' = power
    /\ IF power = "on" /\ NonHids(cache) # {} THEN EnableBluetooth
       ELSE UNCHANGED <<adapterOn, happened>>
    /\ UNCHANGED <<build, stage, managerVars, connected, power, requestVars, doomed, events>>

PwDisconnect ==
    /\ ppc = "disconnect"
    /\ \E d \in leaving : leaving' = leaving \ {d} /\ DisconnectDevice(d)
    /\ ppc' = IF leaving' = {} THEN "idle" ELSE "disconnect"
    /\ UNCHANGED <<build, stage, managerVars, adapterOn, power, from, requestVars, doomed, events>>

-----------------------------------------------------------------------------
(* Initialize, from the power state on                                     *)

\* onPowerModeChanged is called with the current state, before the device
\* manager is initialized: its flag is not set yet, and the call returns.
InitialPowerState ==
    /\ stage = "power"
    /\ ~isMigrated
    /\ stage' = "init"
    /\ UNCHANGED <<build, managerVars, connected, adapterOn, powerVars, requestVars, doomed, history>>

Loaded == IF saved = NotMigrated THEN EmptyCache ELSE saved

\* What the build without migration makes of it: the devices BTRMGR has paired,
\* and for each of them what the store has.
Reconciled(paired) ==
    [d \in paired |-> IF d \in DOMAIN Loaded THEN Loaded[d] ELSE "unset"]

InitManager ==
    /\ stage = "init"
    /\ stage' = "list"
    /\ isMigrated' = (build = "migration" /\ saved # NotMigrated)
    /\ \/ build = "migration" /\ cache' = Loaded
       \/ /\ build = "plain"
          /\ \E paired \in SUBSET Devices : cache' = Reconciled(paired)
    /\ UNCHANGED <<build, saved, switching, connected, adapterOn, powerVars, requestVars, doomed, history>>

\* The status operations of the manager wait for the migration, if there is one.
Gated == build = "migration" /\ ~isMigrated

\* What getAutoConnect answers: everything is disabled before a migration,
\* "unset" is disabled, and it fails for a device that is not cached.
KnownStatus(d) == Gated \/ d \in DOMAIN cache
AutoConnect(d) == ~Gated /\ cache[d] = "enabled"

\* Seeded fault: the clean-up only looks for an explicit "disabled".
CuListExplicit ==
    /\ stage = "list"
    /\ doomed' = {d \in connected \ Hids : d \in DOMAIN cache /\ cache[d] = "disabled"}
    /\ stage' = "cleanUp"
    /\ UNCHANGED <<build, managerVars, connected, adapterOn, powerVars, requestVars, history>>

\* getConnectedDevices, with the status of each; when it fails it lists none.
\* No client is served yet, so nobody changes a status in between.
CuList ==
    /\ stage = "list"
    /\ \/ /\ doomed' = {d \in connected \ Hids : KnownStatus(d) /\ ~AutoConnect(d)}
          /\ UNCHANGED happened
       \/ /\ Happens("btrmgrFails")
          /\ happened' = happened \cup {"btrmgrFails"}
          /\ doomed' = {}
    /\ stage' = "cleanUp"
    /\ UNCHANGED <<build, managerVars, connected, adapterOn, powerVars, requestVars, events>>

CuDisconnect ==
    /\ stage = "cleanUp"
    /\ \/ /\ \E d \in doomed : doomed' = doomed \ {d} /\ DisconnectDevice(d)
          /\ UNCHANGED stage
       \/ /\ doomed = {}
          /\ stage' = "up"
          /\ UNCHANGED <<doomed, connected, happened>>
    /\ UNCHANGED <<build, managerVars, adapterOn, powerVars, requestVars, events>>

-----------------------------------------------------------------------------
(* A device asks for a connection                                          *)

Request ==
    /\ Event("request")
    /\ rpc = "idle"
    /\ \E d \in Devices \ connected : asker' = d
    /\ answer' = "none"
    /\ rpc' = "isMigrated"
    /\ UNCHANGED <<build, stage, managerVars, connected, adapterOn, powerVars, doomed>>

\* Seeded fault: the event handler leaves the test to getAutoConnect.
RqIsMigratedUnchecked ==
    /\ rpc = "isMigrated"
    /\ rpc' = "askFlag"
    /\ UNCHANGED <<build, stage, managerVars, connected, adapterOn, powerVars, asker, answer, doomed, history>>

RqIsMigrated ==
    /\ rpc = "isMigrated"
    /\ \/ isMigrated /\ rpc' = "askFlag" /\ UNCHANGED answer
       \/ ~isMigrated /\ rpc' = "idle" /\ answer' = "notified"
    /\ UNCHANGED <<build, stage, managerVars, connected, adapterOn, powerVars, asker, doomed, history>>

\* getAutoConnect tests the flag again ...
RqAskFlag ==
    /\ rpc = "askFlag"
    /\ \/ isMigrated /\ rpc' = "askCache" /\ UNCHANGED answer
       \/ ~isMigrated /\ rpc' = "respond" /\ answer' = "rejected"
    /\ UNCHANGED <<build, stage, managerVars, connected, adapterOn, powerVars, asker, doomed, history>>

\* ... and looks the device up.  A device it does not find is left to the
\* clients.
RqAskCache ==
    /\ rpc = "askCache"
    /\ \/ /\ asker \in DOMAIN cache
          /\ answer' = IF cache[asker] = "enabled" THEN "accepted" ELSE "rejected"
          /\ rpc' = "respond"
       \/ asker \notin DOMAIN cache /\ answer' = "notified" /\ rpc' = "idle"
    /\ UNCHANGED <<build, stage, managerVars, connected, adapterOn, powerVars, asker, doomed, history>>

\* Seeded fault: an accepted device is left to connect itself.
RqRespondOnly ==
    /\ rpc = "respond"
    /\ rpc' = "idle"
    /\ UNCHANGED <<build, stage, managerVars, connected, adapterOn, powerVars, asker, answer, doomed, history>>

\* setEventResponse, whose result is ignored.
RqRespond ==
    /\ rpc = "respond"
    /\ rpc' = IF answer = "accepted" THEN "connect" ELSE "idle"
    /\ UNCHANGED <<build, stage, managerVars, connected, adapterOn, powerVars, asker, answer, doomed, history>>

RqConnect ==
    /\ rpc = "connect"
    /\ SetDeviceConnection(connected \cup {asker})
    /\ rpc' = "idle"
    /\ UNCHANGED <<build, stage, managerVars, adapterOn, powerVars, asker, answer, doomed, events>>

-----------------------------------------------------------------------------
(* Clients                                                                 *)

\* Seeded fault: whatever the client passes is stored.
SetAutoConnectRaw(d) ==
    /\ stage = "up" /\ Event("setAutoConnect")
    /\ ~Gated /\ d \in DOMAIN cache
    /\ \E s \in {"disabled", "enabled", "invalid"} : cache' = [cache EXCEPT ![d] = s]
    /\ UNCHANGED <<build, stage, saved, isMigrated, switching, connected, adapterOn, powerVars,
                   requestVars, doomed>>

SetAutoConnect(d) ==
    /\ stage = "up" /\ Event("setAutoConnect")
    /\ ~Gated /\ d \in DOMAIN cache
    /\ \E s \in {"disabled", "enabled"} : cache' = [cache EXCEPT ![d] = s]
    /\ UNCHANGED <<build, stage, saved, isMigrated, switching, connected, adapterOn, powerVars,
                   requestVars, doomed>>

Pair(d) ==
    /\ stage = "up" /\ Event("pair")
    /\ cache' = [e \in DOMAIN cache \cup {d} |-> IF e = d THEN "unset" ELSE cache[e]]
    /\ UNCHANGED <<build, stage, saved, isMigrated, switching, connected, adapterOn, powerVars,
                   requestVars, doomed>>

\* BTRMGR drops the connection of a device it unpairs.
Unpair(d) ==
    /\ stage = "up" /\ Event("unpair")
    /\ cache' = [e \in DOMAIN cache \ {d} |-> cache[e]]
    /\ connected' = connected \ {d}
    /\ UNCHANGED <<build, stage, saved, isMigrated, switching, adapterOn, powerVars, requestVars, doomed>>

\* A successful connect also records the time, which DeviceManager has.
Connect(d) ==
    /\ stage = "up" /\ Event("connect")
    /\ connected' = connected \cup {d}
    /\ UNCHANGED <<build, stage, managerVars, adapterOn, powerVars, requestVars, doomed>>

Disconnect(d) ==
    /\ stage = "up" /\ Event("disconnect")
    /\ connected' = connected \ {d}
    /\ UNCHANGED <<build, stage, managerVars, adapterOn, powerVars, requestVars, doomed>>

Enable ==
    /\ stage = "up" /\ Event("enable")
    /\ adapterOn' = TRUE
    /\ UNCHANGED <<build, stage, managerVars, connected, powerVars, requestVars, doomed>>

\* Whether connections end with the adapter's power is up to BTRMGR.
Disable ==
    /\ stage = "up" /\ Event("disable")
    /\ adapterOn' = FALSE
    /\ connected' \in {connected, {}}
    /\ UNCHANGED <<build, stage, managerVars, powerVars, requestVars, doomed>>

\* performMigration replaces the cache, and later sets the flag.
ImportCache ==
    /\ stage = "up" /\ Event("performMigration")
    /\ build = "migration"
    /\ switching = "no" /\ ~isMigrated
    /\ cache' \in Caches
    /\ switching' = "importing"
    /\ UNCHANGED <<build, stage, saved, isMigrated, connected, adapterOn, powerVars, requestVars, doomed>>

\* clearMigration empties the cache, and then resets the flag.
ClearCache ==
    /\ stage = "up" /\ Event("clearMigration")
    /\ build = "migration" /\ switching = "no"
    /\ cache' = EmptyCache
    /\ switching' = "clearing"
    /\ UNCHANGED <<build, stage, saved, isMigrated, connected, adapterOn, powerVars, requestVars, doomed>>

SetFlag ==
    /\ switching # "no"
    /\ isMigrated' = (switching = "importing")
    /\ switching' = "no"
    /\ UNCHANGED <<build, stage, saved, cache, connected, adapterOn, powerVars, requestVars, doomed, history>>

-----------------------------------------------------------------------------

Initialize == InitialPowerState \/ InitManager \/ CuList \/ CuDisconnect
PowerMode  == PwIsMigrated \/ PwSnapshot \/ PwDisconnect
EventLoop  == RqIsMigrated \/ RqAskFlag \/ RqAskCache \/ RqRespond \/ RqConnect

Client(d) == SetAutoConnect(d) \/ Pair(d) \/ Unpair(d) \/ Connect(d) \/ Disconnect(d)

Next ==
    \/ Initialize
    \/ PowerChanges \/ PowerMode
    \/ Request \/ EventLoop
    \/ \E d \in Devices : Client(d)
    \/ Enable \/ Disable
    \/ ImportCache \/ ClearCache \/ SetFlag

Spec == Init /\ [][Next]_vars

\* Fairness: the threads run on.  Nothing obliges power, devices or clients to
\* do anything, and the calls that were begun return.
Fairness ==
    /\ WF_vars(Initialize)
    /\ WF_vars(PowerMode)
    /\ WF_vars(EventLoop)
    /\ WF_vars(SetFlag)

FairSpec == Spec /\ Fairness

-----------------------------------------------------------------------------
(* Properties                                                              *)

\* The plugin never disconnects a human interface device by itself, on any of
\* its paths: the remote control has to wake the box up.
HidsStayConnected ==
    [][\A d \in connected \ connected' :
        d \in Hids => stage = "up" /\ events' = events + 1]_vars

Settled == stage = "up" /\ ppc = "idle" /\ switching = "no"

\* What may happen, from the transition on, without a device staying connected
\* against the policy: all but calls that connect, pair or reconfigure devices,
\* requests the plugin accepts, failures of BTRMGR, and a power change before
\* Initialize is over.
Undriven == happened \subseteq {"power", "unpair", "disconnect", "enable", "disable"}

\* With the power off or in standby no device whose autoconnect is off is
\* connected, and in deep sleep no device but the human interface devices,
\* whatever was connected, paired or configured while the power was on.  The
\* clean-up of Initialize and each of the power transitions have their part in
\* it.
AsleepIsQuiet ==
    Undriven /\ Settled /\ isMigrated /\ power \in {"standby", "deepSleep"} =>
        \A d \in connected \cap NonHids(cache) :
            cache[d] # "disabled" /\ power # "deepSleep"

\* What may happen, from the transition on, without Bluetooth staying off: all
\* but a client's disable, calls that give the plugin its first device, failures
\* of BTRMGR, and a power change before Initialize is over.
Unhindered ==
    happened \cap {"disable", "pair", "performMigration", "clearMigration", "btrmgrFails",
                   "earlyPower"} = {}

\* A box that has woken up has Bluetooth on when it keeps a device that is not a
\* human interface device, even if a client had turned it off before the box
\* went to sleep, and whichever state it woke up from.
AwakeIsOn ==
    Unhindered /\ "power" \in happened /\ Settled /\ isMigrated /\ power = "on"
        /\ NonHids(cache) # {}
    => adapterOn

Unsettling == {"performMigration", "clearMigration"}

\* What the history says of the threads: it forgets nothing that is under way.
HistoryIsCurrent ==
    /\ switching # "no" => happened \cap Unsettling # {}
    /\ switching = "clearing" => "clearMigration" \in happened
    /\ rpc # "idle" => "request" \in happened
    /\ events = 0 /\ happened = {} => ppc = "idle" /\ rpc = "idle" /\ switching = "no"
    /\ stage # "up" =>
          switching = "no" /\ "clearMigration" \notin happened /\ "power" \notin happened
    /\ stage # "up" /\ "earlyPower" \notin happened => ppc = "idle" /\ power \in InitialPower

\* The first test of the flag holds for the second, but for a clearMigration.
FlagIsTested ==
    /\ stage \in {"power", "init"} => ~isMigrated
    /\ rpc = "askFlag" /\ "clearMigration" \notin happened => isMigrated

\* The policy holds for every device but those of D.
QuietBut(D) ==
    \A d \in (connected \cap NonHids(cache)) \ D :
        cache[d] # "disabled" /\ power # "deepSleep"

\* What leads to AsleepIsQuiet: which devices are still to be disconnected, at
\* each step of the notification and of the clean-up.
QuietInv ==
    Undriven /\ isMigrated /\ power \in {"standby", "deepSleep"} =>
        /\ stage = "cleanUp" => QuietBut(doomed)
        /\ stage = "up" /\ ppc = "idle" => QuietBut({})
        /\ stage = "up" /\ ppc = "disconnect" => QuietBut(leaving)
        /\ stage = "up" /\ ppc \in {"isMigrated", "snapshot"} =>
              ComesIntoForce(from, power) \/ QuietBut({})

\* What leads to AwakeIsOn.
AwakeInv ==
    Unhindered /\ "power" \in happened /\ isMigrated /\ power = "on" =>
        /\ ppc # "disconnect"
        /\ ppc = "idle" => adapterOn \/ NonHids(cache) = {}

\* What leads to StartupLeavesNoUnwanted.
StartupInv ==
    events = 0 /\ happened = {} =>
        /\ stage = "cleanUp" => \A d \in connected \ (Hids \cup doomed) : ~KnownStatus(d) \/ AutoConnect(d)
        /\ stage = "up" => \A d \in connected \ Hids : ~KnownStatus(d) \/ AutoConnect(d)

\* The plugin rejects a request only on the word of a stored status, the device
\* being known and its autoconnect not on, or because a clearMigration has ended
\* between the two tests of the flag.  In every other case a client decides: a
\* plugin that was not migrated when the request came rejects nothing.
RejectsOnKnownStatus ==
    [][answer # "rejected" /\ answer' = "rejected" =>
        \/ asker \in DOMAIN cache /\ cache[asker] # "enabled"
        \/ ~isMigrated /\ "clearMigration" \in happened]_vars

\* After Initialize, a device the plugin knows is connected only when it is a
\* human interface device or its autoconnect is on, in either build; before a
\* migration no other device is connected at all.
StartupLeavesNoUnwanted ==
    stage = "up" /\ events = 0 /\ happened = {} =>
        \A d \in connected \ Hids :
            ~Gated /\ (d \in DOMAIN cache => cache[d] = "enabled")

\* Every connection request comes to its end, whatever the clients do to the
\* cache and the flag meanwhile: it is handed to the clients, or rejected, or
\* accepted, and then the device is connected at that moment unless BTRMGR has
\* failed.  The three outcomes are reached over two tests of the flag, a lookup
\* and a connection, none of them under one lock.
RequestIsAnswered ==
    rpc # "idle" ~>
        /\ rpc = "idle"
        /\ answer # "none"
        /\ answer = "accepted" => asker \in connected \/ "btrmgrFails" \in happened

\* A plugin started with the power on, and devices to serve, turns Bluetooth on.
InitialPowerStateIsHandled ==
    stage = "up" /\ events = 0 /\ happened = {} /\ power = "on" /\ NonHids(cache) # {} => adapterOn
=============================================================================
