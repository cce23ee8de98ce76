--------------------------- MODULE DeviceManager ---------------------------
(***************************************************************************)
(* BluetoothDeviceManager: the cache of paired devices, its copies in      *)
(* PersistentStore and in the AS file, and the migration flag, as the      *)
(* plugin's threads (JSON-RPC workers, the BTRMGR callback thread, the     *)
(* PowerManager notification thread) drive them.                           *)
(*                                                                         *)
(* The plugin is built with or without                                     *)
(* BLUETOOTH_ENABLE_PERSISTENCE_MIGRATION.  A device that gets a new image *)
(* restarts with another build over the same store and the same file.      *)
(*                                                                         *)
(* Grain of atomicity.  A region under _adminLock is one action: it takes  *)
(* the lock, never blocks inside, and releases it on every path.  Every    *)
(* call of PersistentStore or BTRMGR, every access to the AS file and      *)
(* every load or store of _isMigrated outside such a region is an action   *)
(* of its own.  _migrationLock is held across many of them, and is a       *)
(* variable.                                                               *)
(***************************************************************************)
EXTENDS BluetoothDeviceInfo, FiniteSets

CONSTANTS
    Threads,      \* the threads that call the manager
    NoThread,     \* nobody holds _migrationLock
    Operations,   \* the operations the threads call
    Builds,       \* the builds the device may run, see AllBuilds
    Faults,       \* what may fail, see AllFaults
    MaxCalls,     \* bound: calls made in a behaviour
    MaxRestarts,  \* bound: deaths of the plugin process in a behaviour
    InitialStores,\* contents deviceInfo may have before the first start
    InitialFiles, \* contents the AS file may have before the first start
    InitialPaired \* sets of devices BTRMGR may have paired at the first start

AllOperations ==
    {"performMigration", "clearMigration", "setAutoConnect",
     "setLastConnectTimeUtc", "setLastVolumeSetting", "pair", "unpair"}

AllBuilds ==
    {"migration",  \* with BLUETOOTH_ENABLE_PERSISTENCE_MIGRATION
     "plain"}      \* without

AllFaults ==
    {"storeRead",      \* GetValue fails, other than for a missing key
     "storeWrite",     \* SetValue fails, or the store interface is missing
     "storeDelete",    \* DeleteKey fails, other than for a missing key
     "btrmgr",         \* a BTRMGR call fails
     "fileRead",       \* the AS file is there but cannot be read
     "fileWrite",      \* the AS file cannot be replaced
     "externalUnpair"} \* the remote side removes a pairing

ASSUME ManagerAssumption ==
    /\ NoThread \notin Threads
    /\ Operations \subseteq AllOperations
    /\ Builds \subseteq AllBuilds
    /\ Faults \subseteq AllFaults
    /\ MaxCalls \in Nat
    /\ MaxRestarts \in Nat
    /\ InitialStores \subseteq DeviceInfoValues
    /\ InitialFiles \subseteq FileValues
    /\ InitialPaired \subseteq SUBSET Devices

VARIABLES
    \* in memory, lost with the process
    phase,          \* "down", "loading", "reconciling", "storing" (in init) or "up"
    cache,          \* _pairedDeviceCache
    isMigrated,     \* _isMigrated
    migrationLock,  \* the thread that holds _migrationLock, or NoThread
    \* PersistentStore, namespace "Bluetooth"
    deviceInfo,     \* key deviceInfo
    marker,         \* key migrationVersion
    \* the world outside
    file,           \* the AS file
    paired,         \* the devices BTRMGR has paired
    \* the threads
    pc,             \* the next step of each thread
    op,             \* the operation it executes
    dev,            \* the device it executes it for
    snap,           \* the map it carries from one step to the next
    rec,            \* the record setLastConnectTimeUtc carries
    seen,           \* the BTRMGR list it carries
    result,         \* how its last operation ended
    \* the build that runs, and the bounds
    build, calls, restarts,
    \* history variables: no step reads them, the properties do
    alone,          \* the thread whose call has been the only one so far, or NoThread
    listed          \* the devices BTRMGR listed as paired to the last import

memVars    == <<phase, cache, isMigrated, migrationLock>>
storeVars  == <<deviceInfo, marker>>
worldVars  == <<file, paired>>
localVars  == <<dev, snap, rec, seen>>
threadVars == <<pc, op, localVars, result>>
outerVars  == <<build, calls, restarts, alone, listed>>
vars       == <<memVars, storeVars, worldVars, threadVars, outerVars>>

-----------------------------------------------------------------------------
(* Steps                                                                   *)

PerformSteps == {"pmReadMarker", "pmReadFile", "pmGetPaired", "pmSwapCache",
                 "pmCheckEmpty", "pmEnrich", "pmBackfill",
                 "pmWriteMarker", "pmSetMigrated"}
ClearSteps   == {"clDeleteInfo", "clDeleteMarker", "clClearCache", "clReset"}
WriteSteps   == {"wsSnapshot", "wsSetValue", "wsIsMigrated", "fsSnapshot", "fsWrite"}
OtherSteps   == {"idle", "pmLock", "clLock", "saIsMigrated", "saUpdate",
                 "lcRead", "lcWrite", "lvUpdate", "btPair", "adAdd",
                 "btUnpair", "rmErase", "gate"}
Steps        == PerformSteps \cup ClearSteps \cup WriteSteps \cup OtherSteps

FirstStep(o) ==
    CASE o = "performMigration"      -> "pmLock"
      [] o = "clearMigration"        -> "clLock"
      [] o = "setAutoConnect"        -> "saIsMigrated"
      [] o = "setLastConnectTimeUtc" -> "lcRead"
      [] o = "setLastVolumeSetting"  -> "lvUpdate"
      [] o = "pair"                  -> "btPair"
      [] o = "unpair"                -> "btUnpair"

NoRec == [addr |-> FALSE, type |-> "UNKNOWN", auto |-> "unset", time |-> NoTime, vol |-> 0]

TypeOK ==
    /\ phase \in {"down", "loading", "reconciling", "storing", "up"}
    /\ cache \in DeviceMaps
    /\ isMigrated \in BOOLEAN
    /\ migrationLock \in Threads \cup {NoThread}
    /\ deviceInfo \in DeviceInfoValues
    /\ marker \in {"absent", "1", "other"}
    /\ file \in FileValues
    /\ paired \in SUBSET Devices
    /\ pc \in [Threads -> Steps]
    /\ op \in [Threads -> AllOperations \cup {"none"}]
    /\ dev \in [Threads -> Devices]
    /\ snap \in [Threads -> DeviceMaps]
    /\ rec \in [Threads -> BluetoothDeviceInfo]
    /\ seen \in [Threads -> SUBSET Devices]
    /\ result \in [Threads -> {"none", "ok", "failed"}]
    /\ build \in AllBuilds
    /\ calls \in Nat
    /\ restarts \in Nat
    /\ alone \in Threads \cup {NoThread}
    /\ listed \in SUBSET Devices

\* The locals of a thread that executes nothing.
AnyDevice == CHOOSE d \in Devices : TRUE
NoLocals ==
    /\ dev = [t \in Threads |-> AnyDevice]
    /\ snap = [t \in Threads |-> EmptyMap]
    /\ rec = [t \in Threads |-> NoRec]
    /\ seen = [t \in Threads |-> {}]

\* A store with deviceInfo but no marker is what the build without migration,
\* or a migration that stopped half-way, leaves behind.
Init ==
    /\ phase = "down"
    /\ cache = EmptyMap
    /\ isMigrated = FALSE
    /\ migrationLock = NoThread
    /\ deviceInfo \in InitialStores
    /\ marker \in {"absent", "other"}
    /\ file \in InitialFiles
    /\ paired \in InitialPaired
    /\ pc = [t \in Threads |-> "idle"]
    /\ op = [t \in Threads |-> "none"]
    /\ NoLocals
    /\ result = [t \in Threads |-> "none"]
    /\ build \in Builds
    /\ calls = 0
    /\ restarts = 0
    /\ alone = NoThread
    /\ listed = {}

At(t, step) == phase = "up" /\ pc[t] = step

Goto(t, step) == pc' = [pc EXCEPT ![t] = step] /\ UNCHANGED <<op, result>>

Fails(fault) == fault \in Faults

\* Changes of the cache are written to the store: always without migration,
\* and once it is done with it.
Persisting == build = "plain" \/ isMigrated

\* Seeded fault: an early return leaks _migrationLock.
ReturnLocked(t, r) ==
    /\ pc' = [pc EXCEPT ![t] = "idle"]
    /\ op' = [op EXCEPT ![t] = "none"]
    /\ result' = [result EXCEPT ![t] = r]
    /\ UNCHANGED <<dev, snap, rec, seen, migrationLock>>

\* Return from the operation with the given result.  The guard object of
\* performMigration and clearMigration releases _migrationLock on every path.
Return(t, r) ==
    /\ pc' = [pc EXCEPT ![t] = "idle"]
    /\ op' = [op EXCEPT ![t] = "none"]
    /\ result' = [result EXCEPT ![t] = r]
    /\ dev' = [dev EXCEPT ![t] = AnyDevice]
    /\ snap' = [snap EXCEPT ![t] = EmptyMap]
    /\ rec' = [rec EXCEPT ![t] = NoRec]
    /\ seen' = [seen EXCEPT ![t] = {}]
    /\ migrationLock' = IF migrationLock = t THEN NoThread ELSE migrationLock

\* What the client is told when the manager fails to make or to store a
\* change.  Pairing, the volume and the connection succeed all the same: their
\* wrappers do not ask how the manager fared.
Reported(t) == IF op[t] \in {"setAutoConnect", "performMigration"} THEN "failed" ELSE "ok"

-----------------------------------------------------------------------------
(* init and the death of the process                                       *)

\* Seeded fault: init takes any stored deviceInfo for a finished migration.
InitTrustStore ==
    /\ phase = "down" /\ build = "migration"
    /\ isMigrated' = (deviceInfo # NoInfo)
    /\ phase' = IF isMigrated' THEN "loading" ELSE "up"
    /\ UNCHANGED <<cache, migrationLock, storeVars, worldVars, threadVars, outerVars>>

\* With migration, init reads the marker.  A read that fails is logged, and
\* taken as "not migrated".  Without a migration the cache stays empty.
InitReadMarker ==
    /\ phase = "down" /\ build = "migration"
    /\ \/ /\ isMigrated' = (marker = "1")
          /\ phase' = IF marker = "1" THEN "loading" ELSE "up"
       \/ /\ Fails("storeRead")
          /\ isMigrated' = FALSE
          /\ phase' = "up"
    /\ UNCHANGED <<cache, migrationLock, storeVars, worldVars, threadVars, outerVars>>

\* init has failed, and with it the activation of the plugin.
AbortInit ==
    /\ phase' = "down"
    /\ cache' = EmptyMap
    /\ isMigrated' = FALSE

\* init loads deviceInfo (updateCacheFromStorage).  A missing key leaves the
\* cache empty; a read that fails aborts the activation.
InitLoadCache ==
    /\ phase = IF build = "plain" THEN "down" ELSE "loading"
    /\ \/ /\ phase' = IF build = "plain" THEN "reconciling" ELSE "up"
          /\ cache' = IF deviceInfo = NoInfo THEN cache ELSE deviceInfo
          /\ UNCHANGED isMigrated
       \/ Fails("storeRead") /\ AbortInit
    /\ UNCHANGED <<migrationLock, storeVars, worldVars, threadVars, outerVars>>

\* Without migration, init goes on with updateCacheFromDevice: the cache gets
\* exactly the devices BTRMGR lists as paired.
InitReconcile ==
    /\ phase = "reconciling"
    /\ \/ /\ cache' = Reconcile(cache, paired)
          /\ phase' = "storing"
          /\ UNCHANGED isMigrated
       \/ Fails("btrmgr") /\ AbortInit
    /\ UNCHANGED <<migrationLock, storeVars, worldVars, threadVars, outerVars>>

\* ... and with writeStorageFromCache.  The plugin has no callers yet.
InitStore ==
    /\ phase = "storing"
    /\ \/ /\ deviceInfo' = StoreView(cache)
          /\ phase' = "up"
          /\ UNCHANGED <<cache, isMigrated>>
       \/ /\ Fails("storeWrite")
          /\ AbortInit
          /\ UNCHANGED deviceInfo
    /\ UNCHANGED <<migrationLock, marker, worldVars, threadVars, outerVars>>

\* The process dies, or the plugin is deactivated: what is in memory is gone.
\* The next start may be with another image.
Restart ==
    /\ phase # "down"
    /\ restarts < MaxRestarts
    /\ restarts' = restarts + 1
    /\ build' \in Builds
    /\ phase' = "down"
    /\ cache' = EmptyMap
    /\ isMigrated' = FALSE
    /\ migrationLock' = NoThread
    /\ pc' = [t \in Threads |-> "idle"]
    /\ op' = [t \in Threads |-> "none"]
    /\ result' = [t \in Threads |-> "none"]
    /\ dev' = [t \in Threads |-> AnyDevice]
    /\ snap' = [t \in Threads |-> EmptyMap]
    /\ rec' = [t \in Threads |-> NoRec]
    /\ seen' = [t \in Threads |-> {}]
    /\ alone' = NoThread
    /\ UNCHANGED <<storeVars, worldVars, calls, listed>>

-----------------------------------------------------------------------------
(* Calls                                                                   *)

\* performMigration and clearMigration are methods of the migration build.
Call(t, o, d) ==
    /\ At(t, "idle")
    /\ o \in {"performMigration", "clearMigration"} => build = "migration"
    /\ calls < MaxCalls
    /\ calls' = calls + 1
    /\ pc' = [pc EXCEPT ![t] = FirstStep(o)]
    /\ op' = [op EXCEPT ![t] = o]
    /\ dev' = [dev EXCEPT ![t] = d]
    /\ result' = [result EXCEPT ![t] = "none"]
    /\ alone' = IF \A u \in Threads : pc[u] = "idle" THEN t ELSE NoThread
    /\ UNCHANGED <<memVars, storeVars, worldVars, snap, rec, seen, build, restarts, listed>>

-----------------------------------------------------------------------------
(* performMigration                                                        *)

\* Seeded fault: performMigration does not wait for the lock.
PmNoLock(t) ==
    /\ At(t, "pmLock")
    /\ migrationLock' = t
    /\ Goto(t, "pmReadMarker")
    /\ UNCHANGED <<phase, cache, isMigrated, storeVars, worldVars, localVars, outerVars>>

PmLock(t) ==
    /\ At(t, "pmLock")
    /\ migrationLock = NoThread
    /\ migrationLock' = t
    /\ Goto(t, "pmReadMarker")
    /\ UNCHANGED <<phase, cache, isMigrated, storeVars, worldVars, localVars, outerVars>>

PmReadMarker(t) ==
    /\ At(t, "pmReadMarker")
    /\ \/ /\ Goto(t, IF marker = "1" THEN "pmSetMigrated" ELSE "pmReadFile")
          /\ UNCHANGED <<migrationLock, localVars>>
       \/ Fails("storeRead") /\ Return(t, "failed")
    /\ UNCHANGED <<phase, cache, isMigrated, storeVars, worldVars, outerVars>>

\* ReadRaw and Parse.  No file means no devices, without asking BTRMGR.
PmReadFile(t) ==
    /\ At(t, "pmReadFile")
    /\ \/ /\ file = NoFile
          /\ snap' = [snap EXCEPT ![t] = EmptyMap]
          /\ Goto(t, "pmSwapCache")
          /\ UNCHANGED <<migrationLock, dev, rec, seen>>
       \/ /\ file \notin {NoFile, BadFile}
          /\ snap' = [snap EXCEPT ![t] = file]
          /\ Goto(t, "pmGetPaired")
          /\ UNCHANGED <<migrationLock, dev, rec, seen>>
       \/ /\ file = BadFile \/ Fails("fileRead")
          /\ Return(t, "failed")
    /\ UNCHANGED <<phase, cache, isMigrated, storeVars, worldVars, outerVars>>

PmGetPaired(t) ==
    /\ At(t, "pmGetPaired")
    /\ \/ /\ snap' = [snap EXCEPT ![t] = Import(@, paired)]
          /\ listed' = paired
          /\ Goto(t, "pmSwapCache")
          /\ UNCHANGED <<migrationLock, dev, rec, seen>>
       \/ /\ Fails("btrmgr")
          /\ Return(t, "failed")
          /\ UNCHANGED listed
    /\ UNCHANGED <<phase, cache, isMigrated, storeVars, worldVars,
                   build, calls, restarts, alone>>

PmSwapCache(t) ==
    /\ At(t, "pmSwapCache")
    /\ cache' = snap[t]
    /\ Goto(t, "pmCheckEmpty")
    /\ UNCHANGED <<phase, isMigrated, migrationLock, storeVars, worldVars, localVars, outerVars>>

PmCheckEmpty(t) ==
    /\ At(t, "pmCheckEmpty")
    /\ Goto(t, IF DOMAIN cache = {} THEN "wsSnapshot" ELSE "pmEnrich")
    /\ UNCHANGED <<memVars, storeVars, worldVars, localVars, outerVars>>

PmEnrich(t) ==
    /\ At(t, "pmEnrich")
    /\ \/ /\ seen' = [seen EXCEPT ![t] = paired]
          /\ Goto(t, "pmBackfill")
          /\ UNCHANGED <<migrationLock, dev, snap, rec>>
       \/ Fails("btrmgr") /\ Return(t, "failed")
    /\ UNCHANGED <<phase, cache, isMigrated, storeVars, worldVars, outerVars>>

PmBackfill(t) ==
    /\ At(t, "pmBackfill")
    /\ cache' = Backfill(cache, seen[t])
    /\ Goto(t, "wsSnapshot")
    /\ UNCHANGED <<phase, isMigrated, migrationLock, storeVars, worldVars, localVars, outerVars>>

\* ... the writeStorageFromCache steps below, and then:

PmWriteMarker(t) ==
    /\ At(t, "pmWriteMarker")
    /\ \/ /\ marker' = "1"
          /\ Goto(t, "pmSetMigrated")
          /\ UNCHANGED <<migrationLock, localVars>>
       \/ /\ Fails("storeWrite")
          /\ Return(t, "failed")
          /\ UNCHANGED marker
    /\ UNCHANGED <<phase, cache, isMigrated, deviceInfo, worldVars, outerVars>>

PmSetMigrated(t) ==
    /\ At(t, "pmSetMigrated")
    /\ isMigrated' = TRUE
    /\ Return(t, "ok")
    /\ UNCHANGED <<phase, cache, storeVars, worldVars, outerVars>>

-----------------------------------------------------------------------------
(* clearMigration                                                          *)

\* Seeded fault: clearMigration does not take the lock.
ClNoLock(t) ==
    /\ At(t, "clLock")
    /\ Goto(t, "clDeleteInfo")
    /\ UNCHANGED <<memVars, storeVars, worldVars, localVars, outerVars>>

ClLock(t) ==
    /\ At(t, "clLock")
    /\ migrationLock = NoThread
    /\ migrationLock' = t
    /\ Goto(t, "clDeleteInfo")
    /\ UNCHANGED <<phase, cache, isMigrated, storeVars, worldVars, localVars, outerVars>>

\* Seeded fault: clearMigration goes on when a deletion has failed.
ClDeleteInfoUnchecked(t) ==
    /\ At(t, "clDeleteInfo")
    /\ deviceInfo' \in {NoInfo, deviceInfo}
    /\ Goto(t, "clDeleteMarker")
    /\ UNCHANGED <<memVars, marker, worldVars, localVars, outerVars>>

ClDeleteInfo(t) ==
    /\ At(t, "clDeleteInfo")
    /\ \/ /\ deviceInfo' = NoInfo
          /\ Goto(t, "clDeleteMarker")
          /\ UNCHANGED <<migrationLock, localVars>>
       \/ /\ Fails("storeDelete")
          /\ Return(t, "failed")
          /\ UNCHANGED deviceInfo
    /\ UNCHANGED <<phase, cache, isMigrated, marker, worldVars, outerVars>>

ClDeleteMarker(t) ==
    /\ At(t, "clDeleteMarker")
    /\ \/ /\ marker' = "absent"
          /\ Goto(t, "clClearCache")
          /\ UNCHANGED <<migrationLock, localVars>>
       \/ /\ Fails("storeDelete")
          /\ Return(t, "failed")
          /\ UNCHANGED marker
    /\ UNCHANGED <<phase, cache, isMigrated, deviceInfo, worldVars, outerVars>>

ClClearCache(t) ==
    /\ At(t, "clClearCache")
    /\ cache' = EmptyMap
    /\ Goto(t, "clReset")
    /\ UNCHANGED <<phase, isMigrated, migrationLock, storeVars, worldVars, localVars, outerVars>>

ClReset(t) ==
    /\ At(t, "clReset")
    /\ isMigrated' = FALSE
    /\ Return(t, "ok")
    /\ UNCHANGED <<phase, cache, storeVars, worldVars, outerVars>>

-----------------------------------------------------------------------------
(* setAutoConnect                                                          *)

SaIsMigrated(t) ==
    /\ At(t, "saIsMigrated")
    /\ IF Persisting
       THEN Goto(t, "saUpdate") /\ UNCHANGED <<migrationLock, localVars>>
       ELSE Return(t, "failed")
    /\ UNCHANGED <<phase, cache, isMigrated, storeVars, worldVars, outerVars>>

SaUpdate(t) ==
    /\ At(t, "saUpdate")
    /\ \/ /\ dev[t] \in DOMAIN cache
          /\ \E status \in {"disabled", "enabled"} :
                cache' = [cache EXCEPT ![dev[t]].auto = status]
          /\ Goto(t, "wsSnapshot")
          /\ UNCHANGED <<migrationLock, localVars>>
       \/ /\ dev[t] \notin DOMAIN cache
          /\ Return(t, "failed")
          /\ UNCHANGED cache
    /\ UNCHANGED <<phase, isMigrated, storeVars, worldVars, outerVars>>

-----------------------------------------------------------------------------
(* setLastConnectTimeUtc: two regions under _adminLock, with the clock read *)
(* in between, and the whole record written back.                          *)

LcRead(t) ==
    /\ At(t, "lcRead")
    /\ \/ /\ dev[t] \in DOMAIN cache
          /\ rec' = [rec EXCEPT ![t] = cache[dev[t]]]
          /\ Goto(t, "lcWrite")
          /\ UNCHANGED <<migrationLock, dev, snap, seen>>
       \/ dev[t] \notin DOMAIN cache /\ Return(t, Reported(t))
    /\ UNCHANGED <<phase, cache, isMigrated, storeVars, worldVars, outerVars>>

\* Seeded fault: the time is stored in milliseconds.
LcWriteMillis(t) ==
    /\ At(t, "lcWrite")
    /\ \E now \in Times : cache' = Put(cache, dev[t], [rec[t] EXCEPT !.time = 1000 * now])
    /\ Goto(t, "gate")
    /\ UNCHANGED <<phase, isMigrated, migrationLock, storeVars, worldVars, localVars, outerVars>>

LcWrite(t) ==
    /\ At(t, "lcWrite")
    /\ \E now \in Times : cache' = Put(cache, dev[t], [rec[t] EXCEPT !.time = now])
    /\ Goto(t, "gate")
    /\ UNCHANGED <<phase, isMigrated, migrationLock, storeVars, worldVars, localVars, outerVars>>

-----------------------------------------------------------------------------
(* setLastVolumeSetting                                                    *)

LvUpdate(t) ==
    /\ At(t, "lvUpdate")
    /\ \/ /\ dev[t] \in DOMAIN cache
          /\ \E v \in Volumes : cache' = [cache EXCEPT ![dev[t]].vol = v]
          /\ Goto(t, "gate")
          /\ UNCHANGED <<migrationLock, localVars>>
       \/ /\ dev[t] \notin DOMAIN cache
          /\ Return(t, Reported(t))
          /\ UNCHANGED cache
    /\ UNCHANGED <<phase, isMigrated, storeVars, worldVars, outerVars>>

-----------------------------------------------------------------------------
(* setDevicePairing: BTRMGR first, then addDevice or removeDevice          *)

BtPair(t) ==
    /\ At(t, "btPair")
    /\ \/ /\ paired' = paired \cup {dev[t]}
          /\ Goto(t, "adAdd")
          /\ UNCHANGED <<migrationLock, localVars>>
       \/ /\ Fails("btrmgr")
          /\ Return(t, "failed")
          /\ UNCHANGED paired
    /\ UNCHANGED <<phase, cache, isMigrated, storeVars, file, outerVars>>

AdAdd(t) ==
    /\ At(t, "adAdd")
    /\ \/ /\ cache' = Put(cache, dev[t], FreshInfo(dev[t]))
          /\ Goto(t, "gate")
          /\ UNCHANGED <<migrationLock, localVars>>
       \/ /\ Fails("btrmgr")
          /\ Return(t, Reported(t))
          /\ UNCHANGED cache
    /\ UNCHANGED <<phase, isMigrated, storeVars, worldVars, outerVars>>

BtUnpair(t) ==
    /\ At(t, "btUnpair")
    /\ \/ /\ paired' = paired \ {dev[t]}
          /\ Goto(t, "rmErase")
          /\ UNCHANGED <<migrationLock, localVars>>
       \/ /\ Fails("btrmgr")
          /\ Return(t, "failed")
          /\ UNCHANGED paired
    /\ UNCHANGED <<phase, cache, isMigrated, storeVars, file, outerVars>>

RmErase(t) ==
    /\ At(t, "rmErase")
    /\ \/ /\ dev[t] \in DOMAIN cache
          /\ cache' = Erase(cache, dev[t])
          /\ Goto(t, "gate")
          /\ UNCHANGED <<migrationLock, localVars>>
       \/ /\ dev[t] \notin DOMAIN cache
          /\ Return(t, Reported(t))
          /\ UNCHANGED cache
    /\ UNCHANGED <<phase, isMigrated, storeVars, worldVars, outerVars>>

-----------------------------------------------------------------------------
(* The test of _isMigrated between a cache update and its write            *)

\* Seeded faults: the flag is not tested; the change is never written.
GateOpen(t) ==
    /\ At(t, "gate")
    /\ Goto(t, "wsSnapshot")
    /\ UNCHANGED <<memVars, storeVars, worldVars, localVars, outerVars>>

GateShut(t) ==
    /\ At(t, "gate")
    /\ Return(t, "ok")
    /\ UNCHANGED <<phase, cache, isMigrated, storeVars, worldVars, outerVars>>

Gate(t) ==
    /\ At(t, "gate")
    /\ IF Persisting
       THEN Goto(t, "wsSnapshot") /\ UNCHANGED <<migrationLock, localVars>>
       ELSE Return(t, "ok")
    /\ UNCHANGED <<phase, cache, isMigrated, storeVars, worldVars, outerVars>>

-----------------------------------------------------------------------------
(* writeStorageFromCache and writeFilesystemPersistenceFromCache           *)

WsSnapshot(t) ==
    /\ At(t, "wsSnapshot")
    /\ snap' = [snap EXCEPT ![t] = StoreView(cache)]
    /\ Goto(t, "wsSetValue")
    /\ UNCHANGED <<memVars, storeVars, worldVars, dev, rec, seen, outerVars>>

\* Seeded fault: a failed SetValue is taken for a success.
WsSetValueUnchecked(t) ==
    /\ At(t, "wsSetValue")
    /\ deviceInfo' \in {snap[t], deviceInfo}
    /\ Goto(t, "wsIsMigrated")
    /\ UNCHANGED <<memVars, marker, worldVars, localVars, outerVars>>

WsSetValue(t) ==
    /\ At(t, "wsSetValue")
    /\ \/ /\ deviceInfo' = snap[t]
          /\ Goto(t, "wsIsMigrated")
          /\ UNCHANGED <<migrationLock, localVars>>
       \/ /\ Fails("storeWrite")
          /\ Return(t, Reported(t))
          /\ UNCHANGED deviceInfo
    /\ UNCHANGED <<phase, cache, isMigrated, marker, worldVars, outerVars>>

\* Back in the caller of writeStorageFromCache.
WriteDone(t) ==
    IF op[t] = "performMigration"
    THEN Goto(t, "pmWriteMarker") /\ UNCHANGED <<migrationLock, localVars>>
    ELSE Return(t, "ok")

WsIsMigrated(t) ==
    /\ At(t, "wsIsMigrated")
    /\ IF isMigrated
       THEN Goto(t, "fsSnapshot") /\ UNCHANGED <<migrationLock, localVars>>
       ELSE WriteDone(t)
    /\ UNCHANGED <<phase, cache, isMigrated, storeVars, worldVars, outerVars>>

FsSnapshot(t) ==
    /\ At(t, "fsSnapshot")
    /\ snap' = [snap EXCEPT ![t] = cache]
    /\ Goto(t, "fsWrite")
    /\ UNCHANGED <<memVars, storeVars, worldVars, dev, rec, seen, outerVars>>

\* One writer at a time, and the new file replaces the old one in a rename.
\* What is already in a file that cannot be opened, is too large or is read
\* short is not merged.  A failure is logged and changes nothing.
FsWrite(t) ==
    /\ At(t, "fsWrite")
    /\ \/ file' = Mirror(snap[t], file)
       \/ Fails("fileRead") /\ file' = Mirror(snap[t], NoFile)
       \/ Fails("fileWrite") /\ UNCHANGED file
    /\ WriteDone(t)
    /\ UNCHANGED <<phase, cache, isMigrated, storeVars, paired, outerVars>>

-----------------------------------------------------------------------------
(* BTRMGR loses a pairing by itself.  The event is passed on to the        *)
(* clients; the manager does not hear of it.                               *)

ExternalUnpair ==
    /\ Fails("externalUnpair")
    /\ \E d \in paired : paired' = paired \ {d}
    /\ UNCHANGED <<memVars, storeVars, file, threadVars, outerVars>>

-----------------------------------------------------------------------------

PerformMigration(t) ==
    \/ PmLock(t) \/ PmReadMarker(t) \/ PmReadFile(t) \/ PmGetPaired(t)
    \/ PmSwapCache(t) \/ PmCheckEmpty(t) \/ PmEnrich(t) \/ PmBackfill(t)
    \/ PmWriteMarker(t) \/ PmSetMigrated(t)

ClearMigration(t) ==
    \/ ClLock(t) \/ ClDeleteInfo(t) \/ ClDeleteMarker(t) \/ ClClearCache(t) \/ ClReset(t)

UpdateDevice(t) ==
    \/ SaIsMigrated(t) \/ SaUpdate(t) \/ LcRead(t) \/ LcWrite(t) \/ LvUpdate(t)
    \/ BtPair(t) \/ AdAdd(t) \/ BtUnpair(t) \/ RmErase(t) \/ Gate(t)

WriteStorage(t) ==
    \/ WsSnapshot(t) \/ WsSetValue(t) \/ WsIsMigrated(t) \/ FsSnapshot(t) \/ FsWrite(t)

Step(t) ==
    PerformMigration(t) \/ ClearMigration(t) \/ UpdateDevice(t) \/ WriteStorage(t)

Startup == InitReadMarker \/ InitLoadCache \/ InitReconcile \/ InitStore

Next ==
    \/ Startup
    \/ Restart
    \/ ExternalUnpair
    \/ \E t \in Threads : Step(t) \/ \E o \in Operations, d \in Devices : Call(t, o, d)

Spec == Init /\ [][Next]_vars

\* The threads are scheduled and the calls into PersistentStore and BTRMGR
\* come back.  Nobody has to call, and the process does not have to die.
Fairness == WF_vars(Startup) /\ \A t \in Threads : WF_vars(Step(t))

FairSpec == Spec /\ Fairness
=============================================================================
