------------------------ MODULE DeviceManagerProofs ------------------------
(***************************************************************************)
(* Theorems about DeviceManager, for every number of threads and devices,  *)
(* every set of faults, operations and builds, and any bounds.             *)
(***************************************************************************)
EXTENDS DeviceManagerProperties, BluetoothDeviceInfoProofs

-----------------------------------------------------------------------------
(* Type correctness                                                        *)

\* The locals of an idle thread are of their types.
LEMMA LocalTypes ==
    /\ AnyDevice \in Devices
    /\ EmptyMap \in DeviceMaps
    /\ NoRec \in BluetoothDeviceInfo
<1>1. AnyDevice \in Devices
  BY DataAssumption DEF AnyDevice
<1>2. NoRec \in BluetoothDeviceInfo
  BY DEF NoRec, BluetoothDeviceInfo, DeviceType, AutoConnectStatus
<1> QED
  BY <1>1, <1>2, EmptyMapType

\* The part of TypeOK about the threads and the lock they hold.
ThreadsOK ==
    /\ migrationLock \in Threads \cup {NoThread}
    /\ pc \in [Threads -> Steps]
    /\ op \in [Threads -> AllOperations \cup {"none"}]
    /\ dev \in [Threads -> Devices]
    /\ snap \in [Threads -> DeviceMaps]
    /\ rec \in [Threads -> BluetoothDeviceInfo]
    /\ seen \in [Threads -> SUBSET Devices]
    /\ result \in [Threads -> {"none", "ok", "failed"}]

\* A thread that returns from an operation leaves the threads well typed: its
\* locals are reset.
LEMMA ReturnType ==
    ASSUME ThreadsOK, NEW t \in Threads, NEW r \in {"ok", "failed"}, Return(t, r)
    PROVE  ThreadsOK'
BY LocalTypes DEF ThreadsOK, Return, Steps, OtherSteps

\* What an operation reports when the manager fails is a result.
LEMMA ReportedResult == \A t \in Threads : Reported(t) \in {"ok", "failed"}
BY DEF Reported

\* A thread that goes on keeps its operation, and its locals are of their type.
LEMMA GotoType ==
    ASSUME ThreadsOK, NEW t \in Threads, NEW step \in Steps, Goto(t, step),
           (migrationLock \in Threads \cup {NoThread})',
           (dev \in [Threads -> Devices])',
           (snap \in [Threads -> DeviceMaps])',
           (rec \in [Threads -> BluetoothDeviceInfo])',
           (seen \in [Threads -> SUBSET Devices])'
    PROVE  ThreadsOK'
BY DEF ThreadsOK, Goto

\* The same for a step that touches neither the lock nor the thread's locals.
LEMMA PlainGotoType ==
    ASSUME ThreadsOK, NEW t \in Threads, NEW step \in Steps, Goto(t, step),
           UNCHANGED <<migrationLock, localVars>>
    PROVE  ThreadsOK'
BY DEF ThreadsOK, Goto, localVars

\* After a write, the caller of writeStorageFromCache goes on or returns.
LEMMA WriteDoneType ==
    ASSUME ThreadsOK, NEW t \in Threads, WriteDone(t)
    PROVE  ThreadsOK'
<1>1. CASE op[t] = "performMigration"
  BY <1>1, PlainGotoType DEF WriteDone, Steps, PerformSteps
<1>2. CASE op[t] # "performMigration"
  BY <1>2, ReturnType DEF WriteDone
<1> QED
  BY <1>1, <1>2

\* The rest of TypeOK.
DataOK ==
    /\ phase \in {"down", "loading", "reconciling", "storing", "up"}
    /\ build \in AllBuilds
    /\ cache \in DeviceMaps
    /\ isMigrated \in BOOLEAN
    /\ deviceInfo \in DeviceInfoValues
    /\ marker \in {"absent", "1", "other"}
    /\ file \in FileValues
    /\ paired \in SUBSET Devices
    /\ calls \in Nat
    /\ restarts \in Nat
    /\ alone \in Threads \cup {NoThread}
    /\ listed \in SUBSET Devices

\* The type invariant, split into what the threads share and what is theirs.
LEMMA TypeParts == TypeOK <=> DataOK /\ ThreadsOK
BY DEF TypeOK, DataOK, ThreadsOK

\* The plugin starts well typed, with any store, file and pairings it may find.
LEMMA InitType == Init => TypeOK
<1> SUFFICES ASSUME Init PROVE DataOK /\ ThreadsOK
  BY TypeParts
<1>1. DataOK
  BY LocalTypes, ManagerAssumption DEF Init, DataOK
<1>2. ThreadsOK
  <2>1. /\ dev \in [Threads -> Devices]
        /\ snap \in [Threads -> DeviceMaps]
        /\ rec \in [Threads -> BluetoothDeviceInfo]
        /\ seen \in [Threads -> SUBSET Devices]
    BY LocalTypes DEF Init, NoLocals
  <2>2. pc \in [Threads -> Steps]
    BY DEF Init, Steps, OtherSteps
  <2> QED
    BY <2>1, <2>2 DEF Init, ThreadsOK
<1> QED
  BY <1>1, <1>2

\* Startup, restart, the outside and a new call.
LEMMA EnvironmentType ==
    ASSUME TypeOK,
           \/ Startup \/ Restart \/ ExternalUnpair
           \/ \E t \in Threads, o \in Operations, d \in Devices : Call(t, o, d)
    PROVE  TypeOK'
<1>1. CASE InitReadMarker
  BY <1>1 DEF TypeOK, InitReadMarker, storeVars, worldVars, threadVars, localVars, outerVars
<1>2. CASE InitLoadCache
  BY <1>2, EmptyMapType
  DEF TypeOK, InitLoadCache, AbortInit, DeviceInfoValues, storeVars, worldVars, threadVars,
      localVars, outerVars
<1>3. CASE InitReconcile
  BY <1>3, EmptyMapType, ReconcileType
  DEF TypeOK, InitReconcile, AbortInit, storeVars, worldVars, threadVars, localVars, outerVars
<1>4. CASE InitStore
  BY <1>4, EmptyMapType, StoreViewType
  DEF TypeOK, InitStore, AbortInit, DeviceInfoValues, worldVars, threadVars, localVars, outerVars
<1>5. CASE Restart
  <2>1. DataOK'
    <3>1. DataOK
      BY TypeParts
    <3>2. (restarts \in Nat)' /\ (alone \in Threads \cup {NoThread})'
      BY <1>5, <3>1 DEF DataOK, Restart
    <3>3. UNCHANGED <<deviceInfo, marker, file, paired, calls, listed>>
      BY <1>5 DEF Restart, storeVars, worldVars
    <3>4. /\ (phase \in {"down", "loading", "reconciling", "storing", "up"})'
          /\ (build \in AllBuilds)'
          /\ (cache \in DeviceMaps)'
          /\ (isMigrated \in BOOLEAN)'
      BY <1>5, LocalTypes, ManagerAssumption DEF Restart
    <3> QED
      BY <3>1, <3>2, <3>3, <3>4 DEF DataOK
  <2>2. ThreadsOK'
    BY <1>5, LocalTypes DEF ThreadsOK, Restart, Steps, OtherSteps
  <2> QED
    BY <2>1, <2>2 DEF TypeOK, DataOK, ThreadsOK
<1>6. CASE ExternalUnpair
  BY <1>6 DEF TypeOK, ExternalUnpair, memVars, storeVars, threadVars, localVars, outerVars
<1>7. CASE \E t \in Threads, o \in Operations, d \in Devices : Call(t, o, d)
  <2>1. PICK t \in Threads, o \in Operations, d \in Devices : Call(t, o, d)
    BY <1>7
  <2>2. o \in AllOperations
    BY ManagerAssumption
  <2>3. FirstStep(o) \in Steps
    BY <2>2 DEF FirstStep, AllOperations, Steps, OtherSteps
  <2> QED
    BY <2>1, <2>2, <2>3 DEF TypeOK, Call, memVars, storeVars, worldVars
<1> QED
  BY <1>1, <1>2, <1>3, <1>4, <1>5, <1>6, <1>7 DEF Startup

\* No step of performMigration breaks the types.
LEMMA PerformMigrationType ==
    ASSUME TypeOK, NEW t \in Threads, PerformMigration(t)
    PROVE  TypeOK'
<1> USE DEF TypeOK, DataOK, ThreadsOK
<1>0. DataOK /\ ThreadsOK
  BY TypeParts
<1>1. CASE PmLock(t)
  BY <1>1 DEF PmLock, Goto, Steps, PerformSteps, storeVars, worldVars, localVars, outerVars
<1>2. CASE PmReadMarker(t)
  <2>1. DataOK'
    BY <1>2 DEF PmReadMarker, storeVars, worldVars, outerVars
  <2>2. ThreadsOK'
    BY <1>2, <1>0, PlainGotoType, ReturnType DEF PmReadMarker, Steps, PerformSteps
  <2> QED
    BY <2>1, <2>2
<1>3. CASE PmReadFile(t)
  <2>1. DataOK'
    BY <1>3 DEF PmReadFile, storeVars, worldVars, outerVars
  <2>2. CASE Return(t, "failed")
    BY <2>1, <2>2, <1>0, ReturnType
  <2>3. CASE file = NoFile /\ snap' = [snap EXCEPT ![t] = EmptyMap]
             /\ Goto(t, "pmSwapCache") /\ UNCHANGED <<migrationLock, dev, rec, seen>>
    BY <2>1, <2>3, EmptyMapType DEF Goto, Steps, PerformSteps
  <2>4. CASE file \notin {NoFile, BadFile} /\ snap' = [snap EXCEPT ![t] = file]
             /\ Goto(t, "pmGetPaired") /\ UNCHANGED <<migrationLock, dev, rec, seen>>
    BY <2>1, <2>4 DEF FileValues, Goto, Steps, PerformSteps
  <2> QED
    BY <1>3, <2>2, <2>3, <2>4 DEF PmReadFile
<1>4. CASE PmGetPaired(t)
  <2>1. DataOK'
    BY <1>4 DEF PmGetPaired, storeVars, worldVars
  <2>2. CASE Return(t, "failed")
    BY <2>1, <2>2, <1>0, ReturnType
  <2>3. CASE snap' = [snap EXCEPT ![t] = Import(@, paired)]
             /\ Goto(t, "pmSwapCache") /\ UNCHANGED <<migrationLock, dev, rec, seen>>
    BY <2>1, <2>3, ImportType DEF Goto, Steps, PerformSteps
  <2> QED
    BY <1>4, <2>2, <2>3 DEF PmGetPaired
<1>5. CASE PmSwapCache(t)
  BY <1>5 DEF PmSwapCache, Goto, Steps, PerformSteps, storeVars, worldVars, localVars, outerVars
<1>6. CASE PmCheckEmpty(t)
  BY <1>6 DEF PmCheckEmpty, Goto, Steps, PerformSteps, WriteSteps, memVars, storeVars,
              worldVars, localVars, outerVars
<1>7. CASE PmEnrich(t)
  <2>1. DataOK'
    BY <1>7 DEF PmEnrich, storeVars, worldVars, outerVars
  <2>2. CASE Return(t, "failed")
    BY <2>1, <2>2, <1>0, ReturnType
  <2>3. CASE seen' = [seen EXCEPT ![t] = paired]
             /\ Goto(t, "pmBackfill") /\ UNCHANGED <<migrationLock, dev, snap, rec>>
    BY <2>1, <2>3 DEF Goto, Steps, PerformSteps
  <2> QED
    BY <1>7, <2>2, <2>3 DEF PmEnrich
<1>8. CASE PmBackfill(t)
  BY <1>8, BackfillType DEF PmBackfill, Goto, Steps, WriteSteps, storeVars, worldVars,
                            localVars, outerVars
<1>9. CASE PmWriteMarker(t)
  <2>1. DataOK'
    BY <1>9 DEF PmWriteMarker, worldVars, outerVars
  <2>2. ThreadsOK'
    BY <1>9, <1>0, PlainGotoType, ReturnType DEF PmWriteMarker, Steps, PerformSteps
  <2> QED
    BY <2>1, <2>2
<1>10. CASE PmSetMigrated(t)
  <2>1. DataOK'
    BY <1>10 DEF PmSetMigrated, storeVars, worldVars, outerVars
  <2> QED
    BY <1>10, <1>0, <2>1, ReturnType DEF PmSetMigrated
<1> QED
  BY <1>1, <1>2, <1>3, <1>4, <1>5, <1>6, <1>7, <1>8, <1>9, <1>10 DEF PerformMigration

\* No step of clearMigration breaks the types.
LEMMA ClearMigrationType ==
    ASSUME TypeOK, NEW t \in Threads, ClearMigration(t)
    PROVE  TypeOK'
<1>0. DataOK /\ ThreadsOK
  BY TypeParts
<1>1. CASE ClLock(t)
  BY <1>1 DEF TypeOK, ClLock, Goto, Steps, ClearSteps, storeVars, worldVars, localVars, outerVars
<1>2. CASE ClDeleteInfo(t)
  <2>1. DataOK'
    BY <1>2, <1>0 DEF DataOK, ClDeleteInfo, DeviceInfoValues, worldVars, outerVars
  <2>2. ThreadsOK'
    BY <1>2, <1>0, PlainGotoType, ReturnType DEF ClDeleteInfo, Steps, ClearSteps
  <2> QED
    BY <2>1, <2>2, TypeParts DEF TypeOK, DataOK, ThreadsOK
<1>3. CASE ClDeleteMarker(t)
  <2>1. DataOK'
    BY <1>3, <1>0 DEF DataOK, ClDeleteMarker, worldVars, outerVars
  <2>2. ThreadsOK'
    BY <1>3, <1>0, PlainGotoType, ReturnType DEF ClDeleteMarker, Steps, ClearSteps
  <2> QED
    BY <2>1, <2>2 DEF TypeOK, DataOK, ThreadsOK
<1>4. CASE ClClearCache(t)
  BY <1>4, EmptyMapType
  DEF TypeOK, ClClearCache, Goto, Steps, ClearSteps, storeVars, worldVars, localVars, outerVars
<1>5. CASE ClReset(t)
  <2>1. DataOK'
    BY <1>5, <1>0 DEF DataOK, ClReset, storeVars, worldVars, outerVars
  <2>2. ThreadsOK'
    BY <1>5, <1>0, ReturnType DEF ClReset
  <2> QED
    BY <2>1, <2>2 DEF TypeOK, DataOK, ThreadsOK
<1> QED
  BY <1>1, <1>2, <1>3, <1>4, <1>5 DEF ClearMigration

\* No step of the operations on one device breaks the types.
LEMMA UpdateDeviceType ==
    ASSUME TypeOK, NEW t \in Threads, UpdateDevice(t)
    PROVE  TypeOK'
<1>0. DataOK /\ ThreadsOK
  BY TypeParts
<1> USE DEF Steps, OtherSteps, WriteSteps
<1>1. CASE SaIsMigrated(t)
  <2>1. DataOK'
    BY <1>1, <1>0 DEF DataOK, SaIsMigrated, storeVars, worldVars, outerVars
  <2>2. ThreadsOK'
    BY <1>1, <1>0, PlainGotoType, ReturnType DEF SaIsMigrated
  <2> QED
    BY <2>1, <2>2 DEF TypeOK, DataOK, ThreadsOK
<1>2. CASE SaUpdate(t)
  <2>1. cache' \in DeviceMaps
    <3>1. CASE dev[t] \in DOMAIN cache
      <4>1. PICK status \in {"disabled", "enabled"} : cache' = [cache EXCEPT ![dev[t]].auto = status]
        BY <1>2, <3>1 DEF SaUpdate
      <4>2. status \in AutoConnectStatus
        BY DEF AutoConnectStatus
      <4> QED
        BY <3>1, <4>1, <4>2, <1>0, UpdateType DEF DataOK
    <3>2. CASE dev[t] \notin DOMAIN cache
      BY <1>2, <3>2, <1>0 DEF SaUpdate, DataOK
    <3> QED
      BY <3>1, <3>2
  <2>2. DataOK'
    BY <1>2, <1>0, <2>1 DEF DataOK, SaUpdate, storeVars, worldVars, outerVars
  <2>3. ThreadsOK'
    BY <1>2, <1>0, PlainGotoType, ReturnType DEF SaUpdate
  <2> QED
    BY <2>2, <2>3 DEF TypeOK, DataOK, ThreadsOK
<1>3. CASE LcRead(t)
  <2>1. DataOK'
    BY <1>3, <1>0 DEF DataOK, LcRead, storeVars, worldVars, outerVars
  <2>2. ThreadsOK'
    <3>1. CASE Return(t, Reported(t))
      BY <3>1, <1>0, ReturnType, ReportedResult
    <3>2. CASE dev[t] \in DOMAIN cache /\ rec' = [rec EXCEPT ![t] = cache[dev[t]]]
               /\ Goto(t, "lcWrite") /\ UNCHANGED <<migrationLock, dev, snap, seen>>
      <4>1. cache[dev[t]] \in BluetoothDeviceInfo
        BY <3>2, <1>0, MapElim DEF DataOK
      <4> QED
        BY <3>2, <4>1, <1>0 DEF ThreadsOK, Goto
    <3> QED
      BY <1>3, <3>1, <3>2 DEF LcRead
  <2> QED
    BY <2>1, <2>2 DEF TypeOK, DataOK, ThreadsOK
<1>4. CASE LcWrite(t)
  <2>1. cache' \in DeviceMaps
    <3>1. PICK now \in Times : cache' = Put(cache, dev[t], [rec[t] EXCEPT !.time = now])
      BY <1>4 DEF LcWrite
    <3>2. [rec[t] EXCEPT !.time = now] \in BluetoothDeviceInfo
      BY <1>0 DEF ThreadsOK, BluetoothDeviceInfo
    <3> QED
      BY <3>1, <3>2, <1>0, PutType DEF DataOK, ThreadsOK
  <2>2. DataOK'
    BY <1>4, <1>0, <2>1 DEF DataOK, LcWrite, storeVars, worldVars, outerVars
  <2>3. ThreadsOK'
    BY <1>4, <1>0, PlainGotoType DEF LcWrite
  <2> QED
    BY <2>2, <2>3 DEF TypeOK, DataOK, ThreadsOK
<1>5. CASE LvUpdate(t)
  <2>1. cache' \in DeviceMaps
    <3>1. CASE dev[t] \in DOMAIN cache
      <4>1. PICK v \in Volumes : cache' = [cache EXCEPT ![dev[t]].vol = v]
        BY <1>5, <3>1 DEF LvUpdate
      <4> QED
        BY <3>1, <4>1, <1>0, UpdateType DEF DataOK
    <3>2. CASE dev[t] \notin DOMAIN cache
      BY <1>5, <3>2, <1>0 DEF LvUpdate, DataOK
    <3> QED
      BY <3>1, <3>2
  <2>2. DataOK'
    BY <1>5, <1>0, <2>1 DEF DataOK, LvUpdate, storeVars, worldVars, outerVars
  <2>3. ThreadsOK'
    BY <1>5, <1>0, PlainGotoType, ReturnType, ReportedResult DEF LvUpdate
  <2> QED
    BY <2>2, <2>3 DEF TypeOK, DataOK, ThreadsOK
<1>6. CASE BtPair(t)
  <2>1. DataOK'
    BY <1>6, <1>0 DEF DataOK, ThreadsOK, BtPair, storeVars, outerVars
  <2>2. ThreadsOK'
    BY <1>6, <1>0, PlainGotoType, ReturnType DEF BtPair
  <2> QED
    BY <2>1, <2>2 DEF TypeOK, DataOK, ThreadsOK
<1>7. CASE AdAdd(t)
  <2>1. cache' \in DeviceMaps
    BY <1>7, <1>0, PutType, FreshInfoType DEF AdAdd, DataOK, ThreadsOK
  <2>2. DataOK'
    BY <1>7, <1>0, <2>1 DEF DataOK, AdAdd, storeVars, worldVars, outerVars
  <2>3. ThreadsOK'
    BY <1>7, <1>0, PlainGotoType, ReturnType, ReportedResult DEF AdAdd
  <2> QED
    BY <2>2, <2>3 DEF TypeOK, DataOK, ThreadsOK
<1>8. CASE BtUnpair(t)
  <2>1. DataOK'
    BY <1>8, <1>0 DEF DataOK, BtUnpair, storeVars, outerVars
  <2>2. ThreadsOK'
    BY <1>8, <1>0, PlainGotoType, ReturnType DEF BtUnpair
  <2> QED
    BY <2>1, <2>2 DEF TypeOK, DataOK, ThreadsOK
<1>9. CASE RmErase(t)
  <2>1. cache' \in DeviceMaps
    BY <1>9, <1>0, EraseType DEF RmErase, DataOK, ThreadsOK
  <2>2. DataOK'
    BY <1>9, <1>0, <2>1 DEF DataOK, RmErase, storeVars, worldVars, outerVars
  <2>3. ThreadsOK'
    BY <1>9, <1>0, PlainGotoType, ReturnType, ReportedResult DEF RmErase
  <2> QED
    BY <2>2, <2>3 DEF TypeOK, DataOK, ThreadsOK
<1>10. CASE Gate(t)
  <2>1. DataOK'
    BY <1>10, <1>0 DEF DataOK, Gate, storeVars, worldVars, outerVars
  <2>2. ThreadsOK'
    BY <1>10, <1>0, PlainGotoType, ReturnType DEF Gate
  <2> QED
    BY <2>1, <2>2 DEF TypeOK, DataOK, ThreadsOK
<1> QED
  BY <1>1, <1>2, <1>3, <1>4, <1>5, <1>6, <1>7, <1>8, <1>9, <1>10 DEF UpdateDevice

\* No step of writeStorageFromCache and of the mirror to the AS file breaks the
\* types.
LEMMA WriteStorageType ==
    ASSUME TypeOK, NEW t \in Threads, WriteStorage(t)
    PROVE  TypeOK'
<1>0. DataOK /\ ThreadsOK
  BY TypeParts
<1> USE DEF Steps, WriteSteps
<1>1. CASE WsSnapshot(t)
  BY <1>1, StoreViewType
  DEF TypeOK, WsSnapshot, Goto, memVars, storeVars, worldVars, outerVars
<1>2. CASE WsSetValue(t)
  <2>1. DataOK'
    BY <1>2, <1>0 DEF DataOK, ThreadsOK, WsSetValue, DeviceInfoValues, worldVars, outerVars
  <2>2. ThreadsOK'
    BY <1>2, <1>0, PlainGotoType, ReturnType, ReportedResult DEF WsSetValue
  <2> QED
    BY <2>1, <2>2 DEF TypeOK, DataOK, ThreadsOK
<1>3. CASE WsIsMigrated(t)
  <2>1. DataOK'
    BY <1>3, <1>0 DEF DataOK, WsIsMigrated, storeVars, worldVars, outerVars
  <2>2. ThreadsOK'
    BY <1>3, <1>0, PlainGotoType, WriteDoneType DEF WsIsMigrated
  <2> QED
    BY <2>1, <2>2 DEF TypeOK, DataOK, ThreadsOK
<1>4. CASE FsSnapshot(t)
  BY <1>4 DEF TypeOK, FsSnapshot, Goto, memVars, storeVars, worldVars, outerVars
<1>5. CASE FsWrite(t)
  <2>1. Mirror(snap[t], file) \in FileValues /\ Mirror(snap[t], NoFile) \in FileValues
    <3>1. NoFile \in FileValues /\ snap[t] \in DeviceMaps
      BY <1>0 DEF ThreadsOK, FileValues
    <3> QED
      BY <1>0, <3>1, MirrorType DEF DataOK, FileValues
  <2>2. DataOK'
    BY <1>5, <1>0, <2>1 DEF DataOK, FsWrite, storeVars, outerVars
  <2>3. ThreadsOK'
    BY <1>5, <1>0, WriteDoneType DEF FsWrite
  <2> QED
    BY <2>2, <2>3 DEF TypeOK, DataOK, ThreadsOK
<1> QED
  BY <1>1, <1>2, <1>3, <1>4, <1>5 DEF WriteStorage

\* Every variable stays in its type: no interleaving of the manager's callers
\* puts a malformed map in the cache, in the store or in the AS file.
THEOREM TypeCorrect == Spec => []TypeOK
<1>1. TypeOK /\ [Next]_vars => TypeOK'
  <2> SUFFICES ASSUME TypeOK, [Next]_vars PROVE TypeOK'
    OBVIOUS
  <2>1. ASSUME NEW t \in Threads, Step(t) PROVE TypeOK'
    BY <2>1, PerformMigrationType, ClearMigrationType, UpdateDeviceType, WriteStorageType
    DEF Step
  <2>2. CASE UNCHANGED vars
    BY <2>2 DEF TypeOK, vars, memVars, storeVars, worldVars, threadVars, localVars, outerVars
  <2> QED
    BY <2>1, <2>2, EnvironmentType DEF Next
<1> QED
  BY <1>1, InitType, PTL DEF Spec
-----------------------------------------------------------------------------
(* The inductive invariant                                                 *)

\* The invariant holds when the plugin starts: nobody is at work.
LEMMA InitMigrationInv == Init => MigrationInv
BY ManagerAssumption
DEF Init, MigrationInv, LockInv, InLockedRegion, OpInv, MarkerInv, Importing, Unmarked,
    StoredInv, MigrationLeavesFileAlone, PerformSteps, ClearSteps, WriteSteps, OtherSteps

\* Startup, a restart, an external unpairing and a new call keep the invariant:
\* init sets the flag only when it has read the marker, and a restart frees the
\* lock and resets the flag together.
LEMMA EnvironmentInv ==
    ASSUME TypeOK, MigrationInv,
           \/ Startup \/ Restart \/ ExternalUnpair
           \/ \E t \in Threads, o \in Operations, d \in Devices : Call(t, o, d)
    PROVE  MigrationInv'
<1> USE ManagerAssumption
    DEF TypeOK, MigrationInv, LockInv, InLockedRegion, OpInv, MarkerInv, Importing, Unmarked,
        StoredInv, MigrationLeavesFileAlone, PerformSteps, ClearSteps, WriteSteps, OtherSteps
<1>1. CASE InitReadMarker
  BY <1>1 DEF InitReadMarker, storeVars, worldVars, threadVars, localVars, outerVars
<1>2. CASE InitLoadCache
  BY <1>2 DEF InitLoadCache, AbortInit, storeVars, worldVars, threadVars, localVars, outerVars
<1>3. CASE InitReconcile
  BY <1>3 DEF InitReconcile, AbortInit, storeVars, worldVars, threadVars, localVars, outerVars
<1>4. CASE InitStore
  BY <1>4 DEF InitStore, AbortInit, worldVars, threadVars, localVars, outerVars
<1>5. CASE Restart
  <2>1. \A t \in Threads : pc'[t] = "idle" /\ op'[t] = "none" /\ result'[t] = "none"
    BY <1>5 DEF Restart
  <2>2. migrationLock' = NoThread /\ ~isMigrated'
    BY <1>5 DEF Restart
  <2> QED
    BY <2>1, <2>2
<1>6. CASE ExternalUnpair
  BY <1>6 DEF ExternalUnpair, memVars, storeVars, threadVars, localVars, outerVars
<1>7. CASE \E t \in Threads, o \in Operations, d \in Devices : Call(t, o, d)
  <2>1. PICK t \in Threads, o \in Operations, d \in Devices : Call(t, o, d)
    BY <1>7
  <2>2. /\ pc[t] = "idle" /\ phase = "up"
        /\ pc' = [pc EXCEPT ![t] = FirstStep(o)] /\ op' = [op EXCEPT ![t] = o]
        /\ result' = [result EXCEPT ![t] = "none"]
    BY <2>1 DEF Call, At
  <2>3. UNCHANGED <<phase, isMigrated, migrationLock, marker, deviceInfo>>
    BY <2>1 DEF Call, memVars, storeVars
  <2>4. /\ FirstStep(o) \in OtherSteps \ {"idle"}
        /\ FirstStep(o) = "pmLock" <=> o = "performMigration"
        /\ FirstStep(o) = "clLock" <=> o = "clearMigration"
        /\ o # "none"
    BY DEF FirstStep, AllOperations
  <2>5. LockInv' /\ StoredInv'
    BY <2>2, <2>3, <2>4
  <2>6. OpInv' /\ MigrationLeavesFileAlone'
    BY <2>2, <2>3, <2>4
  <2>7. MarkerInv'
    BY <2>2, <2>3, <2>4
  <2> QED
    BY <2>5, <2>6, <2>7
<1> QED
  BY <1>1, <1>2, <1>3, <1>4, <1>5, <1>6, <1>7 DEF Startup

\* Each step of performMigration keeps the invariant: the lock keeps every other
\* migration call out from the test of the marker to the setting of the flag.
LEMMA PerformMigrationInv ==
    ASSUME TypeOK, MigrationInv, NEW t \in Threads, PerformMigration(t)
    PROVE  MigrationInv'
<1> USE ManagerAssumption
    DEF TypeOK, MigrationInv, LockInv, InLockedRegion, OpInv, MarkerInv, Importing, Unmarked,
        StoredInv, MigrationLeavesFileAlone, PerformSteps, ClearSteps, WriteSteps, OtherSteps,
        At, Goto, Return, memVars, storeVars, worldVars, localVars, outerVars
<1>1. CASE PmLock(t)
  BY <1>1 DEF PmLock
<1>2. CASE PmReadMarker(t)
  BY <1>2 DEF PmReadMarker
<1>3. CASE PmReadFile(t)
  BY <1>3 DEF PmReadFile
<1>4. CASE PmGetPaired(t)
  BY <1>4 DEF PmGetPaired
<1>5. CASE PmSwapCache(t)
  BY <1>5 DEF PmSwapCache
<1>6. CASE PmCheckEmpty(t)
  BY <1>6 DEF PmCheckEmpty
<1>7. CASE PmEnrich(t)
  BY <1>7 DEF PmEnrich
<1>8. CASE PmBackfill(t)
  BY <1>8 DEF PmBackfill
<1>9. CASE PmWriteMarker(t)
  BY <1>9 DEF PmWriteMarker
<1>10. CASE PmSetMigrated(t)
  BY <1>10 DEF PmSetMigrated
<1> QED
  BY <1>1, <1>2, <1>3, <1>4, <1>5, <1>6, <1>7, <1>8, <1>9, <1>10 DEF PerformMigration

\* Each step of clearMigration keeps the invariant: whoever would rely on the
\* marker it deletes needs the lock it holds.
LEMMA ClearMigrationInv ==
    ASSUME TypeOK, MigrationInv, NEW t \in Threads, ClearMigration(t)
    PROVE  MigrationInv'
<1> USE ManagerAssumption
    DEF TypeOK, MigrationInv, LockInv, InLockedRegion, OpInv, MarkerInv, Importing, Unmarked,
        StoredInv, MigrationLeavesFileAlone, PerformSteps, ClearSteps, WriteSteps, OtherSteps,
        At, Goto, Return, memVars, storeVars, worldVars, localVars, outerVars
<1>1. CASE ClLock(t)
  BY <1>1 DEF ClLock
<1>2. CASE ClDeleteInfo(t)
  BY <1>2 DEF ClDeleteInfo
<1>3. CASE ClDeleteMarker(t)
  BY <1>3 DEF ClDeleteMarker
<1>4. CASE ClClearCache(t)
  BY <1>4 DEF ClClearCache
<1>5. CASE ClReset(t)
  BY <1>5 DEF ClReset
<1> QED
  BY <1>1, <1>2, <1>3, <1>4, <1>5 DEF ClearMigration

\* The operations on one device never touch the flag, the marker or the lock, so
\* they keep the invariant.
LEMMA UpdateDeviceInv ==
    ASSUME TypeOK, MigrationInv, NEW t \in Threads, UpdateDevice(t)
    PROVE  MigrationInv'
<1> USE ManagerAssumption
    DEF TypeOK, MigrationInv, LockInv, InLockedRegion, OpInv, MarkerInv, Importing, Unmarked,
        StoredInv, MigrationLeavesFileAlone, PerformSteps, ClearSteps, WriteSteps, OtherSteps,
        At, Goto, Return, memVars, storeVars, worldVars, localVars, outerVars
<1>1. CASE SaIsMigrated(t)
  BY <1>1 DEF SaIsMigrated
<1>2. CASE SaUpdate(t)
  BY <1>2 DEF SaUpdate
<1>3. CASE LcRead(t)
  BY <1>3 DEF LcRead
<1>4. CASE LcWrite(t)
  BY <1>4 DEF LcWrite
<1>5. CASE LvUpdate(t)
  BY <1>5 DEF LvUpdate
<1>6. CASE BtPair(t)
  BY <1>6 DEF BtPair
<1>7. CASE AdAdd(t)
  BY <1>7 DEF AdAdd
<1>8. CASE BtUnpair(t)
  BY <1>8 DEF BtUnpair
<1>9. CASE RmErase(t)
  BY <1>9 DEF RmErase
<1>10. CASE Gate(t)
  BY <1>10 DEF Gate
<1> QED
  BY <1>1, <1>2, <1>3, <1>4, <1>5, <1>6, <1>7, <1>8, <1>9, <1>10 DEF UpdateDevice

\* Writing the store keeps the invariant, in a migration and in an update alike.
LEMMA WriteStorageInv ==
    ASSUME TypeOK, MigrationInv, NEW t \in Threads, WriteStorage(t)
    PROVE  MigrationInv'
<1> USE ManagerAssumption
    DEF TypeOK, MigrationInv, LockInv, InLockedRegion, OpInv, MarkerInv, Importing, Unmarked,
        StoredInv, MigrationLeavesFileAlone, PerformSteps, ClearSteps, WriteSteps, OtherSteps,
        At, Goto, Return, WriteDone, memVars, storeVars, worldVars, localVars, outerVars
<1>1. CASE WsSnapshot(t)
  BY <1>1 DEF WsSnapshot
<1>2. CASE WsSetValue(t)
  BY <1>2, DataAssumption DEF WsSetValue
<1>3. CASE WsIsMigrated(t)
  BY <1>3 DEF WsIsMigrated
<1>4. CASE FsSnapshot(t)
  BY <1>4 DEF FsSnapshot
<1>5. CASE FsWrite(t)
  BY <1>5 DEF FsWrite
<1> QED
  BY <1>1, <1>2, <1>3, <1>4, <1>5 DEF WriteStorage

\* The migration flag, the durable marker and the step of whoever holds
\* _migrationLock keep together in every reachable state, for any number of
\* callers, any faults and any restarts.
THEOREM MigrationInvariant == Spec => []MigrationInv
<1>1. TypeOK /\ MigrationInv /\ [Next]_vars => MigrationInv'
  <2> SUFFICES ASSUME TypeOK, MigrationInv, [Next]_vars PROVE MigrationInv'
    OBVIOUS
  <2>1. ASSUME NEW t \in Threads, Step(t) PROVE MigrationInv'
    BY <2>1, PerformMigrationInv, ClearMigrationInv, UpdateDeviceInv, WriteStorageInv DEF Step
  <2>2. CASE UNCHANGED vars
    BY <2>2
    DEF MigrationInv, LockInv, InLockedRegion, OpInv, MarkerInv, Importing, Unmarked,
        StoredInv, MigrationLeavesFileAlone, vars, memVars, storeVars, threadVars
  <2> QED
    BY <2>1, <2>2, EnvironmentInv DEF Next
<1> QED
  BY <1>1, InitMigrationInv, TypeCorrect, PTL DEF Spec

-----------------------------------------------------------------------------
(* What follows                                                            *)

\* Only the step that writes the marker sets it.
LEMMA MarkerSetter ==
    ASSUME Next, marker # "1", marker' = "1"
    PROVE  \E t \in Threads : PmWriteMarker(t)
<1>1. CASE Startup \/ Restart \/ ExternalUnpair
  BY <1>1 DEF Startup, InitReadMarker, InitLoadCache, InitReconcile, InitStore, Restart,
              ExternalUnpair, storeVars
<1>2. ASSUME NEW t \in Threads, NEW o \in Operations, NEW d \in Devices, Call(t, o, d)
      PROVE  FALSE
  BY <1>2 DEF Call, storeVars
<1>3. ASSUME NEW t \in Threads, PerformMigration(t)
      PROVE  PmWriteMarker(t)
  BY <1>3 DEF PerformMigration, PmLock, PmReadMarker, PmReadFile, PmGetPaired, PmSwapCache,
              PmCheckEmpty, PmEnrich, PmBackfill, PmSetMigrated, storeVars
<1>4. ASSUME NEW t \in Threads, ClearMigration(t)
      PROVE  FALSE
  BY <1>4 DEF ClearMigration, ClLock, ClDeleteInfo, ClDeleteMarker, ClClearCache, ClReset,
              storeVars
<1>5. ASSUME NEW t \in Threads, UpdateDevice(t)
      PROVE  FALSE
  BY <1>5 DEF UpdateDevice, SaIsMigrated, SaUpdate, LcRead, LcWrite, LvUpdate, BtPair, AdAdd,
              BtUnpair, RmErase, Gate, storeVars
<1>6. ASSUME NEW t \in Threads, WriteStorage(t)
      PROVE  FALSE
  BY <1>6 DEF WriteStorage, WsSnapshot, WsSetValue, WsIsMigrated, FsSnapshot, FsWrite, storeVars
<1> QED
  BY <1>1, <1>2, <1>3, <1>4, <1>5, <1>6 DEF Next, Step

\* The marker is written last: when it is, deviceInfo is in the store.
THEOREM MarkerIsLast == Spec => MarkerWrittenLast
<1>1. MigrationInv /\ [Next]_vars
        => [marker # "1" /\ marker' = "1" => deviceInfo # NoInfo]_vars
  <2> SUFFICES ASSUME MigrationInv, Next, marker # "1", marker' = "1"
               PROVE  deviceInfo # NoInfo
    OBVIOUS
  <2>1. PICK t \in Threads : PmWriteMarker(t)
    BY MarkerSetter
  <2> QED
    BY <2>1 DEF MigrationInv, StoredInv, PmWriteMarker, At
<1> QED
  BY <1>1, MigrationInvariant, PTL DEF Spec, MarkerWrittenLast

\* Only the last step of performMigration reports its success.
LEMMA SuccessReporter ==
    ASSUME TypeOK, MigrationInv, Next, NEW t \in Threads,
           op[t] = "performMigration", result'[t] = "ok"
    PROVE  PmSetMigrated(t)
<1>0. pc[t] # "idle" /\ result[t] = "none" /\ pc[t] \notin OtherSteps \ {"pmLock"}
  BY DEF MigrationInv, OpInv
<1> USE DEF TypeOK, Goto, Return
<1>1. CASE Startup \/ Restart \/ ExternalUnpair
  BY <1>0, <1>1 DEF Startup, InitReadMarker, InitLoadCache, InitReconcile, InitStore,
                    Restart, ExternalUnpair, threadVars
<1>2. ASSUME NEW u \in Threads, NEW o \in Operations, NEW d \in Devices, Call(u, o, d)
      PROVE  FALSE
  BY <1>0, <1>2 DEF Call
<1>3. ASSUME NEW u \in Threads, PerformMigration(u)
      PROVE  PmSetMigrated(t)
  BY <1>0, <1>3 DEF PerformMigration, PmLock, PmReadMarker, PmReadFile, PmGetPaired,
              PmSwapCache, PmCheckEmpty, PmEnrich, PmBackfill, PmWriteMarker, PmSetMigrated
<1>4. ASSUME NEW u \in Threads, ClearMigration(u)
      PROVE  FALSE
  BY <1>0, <1>4 DEF ClearMigration, ClLock, ClDeleteInfo, ClDeleteMarker, ClClearCache, ClReset,
              At, MigrationInv, OpInv, ClearSteps
<1>5. ASSUME NEW u \in Threads, UpdateDevice(u)
      PROVE  FALSE
  BY <1>0, <1>5 DEF UpdateDevice, SaIsMigrated, SaUpdate, LcRead, LcWrite, LvUpdate, BtPair,
              AdAdd, BtUnpair, RmErase, Gate, At, OtherSteps
<1>6. ASSUME NEW u \in Threads, WriteStorage(u)
      PROVE  FALSE
  BY <1>0, <1>6 DEF WriteStorage, WsSnapshot, WsSetValue, WsIsMigrated, FsSnapshot, FsWrite,
              WriteDone, Reported
<1> QED
  BY <1>1, <1>2, <1>3, <1>4, <1>5, <1>6 DEF Next, Step

\* A performMigration that reports success leaves the plugin migrated in
\* memory and in the store, whatever ran beside it.
THEOREM SuccessIsReal == Spec => MigrationSuccessIsReal
<1>1. TypeOK /\ MigrationInv /\ [Next]_vars
        => [\A t \in Threads :
              op[t] = "performMigration" /\ result'[t] = "ok" => isMigrated' /\ marker' = "1"]_vars
  <2> SUFFICES ASSUME TypeOK, MigrationInv, Next, NEW t \in Threads,
                      op[t] = "performMigration", result'[t] = "ok"
               PROVE  isMigrated' /\ marker' = "1"
    OBVIOUS
  <2>1. PmSetMigrated(t)
    BY SuccessReporter
  <2> QED
    BY <2>1 DEF PmSetMigrated, At, MigrationInv, MarkerInv, storeVars
<1> QED
  BY <1>1, TypeCorrect, MigrationInvariant, PTL DEF Spec, MigrationSuccessIsReal

-----------------------------------------------------------------------------
(* The step of one thread                                                  *)

\* What the step of a thread leaves alone: it runs while the plugin is up, for
\* an operation under way, and touches the thread's own locals only.
LEMMA StepIsLocal ==
    ASSUME TypeOK, NEW t \in Threads, Step(t)
    PROVE  /\ phase = "up" /\ pc[t] # "idle"
           /\ UNCHANGED <<phase, build, calls, restarts, alone>>
           /\ op'[t] \in {op[t], "none"}
           /\ \A u \in Threads \ {t} :
                /\ pc'[u] = pc[u] /\ op'[u] = op[u] /\ result'[u] = result[u]
                /\ dev'[u] = dev[u] /\ snap'[u] = snap[u] /\ rec'[u] = rec[u]
                /\ seen'[u] = seen[u]
<1> USE DEF TypeOK, At, Goto, Return, localVars, outerVars
<1>1. CASE PerformMigration(t)
  <2>1. CASE PmLock(t) \/ PmSwapCache(t) \/ PmCheckEmpty(t) \/ PmBackfill(t)
    BY <2>1 DEF PmLock, PmSwapCache, PmCheckEmpty, PmBackfill, memVars
  <2>2. CASE PmReadMarker(t) \/ PmReadFile(t) \/ PmGetPaired(t) \/ PmEnrich(t)
    BY <2>2 DEF PmReadMarker, PmReadFile, PmGetPaired, PmEnrich
  <2>3. CASE PmWriteMarker(t) \/ PmSetMigrated(t)
    BY <2>3 DEF PmWriteMarker, PmSetMigrated
  <2> QED
    BY <1>1, <2>1, <2>2, <2>3 DEF PerformMigration
<1>2. CASE ClearMigration(t)
  BY <1>2 DEF ClearMigration, ClLock, ClDeleteInfo, ClDeleteMarker, ClClearCache, ClReset
<1>3. CASE UpdateDevice(t)
  BY <1>3 DEF UpdateDevice, SaIsMigrated, SaUpdate, LcRead, LcWrite, LvUpdate, BtPair, AdAdd,
              BtUnpair, RmErase, Gate
<1>4. CASE WriteStorage(t)
  BY <1>4 DEF WriteStorage, WsSnapshot, WsSetValue, WsIsMigrated, FsSnapshot, FsWrite,
              WriteDone, memVars
<1> QED
  BY <1>1, <1>2, <1>3, <1>4 DEF Step

\* Which steps of a thread change the flag, the store, the file, the pairings
\* and what BTRMGR has told of them.
LEMMA SharedWriters ==
    ASSUME NEW t \in Threads, Step(t)
    PROVE  /\ isMigrated' # isMigrated => PmSetMigrated(t) \/ ClReset(t)
           /\ marker' # marker         => PmWriteMarker(t) \/ ClDeleteMarker(t)
           /\ deviceInfo' # deviceInfo => WsSetValue(t) \/ ClDeleteInfo(t)
           /\ file' # file             => FsWrite(t)
           /\ paired' # paired         => BtPair(t) \/ BtUnpair(t)
           /\ listed' # listed         => PmGetPaired(t)
<1> USE DEF memVars, storeVars, worldVars, outerVars
<1>1. CASE PerformMigration(t)
  BY <1>1 DEF PerformMigration, PmLock, PmReadMarker, PmReadFile, PmGetPaired, PmSwapCache,
              PmCheckEmpty, PmEnrich, PmBackfill, PmWriteMarker, PmSetMigrated
<1>2. CASE ClearMigration(t)
  BY <1>2 DEF ClearMigration, ClLock, ClDeleteInfo, ClDeleteMarker, ClClearCache, ClReset
<1>3. CASE UpdateDevice(t)
  BY <1>3 DEF UpdateDevice, SaIsMigrated, SaUpdate, LcRead, LcWrite, LvUpdate, BtPair, AdAdd,
              BtUnpair, RmErase, Gate
<1>4. CASE WriteStorage(t)
  BY <1>4 DEF WriteStorage, WsSnapshot, WsSetValue, WsIsMigrated, FsSnapshot, FsWrite
<1> QED
  BY <1>1, <1>2, <1>3, <1>4 DEF Step

\* A thread's step is the one its pc names: the ones the proofs single out.
LEMMA StepAt ==
    ASSUME NEW t \in Threads, Step(t)
    PROVE  /\ pc[t] = "pmSetMigrated"  => PmSetMigrated(t)
           /\ pc[t] = "clDeleteMarker" => ClDeleteMarker(t)
<1>1. CASE PerformMigration(t)
  BY <1>1 DEF PerformMigration, PmLock, PmReadMarker, PmReadFile, PmGetPaired, PmSwapCache,
              PmCheckEmpty, PmEnrich, PmBackfill, PmWriteMarker, PmSetMigrated, At
<1>2. CASE ClearMigration(t)
  BY <1>2 DEF ClearMigration, ClLock, ClDeleteInfo, ClDeleteMarker, ClClearCache, ClReset, At
<1>3. CASE UpdateDevice(t)
  BY <1>3 DEF UpdateDevice, SaIsMigrated, SaUpdate, LcRead, LcWrite, LvUpdate, BtPair, AdAdd,
              BtUnpair, RmErase, Gate, At
<1>4. CASE WriteStorage(t)
  BY <1>4 DEF WriteStorage, WsSnapshot, WsSetValue, WsIsMigrated, FsSnapshot, FsWrite, At
<1> QED
  BY <1>1, <1>2, <1>3, <1>4 DEF Step

-----------------------------------------------------------------------------
(* Which steps an operation goes through                                   *)

\* The steps of the two operations whose result the clients rely on.
PathInv ==
    \A t \in Threads :
        /\ op[t] = "setAutoConnect" => pc[t] \in {"saIsMigrated", "saUpdate"} \cup WriteSteps
        /\ op[t] = "clearMigration" => pc[t] \in ClearSteps \cup {"clLock"}

\* Each step leads to one of the same operation.
LEMMA PathStep ==
    ASSUME TypeOK, PathInv, NEW t \in Threads, Step(t)
    PROVE  PathInv'
<1> USE DEF TypeOK, PathInv, At, Goto, Return, PerformSteps, ClearSteps, WriteSteps
<1>1. CASE PerformMigration(t)
  BY <1>1 DEF PerformMigration, PmLock, PmReadMarker, PmReadFile, PmGetPaired, PmSwapCache,
              PmCheckEmpty, PmEnrich, PmBackfill, PmWriteMarker, PmSetMigrated
<1>2. CASE ClearMigration(t)
  BY <1>2 DEF ClearMigration, ClLock, ClDeleteInfo, ClDeleteMarker, ClClearCache, ClReset
<1>3. CASE UpdateDevice(t)
  BY <1>3 DEF UpdateDevice, SaIsMigrated, SaUpdate, LcRead, LcWrite, LvUpdate, BtPair, AdAdd,
              BtUnpair, RmErase, Gate
<1>4. CASE WriteStorage(t)
  BY <1>4 DEF WriteStorage, WsSnapshot, WsSetValue, WsIsMigrated, FsSnapshot, FsWrite, WriteDone
<1> QED
  BY <1>1, <1>2, <1>3, <1>4 DEF Step

\* Every operation keeps to its steps.
LEMMA PathInvariant == Spec => []PathInv
<1>1. Init => PathInv
  BY DEF Init, PathInv
<1>2. TypeOK /\ PathInv /\ [Next]_vars => PathInv'
  <2> SUFFICES ASSUME TypeOK, PathInv, [Next]_vars PROVE PathInv'
    OBVIOUS
  <2>1. CASE Startup \/ ExternalUnpair
    BY <2>1 DEF Startup, InitReadMarker, InitLoadCache, InitReconcile, InitStore,
                ExternalUnpair, PathInv, threadVars
  <2>2. CASE Restart
    BY <2>2 DEF Restart, PathInv
  <2>3. ASSUME NEW t \in Threads, NEW o \in Operations, NEW d \in Devices, Call(t, o, d)
        PROVE  PathInv'
    BY <2>3 DEF Call, FirstStep, PathInv, TypeOK
  <2>4. ASSUME NEW t \in Threads, Step(t)
        PROVE  PathInv'
    BY <2>4, PathStep
  <2>5. CASE UNCHANGED vars
    BY <2>5 DEF PathInv, vars, threadVars
  <2> QED
    BY <2>1, <2>2, <2>3, <2>4, <2>5 DEF Next
<1> QED
  BY <1>1, <1>2, TypeCorrect, PTL DEF Spec

\* The last step of clearMigration is the only one that reports its success.
LEMMA ClearReporter ==
    ASSUME TypeOK, MigrationInv, PathInv, Next, NEW t \in Threads,
           op[t] = "clearMigration", result'[t] = "ok"
    PROVE  ClReset(t)
<1>0. /\ pc[t] \in ClearSteps \cup {"clLock"} /\ result[t] = "none" /\ phase = "up"
  BY DEF MigrationInv, OpInv, PathInv, ClearSteps
<1>1. CASE Startup \/ Restart \/ ExternalUnpair
  BY <1>0, <1>1 DEF Startup, InitReadMarker, InitLoadCache, InitReconcile, InitStore,
                    Restart, ExternalUnpair, threadVars
<1>2. ASSUME NEW u \in Threads, NEW o \in Operations, NEW d \in Devices, Call(u, o, d)
      PROVE  FALSE
  BY <1>0, <1>2 DEF Call, At, TypeOK, ClearSteps
<1>3. ASSUME NEW u \in Threads, Step(u)
      PROVE  ClReset(t)
  <2>1. u = t
    BY <1>0, <1>3, StepIsLocal
  <2>2. CASE PerformMigration(t)
    BY <1>0, <2>2
    DEF PerformMigration, PmLock, PmReadMarker, PmReadFile, PmGetPaired, PmSwapCache,
        PmCheckEmpty, PmEnrich, PmBackfill, PmWriteMarker, PmSetMigrated, At, ClearSteps
  <2>3. CASE ClearMigration(t)
    BY <1>0, <2>3
    DEF ClearMigration, ClLock, ClDeleteInfo, ClDeleteMarker, ClClearCache, ClReset, TypeOK,
        Goto, Return
  <2>4. CASE UpdateDevice(t)
    BY <1>0, <2>4
    DEF UpdateDevice, SaIsMigrated, SaUpdate, LcRead, LcWrite, LvUpdate, BtPair, AdAdd,
        BtUnpair, RmErase, Gate, At, ClearSteps
  <2>5. CASE WriteStorage(t)
    BY <1>0, <2>5
    DEF WriteStorage, WsSnapshot, WsSetValue, WsIsMigrated, FsSnapshot, FsWrite, At, ClearSteps
  <2> QED
    BY <1>3, <2>1, <2>2, <2>3, <2>4, <2>5 DEF Step
<1> QED
  BY <1>1, <1>2, <1>3 DEF Next

\* A clearMigration that reports success leaves the plugin not migrated, in
\* memory and in the store, whatever ran beside it.
THEOREM ClearIsFinal == Spec => ClearedIsNotTrusted
<1>1. TypeOK /\ MigrationInv /\ PathInv /\ [Next]_vars
        => [\A t \in Threads :
              op[t] = "clearMigration" /\ result'[t] = "ok"
                  => ~isMigrated' /\ marker' = "absent"]_vars
  <2> SUFFICES ASSUME TypeOK, MigrationInv, PathInv, Next, NEW t \in Threads,
                      op[t] = "clearMigration", result'[t] = "ok"
               PROVE  ~isMigrated' /\ marker' = "absent"
    OBVIOUS
  <2>1. ClReset(t)
    BY ClearReporter
  <2> QED
    BY <2>1 DEF ClReset, At, MigrationInv, MarkerInv, Unmarked, storeVars
<1> QED
  BY <1>1, TypeCorrect, MigrationInvariant, PathInvariant, PTL DEF Spec, ClearedIsNotTrusted

-----------------------------------------------------------------------------
(* Startup                                                                 *)

\* Every device of c has the settings it has in the store, or default ones.
HasStoredSettings(c) ==
    \A d \in DOMAIN c :
        Settings(c[d]) = IF d \in DOMAIN deviceInfo THEN Settings(deviceInfo[d])
                         ELSE Settings(FreshInfo(d))

\* What init has done at each of its steps.
StartupInv ==
    /\ phase = "down" => cache = EmptyMap /\ ~isMigrated
    /\ phase = "loading" => cache = EmptyMap /\ isMigrated /\ build = "migration"
    /\ phase \in {"reconciling", "storing"} => build = "plain"
    /\ phase = "reconciling" => cache = IF deviceInfo = NoInfo THEN EmptyMap ELSE deviceInfo
    /\ phase = "storing" => paired \subseteq DOMAIN cache
    /\ phase = "storing" /\ deviceInfo # NoInfo => HasStoredSettings(cache)

\* Filling in what BTRMGR reports changes no setting.
LEMMA BackfillKeepsSettings ==
    ASSUME NEW c \in DeviceMaps, NEW known
    PROVE  /\ DOMAIN Backfill(c, known) = DOMAIN c
           /\ \A d \in DOMAIN c : Settings(Backfill(c, known)[d]) = Settings(c[d])
<1>1. c \in [DOMAIN c -> BluetoothDeviceInfo]
  BY MapElim
<1> QED
  BY <1>1 DEF Backfill, Settings, BluetoothDeviceInfo

\* The reconciliation keeps the settings of the devices it finds in the cache,
\* and gives the others default ones.
LEMMA ReconcileKeepsSettings ==
    ASSUME NEW c \in DeviceMaps, NEW known
    PROVE  /\ DOMAIN Reconcile(c, known) = known
           /\ \A d \in known :
                Settings(Reconcile(c, known)[d]) =
                    IF d \in DOMAIN c THEN Settings(c[d]) ELSE Settings(FreshInfo(d))
BY BackfillKeepsSettings DEF Reconcile

\* Each step of init, and what interrupts it, keeps StartupInv.
LEMMA StartupStep ==
    ASSUME TypeOK, StartupInv, [Next]_vars
    PROVE  StartupInv'
<1>1. CASE InitReadMarker
  BY <1>1 DEF StartupInv, InitReadMarker, storeVars, worldVars, outerVars
<1>2. CASE InitLoadCache
  BY <1>2 DEF StartupInv, InitLoadCache, AbortInit, storeVars, worldVars, outerVars
<1>3. CASE InitReconcile
  <2>1. CASE AbortInit /\ build' = build
    BY <2>1 DEF StartupInv, AbortInit
  <2>2. CASE cache' = Reconcile(cache, paired) /\ phase' = "storing"
    <3>1. /\ phase = "reconciling" /\ build = "plain"
          /\ UNCHANGED <<deviceInfo, build, paired>>
          /\ cache = IF deviceInfo = NoInfo THEN EmptyMap ELSE deviceInfo
      BY <1>3 DEF StartupInv, InitReconcile, storeVars, worldVars, outerVars
    <3>2. /\ DOMAIN cache' = paired
          /\ deviceInfo # NoInfo => HasStoredSettings(cache')
      BY <2>2, <3>1, ReconcileKeepsSettings DEF TypeOK, HasStoredSettings
    <3> QED
      BY <2>2, <3>1, <3>2 DEF StartupInv, HasStoredSettings
  <2> QED
    BY <1>3, <2>1, <2>2 DEF InitReconcile, outerVars
<1>4. CASE InitStore
  BY <1>4 DEF StartupInv, InitStore, AbortInit, outerVars
<1>5. CASE Restart
  BY <1>5 DEF StartupInv, Restart
<1>6. CASE ExternalUnpair
  BY <1>6 DEF StartupInv, HasStoredSettings, ExternalUnpair, memVars, storeVars, worldVars, outerVars
<1>7. ASSUME NEW t \in Threads, NEW o \in Operations, NEW d \in Devices, Call(t, o, d)
      PROVE  StartupInv'
  BY <1>7 DEF StartupInv, Call, At, memVars
<1>8. ASSUME NEW t \in Threads, Step(t)
      PROVE  StartupInv'
  BY <1>8, StepIsLocal DEF StartupInv
<1>9. CASE UNCHANGED vars
  BY <1>9 DEF StartupInv, HasStoredSettings, vars, memVars, storeVars, worldVars, outerVars
<1> QED
  BY <1>1, <1>2, <1>3, <1>4, <1>5, <1>6, <1>7, <1>8, <1>9 DEF Next, Startup

\* What init knows holds in every reachable state.
LEMMA StartupInvariant == Spec => []StartupInv
<1>1. Init => StartupInv
  BY DEF Init, StartupInv
<1>2. TypeOK /\ StartupInv /\ [Next]_vars => StartupInv'
  BY StartupStep
<1> QED
  BY <1>1, <1>2, TypeCorrect, PTL DEF Spec

\* Startup keeps the settings of every device that stays known, and loses none
\* that is stored, or in the plain build paired, whatever BTRMGR lists: the
\* reconciliation only completes records.
THEOREM StartupIsFaithful == Spec => StartupKeepsSettings
<1> DEFINE Known == IF build = "plain" THEN paired \subseteq DOMAIN cache'
                    ELSE DOMAIN deviceInfo \subseteq DOMAIN cache'
           Kept == \A d \in DOMAIN cache' :
                     Settings(cache'[d]) =
                         IF d \in DOMAIN deviceInfo THEN Settings(deviceInfo[d])
                         ELSE Settings(FreshInfo(d))
<1>1. TypeOK /\ StartupInv /\ [Next]_vars
        => [phase # "up" /\ phase' = "up" /\ Persisting /\ deviceInfo # NoInfo =>
              Known /\ Kept]_vars
  <2> SUFFICES ASSUME TypeOK, StartupInv, Next, phase # "up", phase' = "up",
                      Persisting, deviceInfo # NoInfo
               PROVE  Known /\ Kept
    OBVIOUS
  <2>1. CASE InitReadMarker
    BY <2>1 DEF InitReadMarker, StartupInv, Persisting
  <2>2. CASE InitLoadCache
    <3>1. phase = "loading" /\ build = "migration" /\ cache' = deviceInfo
      BY <2>2 DEF InitLoadCache, AbortInit, StartupInv
    <3> QED
      BY <3>1
  <2>3. CASE InitReconcile
    BY <2>3 DEF InitReconcile, AbortInit
  <2>4. CASE InitStore
    BY <2>4 DEF InitStore, AbortInit, StartupInv, HasStoredSettings
  <2>5. CASE Restart
    BY <2>5 DEF Restart
  <2>6. CASE ExternalUnpair
    BY <2>6 DEF ExternalUnpair, memVars
  <2>7. ASSUME NEW t \in Threads, NEW o \in Operations, NEW e \in Devices, Call(t, o, e)
        PROVE  FALSE
    BY <2>7 DEF Call, At
  <2>8. ASSUME NEW t \in Threads, Step(t)
        PROVE  FALSE
    BY <2>8, StepIsLocal
  <2> QED
    BY <2>1, <2>2, <2>3, <2>4, <2>5, <2>6, <2>7, <2>8 DEF Next, Startup
<1> QED
  BY <1>1, TypeCorrect, StartupInvariant, PTL DEF Spec, StartupKeepsSettings

-----------------------------------------------------------------------------
(* The marker and the store it stands for                                  *)

\* The operations under way are those the threads call, and the migration
\* belongs to the migration build.
CallInv ==
    /\ isMigrated => build = "migration"
    /\ \A t \in Threads :
        /\ op[t] \in Operations \cup {"none"}
        /\ op[t] \in {"performMigration", "clearMigration"} => build = "migration"

\* No step sets the flag or starts a migration operation in the plain build.
LEMMA CallInvStep ==
    ASSUME TypeOK, MigrationInv, StartupInv, CallInv, [Next]_vars
    PROVE  CallInv'
<1>1. CASE Startup
  BY <1>1 DEF CallInv, Startup, InitReadMarker, InitLoadCache, InitReconcile, InitStore,
              AbortInit, threadVars, outerVars
<1>2. CASE Restart
  BY <1>2 DEF CallInv, Restart
<1>3. CASE ExternalUnpair
  BY <1>3 DEF CallInv, ExternalUnpair, memVars, threadVars, outerVars
<1>4. ASSUME NEW t \in Threads, NEW o \in Operations, NEW d \in Devices, Call(t, o, d)
      PROVE  CallInv'
  BY <1>4 DEF CallInv, Call, TypeOK, memVars
<1>5. ASSUME NEW t \in Threads, Step(t)
      PROVE  CallInv'
  <2>1. build' = build /\ \A u \in Threads : op'[u] \in {op[u], "none"}
    BY <1>5, StepIsLocal DEF outerVars
  <2>2. isMigrated' => isMigrated \/ op[t] = "performMigration"
    <3>1. CASE isMigrated' = isMigrated
      BY <3>1
    <3>2. CASE PmSetMigrated(t)
      BY <3>2 DEF PmSetMigrated, At, MigrationInv, OpInv, PerformSteps
    <3>3. CASE ClReset(t)
      BY <3>3 DEF ClReset
    <3> QED
      BY <1>5, <3>1, <3>2, <3>3, SharedWriters
  <2> QED
    BY <2>1, <2>2 DEF CallInv
<1>6. CASE UNCHANGED vars
  BY <1>6 DEF CallInv, vars, memVars, threadVars, outerVars
<1> QED
  BY <1>1, <1>2, <1>3, <1>4, <1>5, <1>6 DEF Next

\* Operations and builds match in every reachable state.
LEMMA CallInvariant == Spec => []CallInv
<1>1. Init => CallInv
  BY DEF Init, CallInv
<1>2. TypeOK /\ MigrationInv /\ StartupInv /\ CallInv /\ [Next]_vars => CallInv'
  BY CallInvStep
<1> QED
  BY <1>1, <1>2, TypeCorrect, MigrationInvariant, StartupInvariant, PTL DEF Spec

\* clearMigration, if it is called at all, is neither stopped by a failing
\* deletion nor cut short by the death of the process.
ClearIsWhole ==
    "clearMigration" \in Operations => MaxRestarts = 0 /\ "storeDelete" \notin Faults

\* Only between its two deletions may clearMigration leave a marker without the
\* store it stands for.
StoredIsMarked ==
    marker = "1" /\ deviceInfo = NoInfo => \E t \in Threads : pc[t] = "clDeleteMarker"

\* No step makes such a store, or leaves clearMigration with one.
LEMMA StoredIsMarkedStep ==
    ASSUME ClearIsWhole, TypeOK, MigrationInv, CallInv, StoredIsMarked, [Next]_vars
    PROVE  StoredIsMarked'
<1>1. CASE Startup
  BY <1>1, DataAssumption, StoreViewType
  DEF StoredIsMarked, Startup, InitReadMarker, InitLoadCache, InitReconcile, InitStore,
      TypeOK, storeVars, threadVars
<1>2. CASE Restart
  <2>1. "clearMigration" \notin Operations
    BY <1>2 DEF Restart, ClearIsWhole, TypeOK
  <2>2. \A t \in Threads : pc[t] # "clDeleteMarker"
    BY <2>1 DEF CallInv, MigrationInv, OpInv, ClearSteps
  <2> QED
    BY <1>2, <2>2 DEF StoredIsMarked, Restart, storeVars
<1>3. CASE ExternalUnpair
  BY <1>3 DEF StoredIsMarked, ExternalUnpair, storeVars, threadVars
<1>4. ASSUME NEW t \in Threads, NEW o \in Operations, NEW d \in Devices, Call(t, o, d)
      PROVE  StoredIsMarked'
  BY <1>4 DEF StoredIsMarked, Call, At, TypeOK, storeVars
<1>5. ASSUME NEW t \in Threads, Step(t)
      PROVE  StoredIsMarked'
  <2>1. CASE ClDeleteMarker(t)
    <3>1. "storeDelete" \notin Faults
      BY <2>1 DEF ClDeleteMarker, At, MigrationInv, OpInv, ClearSteps, CallInv, ClearIsWhole
    <3> QED
      BY <2>1, <3>1 DEF ClDeleteMarker, Fails, StoredIsMarked
  <2>2. CASE PmWriteMarker(t)
    BY <2>2 DEF PmWriteMarker, At, MigrationInv, StoredInv, Goto, Return, TypeOK, StoredIsMarked
  <2>3. CASE WsSetValue(t)
    BY <2>3, DataAssumption DEF WsSetValue, At, Goto, Return, TypeOK, StoredIsMarked
  <2>4. CASE ClDeleteInfo(t)
    BY <2>4 DEF ClDeleteInfo, At, Goto, Return, TypeOK, StoredIsMarked
  <2>5. CASE UNCHANGED storeVars /\ ~ClDeleteMarker(t)
    <3>1. pc[t] # "clDeleteMarker"
      BY <1>5, <2>5, StepAt
    <3> QED
      BY <1>5, <2>5, <3>1, StepIsLocal DEF StoredIsMarked, storeVars
  <2> QED
    BY <1>5, <2>1, <2>2, <2>3, <2>4, <2>5, SharedWriters DEF storeVars
<1>6. CASE UNCHANGED vars
  BY <1>6 DEF StoredIsMarked, vars, storeVars, threadVars
<1> QED
  BY <1>1, <1>2, <1>3, <1>4, <1>5, <1>6 DEF Next

\* It holds whenever clearMigration is whole.
LEMMA StoredIsMarkedInvariant ==
    ASSUME ClearIsWhole
    PROVE  Spec => []StoredIsMarked
<1>1. Init => StoredIsMarked
  BY DEF Init, StoredIsMarked
<1>2. TypeOK /\ MigrationInv /\ CallInv /\ StoredIsMarked /\ [Next]_vars => StoredIsMarked'
  BY StoredIsMarkedStep
<1> QED
  BY <1>1, <1>2, TypeCorrect, MigrationInvariant, CallInvariant, PTL DEF Spec

\* If clearMigration is not cut short, a marker in the store means a store to
\* trust, whoever else is writing.
THEOREM MarkerHasStore ==
    ASSUME ClearIsWhole
    PROVE  Spec => []MarkerMeansStored
<1>1. StoredIsMarked => MarkerMeansStored
  BY DEF StoredIsMarked, MarkerMeansStored, Quiet
<1> QED
  BY <1>1, StoredIsMarkedInvariant, PTL
=============================================================================
