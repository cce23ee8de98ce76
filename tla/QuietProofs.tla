---------------------------- MODULE QuietProofs -----------------------------
(***************************************************************************)
(* The four places a pairing lives in - BTRMGR, the cache, PersistentStore *)
(* and the AS file - and what they share whenever nobody is at work.       *)
(* Calls do not overlap.  Each theorem names, as a hypothesis about the    *)
(* constants, what must not fail for it to hold; everything else may.      *)
(***************************************************************************)
EXTENDS SerialCallsProofs

-----------------------------------------------------------------------------
(* What is known at startup                                                *)

\* No start finds a finished migration: the plugin is started once, or it is
\* always the build without.
NeverLoads == MaxRestarts = 0 \/ "migration" \notin Builds

\* Then init in the build with migration has nothing to load.
FirstStartInv ==
    NeverLoads =>
        /\ build \in Builds
        /\ build = "migration" /\ phase # "up" => phase = "down" /\ marker # "1"

\* The bound on restarts, or the choice of builds, keeps it so.
LEMMA FirstStartInvariant == Spec => []FirstStartInv
<1>1. Init => FirstStartInv
  BY DEF Init, FirstStartInv
<1>2. TypeOK /\ StartupInv /\ FirstStartInv /\ [Next]_vars => FirstStartInv'
  <2> SUFFICES ASSUME TypeOK, StartupInv, FirstStartInv, [Next]_vars, NeverLoads
               PROVE  /\ build' \in Builds
                      /\ build' = "migration" /\ phase' # "up" => phase' = "down" /\ marker' # "1"
    BY DEF FirstStartInv
  <2>1. CASE Startup
    BY <2>1 DEF FirstStartInv, StartupInv, Startup, InitReadMarker, InitLoadCache, InitReconcile,
                InitStore, AbortInit, storeVars, outerVars
  <2>2. CASE Restart
    <3>1. "migration" \notin Builds /\ build' \in Builds
      BY <2>2 DEF Restart, NeverLoads, TypeOK
    <3> QED
      BY <3>1
  <2>3. CASE ExternalUnpair
    BY <2>3 DEF FirstStartInv, ExternalUnpair, memVars, storeVars, outerVars
  <2>4. ASSUME NEW t \in Threads, NEW o \in Operations, NEW d \in Devices, Call(t, o, d)
        PROVE  phase' = "up" /\ build' = build
    BY <2>4 DEF Call, At, memVars
  <2>5. ASSUME NEW t \in Threads, Step(t)
        PROVE  phase' = "up" /\ build' = build
    BY <2>5, StepIsLocal DEF outerVars
  <2>6. CASE UNCHANGED vars
    BY <2>6 DEF FirstStartInv, vars, memVars, storeVars, outerVars
  <2> QED
    BY <2>1, <2>2, <2>3, <2>4, <2>5, <2>6 DEF Next, FirstStartInv
<1> QED
  BY <1>1, <1>2, TypeCorrect, StartupInvariant, PTL DEF Spec

\* The marker is read without failure wherever a start may find it set.
MarkerIsReadable == "storeRead" \notin Faults \/ NeverLoads

\* Then a plugin with a marker in the store knows that it is migrated, or is
\* about to.
KnownInv ==
    phase = "up" /\ build = "migration" /\ marker = "1"
        => isMigrated \/ \E t \in Threads : pc[t] = "pmSetMigrated"

\* The step that writes the marker is followed by the one that sets the flag,
\* and the flag is reset after the marker is deleted.
LEMMA KnownInvariant ==
    ASSUME MarkerIsReadable
    PROVE  Spec => []KnownInv
<1>1. Init => KnownInv
  BY DEF Init, KnownInv
<1>2. TypeOK /\ MigrationInv /\ StartupInv /\ FirstStartInv /\ KnownInv /\ [Next]_vars
        => KnownInv'
  <2> SUFFICES ASSUME TypeOK, MigrationInv, StartupInv, FirstStartInv, KnownInv, [Next]_vars
               PROVE  KnownInv'
    OBVIOUS
  <2>1. CASE InitReadMarker
    BY <2>1 DEF KnownInv, InitReadMarker, Fails, MarkerIsReadable, FirstStartInv, NeverLoads,
                storeVars
  <2>2. CASE InitLoadCache \/ InitReconcile \/ InitStore
    BY <2>2 DEF KnownInv, InitLoadCache, InitReconcile, InitStore, AbortInit, StartupInv,
                outerVars
  <2>3. CASE Restart
    BY <2>3 DEF KnownInv, Restart
  <2>4. CASE ExternalUnpair
    BY <2>4 DEF KnownInv, ExternalUnpair, memVars, storeVars, threadVars, outerVars
  <2>5. ASSUME NEW t \in Threads, NEW o \in Operations, NEW d \in Devices, Call(t, o, d)
        PROVE  KnownInv'
    BY <2>5 DEF KnownInv, Call, At, TypeOK, memVars, storeVars
  <2>6. ASSUME NEW t \in Threads, Step(t)
        PROVE  KnownInv'
    <3>1. CASE PmSetMigrated(t)
      BY <3>1 DEF PmSetMigrated, KnownInv
    <3>2. CASE ClReset(t)
      BY <3>2 DEF ClReset, At, storeVars, MigrationInv, MarkerInv, Unmarked, KnownInv
    <3>3. CASE PmWriteMarker(t) /\ marker' = "1" /\ marker # "1"
      BY <3>3 DEF PmWriteMarker, Goto, TypeOK, KnownInv
    <3>4. CASE isMigrated' = isMigrated /\ (marker' = "1" => marker = "1") /\ ~PmSetMigrated(t)
      <4>1. /\ phase = "up" /\ build' = build /\ pc[t] # "pmSetMigrated"
            /\ \A u \in Threads \ {t} : pc'[u] = pc[u]
        BY <2>6, <3>4, StepIsLocal, StepAt DEF outerVars
      <4> QED
        BY <3>4, <4>1 DEF KnownInv
    <3> QED
      BY <2>6, <3>1, <3>2, <3>3, <3>4, SharedWriters DEF ClDeleteMarker
  <2>7. CASE UNCHANGED vars
    BY <2>7 DEF KnownInv, vars, memVars, storeVars, threadVars, outerVars
  <2> QED
    BY <2>1, <2>2, <2>3, <2>4, <2>5, <2>6, <2>7 DEF Next, Startup
<1> QED
  BY <1>1, <1>2, TypeCorrect, MigrationInvariant, StartupInvariant, FirstStartInvariant, PTL
  DEF Spec

-----------------------------------------------------------------------------
(* The store agrees with the cache                                         *)

\* Nothing comes between a change and its write: the store and its marker can be
\* read and written, and clearMigration is not cut short.
StoreIsReliable == MarkerIsReadable /\ "storeWrite" \notin Faults /\ ClearIsWhole

\* The thread has changed the cache, or the store, and not yet the other.
Unsaved(t) == pc[t] \in {"gate", "wsSnapshot", "wsSetValue",
                         "clDeleteMarker", "clClearCache", "clReset"}

\* In a plugin that persists, or is about to, the store is the cache unless
\* somebody is on the way to making it so.
SavedInv ==
    /\ phase = "up" /\ Persisting
         => deviceInfo = StoreView(cache) \/ \E t \in Threads : Unsaved(t)
    /\ \A t \in Threads : pc[t] = "pmSetMigrated" => deviceInfo = StoreView(cache)

\* Every path from a change of the cache leads to the write of the store, and
\* every path of clearMigration to the flag that stops the persisting.
LEMMA SavedStep ==
    ASSUME StoreIsReliable, TypeOK, MigrationInv, CallInv, KnownInv, UndisturbedInv, SavedInv,
           Serial, Serial', NEW t \in Threads, Step(t)
    PROVE  SavedInv'
<1> USE DEF SavedInv, Unsaved, TypeOK, At, Goto, Return, outerVars
<1>0. /\ \A u \in Threads \ {t} : pc[u] = "idle" /\ pc'[u] = "idle"
      /\ phase = "up" /\ build' = build
  BY OthersIdle, StepIsLocal
<1>1. CASE PerformMigration(t)
  <2>0. build = "migration"
    BY <1>1 DEF PerformMigration, PmLock, PmReadMarker, PmReadFile, PmGetPaired, PmSwapCache,
                PmCheckEmpty, PmEnrich, PmBackfill, PmWriteMarker, PmSetMigrated,
                MigrationInv, OpInv, PerformSteps, CallInv
  <2>1. CASE PmReadMarker(t)
    <3>1. marker = "1" => deviceInfo = StoreView(cache)
      BY <1>0, <2>0, <2>1 DEF PmReadMarker, KnownInv, Persisting
    <3> QED
      BY <1>0, <2>1, <3>1 DEF PmReadMarker, Persisting, storeVars
  <2>2. CASE PmSwapCache(t) \/ PmBackfill(t)
    <3>1. ~isMigrated /\ ~isMigrated'
      BY <2>2 DEF PmSwapCache, PmBackfill, MigrationInv, MarkerInv, Importing, PerformSteps
    <3> QED
      BY <1>0, <2>0, <2>2, <3>1 DEF PmSwapCache, PmBackfill, Persisting
  <2>3. CASE PmWriteMarker(t)
    BY <1>0, <2>3 DEF PmWriteMarker, UndisturbedInv, Undisturbed, Persisting
  <2>4. CASE PmSetMigrated(t)
    BY <1>0, <2>4 DEF PmSetMigrated, storeVars
  <2>5. CASE PmLock(t) \/ PmCheckEmpty(t)
    BY <1>0, <2>5 DEF PmLock, PmCheckEmpty, Persisting, memVars, storeVars
  <2>6. CASE PmReadFile(t) \/ PmGetPaired(t) \/ PmEnrich(t)
    BY <1>0, <2>6 DEF PmReadFile, PmGetPaired, PmEnrich, Persisting, storeVars
  <2> QED
    BY <1>1, <2>1, <2>2, <2>3, <2>4, <2>5, <2>6 DEF PerformMigration
<1>2. CASE ClearMigration(t)
  <2>0. build = "migration" /\ "clearMigration" \in Operations
    BY <1>2 DEF ClearMigration, ClLock, ClDeleteInfo, ClDeleteMarker, ClClearCache, ClReset,
                MigrationInv, OpInv, ClearSteps, CallInv
  <2>1. "storeDelete" \notin Faults
    BY <2>0 DEF StoreIsReliable, ClearIsWhole
  <2>2. CASE ClLock(t)
    BY <1>0, <2>2 DEF ClLock, Persisting, storeVars
  <2>3. CASE ClDeleteInfo(t) \/ ClDeleteMarker(t)
    BY <1>0, <2>1, <2>3 DEF ClDeleteInfo, ClDeleteMarker, Fails
  <2>4. CASE ClClearCache(t)
    BY <1>0, <2>4 DEF ClClearCache
  <2>5. CASE ClReset(t)
    BY <1>0, <2>0, <2>5 DEF ClReset, Persisting
  <2> QED
    BY <1>2, <2>2, <2>3, <2>4, <2>5 DEF ClearMigration
<1>3. CASE UpdateDevice(t)
  <2>1. CASE SaIsMigrated(t) \/ LcRead(t) \/ BtPair(t) \/ BtUnpair(t)
    BY <1>0, <2>1 DEF SaIsMigrated, LcRead, BtPair, BtUnpair, Persisting, storeVars
  <2>2. CASE SaUpdate(t) \/ LvUpdate(t)
    BY <1>0, <2>2 DEF SaUpdate, LvUpdate, Persisting, storeVars
  <2>3. CASE LcWrite(t) \/ AdAdd(t) \/ RmErase(t)
    BY <1>0, <2>3 DEF LcWrite, AdAdd, RmErase, Persisting, storeVars
  <2>4. CASE Gate(t)
    BY <1>0, <2>4 DEF Gate, Persisting, storeVars
  <2> QED
    BY <1>3, <2>1, <2>2, <2>3, <2>4 DEF UpdateDevice
<1>4. CASE WriteStorage(t)
  <2>1. CASE WsSnapshot(t)
    BY <1>0, <2>1 DEF WsSnapshot
  <2>2. CASE WsSetValue(t)
    BY <1>0, <2>2 DEF WsSetValue, Fails, StoreIsReliable, UndisturbedInv, Undisturbed
  <2>3. CASE WsIsMigrated(t) \/ FsSnapshot(t) \/ FsWrite(t)
    BY <1>0, <2>3 DEF WsIsMigrated, FsSnapshot, FsWrite, WriteDone, Persisting, memVars, storeVars
  <2> QED
    BY <1>4, <2>1, <2>2, <2>3 DEF WriteStorage
<1> QED
  BY <1>1, <1>2, <1>3, <1>4 DEF Step

\* A start ends with the cache that is in the store.
LEMMA SavedAtStartup ==
    ASSUME ClearIsWhole, TypeOK, MigrationInv, StartupInv, StoredForm, StoredIsMarked, Startup
    PROVE  SavedInv'
<1>1. (\A t \in Threads : pc[t] = "idle") /\ UNCHANGED <<pc, build>>
  BY DEF Startup, InitReadMarker, InitLoadCache, InitReconcile, InitStore, threadVars, outerVars,
         MigrationInv, OpInv
<1>2. phase' = "up" /\ Persisting' => deviceInfo' = StoreView(cache')
  <2>1. CASE InitReadMarker
    BY <2>1 DEF InitReadMarker, Persisting, outerVars
  <2>2. CASE InitLoadCache
    <3>1. CASE phase' = "up"
      <4>1. /\ phase = "loading" /\ isMigrated /\ deviceInfo' = deviceInfo
            /\ cache' = IF deviceInfo = NoInfo THEN cache ELSE deviceInfo
        BY <2>2, <3>1 DEF InitLoadCache, AbortInit, StartupInv, storeVars
      <4>2. marker = "1"
        BY <1>1, <4>1 DEF MigrationInv, MarkerInv, Unmarked
      <4>3. deviceInfo # NoInfo
        BY <1>1, <4>2 DEF StoredIsMarked
      <4> QED
        BY <4>1, <4>2, <4>3 DEF StoredForm, AsStored
    <3> QED
      BY <3>1
  <2>3. CASE InitReconcile
    BY <2>3 DEF InitReconcile, AbortInit
  <2>4. CASE InitStore
    BY <2>4 DEF InitStore, AbortInit
  <2> QED
    BY <2>1, <2>2, <2>3, <2>4 DEF Startup
<1> QED
  BY <1>1, <1>2 DEF SavedInv

\* The invariant, as long as calls do not overlap.
LEMMA SavedInvariant ==
    ASSUME StoreIsReliable
    PROVE  Spec /\ []Serial => []SavedInv
<1>1. Init => SavedInv
  BY DEF Init, SavedInv
<1>2. TypeOK /\ MigrationInv /\ StartupInv /\ CallInv /\ KnownInv /\ UndisturbedInv
      /\ StoredForm /\ StoredIsMarked /\ SavedInv /\ Serial /\ Serial' /\ [Next]_vars
        => SavedInv'
  <2> SUFFICES ASSUME TypeOK, MigrationInv, StartupInv, CallInv, KnownInv, UndisturbedInv,
                      StoredForm, StoredIsMarked, SavedInv, Serial, Serial', [Next]_vars
               PROVE  SavedInv'
    OBVIOUS
  <2>1. CASE Startup
    BY <2>1, SavedAtStartup DEF StoreIsReliable
  <2>2. CASE Restart
    BY <2>2 DEF Restart, SavedInv
  <2>3. CASE ExternalUnpair
    BY <2>3 DEF ExternalUnpair, SavedInv, Unsaved, Persisting, memVars, storeVars, threadVars,
                outerVars
  <2>4. ASSUME NEW t \in Threads, NEW o \in Operations, NEW d \in Devices, Call(t, o, d)
        PROVE  SavedInv'
    <3>1. /\ UNCHANGED <<phase, cache, isMigrated, deviceInfo, build>> /\ pc[t] = "idle"
          /\ pc' = [pc EXCEPT ![t] = FirstStep(o)] /\ FirstStep(o) # "pmSetMigrated"
      BY <2>4, ManagerAssumption
      DEF Call, At, FirstStep, AllOperations, memVars, storeVars
    <3> QED
      BY <3>1 DEF SavedInv, Unsaved, Persisting, TypeOK
  <2>5. ASSUME NEW t \in Threads, Step(t)
        PROVE  SavedInv'
    BY <2>5, SavedStep
  <2>6. CASE UNCHANGED vars
    BY <2>6 DEF SavedInv, Unsaved, Persisting, vars, memVars, storeVars, threadVars, outerVars
  <2> QED
    BY <2>1, <2>2, <2>3, <2>4, <2>5, <2>6 DEF Next
<1>3. Spec => [](KnownInv /\ StoredIsMarked)
  BY KnownInvariant, StoredIsMarkedInvariant, PTL DEF StoreIsReliable
<1> QED
  BY <1>1, <1>2, <1>3, TypeCorrect, MigrationInvariant, StartupInvariant, CallInvariant,
     SerialIsUndisturbed, StoredFormInvariant, PTL
  DEF Spec

\* As long as calls do not overlap and the store is reliable, whenever nobody is
\* at work the store holds the whole cache of a plugin that persists: after every
\* operation, in both builds, and after every restart.
THEOREM StoreAgrees ==
    ASSUME StoreIsReliable
    PROVE  Spec /\ []Serial => []StoreAgreesWithCache
<1>1. SavedInv => StoreAgreesWithCache
  BY DEF SavedInv, StoreAgreesWithCache, Quiet, Unsaved
<1> QED
  BY <1>1, SavedInvariant, PTL

-----------------------------------------------------------------------------
(* The cache agrees with the pairings                                      *)

\* Pairings change by the plugin's own calls only, which do not fail, and no
\* start takes over a cache that was saved before.
PairingIsReliable == NeverLoads /\ Faults \cap {"btrmgr", "externalUnpair"} = {}

\* setDevicePairing is between BTRMGR and the cache.
Adding(d)   == \E t \in Threads : pc[t] = "adAdd" /\ dev[t] = d
Removing(d) == \E t \in Threads : pc[t] = "rmErase" /\ dev[t] = d

\* Cache and pairings differ at most by the device somebody is adding or
\* removing.  (With migration, a device may be paired and not known: the cache
\* starts empty.)
PairedInv ==
    /\ phase = "storing" => DOMAIN cache = paired
    /\ phase = "up" =>
        /\ \A d \in DOMAIN cache \ paired : Removing(d)
        /\ build = "plain" => \A d \in paired \ DOMAIN cache : Adding(d)
    /\ \A t \in Threads :
        /\ pc[t] = "pmSwapCache" => DOMAIN snap[t] \subseteq paired
        /\ pc[t] = "adAdd"       => dev[t] \in paired
        /\ pc[t] = "rmErase"     => dev[t] \notin paired

\* Only setDevicePairing, the import and clearMigration change what devices the
\* cache has.
LEMMA PairedStep ==
    ASSUME PairingIsReliable, TypeOK, MigrationInv, CallInv, UndisturbedInv, PairedInv,
           Serial, Serial', NEW t \in Threads, Step(t)
    PROVE  PairedInv'
<1> USE DEF PairedInv, Adding, Removing, TypeOK, At, Goto, Return, outerVars
<1>0. /\ \A u \in Threads \ {t} : pc[u] = "idle" /\ pc'[u] = "idle"
      /\ phase = "up" /\ phase' = "up" /\ build' = build
  BY OthersIdle, StepIsLocal
<1>1. CASE PerformMigration(t)
  <2>0. build = "migration"
    BY <1>1 DEF PerformMigration, PmLock, PmReadMarker, PmReadFile, PmGetPaired, PmSwapCache,
                PmCheckEmpty, PmEnrich, PmBackfill, PmWriteMarker, PmSetMigrated,
                MigrationInv, OpInv, PerformSteps, CallInv
  <2>1. CASE PmLock(t) \/ PmReadMarker(t) \/ PmWriteMarker(t) \/ PmSetMigrated(t)
    BY <1>0, <2>1 DEF PmLock, PmReadMarker, PmWriteMarker, PmSetMigrated, worldVars
  <2>2. CASE PmReadFile(t)
    BY <1>0, <2>2 DEF PmReadFile, EmptyMap, worldVars
  <2>3. CASE PmGetPaired(t)
    BY <1>0, <2>3 DEF PmGetPaired, Import, worldVars
  <2>4. CASE PmSwapCache(t)
    BY <1>0, <2>0, <2>4 DEF PmSwapCache, worldVars
  <2>5. CASE PmCheckEmpty(t) \/ PmEnrich(t)
    BY <1>0, <2>5 DEF PmCheckEmpty, PmEnrich, memVars, worldVars
  <2>6. CASE PmBackfill(t)
    BY <1>0, <2>0, <2>6 DEF PmBackfill, Backfill, worldVars
  <2> QED
    BY <1>1, <2>1, <2>2, <2>3, <2>4, <2>5, <2>6 DEF PerformMigration
<1>2. CASE ClearMigration(t)
  <2>0. build = "migration"
    BY <1>2 DEF ClearMigration, ClLock, ClDeleteInfo, ClDeleteMarker, ClClearCache, ClReset,
                MigrationInv, OpInv, ClearSteps, CallInv
  <2>1. DOMAIN cache' \subseteq DOMAIN cache /\ paired' = paired
    BY <1>2 DEF ClearMigration, ClLock, ClDeleteInfo, ClDeleteMarker, ClClearCache, ClReset,
                EmptyMap, worldVars
  <2>2. pc[t] # "rmErase" /\ pc'[t] \notin {"pmSwapCache", "adAdd", "rmErase"}
    BY <1>2 DEF ClearMigration, ClLock, ClDeleteInfo, ClDeleteMarker, ClClearCache, ClReset
  <2> QED
    BY <1>0, <2>0, <2>1, <2>2
<1>3. CASE UpdateDevice(t)
  <2>1. CASE SaIsMigrated(t) \/ LcRead(t) \/ Gate(t)
    BY <1>0, <2>1 DEF SaIsMigrated, LcRead, Gate, worldVars
  <2>2. CASE SaUpdate(t) \/ LcWrite(t) \/ LvUpdate(t)
    <3>1. DOMAIN cache' = DOMAIN cache /\ paired' = paired
      <4>1. cache \in [DOMAIN cache -> BluetoothDeviceInfo]
        BY MapElim
      <4> QED
        BY <2>2, <4>1 DEF SaUpdate, LcWrite, LvUpdate, Put, UndisturbedInv, Undisturbed, worldVars
    <3>2. pc[t] \notin {"adAdd", "rmErase"} /\ pc'[t] \notin {"pmSwapCache", "adAdd", "rmErase"}
      BY <2>2 DEF SaUpdate, LcWrite, LvUpdate
    <3> QED
      BY <1>0, <3>1, <3>2
  <2>3. CASE BtPair(t)
    <3>1. paired' = paired \cup {dev[t]} /\ Goto(t, "adAdd") /\ UNCHANGED <<cache, dev>>
      BY <2>3 DEF BtPair, Fails, PairingIsReliable, localVars
    <3> QED
      BY <1>0, <2>3, <3>1 DEF BtPair
  <2>4. CASE AdAdd(t)
    <3>1. DOMAIN cache' = DOMAIN cache \cup {dev[t]} /\ Goto(t, "gate") /\ paired' = paired
      BY <2>4 DEF AdAdd, Put, Fails, PairingIsReliable, worldVars
    <3> QED
      BY <1>0, <2>4, <3>1 DEF AdAdd
  <2>5. CASE BtUnpair(t)
    <3>1. paired' = paired \ {dev[t]} /\ Goto(t, "rmErase") /\ UNCHANGED <<cache, dev>>
      BY <2>5 DEF BtUnpair, Fails, PairingIsReliable, localVars
    <3> QED
      BY <1>0, <2>5, <3>1 DEF BtUnpair
  <2>6. CASE RmErase(t)
    <3>1. /\ \A d : d \in DOMAIN cache' <=> d \in DOMAIN cache /\ d # dev[t]
          /\ paired' = paired
          /\ pc'[t] \in {"gate", "idle"}
      BY <2>6 DEF RmErase, Erase, worldVars
    <3> QED
      BY <1>0, <2>6, <3>1 DEF RmErase
  <2> QED
    BY <1>3, <2>1, <2>2, <2>3, <2>4, <2>5, <2>6 DEF UpdateDevice
<1>4. CASE WriteStorage(t)
  <2>1. UNCHANGED <<cache, paired>>
    BY <1>4 DEF WriteStorage, WsSnapshot, WsSetValue, WsIsMigrated, FsSnapshot, FsWrite,
                memVars, worldVars
  <2>2. pc[t] \notin {"adAdd", "rmErase"} /\ pc'[t] \notin {"pmSwapCache", "adAdd", "rmErase"}
    BY <1>4 DEF WriteStorage, WsSnapshot, WsSetValue, WsIsMigrated, FsSnapshot, FsWrite, WriteDone
  <2> QED
    BY <1>0, <2>1, <2>2
<1> QED
  BY <1>1, <1>2, <1>3, <1>4 DEF Step

\* A start ends with an empty cache, or with a reconciled one.
LEMMA PairedAtStartup ==
    ASSUME PairingIsReliable, MigrationInv, StartupInv, FirstStartInv, PairedInv, Startup
    PROVE  PairedInv'
<1>0. (\A t \in Threads : pc'[t] = "idle") /\ UNCHANGED <<paired, build>>
  BY DEF Startup, InitReadMarker, InitLoadCache, InitReconcile, InitStore, threadVars, outerVars,
         worldVars, MigrationInv, OpInv
<1>1. CASE InitReadMarker
  BY <1>0, <1>1 DEF InitReadMarker, PairedInv, StartupInv, EmptyMap
<1>2. CASE InitLoadCache
  BY <1>0, <1>2
  DEF InitLoadCache, AbortInit, PairedInv, StartupInv, FirstStartInv, PairingIsReliable
<1>3. CASE InitReconcile
  BY <1>0, <1>3, ReconcileKeepsSettings DEF InitReconcile, AbortInit, PairedInv, Reconcile
<1>4. CASE InitStore
  BY <1>0, <1>4 DEF InitStore, AbortInit, PairedInv
<1> QED
  BY <1>1, <1>2, <1>3, <1>4 DEF Startup

\* The invariant, as long as calls do not overlap.
LEMMA PairedInvariant ==
    ASSUME PairingIsReliable
    PROVE  Spec /\ []Serial => []PairedInv
<1>1. Init => PairedInv
  BY DEF Init, PairedInv
<1>2. TypeOK /\ MigrationInv /\ StartupInv /\ CallInv /\ FirstStartInv /\ UndisturbedInv
      /\ PairedInv /\ Serial /\ Serial' /\ [Next]_vars
        => PairedInv'
  <2> SUFFICES ASSUME TypeOK, MigrationInv, StartupInv, CallInv, FirstStartInv, UndisturbedInv,
                      PairedInv, Serial, Serial', [Next]_vars
               PROVE  PairedInv'
    OBVIOUS
  <2>1. CASE Startup
    BY <2>1, PairedAtStartup
  <2>2. CASE Restart
    BY <2>2 DEF Restart, PairedInv
  <2>3. CASE ExternalUnpair
    BY <2>3 DEF ExternalUnpair, Fails, PairingIsReliable
  <2>4. ASSUME NEW t \in Threads, NEW o \in Operations, NEW d \in Devices, Call(t, o, d)
        PROVE  PairedInv'
    <3>1. /\ UNCHANGED <<phase, cache, paired, build>> /\ pc[t] = "idle"
          /\ pc'[t] \notin {"pmSwapCache", "adAdd", "rmErase"}
      BY <2>4, ManagerAssumption
      DEF Call, At, FirstStep, AllOperations, TypeOK, memVars, worldVars
    <3>2. \A u \in Threads \ {t} : pc[u] = "idle" /\ pc'[u] = "idle"
      BY <2>4, OthersIdle
    <3> QED
      BY <3>1, <3>2 DEF PairedInv, Adding, Removing
  <2>5. ASSUME NEW t \in Threads, Step(t)
        PROVE  PairedInv'
    BY <2>5, PairedStep
  <2>6. CASE UNCHANGED vars
    BY <2>6 DEF PairedInv, Adding, Removing, vars, memVars, worldVars, threadVars, localVars,
                outerVars
  <2> QED
    BY <2>1, <2>2, <2>3, <2>4, <2>5, <2>6 DEF Next
<1> QED
  BY <1>1, <1>2, TypeCorrect, MigrationInvariant, StartupInvariant, CallInvariant,
     FirstStartInvariant, SerialIsUndisturbed, PTL
  DEF Spec

\* As long as calls do not overlap, and pairings change by these calls only,
\* whenever nobody is at work the plugin knows of paired devices only, and in the
\* build without migration, restarts included, of all of them.
THEOREM CacheIsPaired ==
    ASSUME PairingIsReliable
    PROVE  Spec /\ []Serial => []CachedDevicesArePaired
<1>1. PairedInv => CachedDevicesArePaired
  BY DEF PairedInv, CachedDevicesArePaired, Quiet, Adding, Removing
<1> QED
  BY <1>1, PairedInvariant, PTL

-----------------------------------------------------------------------------
(* The AS file agrees with the cache                                       *)

\* What is written to the store reaches the file.
MirrorIsReliable == MarkerIsReadable /\ Faults \cap {"storeWrite", "fileWrite"} = {}

\* The file has, of every device of c that belongs there, what c has.
InFile(c, f) ==
    LET old == FileEntries(f) IN
    \A d \in Mirrored(c) :
        /\ d \in DOMAIN old
        /\ c[d].auto # "unset" => old[d].auto = c[d].auto
        /\ c[d].time # NoTime  => old[d].time = c[d].time
        /\ old[d].vol = c[d].vol

\* The thread has changed the cache, and the file not yet.
Unmirrored(t) == pc[t] \in {"gate", "wsSnapshot", "wsSetValue", "wsIsMigrated",
                            "fsSnapshot", "fsWrite"}

\* In a migrated plugin, or one about to be, the file has the cache, unless
\* somebody is on the way to writing it.
FileInv ==
    /\ isMigrated => InFile(cache, file) \/ \E t \in Threads : Unmirrored(t)
    /\ \A t \in Threads : pc[t] = "pmSetMigrated" => InFile(cache, file)

\* The adapter's merge keeps every setting the cache has.
LEMMA MirrorHasAll ==
    ASSUME NEW c \in DeviceMaps, NEW f \in FileValues
    PROVE  InFile(c, Mirror(c, f))
<1>1. c \in [DOMAIN c -> BluetoothDeviceInfo]
  BY MapElim
<1>2. FileEntries(Mirror(c, f)) = Mirror(c, f)
  BY MirrorType, DataAssumption DEF FileEntries
<1>3. ASSUME NEW d \in Mirrored(c)
      PROVE  /\ c[d].auto # "unset" => MergedInfo(c[d], d, FileEntries(f)).auto = c[d].auto
             /\ c[d].time # NoTime  => MergedInfo(c[d], d, FileEntries(f)).time = c[d].time
             /\ MergedInfo(c[d], d, FileEntries(f)).vol = c[d].vol
  BY <1>1 DEF Mirrored, MergedInfo, BluetoothDeviceInfo
<1> QED
  BY <1>2, <1>3 DEF InFile, Mirror

\* What was imported is in the file it was imported from.
LEMMA ImportedInFile ==
    ASSUME NEW c, Imported(c)
    PROVE  InFile(c, file)
BY DEF Imported, InFile, Mirrored, Settings

\* A cache without addresses owes the file nothing.
LEMMA NothingOwed ==
    ASSUME NEW c \in DeviceMaps, NEW f, c = EmptyMap \/ StoreView(c) = c
    PROVE  InFile(c, f)
<1>1. c \in [DOMAIN c -> BluetoothDeviceInfo]
  BY MapElim
<1>2. ASSUME NEW d \in DOMAIN c PROVE ~c[d].addr
  BY <1>1 DEF StoreView, EmptyMap, BluetoothDeviceInfo
<1> QED
  BY <1>2 DEF InFile, Mirrored

\* Every path from a change of the cache in a migrated plugin leads to the file.
LEMMA FileStep ==
    ASSUME MirrorIsReliable, TypeOK, MigrationInv, CallInv, KnownInv, UndisturbedInv, ImportInv,
           FileInv, Serial, Serial', NEW t \in Threads, Step(t)
    PROVE  FileInv'
<1> USE DEF FileInv, Unmirrored, TypeOK, At, Goto, Return
<1>0. /\ \A u \in Threads \ {t} : pc[u] = "idle" /\ pc'[u] = "idle"
      /\ phase = "up"
  BY OthersIdle, StepIsLocal
<1>1. CASE PerformMigration(t)
  <2>0. build = "migration" /\ file' = file
    BY <1>1 DEF PerformMigration, PmLock, PmReadMarker, PmReadFile, PmGetPaired, PmSwapCache,
                PmCheckEmpty, PmEnrich, PmBackfill, PmWriteMarker, PmSetMigrated,
                MigrationInv, OpInv, PerformSteps, CallInv, worldVars
  <2>1. CASE PmReadMarker(t)
    <3>1. marker = "1" => InFile(cache, file)
      BY <1>0, <2>0, <2>1 DEF PmReadMarker, KnownInv
    <3> QED
      BY <1>0, <2>0, <2>1, <3>1 DEF PmReadMarker
  <2>2. CASE PmSwapCache(t) \/ PmBackfill(t)
    <3>1. ~isMigrated /\ ~isMigrated'
      BY <2>2 DEF PmSwapCache, PmBackfill, MigrationInv, MarkerInv, Importing, PerformSteps
    <3> QED
      BY <1>0, <2>2, <3>1 DEF PmSwapCache, PmBackfill
  <2>3. CASE PmWriteMarker(t)
    <3>1. InFile(cache, file)
      BY <2>3, ImportedInFile DEF PmWriteMarker, ImportInv, ImportedBy, Swapped
    <3> QED
      BY <1>0, <2>0, <2>3, <3>1 DEF PmWriteMarker
  <2>4. CASE PmSetMigrated(t)
    BY <1>0, <2>0, <2>4 DEF PmSetMigrated
  <2>5. CASE PmLock(t) \/ PmCheckEmpty(t)
    BY <1>0, <2>0, <2>5 DEF PmLock, PmCheckEmpty, memVars
  <2>6. CASE PmReadFile(t) \/ PmGetPaired(t) \/ PmEnrich(t)
    BY <1>0, <2>0, <2>6 DEF PmReadFile, PmGetPaired, PmEnrich
  <2> QED
    BY <1>1, <2>1, <2>2, <2>3, <2>4, <2>5, <2>6 DEF PerformMigration
<1>2. CASE ClearMigration(t)
  <2>1. CASE ClLock(t) \/ ClDeleteInfo(t) \/ ClDeleteMarker(t)
    BY <1>0, <2>1 DEF ClLock, ClDeleteInfo, ClDeleteMarker, worldVars
  <2>2. CASE ClClearCache(t)
    BY <1>0, <2>2, EmptyMapType, NothingOwed DEF ClClearCache
  <2>3. CASE ClReset(t)
    BY <1>0, <2>3 DEF ClReset
  <2> QED
    BY <1>2, <2>1, <2>2, <2>3 DEF ClearMigration
<1>3. CASE UpdateDevice(t)
  <2>1. CASE SaIsMigrated(t) \/ LcRead(t)
    BY <1>0, <2>1 DEF SaIsMigrated, LcRead, worldVars
  <2>2. CASE BtPair(t) \/ BtUnpair(t)
    BY <1>0, <2>2 DEF BtPair, BtUnpair
  <2>3. CASE SaUpdate(t) \/ LvUpdate(t)
    BY <1>0, <2>3 DEF SaUpdate, LvUpdate, worldVars
  <2>4. CASE LcWrite(t) \/ AdAdd(t) \/ RmErase(t)
    BY <1>0, <2>4 DEF LcWrite, AdAdd, RmErase, worldVars
  <2>5. CASE Gate(t)
    BY <1>0, <2>5 DEF Gate, Persisting, worldVars
  <2> QED
    BY <1>3, <2>1, <2>2, <2>3, <2>4, <2>5 DEF UpdateDevice
<1>4. CASE WriteStorage(t)
  <2>1. CASE WsSnapshot(t) \/ FsSnapshot(t)
    BY <1>0, <2>1 DEF WsSnapshot, FsSnapshot
  <2>2. CASE WsSetValue(t)
    BY <1>0, <2>2 DEF WsSetValue, Fails, MirrorIsReliable
  <2>3. CASE WsIsMigrated(t)
    BY <1>0, <2>3 DEF WsIsMigrated, WriteDone
  <2>4. CASE FsWrite(t)
    <3>1. cache' = cache /\ file' \in {Mirror(cache, file), Mirror(cache, NoFile)}
      BY <2>4 DEF FsWrite, Fails, MirrorIsReliable, UndisturbedInv, Undisturbed
    <3>2. InFile(cache', file')
      BY <3>1, MirrorHasAll DEF FileValues
    <3> QED
      BY <1>0, <2>4, <3>2 DEF FsWrite, WriteDone
  <2> QED
    BY <1>4, <2>1, <2>2, <2>3, <2>4 DEF WriteStorage
<1> QED
  BY <1>1, <1>2, <1>3, <1>4 DEF Step

\* What init loads has no addresses, so the file owes it nothing.
LEMMA FileAtStartup ==
    ASSUME TypeOK, TypeOK', MigrationInv, StartupInv, CallInv, StoredForm, Startup
    PROVE  FileInv'
<1>1. (\A t \in Threads : pc[t] = "idle") /\ pc' = pc /\ cache' \in DeviceMaps
  BY DEF Startup, InitReadMarker, InitLoadCache, InitReconcile, InitStore, threadVars,
         MigrationInv, OpInv, TypeOK
<1>2. isMigrated' => cache' = EmptyMap \/ StoreView(cache') = cache'
  <2>1. CASE InitReadMarker
    BY <2>1 DEF InitReadMarker, StartupInv
  <2>2. CASE InitLoadCache
    <3>1. CASE isMigrated'
      <4>1. /\ isMigrated /\ build = "migration" /\ phase = "loading"
            /\ cache' = IF deviceInfo = NoInfo THEN cache ELSE deviceInfo
        BY <2>2, <3>1 DEF InitLoadCache, AbortInit, CallInv
      <4>2. marker = "1" /\ cache = EmptyMap
        BY <1>1, <4>1 DEF MigrationInv, MarkerInv, Unmarked, StartupInv
      <4> QED
        BY <4>1, <4>2 DEF StoredForm, AsStored
    <3> QED
      BY <3>1
  <2>3. CASE InitReconcile \/ InitStore
    BY <2>3 DEF InitReconcile, InitStore, AbortInit, StartupInv, CallInv
  <2> QED
    BY <2>1, <2>2, <2>3 DEF Startup
<1>3. isMigrated' => InFile(cache', file')
  BY <1>1, <1>2, NothingOwed
<1> QED
  BY <1>1, <1>3 DEF FileInv

\* The invariant, as long as calls do not overlap.
LEMMA FileInvariant ==
    ASSUME MirrorIsReliable
    PROVE  Spec /\ []Serial => []FileInv
<1>1. Init => FileInv
  BY DEF Init, FileInv
<1>2. TypeOK /\ TypeOK' /\ MigrationInv /\ StartupInv /\ CallInv /\ KnownInv /\ UndisturbedInv
      /\ ImportInv /\ StoredForm /\ FileInv /\ Serial /\ Serial' /\ [Next]_vars
        => FileInv'
  <2> SUFFICES ASSUME TypeOK, TypeOK', MigrationInv, StartupInv, CallInv, KnownInv,
                      UndisturbedInv, ImportInv, StoredForm, FileInv, Serial, Serial',
                      [Next]_vars
               PROVE  FileInv'
    OBVIOUS
  <2>1. CASE Startup
    BY <2>1, FileAtStartup
  <2>2. CASE Restart
    BY <2>2 DEF Restart, FileInv
  <2>3. CASE ExternalUnpair
    BY <2>3 DEF ExternalUnpair, FileInv, Unmirrored, memVars, threadVars
  <2>4. ASSUME NEW t \in Threads, NEW o \in Operations, NEW d \in Devices, Call(t, o, d)
        PROVE  FileInv'
    <3>1. /\ UNCHANGED <<cache, isMigrated, file>> /\ pc[t] = "idle"
          /\ pc' = [pc EXCEPT ![t] = FirstStep(o)] /\ FirstStep(o) # "pmSetMigrated"
      BY <2>4, ManagerAssumption
      DEF Call, At, FirstStep, AllOperations, memVars, worldVars
    <3> QED
      BY <3>1 DEF FileInv, Unmirrored, TypeOK
  <2>5. ASSUME NEW t \in Threads, Step(t)
        PROVE  FileInv'
    BY <2>5, FileStep
  <2>6. CASE UNCHANGED vars
    BY <2>6 DEF FileInv, Unmirrored, vars, memVars, worldVars, threadVars
  <2> QED
    BY <2>1, <2>2, <2>3, <2>4, <2>5, <2>6 DEF Next
<1>3. Spec => []KnownInv
  BY KnownInvariant DEF MirrorIsReliable
<1> QED
  BY <1>1, <1>2, <1>3, TypeCorrect, MigrationInvariant, StartupInvariant, CallInvariant,
     SerialIsUndisturbed, ImportInvariant, StoredFormInvariant, PTL
  DEF Spec

\* As long as calls do not overlap and writes do not fail, whenever nobody is at
\* work the AS file has the settings of a migrated plugin, through any number of
\* restarts.  (After one, the cache has no addresses, and the devices without
\* one are not mirrored until they are paired anew.)
THEOREM FileAgrees ==
    ASSUME MirrorIsReliable
    PROVE  Spec /\ []Serial => []FileAgreesWithCache
<1>1. FileInv => FileAgreesWithCache
  BY DEF FileInv, FileAgreesWithCache, Quiet, Unmirrored, InFile
<1> QED
  BY <1>1, FileInvariant, PTL

-----------------------------------------------------------------------------
(* The AS file keeps what the rollback needs                               *)

\* No device is taken for a human interface device that BTRMGR does not report
\* as one.
NotHid(c) == \A d \in DOMAIN c \ Hids : c[d].type # "HID"

\* The cache keeps the addresses it gets, BTRMGR answers, and the file found at
\* first does not contradict it.
RollbackIsPossible ==
    /\ NeverLoads
    /\ "btrmgr" \notin Faults
    /\ \A f \in InitialFiles : NotHid(FileEntries(f))

\* The devices a rollback needs in the file.
Wanted == (DOMAIN FileEntries(file) \cap paired) \ (Hids \cup Anonymous)

\* The types, wherever they came from, are BTRMGR's.
TypedInv ==
    /\ NotHid(FileEntries(file))
    /\ build = "migration" => NotHid(cache)
    /\ \A t \in Threads : pc[t] = "pmSwapCache" => NotHid(snap[t])

\* The thread has all of the file's devices in the cache, complete.
Filled(t) ==
    \/ pc[t] \in {"pmWriteMarker", "pmSetMigrated"}
    \/ pc[t] \in WriteSteps /\ op[t] = "performMigration"

\* A migrated plugin has, in a form that reaches the file, every device that is
\* wanted there, except one that is being added; until clearMigration gives up.
WantedInv ==
    /\ isMigrated =>
         \/ \A d \in Wanted : d \in Mirrored(cache) \/ Adding(d)
         \/ \E t \in Threads : pc[t] = "clReset"
    /\ \A t \in Threads :
        /\ pc[t] = "pmBackfill" => paired \subseteq seen[t]
        /\ pc[t] = "rmErase"    => dev[t] \notin paired
        /\ Filled(t)            => Wanted \subseteq Mirrored(cache)

\* What the adapter writes: the devices that belong in the file, none of them a
\* human interface device.
LEMMA MirrorContents ==
    ASSUME NEW c \in DeviceMaps, NEW f \in FileValues
    PROVE  /\ FileEntries(Mirror(c, f)) = Mirror(c, f)
           /\ DOMAIN Mirror(c, f) = Mirrored(c)
           /\ NotHid(Mirror(c, f))
<1>1. c \in [DOMAIN c -> BluetoothDeviceInfo]
  BY MapElim
<1>2. FileEntries(Mirror(c, f)) = Mirror(c, f)
  BY MirrorType, DataAssumption DEF FileEntries
<1>3. ASSUME NEW d \in Mirrored(c)
      PROVE  MergedInfo(c[d], d, FileEntries(f)).type # "HID"
  BY <1>1 DEF Mirrored, MergedInfo, BluetoothDeviceInfo
<1> QED
  BY <1>2, <1>3 DEF Mirror, NotHid

\* Filling in what BTRMGR reports completes every record of a listed device that
\* is neither anonymous nor a human interface device.
LEMMA BackfillCompletes ==
    ASSUME NEW c \in DeviceMaps, NEW known, NotHid(c)
    PROVE  /\ NotHid(Backfill(c, known))
           /\ (DOMAIN c \cap known) \ (Hids \cup Anonymous) \subseteq Mirrored(Backfill(c, known))
<1>1. c \in [DOMAIN c -> BluetoothDeviceInfo]
  BY MapElim
<1>2. ASSUME NEW d \in DOMAIN c, d \notin Hids
      PROVE  Backfill(c, known)[d].type # "HID"
  BY <1>1, <1>2 DEF Backfill, NotHid, BluetoothDeviceInfo, ReportedType
<1>3. ASSUME NEW d \in DOMAIN c, d \in known, d \notin Anonymous
      PROVE  Backfill(c, known)[d].addr
  BY <1>1, <1>3 DEF Backfill, BluetoothDeviceInfo, ReportsAddr
<1>4. DOMAIN Backfill(c, known) = DOMAIN c
  BY DEF Backfill
<1> QED
  BY <1>2, <1>3, <1>4 DEF NotHid, Mirrored

\* The types stay right.
LEMMA TypedStep ==
    ASSUME TypeOK, MigrationInv, CallInv, UndisturbedInv, ImportInv, TypedInv,
           Serial, Serial', NEW t \in Threads, Step(t)
    PROVE  TypedInv'
<1> USE DEF TypedInv, TypeOK, At, Goto, Return, outerVars
<1>0. /\ \A u \in Threads \ {t} : pc'[u] = "idle"
      /\ build' = build
  BY OthersIdle, StepIsLocal
<1>1. CASE PerformMigration(t)
  <2>0. file' = file
    BY <1>1 DEF PerformMigration, PmLock, PmReadMarker, PmReadFile, PmGetPaired, PmSwapCache,
                PmCheckEmpty, PmEnrich, PmBackfill, PmWriteMarker, PmSetMigrated, worldVars
  <2>1. CASE PmLock(t) \/ PmReadMarker(t) \/ PmWriteMarker(t) \/ PmSetMigrated(t)
    BY <1>0, <2>0, <2>1 DEF PmLock, PmReadMarker, PmWriteMarker, PmSetMigrated
  <2>2. CASE PmReadFile(t)
    BY <1>0, <2>0, <2>2 DEF PmReadFile, NotHid, EmptyMap
  <2>3. CASE PmGetPaired(t)
    <3>1. NotHid(Import(snap[t], paired))
      BY <2>3 DEF PmGetPaired, ImportInv, ImportedBy, FileEntries, NotHid, Import
    <3> QED
      BY <1>0, <2>0, <2>3, <3>1 DEF PmGetPaired
  <2>4. CASE PmSwapCache(t)
    BY <1>0, <2>0, <2>4 DEF PmSwapCache
  <2>5. CASE PmCheckEmpty(t) \/ PmEnrich(t)
    BY <1>0, <2>0, <2>5 DEF PmCheckEmpty, PmEnrich, memVars
  <2>6. CASE PmBackfill(t)
    BY <1>0, <2>0, <2>6, BackfillCompletes DEF PmBackfill
  <2> QED
    BY <1>1, <2>1, <2>2, <2>3, <2>4, <2>5, <2>6 DEF PerformMigration
<1>2. CASE ClearMigration(t)
  <2>1. file' = file /\ cache' \in {cache, EmptyMap} /\ pc'[t] # "pmSwapCache"
    BY <1>2 DEF ClearMigration, ClLock, ClDeleteInfo, ClDeleteMarker, ClClearCache, ClReset,
                worldVars
  <2> QED
    BY <1>0, <2>1 DEF NotHid, EmptyMap
<1>3. CASE UpdateDevice(t)
  <2>1. file' = file /\ pc'[t] # "pmSwapCache"
    BY <1>3 DEF UpdateDevice, SaIsMigrated, SaUpdate, LcRead, LcWrite, LvUpdate, BtPair, AdAdd,
                BtUnpair, RmErase, Gate, worldVars
  <2>2. build = "migration" => NotHid(cache')
    <3>0. cache \in [DOMAIN cache -> BluetoothDeviceInfo]
      BY MapElim
    <3>1. CASE cache' = cache
      BY <3>1
    <3>2. CASE SaUpdate(t) \/ LvUpdate(t)
      <4>1. /\ DOMAIN cache' = DOMAIN cache
            /\ \A d \in DOMAIN cache : cache'[d].type = cache[d].type
        <5>1. CASE SaUpdate(t)
          BY <3>0, <5>1 DEF SaUpdate, BluetoothDeviceInfo
        <5>2. CASE LvUpdate(t)
          BY <3>0, <5>2 DEF LvUpdate, BluetoothDeviceInfo
        <5> QED
          BY <3>2, <5>1, <5>2
      <4> QED
        BY <4>1 DEF NotHid
    <3>3. CASE LcWrite(t)
      BY <3>0, <3>3 DEF LcWrite, Put, NotHid, UndisturbedInv, Undisturbed, BluetoothDeviceInfo
    <3>4. CASE AdAdd(t)
      BY <3>4 DEF AdAdd, Put, NotHid, FreshInfo, ReportedType
    <3>5. CASE RmErase(t)
      BY <3>5 DEF RmErase, Erase, NotHid
    <3> QED
      BY <1>3, <3>1, <3>2, <3>3, <3>4, <3>5
      DEF UpdateDevice, SaIsMigrated, LcRead, BtPair, BtUnpair, Gate
  <2> QED
    BY <1>0, <2>1, <2>2
<1>4. CASE WriteStorage(t)
  <2>1. cache' = cache /\ pc'[t] # "pmSwapCache"
    BY <1>4 DEF WriteStorage, WsSnapshot, WsSetValue, WsIsMigrated, FsSnapshot, FsWrite,
                WriteDone, memVars
  <2>2. NotHid(FileEntries(file'))
    <3>1. CASE file' = file
      BY <3>1
    <3>2. CASE file' \in {Mirror(snap[t], file), Mirror(snap[t], NoFile)}
      BY <3>2, MirrorContents DEF FileValues
    <3> QED
      BY <1>4, <3>1, <3>2
      DEF WriteStorage, WsSnapshot, WsSetValue, WsIsMigrated, FsSnapshot, FsWrite, worldVars
  <2> QED
    BY <1>0, <2>1, <2>2
<1> QED
  BY <1>1, <1>2, <1>3, <1>4 DEF Step

\* The types are right in every reachable state, as long as calls do not overlap.
LEMMA TypedInvariant ==
    ASSUME RollbackIsPossible
    PROVE  Spec /\ []Serial => []TypedInv
<1>1. Init => TypedInv
  BY DEF Init, TypedInv, RollbackIsPossible, NotHid, EmptyMap
<1>2. TypeOK /\ MigrationInv /\ StartupInv /\ CallInv /\ FirstStartInv /\ UndisturbedInv
      /\ ImportInv /\ TypedInv /\ Serial /\ Serial' /\ [Next]_vars
        => TypedInv'
  <2> SUFFICES ASSUME TypeOK, MigrationInv, StartupInv, CallInv, FirstStartInv, UndisturbedInv,
                      ImportInv, TypedInv, Serial, Serial', [Next]_vars
               PROVE  TypedInv'
    OBVIOUS
  <2>1. CASE Startup
    <3>1. (\A t \in Threads : pc'[t] = "idle") /\ UNCHANGED <<file, build>>
      BY <2>1 DEF Startup, InitReadMarker, InitLoadCache, InitReconcile, InitStore, threadVars,
                  outerVars, worldVars, MigrationInv, OpInv
    <3>2. build = "migration" => cache' = cache
      BY <2>1 DEF Startup, InitReadMarker, InitLoadCache, InitReconcile, InitStore, StartupInv,
                  FirstStartInv, RollbackIsPossible
    <3> QED
      BY <3>1, <3>2 DEF TypedInv
  <2>2. CASE Restart
    BY <2>2 DEF Restart, TypedInv, NotHid, EmptyMap, worldVars
  <2>3. CASE ExternalUnpair
    BY <2>3 DEF ExternalUnpair, TypedInv, memVars, threadVars, localVars, outerVars
  <2>4. ASSUME NEW t \in Threads, NEW o \in Operations, NEW d \in Devices, Call(t, o, d)
        PROVE  TypedInv'
    <3>1. /\ UNCHANGED <<cache, file, snap, build>>
          /\ pc' = [pc EXCEPT ![t] = FirstStep(o)] /\ FirstStep(o) # "pmSwapCache"
      BY <2>4, ManagerAssumption
      DEF Call, FirstStep, AllOperations, memVars, worldVars
    <3> QED
      BY <3>1 DEF TypedInv, TypeOK
  <2>5. ASSUME NEW t \in Threads, Step(t)
        PROVE  TypedInv'
    BY <2>5, TypedStep
  <2>6. CASE UNCHANGED vars
    BY <2>6 DEF TypedInv, vars, memVars, worldVars, threadVars, localVars, outerVars
  <2> QED
    BY <2>1, <2>2, <2>3, <2>4, <2>5, <2>6 DEF Next
<1> QED
  BY <1>1, <1>2, TypeCorrect, MigrationInvariant, StartupInvariant, CallInvariant,
     FirstStartInvariant, SerialIsUndisturbed, ImportInvariant, PTL
  DEF Spec

\* A migration has all the file's devices in the cache, complete, when it writes
\* the marker; after it, every step that drops a device is one of a device that
\* is not paired any more.
LEMMA WantedStep ==
    ASSUME RollbackIsPossible, TypeOK, MigrationInv, CallInv, KnownInv, UndisturbedInv, ImportInv,
           TypedInv, WantedInv, Serial, Serial', NEW t \in Threads, Step(t)
    PROVE  WantedInv'
<1> USE DEF WantedInv, Filled, Adding, TypeOK, At, Goto, Return
<1>0. /\ \A u \in Threads \ {t} : pc[u] = "idle" /\ pc'[u] = "idle"
      /\ phase = "up" /\ "idle" \notin WriteSteps
  BY OthersIdle, StepIsLocal DEF WriteSteps
<1>1. CASE PerformMigration(t)
  <2>0. /\ build = "migration" /\ op[t] = "performMigration" /\ UNCHANGED <<file, paired>>
        /\ Wanted' = Wanted
    BY <1>1 DEF PerformMigration, PmLock, PmReadMarker, PmReadFile, PmGetPaired, PmSwapCache,
                PmCheckEmpty, PmEnrich, PmBackfill, PmWriteMarker, PmSetMigrated,
                MigrationInv, OpInv, PerformSteps, CallInv, worldVars, Wanted
  <2>1. CASE PmReadMarker(t)
    <3>1. marker = "1" => Wanted \subseteq Mirrored(cache)
      BY <1>0, <2>0, <2>1 DEF PmReadMarker, KnownInv
    <3> QED
      BY <1>0, <2>0, <2>1, <3>1 DEF PmReadMarker, WriteSteps
  <2>2. CASE PmSwapCache(t)
    <3>1. ~isMigrated /\ ~isMigrated'
      BY <2>2 DEF PmSwapCache, MigrationInv, MarkerInv, Importing, PerformSteps
    <3> QED
      BY <1>0, <2>2, <3>1 DEF PmSwapCache, WriteSteps
  <2>3. CASE PmCheckEmpty(t)
    <3>1. DOMAIN cache = {} => Wanted = {}
      BY <2>3 DEF PmCheckEmpty, ImportInv, ImportedBy, Swapped, Imported, Wanted
    <3> QED
      BY <1>0, <2>0, <2>3, <3>1 DEF PmCheckEmpty, memVars, WriteSteps
  <2>4. CASE PmEnrich(t)
    BY <1>0, <2>0, <2>4 DEF PmEnrich, WriteSteps
  <2>5. CASE PmBackfill(t)
    <3>1. ~isMigrated /\ ~isMigrated'
      BY <2>5 DEF PmBackfill, MigrationInv, MarkerInv, Importing, PerformSteps
    <3>2. Wanted \subseteq (DOMAIN cache \cap seen[t]) \ (Hids \cup Anonymous)
      BY <2>5 DEF PmBackfill, ImportInv, ImportedBy, Swapped, Imported, Wanted
    <3>3. Wanted \subseteq Mirrored(cache')
      BY <2>0, <2>5, <3>2, BackfillCompletes DEF PmBackfill, TypedInv
    <3> QED
      BY <1>0, <2>0, <2>5, <3>1, <3>3 DEF PmBackfill
  <2>6. CASE PmWriteMarker(t)
    BY <1>0, <2>0, <2>6 DEF PmWriteMarker, WriteSteps
  <2>7. CASE PmSetMigrated(t)
    BY <1>0, <2>0, <2>7 DEF PmSetMigrated, WriteSteps
  <2>8. CASE PmLock(t) \/ PmReadFile(t) \/ PmGetPaired(t)
    BY <1>0, <2>0, <2>8 DEF PmLock, PmReadFile, PmGetPaired, WriteSteps
  <2> QED
    BY <1>1, <2>1, <2>2, <2>3, <2>4, <2>5, <2>6, <2>7, <2>8 DEF PerformMigration
<1>2. CASE ClearMigration(t)
  <2>0. Wanted' = Wanted
    BY <1>2 DEF ClearMigration, ClLock, ClDeleteInfo, ClDeleteMarker, ClClearCache, ClReset,
                worldVars, Wanted
  <2>1. CASE ClLock(t) \/ ClDeleteInfo(t) \/ ClDeleteMarker(t)
    BY <1>0, <2>0, <2>1 DEF ClLock, ClDeleteInfo, ClDeleteMarker, WriteSteps
  <2>2. CASE ClClearCache(t)
    BY <1>0, <2>0, <2>2 DEF ClClearCache, WriteSteps
  <2>3. CASE ClReset(t)
    BY <1>0, <2>0, <2>3 DEF ClReset, WriteSteps
  <2> QED
    BY <1>2, <2>1, <2>2, <2>3 DEF ClearMigration
<1>3. CASE UpdateDevice(t)
  <2>0. op[t] # "performMigration" /\ pc[t] # "clReset"
    BY <1>3 DEF UpdateDevice, SaIsMigrated, SaUpdate, LcRead, LcWrite, LvUpdate, BtPair, AdAdd,
                BtUnpair, RmErase, Gate, MigrationInv, OpInv, OtherSteps
  <2>1. /\ UNCHANGED <<isMigrated, file>>
        /\ pc'[t] \in {"idle", "saUpdate", "wsSnapshot", "lcWrite", "gate", "adAdd", "rmErase"}
        /\ op'[t] # "performMigration"
    BY <1>3, <2>0 DEF UpdateDevice, SaIsMigrated, SaUpdate, LcRead, LcWrite, LvUpdate, BtPair,
                AdAdd, BtUnpair, RmErase, Gate, worldVars
  <2>1a. ~Filled(t)'
    BY <2>1 DEF WriteSteps
  <2>2. CASE SaIsMigrated(t) \/ LcRead(t) \/ Gate(t)
    <3>1. Wanted' = Wanted /\ cache' = cache
      BY <2>2 DEF SaIsMigrated, LcRead, Gate, worldVars, Wanted
    <3> QED
      BY <1>0, <2>0, <2>1, <2>1a, <2>2, <3>1 DEF SaIsMigrated, LcRead, Gate
  <2>3. CASE SaUpdate(t) \/ LvUpdate(t) \/ LcWrite(t)
    <3>0. cache \in [DOMAIN cache -> BluetoothDeviceInfo]
      BY MapElim
    <3>1. \A d : d \in Mirrored(cache') <=> d \in Mirrored(cache)
      <4>1. CASE SaUpdate(t) \/ LvUpdate(t)
        <5>1. /\ DOMAIN cache' = DOMAIN cache
              /\ \A d \in DOMAIN cache :
                    cache'[d].type = cache[d].type /\ cache'[d].addr = cache[d].addr
          BY <3>0, <4>1 DEF SaUpdate, LvUpdate, BluetoothDeviceInfo
        <5> QED
          BY <5>1 DEF Mirrored
      <4>2. CASE LcWrite(t)
        BY <3>0, <4>2
        DEF LcWrite, Put, Mirrored, UndisturbedInv, Undisturbed, BluetoothDeviceInfo
      <4> QED
        BY <2>3, <4>1, <4>2
    <3>2. Wanted' = Wanted
      BY <2>3 DEF SaUpdate, LvUpdate, LcWrite, worldVars, Wanted
    <3> QED
      BY <1>0, <2>0, <2>1, <2>1a, <2>3, <3>1, <3>2 DEF SaUpdate, LvUpdate, LcWrite
  <2>4. CASE BtPair(t)
    <3>1. /\ pc[t] = "btPair" /\ pc'[t] = "adAdd" /\ dev'[t] = dev[t] /\ cache' = cache
          /\ \A d \in Wanted' : d \in Wanted \/ d = dev[t]
      BY <2>4 DEF BtPair, Fails, RollbackIsPossible, Wanted, localVars
    <3>2. isMigrated' => \A d \in Wanted' : d \in Mirrored(cache') \/ Adding(d)'
      BY <1>0, <2>1, <3>1
    <3> QED
      BY <1>0, <2>1, <2>1a, <3>1, <3>2
  <2>5. CASE AdAdd(t)
    <3>1. /\ pc'[t] = "gate" /\ cache' = Put(cache, dev[t], FreshInfo(dev[t]))
          /\ Wanted' = Wanted /\ dev[t] \in Devices
      BY <2>5 DEF AdAdd, Fails, RollbackIsPossible, Wanted, worldVars
    <3>2. /\ dev[t] \in Wanted => dev[t] \in Mirrored(cache')
          /\ \A d \in Mirrored(cache) \ {dev[t]} : d \in Mirrored(cache')
      BY <3>1 DEF Put, Mirrored, FreshInfo, ReportsAddr, ReportedType, Wanted
    <3> QED
      BY <1>0, <2>0, <2>1, <2>1a, <2>5, <3>1, <3>2 DEF AdAdd
  <2>6. CASE BtUnpair(t)
    <3>1. /\ pc[t] = "btUnpair" /\ pc'[t] = "rmErase" /\ dev'[t] = dev[t]
          /\ dev[t] \notin paired' /\ cache' = cache
          /\ \A d \in Wanted' : d \in Wanted
      BY <2>6 DEF BtUnpair, Fails, RollbackIsPossible, Wanted, localVars
    <3>2. isMigrated' => \A d \in Wanted' : d \in Mirrored(cache')
      BY <1>0, <2>1, <3>1
    <3> QED
      BY <1>0, <2>1, <2>1a, <3>1, <3>2
  <2>7. CASE RmErase(t)
    <3>1. /\ Wanted' = Wanted /\ dev[t] \notin Wanted /\ pc'[t] # "rmErase"
          /\ \A d \in Mirrored(cache) \ {dev[t]} : d \in Mirrored(cache')
      BY <2>7 DEF RmErase, Erase, Mirrored, Wanted, worldVars
    <3> QED
      BY <1>0, <2>0, <2>1, <2>1a, <2>7, <3>1 DEF RmErase
  <2> QED
    BY <1>3, <2>2, <2>3, <2>4, <2>5, <2>6, <2>7 DEF UpdateDevice
<1>4. CASE WriteStorage(t)
  <2>1. /\ UNCHANGED <<isMigrated, cache, paired>>
        /\ pc[t] \in WriteSteps /\ pc[t] # "adAdd" /\ pc[t] # "clReset"
        /\ pc'[t] \in WriteSteps \cup {"idle", "pmWriteMarker"}
        /\ op'[t] = "performMigration" => op[t] = "performMigration"
        /\ pc'[t] = "pmWriteMarker" => op[t] = "performMigration"
    BY <1>4 DEF WriteStorage, WsSnapshot, WsSetValue, WsIsMigrated, FsSnapshot, FsWrite,
                WriteDone, memVars, worldVars, WriteSteps
  <2>2. Filled(t)' => Filled(t)
    BY <1>0, <2>1 DEF WriteSteps
  <2>3. CASE file' = file
    <3>1. Wanted' = Wanted
      BY <2>1, <2>3 DEF Wanted
    <3> QED
      BY <1>0, <2>1, <2>2, <3>1 DEF WriteSteps
  <2>4. CASE FsWrite(t) /\ file' # file
    <3>1. file' \in {Mirror(cache, file), Mirror(cache, NoFile)}
      BY <2>4 DEF FsWrite, UndisturbedInv, Undisturbed
    <3>2. Wanted' \subseteq Mirrored(cache')
      BY <2>1, <3>1, MirrorContents DEF Wanted, FileValues
    <3> QED
      BY <1>0, <2>1, <3>2 DEF WriteSteps
  <2> QED
    BY <1>4, <2>3, <2>4, SharedWriters DEF Step
<1> QED
  BY <1>1, <1>2, <1>3, <1>4 DEF Step

\* The invariant, as long as calls do not overlap.
LEMMA WantedInvariant ==
    ASSUME RollbackIsPossible
    PROVE  Spec /\ []Serial => []WantedInv
<1>1. Init => WantedInv
  BY DEF Init, WantedInv, Filled, WriteSteps
<1>2. TypeOK /\ MigrationInv /\ StartupInv /\ CallInv /\ FirstStartInv /\ KnownInv
      /\ UndisturbedInv /\ ImportInv /\ TypedInv /\ WantedInv /\ Serial /\ Serial' /\ [Next]_vars
        => WantedInv'
  <2> SUFFICES ASSUME TypeOK, MigrationInv, StartupInv, CallInv, FirstStartInv, KnownInv,
                      UndisturbedInv, ImportInv, TypedInv, WantedInv, Serial, Serial', [Next]_vars
               PROVE  WantedInv'
    OBVIOUS
  <2>1. CASE Startup
    <3>1. \A t \in Threads : pc'[t] = "idle"
      BY <2>1 DEF Startup, InitReadMarker, InitLoadCache, InitReconcile, InitStore, threadVars,
                  MigrationInv, OpInv
    <3>2. ~isMigrated'
      BY <2>1 DEF Startup, InitReadMarker, InitLoadCache, InitReconcile, InitStore, AbortInit,
                  StartupInv, CallInv, FirstStartInv, RollbackIsPossible
    <3> QED
      BY <3>1, <3>2 DEF WantedInv, Filled, WriteSteps
  <2>2. CASE Restart
    BY <2>2 DEF Restart, WantedInv, Filled, WriteSteps
  <2>3. CASE ExternalUnpair
    <3>1. /\ UNCHANGED <<memVars, threadVars>>
          /\ paired' \subseteq paired /\ Wanted' \subseteq Wanted
      BY <2>3 DEF ExternalUnpair, Wanted
    <3> QED
      BY <3>1 DEF WantedInv, Filled, Adding, memVars, threadVars, localVars
  <2>4. ASSUME NEW t \in Threads, NEW o \in Operations, NEW d \in Devices, Call(t, o, d)
        PROVE  WantedInv'
    <3>1. /\ UNCHANGED <<cache, isMigrated, Wanted, paired, seen>> /\ pc[t] = "idle"
          /\ pc' = [pc EXCEPT ![t] = FirstStep(o)] /\ op' = [op EXCEPT ![t] = o]
          /\ dev' = [dev EXCEPT ![t] = d]
          /\ FirstStep(o) \in {"pmLock", "clLock", "saIsMigrated", "lcRead", "lvUpdate",
                               "btPair", "btUnpair"}
      BY <2>4, ManagerAssumption
      DEF Call, At, FirstStep, AllOperations, memVars, worldVars, Wanted
    <3> QED
      BY <3>1 DEF WantedInv, Filled, Adding, TypeOK, WriteSteps
  <2>5. ASSUME NEW t \in Threads, Step(t)
        PROVE  WantedInv'
    BY <2>5, WantedStep
  <2>6. CASE UNCHANGED vars
    BY <2>6 DEF WantedInv, Wanted, Filled, Adding, vars, memVars, worldVars, threadVars, localVars
  <2> QED
    BY <2>1, <2>2, <2>3, <2>4, <2>5, <2>6 DEF Next
<1>3. Spec => []KnownInv
  BY KnownInvariant DEF RollbackIsPossible, MarkerIsReadable
<1> QED
  BY <1>1, <1>2, <1>3, TypeCorrect, MigrationInvariant, StartupInvariant, CallInvariant,
     FirstStartInvariant, SerialIsUndisturbed, ImportInvariant, TypedInvariant, PTL
  DEF Spec

\* As long as calls do not overlap, BTRMGR answers, and the cache keeps the
\* addresses it has (no restart with the migration build), the AS file never
\* loses a device that a rollback needs, whatever else fails.
THEOREM RollbackIsKept ==
    ASSUME RollbackIsPossible
    PROVE  Spec /\ []Serial => RollbackKeepsDevices
<1>1. TypeOK /\ UndisturbedInv /\ EntitledInv /\ WantedInv /\ Serial /\ [Next]_vars
        => [Wanted \subseteq DOMAIN FileEntries(file')]_vars
  <2> SUFFICES ASSUME TypeOK, UndisturbedInv, EntitledInv, WantedInv, Serial, [Next]_vars
               PROVE  Wanted \subseteq DOMAIN FileEntries(file')
    OBVIOUS
  <2>1. CASE file' = file
    BY <2>1 DEF Wanted
  <2>2. ASSUME NEW t \in Threads, FsWrite(t), file' # file
        PROVE  Wanted \subseteq DOMAIN FileEntries(file')
    <3>1. pc[t] = "fsWrite" /\ file' \in {Mirror(cache, file), Mirror(cache, NoFile)}
      BY <2>2 DEF FsWrite, At, UndisturbedInv, Undisturbed
    <3>2. isMigrated /\ \A u \in Threads : pc[u] # "clReset" /\ pc[u] # "adAdd"
      BY <3>1 DEF EntitledInv, Entitled, Serial
    <3>3. Wanted \subseteq Mirrored(cache)
      BY <3>2 DEF WantedInv, Adding
    <3> QED
      BY <3>1, <3>3, MirrorContents DEF TypeOK, FileValues
  <2>3. file' # file => \E t \in Threads : FsWrite(t)
    BY SharedWriters
    DEF Next, Startup, InitReadMarker, InitLoadCache, InitReconcile, InitStore, Restart,
        ExternalUnpair, Call, vars, worldVars
  <2> QED
    BY <2>1, <2>2, <2>3
<1> QED
  BY <1>1, TypeCorrect, EntitledInSeries, SerialIsUndisturbed, WantedInvariant, PTL
  DEF Spec, RollbackKeepsDevices, Wanted
=============================================================================
