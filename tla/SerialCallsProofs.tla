------------------------- MODULE SerialCallsProofs --------------------------
(***************************************************************************)
(* What DeviceManager promises to callers that do not overlap: the first   *)
(* section for a clearMigration that runs alone, the second for one call   *)
(* that runs alone, whatever ran before it, the others for one call at a   *)
(* time, by whichever thread.  The comment on the executor thread in       *)
(* Bluetooth.h counts on such calls; no lock makes them so, and            *)
(* MCStaleSnapshot.cfg and MCClearAgainstWriter.cfg show what overlapping  *)
(* calls do.  Every fault, every build and any number of restarts is       *)
(* allowed.                                                                *)
(***************************************************************************)
EXTENDS DeviceManagerProofs

-----------------------------------------------------------------------------
(* clearMigration runs alone                                               *)

\* No other call is under way while clearMigration is.
ClearIsAlone ==
    \A t, u \in Threads : op[t] = "clearMigration" /\ pc[u] # "idle" => t = u

\* A thread that saves its change does so because the plugin persists, one that
\* writes the AS file because it is migrated, and clearMigration goes on only
\* with deviceInfo gone.
Entitled(t) ==
    /\ pc[t] \in WriteSteps \cup {"saUpdate"} /\ op[t] # "performMigration" => Persisting
    /\ pc[t] \in {"fsSnapshot", "fsWrite"} => isMigrated
    /\ pc[t] \in {"clDeleteMarker", "clClearCache", "clReset"} => deviceInfo = NoInfo

EntitledInv == \A t \in Threads : Entitled(t)

\* What a thread is entitled to, it keeps through the steps of the others: the
\* flag is only reset, and deviceInfo only deleted, by a clearMigration.
LEMMA EntitledStep ==
    ASSUME TypeOK, MigrationInv, ClearIsAlone, EntitledInv, NEW t \in Threads, Step(t)
    PROVE  EntitledInv'
<1> USE DEF TypeOK, At, Goto, Return, Entitled, EntitledInv, PerformSteps, ClearSteps,
            WriteSteps, Persisting, outerVars
<1>0. /\ pc[t] # "idle" /\ build' = build
      /\ \A u \in Threads \ {t} : pc'[u] = pc[u] /\ op'[u] = op[u]
  BY StepIsLocal
<1>1. Entitled(t)'
  <2>1. CASE PerformMigration(t)
    <3>1. op[t] = "performMigration"
      BY <2>1 DEF MigrationInv, OpInv, PerformMigration, PmLock, PmReadMarker, PmReadFile,
                  PmGetPaired, PmSwapCache, PmCheckEmpty, PmEnrich, PmBackfill,
                  PmWriteMarker, PmSetMigrated
    <3>2. op'[t] \in {"performMigration", "none"} /\ pc'[t] \notin ClearSteps
      BY <2>1, <3>1 DEF PerformMigration, PmLock, PmReadMarker, PmReadFile,
                  PmGetPaired, PmSwapCache, PmCheckEmpty, PmEnrich, PmBackfill,
                  PmWriteMarker, PmSetMigrated
    <3>3. op'[t] = "none" => pc'[t] = "idle"
      BY <2>1, <3>1 DEF PerformMigration, PmLock, PmReadMarker, PmReadFile,
                  PmGetPaired, PmSwapCache, PmCheckEmpty, PmEnrich, PmBackfill,
                  PmWriteMarker, PmSetMigrated
    <3>4. pc'[t] \notin {"fsSnapshot", "fsWrite"}
      BY <2>1 DEF PerformMigration, PmLock, PmReadMarker, PmReadFile,
                  PmGetPaired, PmSwapCache, PmCheckEmpty, PmEnrich, PmBackfill,
                  PmWriteMarker, PmSetMigrated
    <3> QED
      BY <3>2, <3>3, <3>4
  <2>2. CASE ClearMigration(t)
    BY <2>2 DEF ClearMigration, ClLock, ClDeleteInfo, ClDeleteMarker, ClClearCache, ClReset,
                MigrationInv, OpInv, storeVars
  <2>3. CASE UpdateDevice(t)
    <3>1. CASE SaIsMigrated(t) \/ Gate(t)
      BY <3>1 DEF SaIsMigrated, Gate
    <3>2. CASE SaUpdate(t)
      BY <3>2 DEF SaUpdate
    <3>3. CASE LcRead(t) \/ LcWrite(t) \/ LvUpdate(t)
      BY <3>3 DEF LcRead, LcWrite, LvUpdate
    <3>4. CASE BtPair(t) \/ AdAdd(t) \/ BtUnpair(t) \/ RmErase(t)
      BY <3>4 DEF BtPair, AdAdd, BtUnpair, RmErase
    <3> QED
      BY <2>3, <3>1, <3>2, <3>3, <3>4 DEF UpdateDevice
  <2>4. CASE WriteStorage(t)
    BY <2>4 DEF WriteStorage, WsSnapshot, WsSetValue, WsIsMigrated, FsSnapshot, FsWrite,
                WriteDone, memVars, storeVars
  <2> QED
    BY <2>1, <2>2, <2>3, <2>4 DEF Step
<1>2. ASSUME NEW u \in Threads \ {t} PROVE Entitled(u)'
  <2>1. CASE ClReset(t) \/ ClDeleteInfo(t)
    <3>1. pc[u] = "idle"
      BY <2>1 DEF ClReset, ClDeleteInfo, MigrationInv, OpInv, ClearIsAlone
    <3> QED
      BY <1>0, <3>1
  <2>2. CASE WsSetValue(t)
    <3>1. op[u] # "clearMigration"
      BY <1>0 DEF ClearIsAlone
    <3>2. pc[u] \notin {"clDeleteMarker", "clClearCache", "clReset"}
      BY <3>1 DEF MigrationInv, OpInv
    <3> QED
      BY <1>0, <2>2, <3>2 DEF WsSetValue
  <2>3. CASE deviceInfo' = deviceInfo /\ (isMigrated => isMigrated')
    BY <1>0, <2>3
  <2>4. CASE PmSetMigrated(t)
    BY <1>0, <2>4 DEF PmSetMigrated, storeVars
  <2> QED
    BY <2>1, <2>2, <2>3, <2>4, SharedWriters
<1> QED
  BY <1>1, <1>2

\* The invariant, as long as clearMigration stays alone.
LEMMA EntitledInvariant == Spec /\ []ClearIsAlone => []EntitledInv
<1>1. Init => EntitledInv
  BY DEF Init, EntitledInv, Entitled, ClearSteps, WriteSteps
<1>2. TypeOK /\ MigrationInv /\ StartupInv /\ ClearIsAlone /\ EntitledInv /\ [Next]_vars
        => EntitledInv'
  <2> SUFFICES ASSUME TypeOK, MigrationInv, StartupInv, ClearIsAlone, EntitledInv, [Next]_vars
               PROVE  EntitledInv'
    OBVIOUS
  <2>1. CASE Startup
    <3>1. \A t \in Threads : pc'[t] = "idle" /\ op'[t] = "none"
      BY <2>1 DEF Startup, InitReadMarker, InitLoadCache, InitReconcile, InitStore, threadVars,
                  MigrationInv, OpInv
    <3> QED
      BY <3>1 DEF EntitledInv, Entitled, ClearSteps, WriteSteps
  <2>2. CASE Restart
    BY <2>2 DEF Restart, EntitledInv, Entitled, ClearSteps, WriteSteps
  <2>3. CASE ExternalUnpair
    BY <2>3 DEF ExternalUnpair, EntitledInv, Entitled, Persisting, memVars, storeVars,
                threadVars, outerVars
  <2>4. ASSUME NEW t \in Threads, NEW o \in Operations, NEW d \in Devices, Call(t, o, d)
        PROVE  EntitledInv'
    BY <2>4, ManagerAssumption
    DEF Call, At, TypeOK, FirstStep, AllOperations, EntitledInv, Entitled, Persisting,
        ClearSteps, WriteSteps, memVars, storeVars
  <2>5. ASSUME NEW t \in Threads, Step(t)
        PROVE  EntitledInv'
    BY <2>5, EntitledStep
  <2>6. CASE UNCHANGED vars
    BY <2>6 DEF EntitledInv, Entitled, Persisting, vars, memVars, storeVars, threadVars,
                outerVars
  <2> QED
    BY <2>1, <2>2, <2>3, <2>4, <2>5, <2>6 DEF Next
<1> QED
  BY <1>1, <1>2, TypeCorrect, MigrationInvariant, StartupInvariant, PTL DEF Spec

\* A clearMigration that reports success, and that no other call ran beside, has
\* emptied the store.
THEOREM ClearIsReal == Spec /\ []ClearIsAlone => ClearEmptiesStore
<1>1. TypeOK /\ MigrationInv /\ PathInv /\ EntitledInv /\ [Next]_vars
        => [\A t \in Threads :
              op[t] = "clearMigration" /\ result'[t] = "ok"
                  => deviceInfo = NoInfo /\ marker = "absent"]_vars
  <2> SUFFICES ASSUME TypeOK, MigrationInv, PathInv, EntitledInv, Next, NEW t \in Threads,
                      op[t] = "clearMigration", result'[t] = "ok"
               PROVE  deviceInfo = NoInfo /\ marker = "absent"
    OBVIOUS
  <2>1. ClReset(t)
    BY ClearReporter
  <2> QED
    BY <2>1 DEF ClReset, At, MigrationInv, MarkerInv, Unmarked, EntitledInv, Entitled
<1> QED
  BY <1>1, TypeCorrect, MigrationInvariant, PathInvariant, EntitledInvariant, PTL
  DEF Spec, ClearEmptiesStore

\* As long as clearMigration stays alone, nothing but a migration and the build
\* without one writes the store before the plugin is migrated, and nothing
\* writes the AS file.
THEOREM NothingIsPersistedEarly == Spec /\ []ClearIsAlone => NothingPersistedBeforeMigration
<1>1. TypeOK /\ MigrationInv /\ StartupInv /\ EntitledInv /\ [Next]_vars
        => [/\ file' # file => isMigrated
            /\ deviceInfo' # deviceInfo =>
                 isMigrated \/ build = "plain"
                 \/ \E t \in Threads : op[t] \in {"performMigration", "clearMigration"}]_vars
  <2> SUFFICES ASSUME TypeOK, MigrationInv, StartupInv, EntitledInv, Next
               PROVE  /\ file' # file => isMigrated
                      /\ deviceInfo' # deviceInfo =>
                           isMigrated \/ build = "plain"
                           \/ \E t \in Threads : op[t] \in {"performMigration", "clearMigration"}
    OBVIOUS
  <2>1. CASE Startup
    BY <2>1 DEF Startup, InitReadMarker, InitLoadCache, InitReconcile, InitStore, StartupInv,
                storeVars, worldVars
  <2>2. CASE Restart \/ ExternalUnpair
    BY <2>2 DEF Restart, ExternalUnpair, storeVars, worldVars
  <2>3. ASSUME NEW t \in Threads, NEW o \in Operations, NEW d \in Devices, Call(t, o, d)
        PROVE  UNCHANGED <<file, deviceInfo>>
    BY <2>3 DEF Call, storeVars, worldVars
  <2>4. ASSUME NEW t \in Threads, Step(t)
        PROVE  /\ file' # file => isMigrated
               /\ deviceInfo' # deviceInfo =>
                    isMigrated \/ build = "plain"
                    \/ op[t] \in {"performMigration", "clearMigration"}
    <3>1. FsWrite(t) => isMigrated
      BY DEF FsWrite, At, EntitledInv, Entitled
    <3>2. WsSetValue(t) => isMigrated \/ build = "plain" \/ op[t] = "performMigration"
      BY DEF WsSetValue, At, EntitledInv, Entitled, WriteSteps, Persisting
    <3>3. ClDeleteInfo(t) => op[t] = "clearMigration"
      BY DEF ClDeleteInfo, At, MigrationInv, OpInv, ClearSteps
    <3> QED
      BY <2>4, <3>1, <3>2, <3>3, SharedWriters
  <2> QED
    BY <2>1, <2>2, <2>3, <2>4 DEF Next
<1> QED
  BY <1>1, TypeCorrect, MigrationInvariant, StartupInvariant, EntitledInvariant, PTL
  DEF Spec, NothingPersistedBeforeMigration

-----------------------------------------------------------------------------
(* A call that runs alone                                                  *)

\* With the others idle, what a thread has prepared is still true when it goes
\* on: the snapshot it writes is the cache, what it has written is the cache.
Undisturbed(t) ==
    /\ pc[t] = "wsSetValue" => snap[t] = StoreView(cache)
    /\ pc[t] \in {"wsIsMigrated", "fsSnapshot", "fsWrite", "pmWriteMarker"}
            => deviceInfo = StoreView(cache)
    /\ pc[t] = "fsWrite" => snap[t] = cache
    /\ pc[t] = "clReset" => cache = EmptyMap
    /\ pc[t] = "lcWrite" => dev[t] \in DOMAIN cache /\ rec[t] = cache[dev[t]]

\* A thread's own steps keep what it has prepared.
LEMMA UndisturbedStep ==
    ASSUME TypeOK, NEW t \in Threads, Undisturbed(t), Step(t)
    PROVE  Undisturbed(t)'
<1> USE DEF TypeOK, At, Goto, Return, Undisturbed, localVars
<1>1. CASE PerformMigration(t)
  <2>1. CASE PmLock(t) \/ PmSwapCache(t) \/ PmCheckEmpty(t) \/ PmBackfill(t)
    BY <2>1 DEF PmLock, PmSwapCache, PmCheckEmpty, PmBackfill
  <2>2. CASE PmReadMarker(t) \/ PmReadFile(t) \/ PmGetPaired(t) \/ PmEnrich(t)
    BY <2>2 DEF PmReadMarker, PmReadFile, PmGetPaired, PmEnrich
  <2>3. CASE PmWriteMarker(t) \/ PmSetMigrated(t)
    BY <2>3 DEF PmWriteMarker, PmSetMigrated
  <2> QED
    BY <1>1, <2>1, <2>2, <2>3 DEF PerformMigration
<1>2. CASE ClearMigration(t)
  BY <1>2 DEF ClearMigration, ClLock, ClDeleteInfo, ClDeleteMarker, ClClearCache, ClReset
<1>3. CASE UpdateDevice(t)
  <2>1. CASE LcRead(t)
    BY <2>1 DEF LcRead
  <2>2. CASE SaIsMigrated(t) \/ SaUpdate(t) \/ LcWrite(t) \/ LvUpdate(t) \/ Gate(t)
    BY <2>2 DEF SaIsMigrated, SaUpdate, LcWrite, LvUpdate, Gate
  <2>3. CASE BtPair(t) \/ AdAdd(t) \/ BtUnpair(t) \/ RmErase(t)
    BY <2>3 DEF BtPair, AdAdd, BtUnpair, RmErase
  <2> QED
    BY <1>3, <2>1, <2>2, <2>3 DEF UpdateDevice
<1>4. CASE WriteStorage(t)
  <2>1. CASE WsSnapshot(t) \/ FsSnapshot(t)
    BY <2>1 DEF WsSnapshot, FsSnapshot, memVars, storeVars
  <2>2. CASE WsSetValue(t)
    BY <2>2 DEF WsSetValue
  <2>3. CASE WsIsMigrated(t) \/ FsWrite(t)
    BY <2>3 DEF WsIsMigrated, FsWrite, WriteDone, storeVars
  <2> QED
    BY <1>4, <2>1, <2>2, <2>3 DEF WriteStorage
<1> QED
  BY <1>1, <1>2, <1>3, <1>4 DEF Step

\* A thread whose call no other has overlapped so far is the only one at work,
\* and what it has prepared is still true.
AloneInv ==
    \A t \in Threads :
        alone = t /\ pc[t] # "idle"
            => Undisturbed(t) /\ \A u \in Threads \ {t} : pc[u] = "idle"

\* The invariant: whoever else begins a call ends the thread's being alone, and
\* before that nobody else makes a step.
LEMMA AloneInvariant == Spec => []AloneInv
<1>1. Init => AloneInv
  BY DEF Init, AloneInv
<1>2. TypeOK /\ MigrationInv /\ AloneInv /\ [Next]_vars => AloneInv'
  <2> SUFFICES ASSUME TypeOK, MigrationInv, AloneInv, [Next]_vars
               PROVE  AloneInv'
    OBVIOUS
  <2>1. CASE Startup
    BY <2>1 DEF Startup, InitReadMarker, InitLoadCache, InitReconcile, InitStore, threadVars,
                MigrationInv, OpInv, AloneInv
  <2>2. CASE Restart
    BY <2>2 DEF Restart, AloneInv
  <2>3. CASE ExternalUnpair
    BY <2>3 DEF ExternalUnpair, AloneInv, Undisturbed, memVars, storeVars, threadVars,
                localVars, outerVars
  <2>4. ASSUME NEW t \in Threads, NEW o \in Operations, NEW d \in Devices, Call(t, o, d)
        PROVE  AloneInv'
    <3>1. pc' = [pc EXCEPT ![t] = FirstStep(o)]
          /\ alone' = IF \A u \in Threads : pc[u] = "idle" THEN t ELSE NoThread
      BY <2>4 DEF Call
    <3>2. Undisturbed(t)'
      BY <3>1, ManagerAssumption DEF FirstStep, AllOperations, TypeOK, Undisturbed
    <3> QED
      BY <3>1, <3>2, ManagerAssumption DEF AloneInv, TypeOK
  <2>5. ASSUME NEW t \in Threads, Step(t)
        PROVE  AloneInv'
    <3>1. /\ pc[t] # "idle" /\ alone' = alone
          /\ \A u \in Threads \ {t} : pc'[u] = pc[u]
      BY <2>5, StepIsLocal
    <3>2. ASSUME NEW u \in Threads, alone' = u, pc'[u] # "idle"
          PROVE  Undisturbed(u)' /\ \A v \in Threads \ {u} : pc'[v] = "idle"
      <4>1. CASE u = t
        BY <2>5, <3>1, <3>2, <4>1, UndisturbedStep DEF AloneInv
      <4>2. CASE u # t
        BY <3>1, <3>2, <4>2 DEF AloneInv
      <4> QED
        BY <4>1, <4>2
    <3> QED
      BY <3>2 DEF AloneInv
  <2>6. CASE UNCHANGED vars
    BY <2>6 DEF AloneInv, Undisturbed, vars, memVars, storeVars, threadVars, localVars,
                outerVars
  <2> QED
    BY <2>1, <2>2, <2>3, <2>4, <2>5, <2>6 DEF Next
<1> QED
  BY <1>1, <1>2, TypeCorrect, MigrationInvariant, PTL DEF Spec

\* setAutoConnect reports success only when it has been through the store.
LEMMA SaveReporter ==
    ASSUME TypeOK, MigrationInv, PathInv, Next, NEW t \in Threads,
           op[t] = "setAutoConnect", result'[t] = "ok"
    PROVE  WsIsMigrated(t) \/ FsWrite(t)
<1>0. /\ pc[t] \in {"saIsMigrated", "saUpdate"} \cup WriteSteps
      /\ pc[t] # "idle" /\ result[t] = "none" /\ phase = "up"
  BY DEF MigrationInv, OpInv, PathInv, WriteSteps
<1>1. CASE Startup \/ Restart \/ ExternalUnpair
  BY <1>0, <1>1 DEF Startup, InitReadMarker, InitLoadCache, InitReconcile, InitStore,
                    Restart, ExternalUnpair, threadVars
<1>2. ASSUME NEW u \in Threads, NEW o \in Operations, NEW d \in Devices, Call(u, o, d)
      PROVE  FALSE
  BY <1>0, <1>2 DEF Call, At, TypeOK
<1>3. ASSUME NEW u \in Threads, Step(u)
      PROVE  WsIsMigrated(t) \/ FsWrite(t)
  <2>1. u = t
    BY <1>0, <1>3, StepIsLocal
  <2> USE DEF TypeOK, Goto, Return, At, WriteSteps
  <2>2. CASE PerformMigration(t)
    BY <1>0, <2>2
    DEF PerformMigration, PmLock, PmReadMarker, PmReadFile, PmGetPaired, PmSwapCache,
        PmCheckEmpty, PmEnrich, PmBackfill, PmWriteMarker, PmSetMigrated
  <2>3. CASE ClearMigration(t)
    BY <1>0, <2>3
    DEF ClearMigration, ClLock, ClDeleteInfo, ClDeleteMarker, ClClearCache, ClReset
  <2>4. CASE UpdateDevice(t)
    BY <1>0, <2>4
    DEF UpdateDevice, SaIsMigrated, SaUpdate, LcRead, LcWrite, LvUpdate, BtPair, AdAdd,
        BtUnpair, RmErase, Gate
  <2>5. CASE WriteStorage(t)
    BY <1>0, <2>5
    DEF WriteStorage, WsSnapshot, WsSetValue, WsIsMigrated, FsSnapshot, FsWrite, Reported
  <2> QED
    BY <1>3, <2>1, <2>2, <2>3, <2>4, <2>5 DEF Step
<1> QED
  BY <1>1, <1>2, <1>3 DEF Next

\* A setAutoConnect that reports success, and that no other call overlapped, has
\* left the whole cache in the store, whatever earlier calls left unsaved.
THEOREM SuccessIsSaved == Spec => SuccessMeansSaved
<1>1. TypeOK /\ MigrationInv /\ PathInv /\ AloneInv /\ [Next]_vars
        => [\A t \in Threads :
              op[t] = "setAutoConnect" /\ result'[t] = "ok" /\ alone = t
                  => deviceInfo' = StoreView(cache')]_vars
  <2> SUFFICES ASSUME TypeOK, MigrationInv, PathInv, AloneInv, Next, NEW t \in Threads,
                      op[t] = "setAutoConnect", result'[t] = "ok", alone = t
               PROVE  deviceInfo' = StoreView(cache')
    OBVIOUS
  <2>1. WsIsMigrated(t) \/ FsWrite(t)
    BY SaveReporter
  <2>2. Undisturbed(t)
    BY <2>1 DEF WsIsMigrated, FsWrite, At, AloneInv
  <2> QED
    BY <2>1, <2>2 DEF WsIsMigrated, FsWrite, At, Undisturbed, storeVars
<1> QED
  BY <1>1, TypeCorrect, MigrationInvariant, PathInvariant, AloneInvariant, PTL
  DEF Spec, SuccessMeansSaved

-----------------------------------------------------------------------------
(* One call at a time                                                      *)

\* One call at a time, whichever thread makes it.
Serial == \A t, u \in Threads : pc[t] # "idle" /\ pc[u] # "idle" => t = u

\* Then clearMigration is alone too.
LEMMA SerialIsAlone == TypeOK /\ MigrationInv /\ Serial => ClearIsAlone
<1> SUFFICES ASSUME MigrationInv, Serial, NEW t \in Threads, NEW u \in Threads,
                    op[t] = "clearMigration", pc[u] # "idle"
             PROVE  t = u
  BY DEF ClearIsAlone
<1>1. pc[t] # "idle"
  BY DEF MigrationInv, OpInv
<1> QED
  BY <1>1 DEF Serial

\* One thread makes one call at a time, as in the runs that check these
\* properties.
LEMMA OneThreadIsSerial ==
    ASSUME \A t, u \in Threads : t = u
    PROVE  Spec => []Serial
<1>1. Serial
  BY DEF Serial
<1> QED
  BY <1>1, PTL

\* What a thread is entitled to, it is when calls do not overlap.
LEMMA EntitledInSeries == Spec /\ []Serial => []EntitledInv
<1>1. TypeOK /\ MigrationInv /\ Serial => ClearIsAlone
  BY SerialIsAlone
<1> QED
  BY <1>1, TypeCorrect, MigrationInvariant, EntitledInvariant, PTL

\* Nobody else is at work when a thread makes a step or a call.
LEMMA OthersIdle ==
    ASSUME TypeOK, Serial, Serial', NEW t \in Threads,
           \/ Step(t)
           \/ \E o \in Operations, d \in Devices : Call(t, o, d)
    PROVE  \A u \in Threads \ {t} : pc[u] = "idle" /\ pc'[u] = "idle"
<1>1. CASE Step(t)
  BY <1>1, StepIsLocal DEF Serial
<1>2. CASE \E o \in Operations, d \in Devices : Call(t, o, d)
  <2>1. PICK o \in Operations, d \in Devices : Call(t, o, d)
    BY <1>2
  <2>2. pc' = [pc EXCEPT ![t] = FirstStep(o)] /\ FirstStep(o) # "idle"
    BY <2>1, ManagerAssumption DEF Call, FirstStep, AllOperations
  <2> QED
    BY <2>2 DEF Serial, TypeOK
<1> QED
  BY <1>1, <1>2

\* Then every call runs alone, and what the thread at work has prepared is
\* still true.
UndisturbedInv == \A t \in Threads : Undisturbed(t)

LEMMA SerialIsUndisturbed == Spec /\ []Serial => []UndisturbedInv
<1> DEFINE Marked == \A t \in Threads : pc[t] # "idle" => alone = t
<1>1. Init => Marked
  BY DEF Init
<1>2. TypeOK /\ MigrationInv /\ Serial /\ Serial' /\ Marked /\ [Next]_vars => Marked'
  <2> SUFFICES ASSUME TypeOK, MigrationInv, Serial, Serial', Marked, [Next]_vars
               PROVE  Marked'
    OBVIOUS
  <2>1. CASE Startup
    BY <2>1 DEF Startup, InitReadMarker, InitLoadCache, InitReconcile, InitStore, threadVars,
                MigrationInv, OpInv
  <2>2. CASE Restart
    BY <2>2 DEF Restart
  <2>3. CASE ExternalUnpair
    BY <2>3 DEF ExternalUnpair, threadVars, outerVars
  <2>4. ASSUME NEW t \in Threads, NEW o \in Operations, NEW d \in Devices, Call(t, o, d)
        PROVE  Marked'
    <3>1. \A u \in Threads \ {t} : pc[u] = "idle" /\ pc'[u] = "idle"
      BY <2>4, OthersIdle
    <3> QED
      BY <2>4, <3>1 DEF Call, At
  <2>5. ASSUME NEW t \in Threads, Step(t)
        PROVE  Marked'
    <3>1. \A u \in Threads \ {t} : pc'[u] = "idle"
      BY <2>5, OthersIdle
    <3> QED
      BY <2>5, <3>1, StepIsLocal
  <2>6. CASE UNCHANGED vars
    BY <2>6 DEF vars, threadVars, outerVars
  <2> QED
    BY <2>1, <2>2, <2>3, <2>4, <2>5, <2>6 DEF Next
<1>3. Marked /\ AloneInv => UndisturbedInv
  BY DEF AloneInv, UndisturbedInv, Undisturbed
<1> HIDE DEF Marked
<1> QED
  BY <1>1, <1>2, <1>3, TypeCorrect, MigrationInvariant, AloneInvariant, PTL DEF Spec

-----------------------------------------------------------------------------
(* The import of the AS file                                               *)

\* A map with exactly the devices of the AS file that BTRMGR listed, which are
\* all of those that are still paired, with the settings they have there.
Imported(c) ==
    LET old == FileEntries(file) IN
    /\ DOMAIN c = (DOMAIN old \cap listed) \ Anonymous
    /\ (DOMAIN old \cap paired) \ Anonymous \subseteq DOMAIN c
    /\ \A d \in DOMAIN c : Settings(c[d]) = Settings(old[d])

\* The thread has put what it imports in the cache.
Swapped(t) ==
    \/ pc[t] \in {"pmCheckEmpty", "pmEnrich", "pmBackfill", "pmWriteMarker"}
    \/ pc[t] \in WriteSteps /\ op[t] = "performMigration"

\* What performMigration has of the AS file at each of its steps.
ImportedBy(t) ==
    /\ pc[t] = "pmGetPaired" => file \notin {NoFile, BadFile} /\ snap[t] = file
    /\ pc[t] = "pmSwapCache" => Imported(snap[t])
    /\ Swapped(t) => Imported(cache)

ImportInv == \A t \in Threads : ImportedBy(t)

\* Settings survive what is left out of the store.
LEMMA StoreViewSettings ==
    ASSUME NEW c \in DeviceMaps
    PROVE  /\ DOMAIN StoreView(c) = DOMAIN c
           /\ \A d \in DOMAIN c : Settings(StoreView(c)[d]) = Settings(c[d])
<1>1. c \in [DOMAIN c -> BluetoothDeviceInfo]
  BY MapElim
<1> QED
  BY <1>1 DEF StoreView, Settings, BluetoothDeviceInfo

\* The steps of performMigration carry the settings of the AS file along.
LEMMA ImportStep ==
    ASSUME TypeOK, MigrationInv, ImportInv, Serial, Serial', NEW t \in Threads, Step(t)
    PROVE  ImportInv'
<1> USE DEF ImportInv, ImportedBy, Swapped, TypeOK, At, Goto, Return, WriteSteps
<1>0. \A u \in Threads \ {t} : pc'[u] = "idle"
  BY OthersIdle
<1>1. CASE PerformMigration(t)
  <2>1. CASE PmLock(t) \/ PmReadMarker(t) \/ PmWriteMarker(t) \/ PmSetMigrated(t)
    BY <1>0, <2>1 DEF PmLock, PmReadMarker, PmWriteMarker, PmSetMigrated
  <2>2. CASE PmReadFile(t)
    <3>1. file = NoFile => Imported(EmptyMap)
      BY DEF Imported, FileEntries, EmptyMap
    <3>2. UNCHANGED <<file, paired, listed>>
      BY <2>2 DEF PmReadFile, worldVars, outerVars
    <3> QED
      BY <1>0, <2>2, <3>1, <3>2 DEF PmReadFile, Imported
  <2>3. CASE PmGetPaired(t)
    <3>1. UNCHANGED <<file, paired>>
      BY <2>3 DEF PmGetPaired, worldVars
    <3>2. pc'[t] \in {"pmSwapCache", "idle"}
      BY <2>3 DEF PmGetPaired
    <3>3. CASE pc'[t] = "pmSwapCache"
      <4>1. /\ snap[t] = file /\ file \notin {NoFile, BadFile}
            /\ snap'[t] = Import(file, paired) /\ listed' = paired
        BY <2>3, <3>3 DEF PmGetPaired
      <4>2. Imported(snap[t])'
        BY <3>1, <4>1 DEF Imported, Import, FileEntries, Settings
      <4> QED
        BY <1>0, <3>3, <4>2
    <3>4. CASE pc'[t] = "idle"
      BY <1>0, <3>4
    <3> QED
      BY <3>2, <3>3, <3>4
  <2>4. CASE PmSwapCache(t)
    BY <1>0, <2>4 DEF PmSwapCache, Imported, worldVars, outerVars
  <2>5. CASE PmCheckEmpty(t) \/ PmEnrich(t)
    <3>1. UNCHANGED <<cache, file, paired, listed>>
      BY <2>5 DEF PmCheckEmpty, PmEnrich, memVars, worldVars, outerVars
    <3>2. Imported(cache)'
      BY <2>5, <3>1 DEF PmCheckEmpty, PmEnrich, Imported
    <3> QED
      BY <1>0, <2>5, <3>2 DEF PmCheckEmpty, PmEnrich
  <2>6. CASE PmBackfill(t)
    <3>1. /\ Imported(cache) /\ cache' = Backfill(cache, seen[t])
          /\ UNCHANGED <<file, paired, listed>>
      BY <2>6 DEF PmBackfill, worldVars, outerVars
    <3>2. Imported(cache)'
      BY <3>1, BackfillKeepsSettings DEF Imported
    <3> QED
      BY <1>0, <2>6, <3>2 DEF PmBackfill
  <2> QED
    BY <1>1, <2>1, <2>2, <2>3, <2>4, <2>5, <2>6 DEF PerformMigration
<1>2. CASE ClearMigration(t)
  BY <1>0, <1>2
  DEF ClearMigration, ClLock, ClDeleteInfo, ClDeleteMarker, ClClearCache, ClReset
<1>3. CASE UpdateDevice(t)
  <2>1. op'[t] # "performMigration"
    BY <1>3 DEF UpdateDevice, SaIsMigrated, SaUpdate, LcRead, LcWrite, LvUpdate, BtPair, AdAdd,
                BtUnpair, RmErase, Gate, MigrationInv, OpInv, OtherSteps
  <2>2. pc'[t] \notin PerformSteps
    BY <1>3 DEF UpdateDevice, SaIsMigrated, SaUpdate, LcRead, LcWrite, LvUpdate, BtPair, AdAdd,
                BtUnpair, RmErase, Gate, PerformSteps
  <2> QED
    BY <1>0, <2>1, <2>2 DEF PerformSteps
<1>4. CASE WriteStorage(t)
  <2>1. UNCHANGED <<cache, paired, listed>>
    BY <1>4 DEF WriteStorage, WsSnapshot, WsSetValue, WsIsMigrated, FsSnapshot, FsWrite,
                memVars, worldVars, outerVars
  <2>2. op[t] = "performMigration" => UNCHANGED file
    BY <1>4, SharedWriters DEF Step, FsWrite, MigrationInv, MigrationLeavesFileAlone
  <2>3. Swapped(t)' => Swapped(t) /\ op[t] = "performMigration"
    BY <1>4 DEF WriteStorage, WsSnapshot, WsSetValue, WsIsMigrated, FsSnapshot, FsWrite,
                WriteDone
  <2>4. pc'[t] \notin {"pmGetPaired", "pmSwapCache"}
    BY <1>4 DEF WriteStorage, WsSnapshot, WsSetValue, WsIsMigrated, FsSnapshot, FsWrite,
                WriteDone
  <2>5. Swapped(t)' => Imported(cache)'
    BY <2>1, <2>2, <2>3 DEF Imported
  <2> QED
    BY <1>0, <2>4, <2>5
<1> QED
  BY <1>1, <1>2, <1>3, <1>4 DEF Step

\* The invariant, as long as calls do not overlap.
LEMMA ImportInvariant == Spec /\ []Serial => []ImportInv
<1>1. Init => ImportInv
  BY DEF Init, ImportInv, ImportedBy, Swapped, WriteSteps
<1>2. TypeOK /\ MigrationInv /\ Serial /\ Serial' /\ ImportInv /\ [Next]_vars => ImportInv'
  <2> SUFFICES ASSUME TypeOK, MigrationInv, Serial, Serial', ImportInv, [Next]_vars
               PROVE  ImportInv'
    OBVIOUS
  <2>1. CASE Startup
    <3>1. \A t \in Threads : pc'[t] = "idle"
      BY <2>1 DEF Startup, InitReadMarker, InitLoadCache, InitReconcile, InitStore, threadVars,
                  MigrationInv, OpInv
    <3> QED
      BY <3>1 DEF ImportInv, ImportedBy, Swapped, WriteSteps
  <2>2. CASE Restart
    BY <2>2 DEF Restart, ImportInv, ImportedBy, Swapped, WriteSteps
  <2>3. CASE ExternalUnpair
    <3>1. UNCHANGED <<pc, op, snap, cache, file, listed>> /\ paired' \subseteq paired
      BY <2>3 DEF ExternalUnpair, memVars, threadVars, localVars, outerVars
    <3> QED
      BY <3>1 DEF ImportInv, ImportedBy, Swapped, Imported
  <2>4. ASSUME NEW t \in Threads, NEW o \in Operations, NEW d \in Devices, Call(t, o, d)
        PROVE  ImportInv'
    <3>1. \A u \in Threads \ {t} : pc'[u] = "idle"
      BY <2>4, OthersIdle
    <3>2. pc'[t] \notin PerformSteps \cup WriteSteps
      BY <2>4, ManagerAssumption
      DEF Call, FirstStep, AllOperations, TypeOK, PerformSteps, WriteSteps
    <3> QED
      BY <3>1, <3>2 DEF ImportInv, ImportedBy, Swapped, PerformSteps, WriteSteps
  <2>5. ASSUME NEW t \in Threads, Step(t)
        PROVE  ImportInv'
    BY <2>5, ImportStep
  <2>6. CASE UNCHANGED vars
    BY <2>6 DEF ImportInv, ImportedBy, Swapped, Imported, vars, memVars, worldVars, threadVars,
                localVars, outerVars
  <2> QED
    BY <2>1, <2>2, <2>3, <2>4, <2>5, <2>6 DEF Next
<1> QED
  BY <1>1, <1>2, TypeCorrect, MigrationInvariant, PTL DEF Spec

\* As long as calls do not overlap, the migration that commits has put in the
\* store exactly the devices of the AS file that BTRMGR listed to it, among them
\* all that are still paired, with their settings, even if devices lost their
\* pairing while it ran.
THEOREM MigrationIsExact == Spec /\ []Serial => MigrationIsFaithful
<1>1. TypeOK /\ MigrationInv /\ UndisturbedInv /\ ImportInv /\ [Next]_vars
        => [marker # "1" /\ marker' = "1" =>
              LET old == FileEntries(file) IN
              /\ DOMAIN deviceInfo = (DOMAIN old \cap listed) \ Anonymous
              /\ (DOMAIN old \cap paired) \ Anonymous \subseteq DOMAIN deviceInfo
              /\ \A d \in DOMAIN deviceInfo :
                    Settings(deviceInfo[d]) = Settings(old[d])]_vars
  <2> SUFFICES ASSUME TypeOK, UndisturbedInv, ImportInv, Next, marker # "1", marker' = "1"
               PROVE  Imported(deviceInfo)
    BY DEF Imported
  <2>1. PICK t \in Threads : PmWriteMarker(t)
    BY MarkerSetter
  <2>2. Imported(cache) /\ deviceInfo = StoreView(cache)
    BY <2>1 DEF PmWriteMarker, At, UndisturbedInv, Undisturbed, ImportInv, ImportedBy, Swapped
  <2> QED
    BY <2>2, StoreViewSettings DEF TypeOK, Imported
<1> QED
  BY <1>1, TypeCorrect, MigrationInvariant, SerialIsUndisturbed, ImportInvariant, PTL
  DEF Spec, MigrationIsFaithful

-----------------------------------------------------------------------------
(* What the store has                                                      *)

\* What is stored is stored as it is: leaving out the addresses twice is leaving
\* them out once, and there is nothing to leave out of the empty map.
LEMMA StoreViewFixed ==
    /\ \A c \in DeviceMaps : StoreView(StoreView(c)) = StoreView(c)
    /\ StoreView(EmptyMap) = EmptyMap
<1>1. ASSUME NEW c \in DeviceMaps PROVE StoreView(StoreView(c)) = StoreView(c)
  <2>1. c \in [DOMAIN c -> BluetoothDeviceInfo]
    BY MapElim
  <2> QED
    BY <2>1 DEF StoreView, BluetoothDeviceInfo
<1>2. StoreView(EmptyMap) = EmptyMap
  BY DEF StoreView, EmptyMap
<1> QED
  BY <1>1, <1>2

\* It has no addresses: reading it back as a cache and storing it again gives
\* the same.
AsStored(x) == x = NoInfo \/ StoreView(x) = x

\* What a migration commits, and what the marker vouches for, has no addresses.
\* Before that the store may hold anything.
StoredForm ==
    /\ marker = "1" => AsStored(deviceInfo)
    /\ \A t \in Threads :
        /\ pc[t] = "wsSetValue" => AsStored(snap[t])
        /\ \/ pc[t] = "pmWriteMarker"
           \/ pc[t] = "wsIsMigrated" /\ op[t] = "performMigration"
           => AsStored(deviceInfo)

\* Whoever writes the store writes a snapshot without addresses.
LEMMA StoredFormStep ==
    ASSUME TypeOK, MigrationInv, StoredForm, NEW t \in Threads, Step(t)
    PROVE  StoredForm'
<1> USE DEF StoredForm, AsStored, TypeOK, At, Goto, Return
<1>0. \A u \in Threads \ {t} : pc'[u] = pc[u] /\ op'[u] = op[u] /\ snap'[u] = snap[u]
  BY StepIsLocal
<1>1. CASE WsSetValue(t)
  BY <1>0, <1>1 DEF WsSetValue, localVars
<1>2. CASE ClDeleteInfo(t)
  BY <1>0, <1>2 DEF ClDeleteInfo, localVars
<1>3. CASE PmWriteMarker(t)
  BY <1>0, <1>3 DEF PmWriteMarker, localVars
<1>4. CASE WsSnapshot(t)
  BY <1>0, <1>4, StoreViewFixed DEF WsSnapshot, storeVars
<1>5. CASE WsIsMigrated(t)
  BY <1>0, <1>5 DEF WsIsMigrated, WriteDone, storeVars, localVars
<1>6. CASE FsWrite(t)
  BY <1>0, <1>6 DEF FsWrite, WriteDone, storeVars, localVars, MigrationInv,
                    MigrationLeavesFileAlone
<1>7. CASE ~(WsSetValue(t) \/ WsSnapshot(t) \/ WsIsMigrated(t) \/ FsWrite(t)
             \/ ClDeleteInfo(t) \/ PmWriteMarker(t))
  <2>1. pc'[t] \notin {"wsSetValue", "wsIsMigrated", "pmWriteMarker"}
    <3>1. CASE PerformMigration(t)
      BY <1>7, <3>1
      DEF PerformMigration, PmLock, PmReadMarker, PmReadFile, PmGetPaired, PmSwapCache,
          PmCheckEmpty, PmEnrich, PmBackfill, PmSetMigrated
    <3>2. CASE ClearMigration(t)
      BY <1>7, <3>2 DEF ClearMigration, ClLock, ClDeleteMarker, ClClearCache, ClReset
    <3>3. CASE UpdateDevice(t)
      BY <1>7, <3>3
      DEF UpdateDevice, SaIsMigrated, SaUpdate, LcRead, LcWrite, LvUpdate, BtPair, AdAdd,
          BtUnpair, RmErase, Gate
    <3>4. CASE WriteStorage(t)
      BY <1>7, <3>4 DEF WriteStorage, FsSnapshot
    <3> QED
      BY <3>1, <3>2, <3>3, <3>4 DEF Step
  <2>2. deviceInfo' = deviceInfo /\ (marker' = "1" => marker = "1")
    BY <1>7, SharedWriters DEF ClDeleteMarker
  <2> QED
    BY <1>0, <2>1, <2>2
<1> QED
  BY <1>1, <1>2, <1>3, <1>4, <1>5, <1>6, <1>7

\* In every interleaving, what the marker vouches for is in the stored form.
LEMMA StoredFormInvariant == Spec => []StoredForm
<1>1. Init => StoredForm
  BY DEF Init, StoredForm
<1>2. TypeOK /\ MigrationInv /\ StoredForm /\ [Next]_vars => StoredForm'
  <2> SUFFICES ASSUME TypeOK, MigrationInv, StoredForm, [Next]_vars
               PROVE  StoredForm'
    OBVIOUS
  <2>1. CASE Startup
    <3>1. \A t \in Threads : pc'[t] = "idle"
      BY <2>1 DEF Startup, InitReadMarker, InitLoadCache, InitReconcile, InitStore, threadVars,
                  MigrationInv, OpInv
    <3>2. marker' = marker /\ deviceInfo' \in {deviceInfo, StoreView(cache)}
      BY <2>1 DEF Startup, InitReadMarker, InitLoadCache, InitReconcile, InitStore, storeVars
    <3> QED
      BY <3>1, <3>2, StoreViewFixed DEF StoredForm, AsStored, TypeOK
  <2>2. CASE Restart
    BY <2>2 DEF Restart, StoredForm, AsStored, storeVars
  <2>3. CASE ExternalUnpair
    BY <2>3 DEF ExternalUnpair, StoredForm, AsStored, storeVars, threadVars, localVars
  <2>4. ASSUME NEW t \in Threads, NEW o \in Operations, NEW d \in Devices, Call(t, o, d)
        PROVE  StoredForm'
    BY <2>4, ManagerAssumption
    DEF Call, FirstStep, AllOperations, TypeOK, StoredForm, AsStored, storeVars
  <2>5. ASSUME NEW t \in Threads, Step(t)
        PROVE  StoredForm'
    BY <2>5, StoredFormStep
  <2>6. CASE UNCHANGED vars
    BY <2>6 DEF StoredForm, AsStored, vars, storeVars, threadVars, localVars
  <2> QED
    BY <2>1, <2>2, <2>3, <2>4, <2>5, <2>6 DEF Next
<1> QED
  BY <1>1, <1>2, TypeCorrect, MigrationInvariant, PTL DEF Spec

-----------------------------------------------------------------------------
(* The abstract store is implemented                                       *)

\* The abstract store starts as the plugin does.
LEMMA InitRefines == Init => Store!Init
<1> SUFFICES ASSUME Init PROVE Store!Init
  OBVIOUS
<1>1. phase = "down" /\ deviceInfo \in DeviceInfoValues /\ marker # "1"
  BY ManagerAssumption DEF Init
<1> QED
  BY <1>1 DEF Store!Init, DeviceInfoValues

\* A step that leaves phase, cache, store, flag and build alone is none of the
\* abstract store, and neither is a step of init that does not end it.
LEMMA StutterRefines ==
    ASSUME UNCHANGED <<deviceInfo, marker>>,
           \/ UNCHANGED <<phase, cache, isMigrated, build>>
           \/ phase # "up" /\ phase' # "up"
    PROVE  UNCHANGED Store!vars
BY DEF Store!vars, Persisting

\* init loads what was committed, or nothing, or it saves what it has
\* reconciled.
LEMMA StartupRefines ==
    ASSUME TypeOK, MigrationInv, StartupInv, StoredForm, Startup
    PROVE  Store!Next \/ UNCHANGED Store!vars
<1>0. \A t \in Threads : pc[t] = "idle" \/ phase = "up"
  BY DEF MigrationInv, OpInv
<1>1. CASE InitReadMarker
  <2>1. CASE phase' = "up"
    <3>1. /\ phase = "down" /\ ~isMigrated' /\ build' = "migration" /\ cache' = EmptyMap
          /\ UNCHANGED <<deviceInfo, marker>>
      BY <1>1, <2>1 DEF InitReadMarker, StartupInv, storeVars, outerVars
    <3>2. Store!Load
      BY <2>1, <3>1, StoreViewFixed DEF Store!Load, Persisting
    <3> QED
      BY <3>2 DEF Store!Next
  <2>2. CASE phase' # "up"
    BY <1>1, <2>2, StutterRefines DEF InitReadMarker, storeVars
  <2> QED
    BY <2>1, <2>2
<1>2. CASE InitLoadCache
  <2>1. CASE phase' = "up"
    <3>1. /\ phase = "loading" /\ build = "migration" /\ isMigrated /\ cache = EmptyMap
          /\ isMigrated' = isMigrated
          /\ cache' = IF deviceInfo = NoInfo THEN cache ELSE deviceInfo
          /\ UNCHANGED <<deviceInfo, marker>>
      BY <1>2, <2>1 DEF InitLoadCache, AbortInit, StartupInv, storeVars
    <3>2. marker = "1"
      BY <1>0, <3>1 DEF MigrationInv, MarkerInv, Unmarked
    <3>3. StoreView(cache') = IF deviceInfo = NoInfo THEN EmptyMap ELSE deviceInfo
      BY <3>1, <3>2, StoreViewFixed DEF StoredForm, AsStored
    <3>4. Store!Load
      BY <2>1, <3>1, <3>2, <3>3 DEF Store!Load, Persisting
    <3> QED
      BY <3>4 DEF Store!Next
  <2>2. CASE phase' # "up"
    <3>1. phase # "up"
      BY <1>2 DEF InitLoadCache
    <3> QED
      BY <1>2, <2>2, <3>1, StutterRefines DEF InitLoadCache, storeVars
  <2> QED
    BY <2>1, <2>2
<1>3. CASE InitReconcile
  BY <1>3, StutterRefines DEF InitReconcile, AbortInit, storeVars
<1>4. CASE InitStore
  <2>1. CASE phase' = "up"
    <3>1. /\ phase = "storing" /\ build = "plain" /\ build' = build /\ cache' = cache
          /\ deviceInfo' = StoreView(cache) /\ marker' = marker
      BY <1>4, <2>1 DEF InitStore, AbortInit, StartupInv, outerVars
    <3>2. /\ StoreView(cache) \in DeviceMaps
          /\ StoreView(StoreView(cache)) = StoreView(cache)
      BY StoreViewType, StoreViewFixed DEF TypeOK
    <3>3. Store!LoadAndSave
      BY <2>1, <3>1, <3>2 DEF Store!LoadAndSave, Persisting
    <3> QED
      BY <3>3 DEF Store!Next
  <2>2. CASE phase' # "up"
    <3>1. phase # "up" /\ UNCHANGED <<deviceInfo, marker>>
      BY <1>4, <2>2 DEF InitStore, AbortInit
    <3> QED
      BY <2>2, <3>1, StutterRefines
  <2> QED
    BY <2>1, <2>2
<1> QED
  BY <1>1, <1>2, <1>3, <1>4 DEF Startup

\* A change of the cache by a thread changes at most one device when the plugin
\* persists, which is what the abstract store allows.
LEMMA EditRefines ==
    ASSUME TypeOK, TypeOK', phase = "up", phase' = "up",
           UNCHANGED <<deviceInfo, marker, isMigrated, build>>,
           Persisting =>
             \E d \in Devices :
                /\ DOMAIN cache' \ {d} = DOMAIN cache \ {d}
                /\ \A e \in DOMAIN cache \ {d} : cache'[e] = cache[e]
    PROVE  Store!Next
<1>1. StoreView(cache') \in DeviceMaps
  BY StoreViewType DEF TypeOK
<1>2. ASSUME NEW d \in Devices,
             DOMAIN cache' \ {d} = DOMAIN cache \ {d},
             \A e \in DOMAIN cache \ {d} : cache'[e] = cache[e]
      PROVE  Store!SameBut(d)
  <2>1. DOMAIN StoreView(cache') = DOMAIN cache' /\ DOMAIN StoreView(cache) = DOMAIN cache
    BY DEF StoreView
  <2>2. \A e \in DOMAIN cache \ {d} : StoreView(cache')[e] = StoreView(cache)[e]
    BY <1>2 DEF StoreView
  <2> QED
    BY <1>2, <2>1, <2>2 DEF Store!SameBut
<1>3. Store!Edit
  BY <1>1, <1>2 DEF Store!Edit, Persisting
<1> QED
  BY <1>3 DEF Store!Next

\* performMigration fills the working copy, commits it, and only then owns it.
LEMMA PerformMigrationRefines ==
    ASSUME TypeOK, TypeOK', MigrationInv, CallInv, UndisturbedInv,
           NEW t \in Threads, PerformMigration(t)
    PROVE  Store!Next \/ UNCHANGED Store!vars
<1>0. phase = "up" /\ phase' = "up" /\ build' = build
  BY StepIsLocal DEF Step, outerVars
<1>1. CASE PmSwapCache(t) \/ PmBackfill(t)
  <2>1. ~isMigrated /\ op[t] = "performMigration" /\ UNCHANGED <<deviceInfo, marker, isMigrated>>
    BY <1>1 DEF PmSwapCache, PmBackfill, At, MigrationInv, MarkerInv, OpInv, Importing,
                PerformSteps, storeVars
  <2>2. ~Persisting
    BY <2>1, ManagerAssumption DEF Persisting, CallInv
  <2> QED
    BY <1>0, <2>1, <2>2, EditRefines
<1>2. CASE PmWriteMarker(t)
  <2>1. CASE marker' = "1"
    <3>1. deviceInfo = StoreView(cache) /\ UNCHANGED <<cache, isMigrated, deviceInfo>>
      BY <1>2 DEF PmWriteMarker, At, UndisturbedInv, Undisturbed
    <3>2. Store!Commit
      BY <1>0, <2>1, <3>1, StoreViewFixed DEF Store!Commit, TypeOK, Persisting
    <3> QED
      BY <3>2 DEF Store!Next
  <2>2. CASE marker' = marker
    BY <1>0, <1>2, <2>2, StutterRefines DEF PmWriteMarker
  <2> QED
    BY <1>2, <2>1, <2>2 DEF PmWriteMarker
<1>3. CASE PmSetMigrated(t)
  <2>1. marker = "1" /\ isMigrated' /\ UNCHANGED <<cache, deviceInfo, marker>>
    BY <1>3 DEF PmSetMigrated, At, MigrationInv, MarkerInv, storeVars
  <2>2. Store!Own
    BY <1>0, <2>1 DEF Store!Own, Persisting
  <2> QED
    BY <2>2 DEF Store!Next
<1>4. CASE PmLock(t) \/ PmReadMarker(t) \/ PmReadFile(t) \/ PmGetPaired(t) \/ PmCheckEmpty(t)
           \/ PmEnrich(t)
  <2>1. UNCHANGED <<cache, isMigrated, deviceInfo, marker>>
    BY <1>4 DEF PmLock, PmReadMarker, PmReadFile, PmGetPaired, PmCheckEmpty, PmEnrich,
                memVars, storeVars
  <2> QED
    BY <1>0, <2>1, StutterRefines
<1> QED
  BY <1>1, <1>2, <1>3, <1>4 DEF PerformMigration

\* clearMigration forgets the saved copy, takes the commitment back, drops the
\* working copy and gives up ownership, in that order.
LEMMA ClearMigrationRefines ==
    ASSUME TypeOK, MigrationInv, CallInv, EntitledInv, UndisturbedInv,
           NEW t \in Threads, ClearMigration(t)
    PROVE  Store!Next \/ UNCHANGED Store!vars
<1>0. phase = "up" /\ phase' = "up" /\ build' = build
  BY StepIsLocal DEF Step, outerVars
<1>1. CASE ClLock(t)
  BY <1>0, <1>1, StutterRefines DEF ClLock, storeVars
<1>2. CASE ClDeleteInfo(t)
  <2>1. UNCHANGED <<cache, isMigrated, marker>> /\ deviceInfo' \in {deviceInfo, NoInfo}
    BY <1>2 DEF ClDeleteInfo
  <2>2. deviceInfo' = NoInfo => Store!Forget
    BY <1>0, <2>1 DEF Store!Forget, Persisting
  <2> QED
    BY <1>0, <2>1, <2>2, StutterRefines DEF Store!Next
<1>3. CASE ClDeleteMarker(t)
  <2>1. /\ UNCHANGED <<cache, isMigrated, deviceInfo>> /\ marker' \in {marker, "absent"}
        /\ deviceInfo = NoInfo
    BY <1>3 DEF ClDeleteMarker, At, EntitledInv, Entitled
  <2>2. marker' = "absent" => Store!Uncommit
    BY <1>0, <2>1 DEF Store!Uncommit, Persisting
  <2> QED
    BY <1>0, <2>1, <2>2, StutterRefines DEF Store!Next
<1>4. CASE ClClearCache(t)
  <2>1. cache' = EmptyMap /\ UNCHANGED <<isMigrated, deviceInfo, marker>> /\ marker = "absent"
    BY <1>4 DEF ClClearCache, At, MigrationInv, MarkerInv, Unmarked, storeVars
  <2>2. Store!Drop
    BY <1>0, <2>1, StoreViewFixed DEF Store!Drop, Persisting
  <2> QED
    BY <2>2 DEF Store!Next
<1>5. CASE ClReset(t)
  <2>1. /\ ~isMigrated' /\ UNCHANGED <<cache, deviceInfo, marker>> /\ marker = "absent"
        /\ cache = EmptyMap /\ op[t] = "clearMigration"
    BY <1>5 DEF ClReset, At, MigrationInv, MarkerInv, OpInv, Unmarked, ClearSteps,
                UndisturbedInv, Undisturbed, storeVars
  <2>2. build = "migration"
    BY <2>1 DEF CallInv
  <2>3. Store!Disown
    BY <1>0, <2>1, <2>2, StoreViewFixed DEF Store!Disown, Persisting
  <2> QED
    BY <2>3 DEF Store!Next
<1> QED
  BY <1>1, <1>2, <1>3, <1>4, <1>5 DEF ClearMigration

\* The operations on one device edit that device.
LEMMA UpdateDeviceRefines ==
    ASSUME TypeOK, TypeOK', NEW t \in Threads, UpdateDevice(t)
    PROVE  Store!Next \/ UNCHANGED Store!vars
<1>0. /\ phase = "up" /\ phase' = "up" /\ build' = build
      /\ UNCHANGED <<deviceInfo, marker, isMigrated>>
  <2>1. UNCHANGED <<deviceInfo, marker, isMigrated>>
    BY DEF UpdateDevice, SaIsMigrated, SaUpdate, LcRead, LcWrite, LvUpdate, BtPair, AdAdd,
           BtUnpair, RmErase, Gate, storeVars
  <2> QED
    BY <2>1, StepIsLocal DEF Step, outerVars
<1>1. CASE cache' = cache
  BY <1>0, <1>1, StutterRefines
<1>2. CASE cache' # cache
  <2>1. SaUpdate(t) \/ LcWrite(t) \/ LvUpdate(t) \/ AdAdd(t) \/ RmErase(t)
    BY <1>2 DEF UpdateDevice, SaIsMigrated, LcRead, BtPair, BtUnpair, Gate
  <2>2. /\ DOMAIN cache' \ {dev[t]} = DOMAIN cache \ {dev[t]}
        /\ \A e \in DOMAIN cache \ {dev[t]} : cache'[e] = cache[e]
    <3>1. CASE SaUpdate(t) \/ LvUpdate(t)
      <4>1. cache \in [DOMAIN cache -> BluetoothDeviceInfo]
        BY MapElim DEF TypeOK
      <4> QED
        BY <1>2, <3>1, <4>1 DEF SaUpdate, LvUpdate
    <3>2. CASE LcWrite(t) \/ AdAdd(t)
      BY <1>2, <3>2 DEF LcWrite, AdAdd, Put
    <3>3. CASE RmErase(t)
      BY <1>2, <3>3 DEF RmErase, Erase
    <3> QED
      BY <2>1, <3>1, <3>2, <3>3
  <2>3. dev[t] \in Devices
    BY DEF TypeOK
  <2> QED
    BY <1>0, <2>2, <2>3, EditRefines
<1> QED
  BY <1>1, <1>2

\* Writing the store flushes the whole working copy.
LEMMA WriteStorageRefines ==
    ASSUME TypeOK, MigrationInv, EntitledInv, UndisturbedInv,
           NEW t \in Threads, WriteStorage(t)
    PROVE  Store!Next \/ UNCHANGED Store!vars
<1>0. phase = "up" /\ phase' = "up" /\ build' = build
  BY StepIsLocal DEF Step, outerVars
<1>1. CASE WsSetValue(t)
  <2>1. /\ UNCHANGED <<cache, isMigrated, marker>> /\ deviceInfo' \in {deviceInfo, snap[t]}
        /\ snap[t] = StoreView(cache)
    BY <1>1 DEF WsSetValue, At, UndisturbedInv, Undisturbed
  <2>2. Persisting \/ marker # "1"
    BY <1>1 DEF WsSetValue, At, EntitledInv, Entitled, MigrationInv, MarkerInv, Importing,
                WriteSteps
  <2>3. deviceInfo' = snap[t] => Store!Flush
    BY <1>0, <2>1, <2>2, StoreViewFixed DEF Store!Flush, TypeOK, Persisting
  <2> QED
    BY <1>0, <2>1, <2>3, StutterRefines DEF Store!Next
<1>2. CASE ~WsSetValue(t)
  <2>1. UNCHANGED <<cache, isMigrated, deviceInfo, marker>>
    BY <1>2 DEF WriteStorage, WsSnapshot, WsIsMigrated, FsSnapshot, FsWrite, memVars, storeVars
  <2> QED
    BY <1>0, <2>1, StutterRefines
<1> QED
  BY <1>1, <1>2

\* As long as calls do not overlap, the device manager - cache, PersistentStore,
\* marker, flag, in both builds, with every fault, through any number of
\* restarts - implements the abstract store.
THEOREM RefinesMigratedStore == Spec /\ []Serial => ImplementsMigratedStore
<1>1. TypeOK /\ TypeOK' /\ MigrationInv /\ StartupInv /\ CallInv /\ EntitledInv
      /\ UndisturbedInv /\ StoredForm /\ [Next]_vars
        => [Store!Next]_Store!vars
  <2> SUFFICES ASSUME TypeOK, TypeOK', MigrationInv, StartupInv, CallInv, EntitledInv,
                      UndisturbedInv, StoredForm, [Next]_vars
               PROVE  [Store!Next]_Store!vars
    OBVIOUS
  <2>1. CASE Startup
    BY <2>1, StartupRefines
  <2>2. CASE Restart
    <3>1. Store!Die
      BY <2>2 DEF Restart, Store!Die, storeVars
    <3> QED
      BY <3>1 DEF Store!Next
  <2>3. CASE ExternalUnpair
    BY <2>3, StutterRefines DEF ExternalUnpair, memVars, storeVars, outerVars
  <2>4. ASSUME NEW t \in Threads, NEW o \in Operations, NEW d \in Devices, Call(t, o, d)
        PROVE  UNCHANGED Store!vars
    BY <2>4, StutterRefines DEF Call, memVars, storeVars
  <2>5. ASSUME NEW t \in Threads, Step(t)
        PROVE  Store!Next \/ UNCHANGED Store!vars
    BY <2>5, PerformMigrationRefines, ClearMigrationRefines, UpdateDeviceRefines,
       WriteStorageRefines DEF Step
  <2>6. CASE UNCHANGED vars
    BY <2>6, StutterRefines DEF vars, memVars, storeVars, outerVars
  <2> QED
    BY <2>1, <2>2, <2>3, <2>4, <2>5, <2>6 DEF Next
<1> QED
  BY <1>1, InitRefines, EntitledInSeries, TypeCorrect, MigrationInvariant,
     StartupInvariant, CallInvariant, SerialIsUndisturbed, StoredFormInvariant, PTL
  DEF Spec, ImplementsMigratedStore, Store!Spec
=============================================================================
