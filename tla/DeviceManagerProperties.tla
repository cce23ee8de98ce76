---------------------- MODULE DeviceManagerProperties ----------------------
(***************************************************************************)
(* What must hold of DeviceManager.                                        *)
(***************************************************************************)
EXTENDS DeviceManager

-----------------------------------------------------------------------------
(* The migration lock                                                      *)

\* The thread is between taking and releasing _migrationLock.
InLockedRegion(t) ==
    \/ pc[t] \in PerformSteps \cup ClearSteps
    \/ pc[t] \in WriteSteps /\ op[t] = "performMigration"

LockInv == \A t \in Threads : migrationLock = t <=> InLockedRegion(t)

\* The operation a thread is in, by its step.
OpInv ==
    \A t \in Threads :
        /\ pc[t] \in PerformSteps \cup {"pmLock"} => op[t] = "performMigration"
        /\ pc[t] \in ClearSteps \cup {"clLock"}   => op[t] = "clearMigration"
        /\ pc[t] \in OtherSteps \ {"pmLock"}      => op[t] # "performMigration"
        /\ pc[t] = "idle" => op[t] = "none"
        /\ pc[t] # "idle" => result[t] = "none"
        /\ phase # "up" => pc[t] = "idle"

\* The thread is importing: it has found that migration is not done.
Importing(t) ==
    \/ pc[t] \in PerformSteps \ {"pmReadMarker", "pmSetMigrated"}
    \/ pc[t] \in WriteSteps /\ op[t] = "performMigration"

\* The marker is already gone, the flag is not reset yet.
Unmarked(t) == pc[t] \in {"clClearCache", "clReset"}

MarkerInv ==
    /\ isMigrated => marker = "1" \/ \E t \in Threads : Unmarked(t)
    /\ \A t \in Threads :
        /\ Importing(t) => marker # "1" /\ ~isMigrated
        /\ pc[t] = "pmSetMigrated" => marker = "1"
        /\ Unmarked(t) => marker = "absent"

\* performMigration has written deviceInfo before it writes the marker.
StoredInv ==
    \A t \in Threads :
        \/ pc[t] = "pmWriteMarker"
        \/ pc[t] = "wsIsMigrated" /\ op[t] = "performMigration"
        => deviceInfo # NoInfo

\* performMigration does not write the AS file it imports from, although it
\* stores through writeStorageFromCache, which mirrors every other store to
\* that file: it is the migration flag, still unset, that keeps it off.
MigrationLeavesFileAlone ==
    \A t \in Threads :
        op[t] = "performMigration" => pc[t] \notin {"fsSnapshot", "fsWrite"}

\* The inductive invariant behind the theorems.  It ties the volatile flag
\* _isMigrated, the durable marker and the step of the lock holder together,
\* for every interleaving of the manager's callers.
MigrationInv == LockInv /\ OpInv /\ MarkerInv /\ StoredInv /\ MigrationLeavesFileAlone

-----------------------------------------------------------------------------
(* Any number of threads, every fault, restarts                            *)

\* The marker is only set when deviceInfo is in the store, whatever the other
\* threads did since this migration wrote it.
MarkerWrittenLast ==
    [][marker # "1" /\ marker' = "1" => deviceInfo # NoInfo]_vars

\* A performMigration that reports success leaves the plugin migrated, in
\* memory and in the store.
MigrationSuccessIsReal ==
    [][\A t \in Threads :
        op[t] = "performMigration" /\ result'[t] = "ok" => isMigrated' /\ marker' = "1"]_vars

\* After a clearMigration that reports success the plugin is not migrated,
\* neither in memory nor in the store, whatever the other callers did in the
\* meantime: the next start imports afresh.
ClearedIsNotTrusted ==
    [][\A t \in Threads :
        op[t] = "clearMigration" /\ result'[t] = "ok" => ~isMigrated' /\ marker' = "absent"]_vars

\* A setAutoConnect that reports success, and that no other call overlapped,
\* leaves the whole cache in the store: also what earlier calls, failed or
\* overlapping, left unsaved.  This is how a client's retry repairs them.  (The
\* other updates report success whether they were stored or not.)
SuccessMeansSaved ==
    [][\A t \in Threads :
        op[t] = "setAutoConnect" /\ result'[t] = "ok" /\ alone = t
            => deviceInfo' = StoreView(cache')]_vars

\* Every call comes back.
EveryCallReturns ==
    \A t \in Threads : pc[t] # "idle" ~> pc[t] = "idle"

-----------------------------------------------------------------------------
(* One thread                                                              *)

Quiet == phase = "up" /\ \A t \in Threads : pc[t] = "idle"

Settings(info) == <<info.auto, info.time, info.vol>>

\* When a migration commits, the store has exactly those devices of the AS
\* file that BTRMGR listed as paired to it, so all that are still paired, with
\* the settings the file has for them.  (A device BTRMGR reports without an
\* address cannot be found in the file.)
MigrationIsFaithful ==
    [][marker # "1" /\ marker' = "1" =>
        LET old == FileEntries(file) IN
        /\ DOMAIN deviceInfo = (DOMAIN old \cap listed) \ Anonymous
        /\ (DOMAIN old \cap paired) \ Anonymous \subseteq DOMAIN deviceInfo
        /\ \A d \in DOMAIN deviceInfo : Settings(deviceInfo[d]) = Settings(old[d])]_vars

\* The build without migration never touches the AS file.  With it, until a
\* migration is done, only a migration changes the store and nothing changes
\* the AS file.
NothingPersistedBeforeMigration ==
    [][/\ file' # file => isMigrated
       /\ deviceInfo' # deviceInfo =>
            isMigrated \/ build = "plain" \/ \E t \in Threads : op[t] \in {"performMigration", "clearMigration"}]_vars

\* Starting up keeps the settings of every device that stays known, and after
\* it the plugin that persists knows of no setting that is not in the store.
\* No device is lost on the way: with migration none that is in the store,
\* without it none that is paired.
StartupKeepsSettings ==
    [][phase # "up" /\ phase' = "up" /\ Persisting /\ deviceInfo # NoInfo =>
        /\ IF build = "plain" THEN paired \subseteq DOMAIN cache'
           ELSE DOMAIN deviceInfo \subseteq DOMAIN cache'
        /\ \A d \in DOMAIN cache' :
              Settings(cache'[d]) =
                  IF d \in DOMAIN deviceInfo THEN Settings(deviceInfo[d])
                  ELSE Settings(FreshInfo(d))]_vars

\* A clearMigration that reports success leaves nothing in the store.
ClearEmptiesStore ==
    [][\A t \in Threads :
        op[t] = "clearMigration" /\ result'[t] = "ok"
            => deviceInfo = NoInfo /\ marker = "absent"]_vars

\* A device that stays paired is not dropped from the AS file, which the
\* rollback needs.  (The file never has human interface devices or devices
\* without an address from this plugin.)
RollbackKeepsDevices ==
    [][(DOMAIN FileEntries(file) \cap paired) \ (Hids \cup Anonymous)
            \subseteq DOMAIN FileEntries(file')]_vars

\* Nothing is dropped from the AS file while a clearMigration is under way.
ClearDropsNoFileEntry ==
    [][\A t \in Threads :
        pc[t] \in ClearSteps => DOMAIN FileEntries(file) \subseteq DOMAIN FileEntries(file')]_vars

\* When nobody is at work, what is in memory is what is in the store: every
\* change that was made has been saved.
StoreAgreesWithCache ==
    Quiet /\ Persisting => deviceInfo = StoreView(cache)

\* When nobody is at work, the plugin keeps metadata of paired devices only,
\* and without migration of all of them.
CachedDevicesArePaired ==
    Quiet => DOMAIN cache \subseteq paired /\ (build = "plain" => paired \subseteq DOMAIN cache)

\* When nobody is at work, the AS file has for every cached device that
\* belongs there what the cache has: a rollback finds the settings the clients
\* made.  (What is unset in the cache is whatever the file has.)
FileAgreesWithCache ==
    Quiet /\ isMigrated =>
        \A d \in Mirrored(cache) :
            LET old == FileEntries(file) IN
            /\ d \in DOMAIN old
            /\ cache[d].auto # "unset" => old[d].auto = cache[d].auto
            /\ cache[d].time # NoTime  => old[d].time = cache[d].time
            /\ old[d].vol = cache[d].vol

\* A marker in the store means that there is a store to trust.
MarkerMeansStored == Quiet /\ marker = "1" => deviceInfo # NoInfo

\* A migrated plugin has loaded what the store holds.
MigratedCacheIsLoaded ==
    Quiet /\ isMigrated /\ deviceInfo # NoInfo => DOMAIN deviceInfo \subseteq DOMAIN cache

-----------------------------------------------------------------------------
(* With one thread the manager implements the abstract store.              *)

Store == INSTANCE MigratedStore WITH
    Device    <- Devices,
    Contents  <- DeviceMaps,
    Nothing   <- NoInfo,
    Empty     <- EmptyMap,
    Saved     <- StoreView,
    running   <- phase = "up",
    working   <- IF phase = "up" THEN StoreView(cache) ELSE EmptyMap,
    saved     <- deviceInfo,
    committed <- marker = "1",
    owned     <- phase = "up" /\ Persisting

ImplementsMigratedStore == Store!Spec
=============================================================================
