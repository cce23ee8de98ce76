# Verification of the Bluetooth plugin

TLA+ modules, TLC runs and TLAPS proofs for the Thunder plugin
`org.rdk.Bluetooth` of this repository (`src/Bluetooth/`). The plugin is a
layer between JSON-RPC clients and BTRMGR, the Bluetooth manager of the
platform. Most of its methods are one call of BTRMGR each. What it does on its
own, and what is modelled here, is:

- it keeps metadata of the paired devices (autoconnect status, time of the last
  connection, volume) in a cache and in **two** stores, and migrates them from
  the older store to the newer one;
- it bounds the time a discovery may take;
- it decides which devices stay connected when it starts, when the power state
  changes, and when a device asks for a connection;
- it hands pointers to itself to a timer, to BTRMGR and to PowerManager, and
  takes them back when it is deactivated.

The code has two builds: with `BLUETOOTH_ENABLE_PERSISTENCE_MIGRATION` (here
"migration") and without it ("plain").

Abbreviations of files below: DM `src/Bluetooth/BluetoothDeviceManager.cpp`,
PA `src/Bluetooth/BluetoothPersistenceAdapter.cpp`, BT
`src/Bluetooth/Bluetooth.cpp`.

## 1. Inventory

### Threads and locks

| Thread | Runs |
|---|---|
| JSON-RPC workers | every client call, several at once |
| BTRMGR callback thread | `notifyEventWrapper`, one event at a time |
| PowerManager notification | `onPowerModeChanged`, one at a time |
| Discovery timer | `DiscoveryTimer::Timed` → `stopDeviceDiscovery` |
| Thunder | `Initialize`, `Deinitialize` |

| Lock | Guards |
|---|---|
| `_adminLock` (device manager) | `_pairedDeviceCache`; taken for short regions, never held over a call |
| `_migrationLock` (device manager, migration build) | `performMigration` and `clearMigration` against each other, over all their calls |
| `gFilesystemPersistenceWriteMutex` (adapter) | `Write` from reading the AS file to replacing it |
| none | `m_discoveryRunning`, the discovery timer, `_instance`, `_service`; `_isMigrated` is an atomic |

The comment at `src/Bluetooth/Bluetooth.h:283` takes Thunder to make one call of
the plugin at a time. The models do not: the calls are dispatched by a pool of
workers, and timer, events and notifications come on threads of their own.

### Device manager (DM), both builds — modelled

*State*: `_pairedDeviceCache`, `_isMigrated`, and outside the process the keys
`deviceInfo` and `migrationVersion` of PersistentStore and the AS file
(`BluetoothPersistenceAdapter`).
*Operations*: `init`, `deinit`, `performMigration`, `clearMigration`,
`setAutoConnect`, `setLastConnectTimeUtc`, `setLastVolumeSetting`, `addDevice`,
`removeDevice`, getters.
*Interacts* with PersistentStore (GetValue, SetValue, DeleteKey), BTRMGR
(paired devices, properties), the adapter; called by the plugin's wrappers.
*Builds*: the migration build loads the store at startup if the marker is there,
and persists nothing without it; the plain build loads the store, reconciles it
with BTRMGR's pairings, stores the result, and always persists. A box may be
updated from one to the other over the same store.
*Hard*: updates change the cache under the lock, and store it after releasing
it; migration and clearing are five to ten calls that may each fail, or be the
last thing the process does; the marker that says "migrated" is a key of its
own; every write after the migration is mirrored to the file the migration
imported from, so that an older image finds it; a startup that writes may be cut
off in the middle, or fail to read what it is about to replace.
*Correct when*: the marker is set only over stored data, and the volatile flag
only over the marker; a migration imports exactly what the file had for paired
devices; nothing is stored before; a startup loses no setting; what a call
reports as saved is saved; store, cache and AS file agree when nobody is at
work; a rollback to an older image finds every paired device; every call
returns.

### Persistence adapter (PA) — modelled

*State*: the AS file, its temporary file. *Operations*: `Write`, `Parse`,
`ReadRaw` (`Read` has no caller). *Hard*: one temporary name for all writers, a
merge with the file about to be replaced, which may turn out unreadable, short
writes, failures of seven system calls, process death and power loss between any two of them.
*Correct when*: whoever opens the file finds it whole, a writer replaces the
file it merged with and publishes its own payload, nothing is left behind.

### Discovery (BT 357–460, 1430–1471, 2133–2138) — modelled

*State*: `m_discoveryRunning`, the timer queue, BTRMGR's discovery.
*Operations*: `startScan`, `stopScan`, the timer. *Hard*: three kinds of threads
test and set a flag without a lock, across calls that may fail. *Correct when*:
the flag, which turns `startScan` into a successful no-op, is never left set for
good, and every discovery ends.

### Connection policy (BT 180–202, 257–274, 1179–1207, 2008–2119) — modelled

*State*: the power state, the connections, whether the adapter is on, the
manager's cache and flag. *Operations*: the clean-up at the end of `Initialize`
(in both builds, with different rules), `onPowerModeChanged`, the external
connection request; the clients' calls that bear on them, `enable` and `disable`
included. *Hard*: they act on copies of the cache and test the migration flag,
some of them twice, while clients change both; the observer of the power state
is registered before the manager is initialized.
*Correct when*: human interface devices are spared, nothing else unwanted stays
connected in standby or deep sleep, a box that wakes up has Bluetooth on, a
request is rejected only because of a stored status and always ends with an
answer.

### Life cycle (BT 155–178, 204–298, the constructor and destructor) — modelled

*State*: the static `_instance`, the callback at BTRMGR, the notification at
PowerManager, the manager's `_service`, the timer's queue. *Operations*:
construction, `Initialize` with its failures, `Deinitialize`, destruction.
*Interacts* with everyone who may be inside the object meanwhile: the discovery
timer, whose static queue knows the object by its address; the BTRMGR callback,
which tests `_instance` and then names it again; the power notification.
*Hard*: none of these three holds a reference; `Deinitialize` does not revoke
the timer, and takes back the pointers in an order of its own; the
unregistrations may fail and do not wait. *Correct when*: what was registered is
there while the plugin is up and gone when it is down, on every failure path,
and a plugin deactivated at rest is never entered again.

### The rest

| Component | Status |
|---|---|
| Wrappers for pairing, connecting, volume, enable, disable | partly: what they do to the manager, the connections and the adapter |
| Event translation (`notifyEventWrapper`) | partly: connection request, discovery complete; the others build a notification |
| Audio streaming, playback, adapter properties | not modelled, see section 5 |
| JSON-RPC table and parameter parsing | not modelled, see section 5 |
| BTRMGR, PersistentStore, PowerManager, Thunder and its timer | outside the repository: modelled as the code uses them |
| Tests, build files, documents | read as statements about the code |

`PROJECT.json` lists the hazards of the code, each at its line with the
properties that would catch it.

## 2. Modules

| Module | Models |
|---|---|
| `BluetoothDeviceInfo` | the data: device records and maps, and the conversions on their way to PersistentStore, to the AS file and back |
| `DeviceManager` | the device manager in either build, any number of threads, one action per region under `_adminLock` and per external call |
| `DeviceManagerProperties` | its properties, the inductive invariant, the refinement mapping |
| `MigratedStore` | abstract specification: what the manager promises its clients about a store and a commit mark |
| `PersistenceAdapter` | `Write`, system call by system call, over a file system that may lose unsynced data |
| `AtomicFile` | abstract specification: what `Write` promises of the AS file |
| `Discovery` | the flag, the timer and BTRMGR's discovery, of any number of plugin objects |
| `PluginLifecycle` | construction, `Initialize`, `Deinitialize`, destruction and the visitors, composed with `Discovery` |
| `ConnectionPolicy` | clean-up, power policy, connection requests, the adapter's power |
| `MC…` | instances for TLC |
| `BluetoothDeviceInfoProofs` | lemmas about the map operators |
| `DeviceManagerProofs` | theorems about the manager whatever runs beside what |
| `SerialCallsProofs` | theorems about the manager while calls do not overlap, with the refinement of `MigratedStore` |
| `QuietProofs` | theorems about what store, cache, pairings and AS file share when nobody is at work |
| `PersistenceAdapterProofs`, `PluginLifecycleProofs`, `ConnectionPolicyProofs` | theorems about the other modules, with the refinement of `AtomicFile` |

`DeviceManager` and its satellites EXTEND one another; `DeviceManagerProperties`
takes `MigratedStore` by INSTANCE … WITH, and `PersistenceAdapter` takes
`AtomicFile` so. `PersistenceAdapter` and `DeviceManager` meet at `FsWrite`: the
adapter implements `AtomicFile`, a file whose whole contents take each other's
place at once, each Write merges with the content it replaces
(`MergeBaseIsCurrent`), and `FsWrite` is that one step (`Mirror` in
`BluetoothDeviceInfo`). `Discovery` has steps but no specification of its own:
the objects it works in are made and destroyed by `PluginLifecycle`, which
EXTENDS it and interleaves its own steps with `DiscoveryNext`.
`ConnectionPolicy` sees the manager's cache reduced to autoconnect statuses;
its `ImportCache`/`ClearCache` followed by `SetFlag` keep the one order of
events it depends on: the cache changes before the flag.

### Correspondence

- **Actions** are named after the operation (`Pm…` performMigration, `Cl…`
  clearMigration, `Sa…` setAutoConnect, `Lc…` setLastConnectTimeUtc, `Lv…`
  setLastVolumeSetting, `Ad…`/`Rm…` addDevice/removeDevice, `Ws…`
  writeStorageFromCache, `Fs…` the mirror to the AS file, `St…`/`Sp…` start and
  stop of a discovery, `De…` Deinitialize, `Pw…`, `Cu…`, `Rq…` the three policies). The variable
  `pc` is a thread's position; the calls between two positions are in the
  source in that order. `PROJECT.json` "map" gives each definition its lines.
- **Error paths** are disjuncts guarded by `Fails(…)`; the constant `Faults`
  says which may happen. An early return is `Return(t, r)`, which also releases
  `_migrationLock`, as the guard object does. Its result is what the client is
  told: `setAutoConnect` and `performMigration` hand a failed store on, while the
  wrappers of pair, unpair, connect and volume ignore what the manager says
  (`Reported`).
- **Restart** loses the variables that live in memory and keeps the stores; the
  process that comes up may be of the other build (`Builds`).
- **History variables** record what the code does not: `ignored` (failures
  `Write` went on after), `alone` (the call of the manager that no other call has
  overlapped), `listed` (the devices BTRMGR named to the migration under way),
  `disturbed` (calls of a discovery overlapped, a stop
  failed, or `Deinitialize` came with a discovery on or somebody inside),
  `happened` (activities around the policy since it last applied: a transition
  into a state it covers, met at rest, empties it). They let one run cover
  everything while a property says under which circumstances it holds.
- **Seeded faults**: the definitions so commented (`GateOpen`, `PmNoLock`, …)
  are variants of the definition below them with a plausible bug. No
  specification uses them; with the variant in the place of the definition each
  property of a passing run is violated, which shows that the run can see it.

### Abstractions

A device is its handle, its address and its name at once; `friendlyName` is
dropped; a record has an address flag, a type, an autoconnect status, a time
and a volume. `""` and `"UNKNOWN"` are one type. In `DeviceManager` the type is
what BTRMGR reports; the policies exempt exactly the string
`"HUMAN INTERFACE DEVICE"`, and `Hids` in `ConnectionPolicy` are the devices of
that type. OFF, STANDBY and LIGHT_SLEEP, which the code tests together, are one
power state. In `ConnectionPolicy` a call of a client is one action as far as it
touches the state of the policy, and `setDeviceConnection` is one outcome,
whichever BTRMGR call the type of the device selects. JSON is a function from devices to records; what a conversion
loses is kept: the stored array has no `deviceAddr` (`StoreView`), the AS file
has no "unset" and no entry without an address or for an HID (`MergedInfo`,
`Mirrored`).

*Thunder*, as far as the life cycle depends on it: it has one plugin object at a
time, calls it once `Initialize` has returned without a message, calls
`Deinitialize` also after an `Initialize` that failed, and holds a reference for
each JSON-RPC call. Timer, BTRMGR and PowerManager hold none, and neither
unregistration waits for a call under way. *Undefined behaviour* is a choice:
the flag in a destroyed object has any value, a new object may get the address
of an old one, `_instance` named twice without a lock is read once or twice.

## 3. Runs

"Passing" runs search all reachable states of the instance.

| Run | Instance | Shows |
|---|---|---|
| `MCSequential` | 1 thread, both builds, every operation and fault, 5 AS files, 2 stores, 1 restart, into the same build or the other; 1.7 million states | `MigrationIsFaithful`: exactly the devices listed as paired, with their settings; `NothingPersistedBeforeMigration`, `ClearEmptiesStore`; `SuccessMeansSaved`: a successful setAutoConnect leaves the whole cache in the store, also after earlier failures; `StartupKeepsSettings`; `ImplementsMigratedStore`: the manager refines `MigratedStore` |
| `MCUndisturbed` | 1 thread, both builds, 3 devices (one HID, one without an address), every operation, 4 calls, no restart, no fault but an AS file that cannot be read; 370 thousand states | when the caller is idle, cache, store, AS file and pairings agree (`StoreAgreesWithCache`, `FileAgreesWithCache`, `CachedDevicesArePaired`), a marker comes with data, and the AS file loses no paired device |
| `MCConcurrent` | 3 threads, 3 calls, failing store and BTRMGR calls, 1 restart, fair; 200 thousand states | `MigrationInv`; `MarkerWrittenLast`, `MigrationSuccessIsReal`, `ClearedIsNotTrusted`: what a migration or a clearing reports has happened; `SuccessMeansSaved` after overlapping calls; `EveryCallReturns` |
| `MCAdapter` | 2 writers, 3 writes, every failure, 2 stops, fair; 58 thousand states | the AS file stays whole, no lost merge, no temporary file left, `ImplementsAtomicFile`: the adapter refines `AtomicFile`; `EveryWriteReturns` |
| `MCDiscovery` | 2 plugin objects, 2 callers, timer, event and notification threads, 3 calls, 1 deactivation, every failure, fair; 560 thousand states | the flag is never stranded (`RunningIsTimed`, `RunningEnds`); an undisturbed discovery is known and ends; `RegisteredWhileUp`; `NobodyAstray`: a plugin deactivated at rest is never entered again |
| `MCPolicy` | 2 devices (one HID), both builds, 3 activities out of 13 kinds, fair; 2.4 million states | `AsleepIsQuiet`, `AwakeIsOn`, `StartupLeavesNoUnwanted`, `HidsStayConnected`, `RejectsOnKnownStatus`, `RequestIsAnswered` |

Runs that end with a counterexample, each to a sentence of the repository's
documents (quoted in `PROJECT.json` "findings"):

| Run | Counterexample |
|---|---|
| `MCRollbackAfterRestart` | after a restart the cached records come from PersistentStore and have no address; the next change rewrites the AS file without them, and a rollback finds no devices |
| `MCClearAgainstWriter` | a writer between the emptying of the cache and the reset of the flag mirrors the empty cache to the AS file |
| `MCStaleSnapshot` | two writers call SetValue in the opposite order of their snapshots: the store keeps the older, and both calls succeed |
| `MCMarkerReadFails` | the marker cannot be read at startup; `performMigration` then finds it, sets the flag over an empty cache, and the next change writes that over the store |
| `MCDiscoveryForever` | the timer has tested the flag; a stopScan and a startScan later it clears the flag of the new discovery, which neither the timer nor stopScan then stops |
| `MCInitialPower` | `Initialize` handles the current power state before the manager has read the marker, so nothing is done for it |

### Limits met while modelling

These behaviours are in the models, and the passing properties are stated
around them:

- pair, unpair, connect and setDeviceVolumeMuteInfo report success whether their
  update was stored or not (BT 700-708, 1840-1848): `SuccessMeansSaved` is a
  promise of setAutoConnect only, and an update that failed stays in the cache
  until a later call saves it;
- an AS file that cannot be read when `Write` merges is replaced all the same,
  and the fields unset in the cache lose the values of the file
  (`MergeBaseIsCurrent` says "if it could read any"; the devices stay,
  `RollbackKeepsDevices`);
- a writer whose snapshot is older than a `clearMigration` stores `deviceInfo`
  again after it was deleted, and `clearMigration` reports success
  (`ClearEmptiesStore` is checked with one thread, and proved for a
  `clearMigration` that runs alone);
- `clearMigration` deletes `deviceInfo` before the marker: stopped in between it
  leaves a marker without data (`MarkerMeansStored` is checked without faults
  and restarts, and proved when no such stop can happen: `ClearIsWhole`);
- `setLastConnectTimeUtc` writes back a record it read under an earlier hold of
  the lock, and revives a device unpaired meanwhile (`CachedDevicesArePaired`
  is checked with one thread);
- with migration compiled in, `init` does not reconcile the cache with BTRMGR's
  pairings, as the build without it does and as
  `src/specs/bluetooth-plugin/spec.md:142-145` and
  `src/docs/bluetooth-plugin.md:180` describe it (`CachedDevicesArePaired` is
  checked without restart and external unpairing);
- an unset autoconnect status has no form in the AS file: after a rollback and
  a second migration it is "disabled" (`FileAgreesWithCache` reads the file as
  the code does);
- a power state that changes while `Initialize` runs is dropped
  (`AsleepIsQuiet` excludes the activity "earlyPower");
- a connected device the store does not know is left connected by the clean-up
  of a migrated plugin; `src/openspec/specs/bluetooth-migration/spec.md:90` asks
  for more (`StartupLeavesNoUnwanted` speaks of known devices);
- a request that meets a `clearMigration` between its two tests of the flag is
  rejected, where a plugin that was never migrated would ask the client
  (`RejectsOnKnownStatus` names this as the one other way to a rejection);
- a box started in deep sleep is not covered by the theorem `AsleepQuiet`,
  which assumes it away: no transition led there, so the policy for deep sleep
  was never applied;
- waking up turns Bluetooth on only if the cache has a device that is not a
  human interface device (`AwakeIsOn` says so);
- a plugin deactivated with a discovery on, or with somebody inside, may be
  entered afterwards: by the timer, which `Deinitialize` does not revoke, by an
  event behind its test of `_instance`, by an operation behind its test of
  `_service` (`NobodyAstray` excludes them by `disturbed`);
- `disconnectWrapper` passes no device type, so that `setDeviceConnection`
  takes the call that stops audio output for every device; the model has the
  connection end;
- a failing `fsync` of the temporary file is only logged, and the file is
  renamed (`AlwaysWhole` excludes it by the history variable `ignored`).

### Bounds

- *Threads*: three in `MCConcurrent`, because the lock protocol needs a holder,
  a waiter and a writer that does not take the lock. The theorems cover any
  number.
- *Calls*: 3 or 4. A migration, a clearing and an update are the longest chain
  of causes in the invariants; the counterexamples need two or three.
- *Devices*: an audio device and a human interface device, the two kinds the
  code distinguishes; in `MCUndisturbed` a third one, of which BTRMGR reports no
  address (`Anonymous`). One time and one volume tell "set" from "default".
- *Restarts, stops*: one death is enough for the manager, whose recovery is
  `init`; the adapter takes two, a second one on what the first left.
- *Objects, deactivations*: two objects and one deactivation: a second plugin at
  the address of the first, or beside its remains. The theorems cover any number.
- *Chunks*: 2, so that a payload can be half written.
- *Activities*: 3 in `MCPolicy`: a change of the configuration, a transition and
  a racing event.
- *The world at the start*: BTRMGR and PowerManager are outside the repository,
  and the adapter and the power are in any state of `InitialAdapter` and
  `InitialPower` then. `MCPolicy` takes an adapter that is off, the harder start
  for `AwakeIsOn`; `MCInitialPower` takes both.

All bounds are guards on calls, restarts and activities, never on steps: an
operation once begun runs to its end in the model. This is why the runs say
CHECK_DEADLOCK FALSE: when the calls are used up, the threads rest.

### Fairness

`FairSpec` of each module asks that a thread inside an operation goes on (weak
fairness of its steps), and, in `Discovery`, that a queued timer fires. The
code's threads are OS threads of a running Thunder process, and the calls into
PersistentStore, BTRMGR and the file system are taken to return; weak fairness
says no more. Nobody has to call, no fault has to happen or to stay away, the
process need not die, Thunder need not activate or deactivate anything, and
BTRMGR need not end a discovery by itself. In `ConnectionPolicy` it is
`Initialize`, the power notification, the event loop that has a request in hand,
and a migration call between its two steps that go on; a client need not call.
Waiting for `_migrationLock` is under weak fairness only; with bounded calls this is
enough.

## 4. Proofs

Checked by TLAPS for every value of the constants that the named assumptions
allow (`DataAssumption`, `ManagerAssumption`, `AdapterAssumption`,
`DiscoveryAssumption`, `LifecycleAssumption`, `PolicyAssumption`: sentinels that
are no data, different names for different threads, bounds in Nat, fault sets
within the known faults). So they hold for any number of threads, devices,
plugin objects, calls and restarts.

| Theorem | States |
|---|---|
| `DeviceManagerProofs!TypeCorrect` | `Spec => []TypeOK` |
| `DeviceManagerProofs!MigrationInvariant` | `Spec => []MigrationInv` |
| `DeviceManagerProofs!MarkerIsLast` | the marker is written only when deviceInfo is in the store |
| `DeviceManagerProofs!SuccessIsReal` | a successful performMigration leaves flag and marker set |
| `DeviceManagerProofs!ClearIsFinal` | a successful clearMigration leaves flag and marker off |
| `DeviceManagerProofs!StartupIsFaithful` | a start that finds a store to trust loses no stored device (migration) or paired device (plain), and no stored setting |
| `DeviceManagerProofs!MarkerHasStore` | the marker comes with data, if `clearMigration` is not cut short |
| `SerialCallsProofs!ClearIsReal` | a successful `clearMigration` that ran alone has emptied the store |
| `SerialCallsProofs!NothingIsPersistedEarly` | with `clearMigration` alone, nothing is persisted before the migration |
| `SerialCallsProofs!SuccessIsSaved` | a setAutoConnect that reports success, and that no call overlapped, has the whole cache in the store |
| `SerialCallsProofs!MigrationIsExact` | without overlap, the migration that commits has stored exactly the devices of the AS file that BTRMGR listed as paired, with their settings |
| `SerialCallsProofs!RefinesMigratedStore` | without overlap, the manager implements `MigratedStore` |
| `QuietProofs!StoreAgrees`, `CacheIsPaired`, `FileAgrees` | without overlap, store, pairings and AS file agree with the cache when nobody is at work |
| `QuietProofs!RollbackIsKept` | without overlap, no step drops from the AS file a device that a rollback needs |
| `PersistenceAdapterProofs!AdapterInvariant`, `TypeCorrect` | the inductive invariant of the adapter, and its types |
| `PersistenceAdapterProofs!FileIsWhole` | the AS file is whole after any death or power loss, unless a failed fsync was ignored |
| `PersistenceAdapterProofs!TmpIsRemoved` | `Write` leaves no temporary file, unless the process stops in it or the removal fails |
| `PersistenceAdapterProofs!NothingIsOverwritten`, `WritersPublishTheirOwn` | a writer replaces the file it merged with, if it could read any, by its own complete payload |
| `PersistenceAdapterProofs!RefinesAtomicFile` | the adapter implements `AtomicFile`, whatever fails |
| `PluginLifecycleProofs!TypeCorrect` | types of life cycle and discovery |
| `PluginLifecycleProofs!FlagIsNeverStranded` | a set discovery flag always has a timer or a thread that will clear it |
| `PluginLifecycleProofs!LifeInvariant` | the inductive invariant of the life cycle |
| `PluginLifecycleProofs!RegistrationIsBalanced` | what is registered is there while the plugin is up and gone when it is down |
| `PluginLifecycleProofs!NobodyGoesAstray` | a plugin deactivated at rest is never entered again |
| `PluginLifecycleProofs!PluginKnowsDiscovery` | an undisturbed discovery is one the plugin can stop |
| `ConnectionPolicyProofs!TypeCorrect` | types of the policy |
| `ConnectionPolicyProofs!HidsAreSpared` | no path of the plugin but a client's call disconnects an HID |
| `ConnectionPolicyProofs!RejectionIsFounded` | a request is rejected only on a stored status, or because a clearMigration reset the flag |
| `ConnectionPolicyProofs!StartupIsClean` | an undisturbed startup leaves no unwanted connection of a device the plugin knows, in either build |
| `ConnectionPolicyProofs!AsleepQuiet` | no unwanted connection in standby or deep sleep, for a box not started in deep sleep |
| `ConnectionPolicyProofs!AwakeOn` | a box that has woken up with a device to serve has Bluetooth on |

*The argument for the migration.* "Flag implies marker" is not inductive: it
says nothing of a thread in the middle of a migration. `MigrationInv` adds
`LockInv` (exactly the holder of `_migrationLock` is between taking and
releasing it, also while it is inside `writeStorageFromCache`, which other
operations use without the lock), `OpInv` (the step tells the operation),
`MarkerInv` (while somebody imports, neither marker nor flag is set; after
`clearMigration` has deleted the marker it stays absent until the flag is
reset) and `StoredInv` (a migration about to write the marker has stored
`deviceInfo`, and nobody can delete it, because deleting needs the lock), and
that a migration is never in the steps that mirror to the AS file. `PathInv`
(an operation stays on its own steps until it returns) adds what `ClearIsFinal`
and the theorems about reported results need. The step lemmas go operation by operation; those of `BluetoothDeviceInfoProofs`
give the types of the map operators.

*Startup.* `StartupInv` says by the phase of `init` what it has in hand: an
empty cache, then exactly what is stored, then a cache that has every paired
device, with the stored settings where there are any (`HasStoredSettings`); and that nobody is at work before `init` is over. It needs no
hypothesis: a failure at any step throws the cache away.

*A call that runs alone.* `SuccessIsSaved` needs no hypothesis about the callers:
`AloneInv` says of a thread whose call nobody has overlapped (`alone`) that the
others are idle and that what it carries is still true (`Undisturbed`: a snapshot
is still the cache, what it has stored is still the cache, a record it carries
still the cached one). The client's retry of a setAutoConnect repairs whatever
overlapping or failing calls have left unsaved.

*Calls that do not overlap.* The properties of the next theorems are false when
calls overlap: `MCStaleSnapshot` and `MCClearAgainstWriter` are the
counterexamples. The theorems say so as a temporal hypothesis, for any number of
threads: `[]Serial` (at most one thread is inside the manager at a time) or, where
that is enough, `[]ClearIsAlone` (nobody is beside a `clearMigration`; all other
calls may overlap). `SerialIsAlone` makes the one follow from the other, and
`OneThreadIsSerial` gives what the runs with one thread check. The hypothesis
is about the callers, not about the constants: faults, builds, restarts and the
death of the process between any two steps stay. The inductive invariants are
`EntitledInv` (who saves does so because the plugin persists, who writes the AS
file does so because it is migrated), `UndisturbedInv` (`Undisturbed` of every thread;
it follows from `AloneInv`, because without overlap every call is alone),
`ImportInv` (what a migration has in hand, or has swapped in, is exactly the AS
file cut to the devices BTRMGR listed, with the settings of the file) and
`StoredForm` (what is stored has no addresses, so that
loading and saving it again changes nothing).

*Refinement of `MigratedStore`.* The working copy is the stored form of the
cache while the plugin is up, owned is `Persisting`. Each step of a thread is one
action of the abstract store or leaves its variables alone: the cache updates
are `Edit`, SetValue is `Flush` (by `UndisturbedInv` the snapshot is the cache,
by `EntitledInv` the writer may), the marker is `Commit`, the flag `Own`, and the
four steps of `clearMigration` are `Forget`, `Uncommit`, `Drop` and `Disown` in
that order. `InitReadMarker`, with the load that follows, and the three steps of
the plain build's `init` are `Load` and `LoadAndSave`.

*Agreement when nobody is at work.* Each of the four theorems has an invariant
that says who is on the way to restoring the agreement (`SavedInv`, `PairedInv`,
`FileInv`, `WantedInv`), and a hypothesis about the constants that names the
failures it excludes; each of them is needed:

| Hypothesis | Excludes | Because |
|---|---|---|
| `MarkerIsReadable` | a marker that cannot be read at a start that may find it | `MCMarkerReadFails` |
| `StoreIsReliable` | also a failing SetValue, and a `clearMigration` cut short | the update stays in the cache, or the marker in the store |
| `PairingIsReliable` | failing BTRMGR calls, a pairing removed by the remote side, a start of the migration build on what it stored | it does not reconcile at start |
| `MirrorIsReliable` | also a failing write of the store or of the AS file | it is only logged |
| `RollbackIsPossible` | failing BTRMGR calls, a start of the migration build on what it stored, an AS file that calls another device an HID | `MCRollbackAfterRestart`: what it loads has no addresses |

`StoreAgrees` and `FileAgrees` allow any number of restarts, with changes of the
image, so they say more than `MCUndisturbed` checks; so do `CacheIsPaired` and
`RollbackIsKept` for a box that never runs the migration build. `KnownInv` (a
plugin with a marker in the store knows it is migrated, or is about to) and
`FirstStartInv` carry them over a start. `WantedInv` rests on `TypedInv`: the
device types, wherever they came from, are BTRMGR's, so that no paired audio
device is left out of the AS file as an HID.

*Adapter.* A whole file under the final name is not inductive either: whether a
rename keeps it depends on what the temporary file holds, and on what of it a
power loss would leave. `AdapterInv` has `MutexIsHeld` (who is past the lock
holds it), `WritersAreOrderly` (the payload a writer holds is the merge with the
file as it still is, and its step tells how much of it is in the temporary file),
`MainIsDurable` (every content the final name may have after a power loss is
whole) and `TmpIsOwned` (there is a temporary file only while the holder of the
mutex is between creating and renaming or removing it, or after a stop).
`SyncedIsKept` is the one fact about the file system the rest needs. In the
refinement of `AtomicFile` a rename is `Replace`, the sync of the directory
`Settle`, a failed fsync that is ignored `Tear`, and every other step of a writer
is invisible; `PublishedInv` says that what a writer is about to settle is a
whole payload that a power loss may bring back.

*Discovery.* `RunningIsTimed` is inductive together with `TypeOK`, because the
flag is set before the timer is armed by the thread that still has it in hand,
and a stop revokes the timer before it clears the flag. It holds of every
object that is alive, whatever the life cycle does.

*Life cycle.* `LifeInv`: `PluginIsHeld` says by the step of `Initialize` or
`Deinitialize` where the object is known, and needs no circumstances. As long as
nothing is disturbed, `DiscoveryIsOrderly` (one thread at a time is in the
discovery, of the plugin that is up, and timer, flag and BTRMGR agree but for
its step) and `VisitorsAreOrderly` (a visitor is in the plugin while the plugin
expects it). The proof shows that each step either keeps the three or sets
`disturbed`, so that the definition of `disturbed` names every circumstance
under which somebody may be astray.

*Policy.* `HidInv`: the sets of devices about to be disconnected never contain an
HID, because they are cut to `NonHids` when they are built. `StartupInv`: what
the clean-up still has to do is the difference between what is connected and
what may be. `QuietInv`: while asleep and undisturbed, the connected devices the
policy does not spare are those the notification under way has still to
disconnect. `AwakeInv`: between the transition to ON and the end of its handling
the notification is still on its way to turn Bluetooth on. All three rest on
`HistoryIsCurrent` (the history has what happened since) and `FlagIsTested` (a
request past the test of the flag has seen it set, or a clearing has happened).

*Model-checked only*: liveness (`EveryCallReturns`, `EveryWriteReturns`,
`RunningEnds`, `DiscoveryEndsUndisturbed`, `RequestIsAnswered`) and whatever
needs ENABLED are out of the prover's reach. Every other property of a passing
run is a theorem.

## 5. Not modelled

- *Audio streaming, playback commands, adapter properties, names, media
  information*: each method is one call of BTRMGR, and the plugin keeps nothing
  of the answer. A model would restate the call.
- *Events other than the connection request and the end of a discovery*: they
  are turned into JSON notifications, one each, with no state in between. The
  wording is a matter of tests.
- *JSON-RPC table, parameter parsing, responses*: conversions without state.
- *Which BTRMGR call `setDeviceConnection` makes for which device type*: the
  outcome, connected or not, is all the plugin goes by.
- *The volume of a device against the stored one*: `setDeviceVolumeMuteInfo` sets
  the one and then stores the other, without a lock, so that two calls may end in
  different orders. Nothing in the code reads the stored volume back, and the
  order of calls inside BTRMGR is unknown here.

## 6. Plan

Done, in this order: `BluetoothDeviceInfo`, `DeviceManager`,
`DeviceManagerProperties`, `MigratedStore` (the stores are the heart of the
plugin), `PersistenceAdapter`, `Discovery`, `ConnectionPolicy`; then the build
without migration, `PluginLifecycle`, the liveness of the policy and the power
of the adapter, each with the proofs of its inductive invariants.

Then the theorems about calls that do not overlap, the two refinements, and the
agreement of the four places a pairing lives in.

Next:

1. **What overlapping calls keep**: a weaker form of `StoreAgreesWithCache` that
   survives them (the store has some snapshot of the cache since the last call).
2. **Composition** of the policy with the manager's steps, in the place of the
   one-action clients of `ConnectionPolicy`, by a refinement.
