------------------------ MODULE BluetoothDeviceInfo ------------------------
(***************************************************************************)
(* The metadata the plugin keeps for a paired device, the three places it  *)
(* lives in - the in-memory cache, the deviceInfo key of PersistentStore   *)
(* and the AS file - and the conversions between them.                     *)
(*                                                                         *)
(* A device is identified by one value of Devices.  It stands both for the *)
(* BTRMGR handle (the key of the cache and of the store) and for the       *)
(* Bluetooth address (the key of the AS file): BTRMGR pairs the two        *)
(* one-to-one, and the code translates one into the other through          *)
(* BTRMGR_GetPairedDevices.  What matters is whether a record KNOWS its    *)
(* address, because a record without one cannot be written to the AS file. *)
(*                                                                         *)
(* friendlyName is left out: it never decides anything.  The device types  *)
(* "" and "UNKNOWN" are one value: every test in the code treats them      *)
(* alike.                                                                  *)
(***************************************************************************)
EXTENDS Integers

CONSTANTS
    Devices,    \* the remote Bluetooth devices
    Hids,       \* those BTRMGR reports as "HUMAN INTERFACE DEVICE"
    Anonymous,  \* those BTRMGR reports with an empty address
    Times,      \* values the wall clock may have when it is read
    Volumes,    \* volumes a client may set, as the wrapper passes them on (unsigned char)
    NoInfo,     \* the deviceInfo key is absent from PersistentStore
    NoFile,     \* the AS file is missing or has no bytes
    BadFile     \* the AS file is not JSON, or has no pairedDevices array

NoTime == -1    \* lastConnectTimeUtc = "": the device was never connected

AutoConnectStatus == {"disabled", "enabled", "unset"}

DeviceType == {"UNKNOWN", "AUDIO", "HID"}

BluetoothDeviceInfo ==
    [addr : BOOLEAN,                       \* deviceAddr is not empty
     type : DeviceType,                    \* deviceType
     auto : AutoConnectStatus,             \* autoConnectStatus
     time : {NoTime, 0} \cup Times,        \* lastConnectTimeUtc
     vol  : {0} \cup Volumes]              \* lastVolumeSetting

\* A cache, a deviceInfo array and the entries of an AS file are all finite
\* maps from a device to a record.
DeviceMaps == UNION {[D -> BluetoothDeviceInfo] : D \in SUBSET Devices}

EmptyMap == [d \in {} |-> 0]

DeviceInfoValues == DeviceMaps \cup {NoInfo}
FileValues       == DeviceMaps \cup {NoFile, BadFile}

ASSUME DataAssumption ==
    /\ Devices # {}
    /\ Hids \subseteq Devices
    /\ Anonymous \subseteq Devices
    /\ Times \subseteq Nat
    /\ Volumes \subseteq Nat
    /\ NoInfo \notin DeviceMaps
    /\ NoFile \notin DeviceMaps
    /\ BadFile \notin DeviceMaps
    /\ NoFile # BadFile

-----------------------------------------------------------------------------
(* Map updates                                                             *)

Put(c, d, info) == [e \in DOMAIN c \cup {d} |-> IF e = d THEN info ELSE c[e]]

Erase(c, d) == [e \in DOMAIN c \ {d} |-> c[e]]

-----------------------------------------------------------------------------
(* What BTRMGR reports of a device                                         *)

ReportsAddr(d) == d \notin Anonymous
ReportedType(d) == IF d \in Hids THEN "HID" ELSE "AUDIO"

\* Seeded fault: addDevice forgets the address.
FreshInfoWithoutAddr(d) ==
    [addr |-> FALSE, type |-> ReportedType(d), auto |-> "unset", time |-> NoTime, vol |-> 0]

\* The record addDevice makes: identity from BTRMGR, every setting at its
\* default.
FreshInfo(d) ==
    [addr |-> ReportsAddr(d), type |-> ReportedType(d),
     auto |-> "unset", time |-> NoTime, vol |-> 0]

-----------------------------------------------------------------------------
(* Conversions                                                             *)

\* The deviceInfo array as it is read back: deviceAddr is not one of the
\* fields writeStorageFromCache puts in it.
StoreView(c) == [d \in DOMAIN c |-> [c[d] EXCEPT !.addr = FALSE]]

\* Seeded fault: the import keeps unpaired devices.
ImportUnpaired(f, paired) == [d \in DOMAIN f \ Anonymous |-> f[d]]

\* Import from the AS file: the entries whose address belongs to a device
\* that BTRMGR lists as paired; the others are skipped.
Import(f, paired) == [d \in DOMAIN f \cap (paired \ Anonymous) |-> f[d]]

\* updateCacheFromDevice(backfillOnly = true): complete the address and the
\* type of the records already there, from BTRMGR's list; add and remove none.
Backfill(c, paired) ==
    [d \in DOMAIN c |->
        IF d \notin paired THEN c[d]
        ELSE [c[d] EXCEPT !.addr = @ \/ ReportsAddr(d),
                          !.type = IF @ = "UNKNOWN" THEN ReportedType(d) ELSE @]]

\* Seeded fault: the reconciliation takes every device for a new one.
ReconcileAfresh(c, paired) == [d \in paired |-> FreshInfo(d)]

\* updateCacheFromDevice(): complete the records of paired devices, add a
\* record for each paired device that has none, drop the others.
Reconcile(c, paired) ==
    [d \in paired |-> IF d \in DOMAIN c THEN Backfill(c, paired)[d] ELSE FreshInfo(d)]

FileEntries(f) == IF f \in {NoFile, BadFile} THEN EmptyMap ELSE f

\* Seeded fault: the entry already in the file wins.
MergedInfoFromFile(info, d, old) == IF d \in DOMAIN old THEN old[d] ELSE info

\* The settings the AS file gets for a cached device, merged with the entry
\* it already has there: an unset status keeps the file's (false when there is
\* none), a missing connect time keeps the file's (0 when there is none).
MergedInfo(info, d, old) ==
    [info EXCEPT
        !.auto = IF @ # "unset" THEN @
                 ELSE IF d \in DOMAIN old /\ old[d].auto = "enabled" THEN "enabled"
                 ELSE "disabled",
        !.time = IF @ # NoTime THEN @
                 ELSE IF d \in DOMAIN old /\ old[d].time # NoTime THEN old[d].time
                 ELSE 0]

\* The devices of a cache that reach the AS file: not human interface devices,
\* and not the records without an address.
Mirrored(c) == {d \in DOMAIN c : c[d].type # "HID" /\ c[d].addr}

\* The content of the AS file after BluetoothPersistenceAdapter::Write of
\* cache c over content f.  Entries of devices not in c are dropped.
Mirror(c, f) == [d \in Mirrored(c) |-> MergedInfo(c[d], d, FileEntries(f))]
=============================================================================
