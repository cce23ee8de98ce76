--------------------- MODULE BluetoothDeviceInfoProofs ---------------------
(***************************************************************************)
(* Facts about the conversions of BluetoothDeviceInfo, for any devices.    *)
(***************************************************************************)
EXTENDS BluetoothDeviceInfo, TLAPS

\* A function from some devices to records is a device map.
LEMMA MapIntro ==
    ASSUME NEW D \in SUBSET Devices, NEW f \in [D -> BluetoothDeviceInfo]
    PROVE  f \in DeviceMaps
BY DEF DeviceMaps

\* A device map is a function from its domain, which has only devices, to
\* records.
LEMMA MapElim ==
    ASSUME NEW c \in DeviceMaps
    PROVE  /\ DOMAIN c \in SUBSET Devices
           /\ c \in [DOMAIN c -> BluetoothDeviceInfo]
<1>1. PICK D \in SUBSET Devices : c \in [D -> BluetoothDeviceInfo]
  BY DEF DeviceMaps
<1>2. DOMAIN c = D
  BY <1>1
<1> QED
  BY <1>1, <1>2

\* The map without devices is a device map.
LEMMA EmptyMapType == EmptyMap \in DeviceMaps
<1>1. EmptyMap \in [{} -> BluetoothDeviceInfo]
  BY DEF EmptyMap
<1> QED
  BY <1>1, MapIntro

\* addDevice makes a record.
LEMMA FreshInfoType ==
    ASSUME NEW d \in Devices
    PROVE  FreshInfo(d) \in BluetoothDeviceInfo
BY DEF FreshInfo, BluetoothDeviceInfo, ReportsAddr, ReportedType, DeviceType,
       AutoConnectStatus, NoTime

\* Putting a record in a map, for a device that may or may not be there.
LEMMA PutType ==
    ASSUME NEW c \in DeviceMaps, NEW d \in Devices, NEW info \in BluetoothDeviceInfo
    PROVE  Put(c, d, info) \in DeviceMaps
<1>1. Put(c, d, info) \in [DOMAIN c \cup {d} -> BluetoothDeviceInfo]
  BY MapElim DEF Put
<1> QED
  BY <1>1, MapIntro, MapElim

\* Taking a device out of a map, as removeDevice does.
LEMMA EraseType ==
    ASSUME NEW c \in DeviceMaps, NEW d \in Devices
    PROVE  Erase(c, d) \in DeviceMaps
<1>1. Erase(c, d) \in [DOMAIN c \ {d} -> BluetoothDeviceInfo]
  BY MapElim DEF Erase
<1> QED
  BY <1>1, MapIntro, MapElim

\* The changes setAutoConnect and setLastVolumeSetting make to a map.
LEMMA UpdateType ==
    ASSUME NEW c \in DeviceMaps, NEW d \in DOMAIN c
    PROVE  /\ \A s \in AutoConnectStatus : [c EXCEPT ![d].auto = s] \in DeviceMaps
           /\ \A v \in Volumes : [c EXCEPT ![d].vol = v] \in DeviceMaps
<1>1. c \in [DOMAIN c -> BluetoothDeviceInfo] /\ DOMAIN c \in SUBSET Devices
  BY MapElim
<1>2. ASSUME NEW s \in AutoConnectStatus
      PROVE  [c EXCEPT ![d].auto = s] \in [DOMAIN c -> BluetoothDeviceInfo]
  BY <1>1 DEF BluetoothDeviceInfo
<1>3. ASSUME NEW v \in Volumes
      PROVE  [c EXCEPT ![d].vol = v] \in [DOMAIN c -> BluetoothDeviceInfo]
  BY <1>1 DEF BluetoothDeviceInfo
<1> QED
  BY <1>1, <1>2, <1>3, MapIntro

\* What comes back from the store is a device map.
LEMMA StoreViewType ==
    ASSUME NEW c \in DeviceMaps
    PROVE  StoreView(c) \in DeviceMaps
<1>1. c \in [DOMAIN c -> BluetoothDeviceInfo] /\ DOMAIN c \in SUBSET Devices
  BY MapElim
<1>2. StoreView(c) \in [DOMAIN c -> BluetoothDeviceInfo]
  BY <1>1 DEF StoreView, BluetoothDeviceInfo
<1> QED
  BY <1>1, <1>2, MapIntro

\* What the import keeps of an AS file is a device map.
LEMMA ImportType ==
    ASSUME NEW f \in DeviceMaps, NEW paired
    PROVE  Import(f, paired) \in DeviceMaps
<1>1. f \in [DOMAIN f -> BluetoothDeviceInfo] /\ DOMAIN f \in SUBSET Devices
  BY MapElim
<1>2. Import(f, paired)
        \in [DOMAIN f \cap (paired \ Anonymous) -> BluetoothDeviceInfo]
  BY <1>1 DEF Import
<1> QED
  BY <1>1, <1>2, MapIntro

\* Filling in the reported types keeps a device map a device map.
LEMMA BackfillType ==
    ASSUME NEW c \in DeviceMaps, NEW paired
    PROVE  Backfill(c, paired) \in DeviceMaps
<1>1. c \in [DOMAIN c -> BluetoothDeviceInfo] /\ DOMAIN c \in SUBSET Devices
  BY MapElim
<1>2. Backfill(c, paired) \in [DOMAIN c -> BluetoothDeviceInfo]
  <2>1. ASSUME NEW d \in DOMAIN c
        PROVE  [c[d] EXCEPT !.addr = @ \/ ReportsAddr(d),
                            !.type = IF @ = "UNKNOWN" THEN ReportedType(d) ELSE @]
                  \in BluetoothDeviceInfo
    BY <1>1, <2>1 DEF BluetoothDeviceInfo, ReportsAddr, ReportedType, DeviceType
  <2> QED
    BY <1>1, <2>1 DEF Backfill
<1> QED
  BY <1>1, <1>2, MapIntro

\* The reconciliation at startup yields a device map.
LEMMA ReconcileType ==
    ASSUME NEW c \in DeviceMaps, NEW paired \in SUBSET Devices
    PROVE  Reconcile(c, paired) \in DeviceMaps
<1>1. /\ Backfill(c, paired) \in DeviceMaps
      /\ DOMAIN Backfill(c, paired) = DOMAIN c
  BY BackfillType DEF Backfill
<1>2. Backfill(c, paired) \in [DOMAIN c -> BluetoothDeviceInfo]
  BY <1>1, MapElim
<1>3. ASSUME NEW d \in paired
      PROVE  (IF d \in DOMAIN c THEN Backfill(c, paired)[d] ELSE FreshInfo(d))
                \in BluetoothDeviceInfo
  BY <1>2, FreshInfoType
<1>4. Reconcile(c, paired) \in [paired -> BluetoothDeviceInfo]
  BY <1>3 DEF Reconcile
<1> QED
  BY <1>4, MapIntro

\* What the adapter writes is a map, whatever the file held before.
LEMMA MirrorType ==
    ASSUME NEW c \in DeviceMaps, NEW f \in FileValues
    PROVE  Mirror(c, f) \in DeviceMaps
<1>1. c \in [DOMAIN c -> BluetoothDeviceInfo] /\ DOMAIN c \in SUBSET Devices
  BY MapElim
<1>2. FileEntries(f) \in DeviceMaps
  BY EmptyMapType DEF FileEntries, FileValues
<1>3. FileEntries(f) \in [DOMAIN FileEntries(f) -> BluetoothDeviceInfo]
  BY <1>2, MapElim
<1>4. ASSUME NEW info \in BluetoothDeviceInfo, NEW d
      PROVE  MergedInfo(info, d, FileEntries(f)) \in BluetoothDeviceInfo
  BY <1>3 DEF MergedInfo, BluetoothDeviceInfo, AutoConnectStatus
<1>5. Mirror(c, f) \in [Mirrored(c) -> BluetoothDeviceInfo]
  BY <1>1, <1>4 DEF Mirror, Mirrored
<1>6. Mirrored(c) \in SUBSET Devices
  BY <1>1 DEF Mirrored
<1> QED
  BY <1>5, <1>6, MapIntro
=============================================================================
