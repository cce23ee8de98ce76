----------------------- MODULE ConnectionPolicyProofs -----------------------
(***************************************************************************)
(* Theorems about ConnectionPolicy, for any devices, any activities around *)
(* the plugin and any interleaving of its threads.                         *)
(***************************************************************************)
EXTENDS ConnectionPolicy, TLAPS

\* The devices the plugin is about to disconnect.
HidInv == leaving \cap Hids = {} /\ doomed \cap Hids = {}

\* What a transition disconnects.
LEMMA ToDisconnectParts ==
  ASSUME NEW c, NEW old, NEW new
  PROVE  /\ ToDisconnect(c, old, new) \subseteq NonHids(c)
         /\ FallsAsleep(old, new) =>
              ToDisconnect(c, old, new) = {d \in NonHids(c) : c[d] = "disabled"}
         /\ new = "deepSleep" => ToDisconnect(c, old, new) = NonHids(c)
         /\ new = "on" => ToDisconnect(c, old, new) = {}
         /\ ~ComesIntoForce(old, new) => ToDisconnect(c, old, new) = {}
<1>1. CASE FallsAsleep(old, new)
  <2>1. ToDisconnect(c, old, new) = {d \in NonHids(c) : c[d] = "disabled"}
    BY <1>1 DEF ToDisconnect, FallsAsleep
  <2>2. new \notin {"on", "deepSleep"}
    BY <1>1 DEF FallsAsleep
  <2> QED
    BY <1>1, <2>1, <2>2 DEF ComesIntoForce
<1>2. CASE ~FallsAsleep(old, new) /\ new = "deepSleep"
  BY <1>2 DEF ToDisconnect, ComesIntoForce
<1>3. CASE ~FallsAsleep(old, new) /\ new # "deepSleep"
  BY <1>3 DEF ToDisconnect, ComesIntoForce
<1> QED
  BY <1>1, <1>2, <1>3

\* A power transition disconnects no human interface device.
LEMMA ToDisconnectSparesHids ==
  ASSUME NEW c, NEW old, NEW new
  PROVE  ToDisconnect(c, old, new) \cap Hids = {}
BY ToDisconnectParts DEF NonHids

\* No human interface device is ever on a list of devices to disconnect.
LEMMA HidInvariant == Spec => []HidInv
<1>1. Init => HidInv
  BY DEF Init, ManagerAtStart, WorldAtStart, HidInv
<1>2. HidInv /\ [Next]_vars => HidInv'
  <2> SUFFICES ASSUME HidInv, [Next]_vars
               PROVE  HidInv'
    OBVIOUS
  <2> USE DEF HidInv, managerVars, powerVars, requestVars, history
  <2>1. CASE Initialize
    BY <2>1 DEF Initialize, InitialPowerState, InitManager, CuList, CuDisconnect
  <2>2. CASE PowerChanges
    BY <2>2 DEF PowerChanges
  <2>3. CASE PowerMode
    <3>1. CASE PwSnapshot
      BY <3>1, ToDisconnectSparesHids DEF PwSnapshot
    <3>2. CASE PwIsMigrated \/ PwDisconnect
      BY <3>2 DEF PwIsMigrated, PwDisconnect
    <3> QED
      BY <2>3, <3>1, <3>2 DEF PowerMode
  <2>4. CASE Request \/ EventLoop
    BY <2>4 DEF Request, EventLoop, RqIsMigrated, RqAskFlag, RqAskCache, RqRespond, RqConnect
  <2>5. ASSUME NEW d \in Devices, Client(d)
        PROVE  HidInv'
    BY <2>5 DEF Client, SetAutoConnect, Pair, Unpair, Connect, Disconnect
  <2>6. CASE Enable \/ Disable \/ ImportCache \/ ClearCache \/ SetFlag
    BY <2>6 DEF Enable, Disable, Event, ImportCache, ClearCache, SetFlag
  <2>7. CASE UNCHANGED vars
    BY <2>7 DEF vars
  <2> QED
    BY <2>1, <2>2, <2>3, <2>4, <2>5, <2>6, <2>7 DEF Next
<1> QED
  BY <1>1, <1>2, PTL DEF Spec

\* Neither the clean-up of Initialize nor the power mode policy disconnects a
\* human interface device: only a client's call does.
THEOREM HidsAreSpared == Spec => HidsStayConnected
<1> DEFINE Spares == \A d \in connected \ connected' :
                       d \in Hids => stage = "up" /\ events' = events + 1
<1>1. HidInv /\ [Next]_vars => [Spares]_vars
  <2> SUFFICES ASSUME HidInv, Next,
                      NEW d \in connected, d \notin connected', d \in Hids
               PROVE  stage = "up" /\ events' = events + 1
    OBVIOUS
  <2> USE DEF HidInv, managerVars, powerVars, requestVars, history, DisconnectDevice,
              SetDeviceConnection
  <2>1. CASE Initialize
    BY <2>1 DEF Initialize, InitialPowerState, InitManager, CuList, CuDisconnect
  <2>2. CASE PowerChanges
    BY <2>2 DEF PowerChanges
  <2>3. CASE PowerMode
    BY <2>3 DEF PowerMode, PwIsMigrated, PwSnapshot, EnableBluetooth, PwDisconnect
  <2>4. CASE Request \/ EventLoop
    BY <2>4 DEF Request, EventLoop, RqIsMigrated, RqAskFlag, RqAskCache, RqRespond, RqConnect
  <2>5. ASSUME NEW e \in Devices, Client(e)
        PROVE  stage = "up" /\ events' = events + 1
    BY <2>5 DEF Client, SetAutoConnect, Pair, Unpair, Connect, Disconnect, Event
  <2>6. CASE Enable \/ Disable \/ ImportCache \/ ClearCache \/ SetFlag
    BY <2>6 DEF Enable, Disable, Event, ImportCache, ClearCache, SetFlag
  <2> QED
    BY <2>1, <2>2, <2>3, <2>4, <2>5, <2>6 DEF Next
<1> QED
  BY <1>1, HidInvariant, PTL DEF Spec, HidsStayConnected

-----------------------------------------------------------------------------
(* Type correctness                                                        *)

\* A function from devices to statuses is a cache.
LEMMA CachesAre ==
  ASSUME NEW S \in SUBSET Devices, NEW c \in [S -> Status]
  PROVE  c \in Caches
BY DEF Caches

\* A cache is a function from some of the devices to statuses.
LEMMA CacheIs ==
  ASSUME NEW c \in Caches
  PROVE  /\ DOMAIN c \in SUBSET Devices
         /\ c \in [DOMAIN c -> Status]
<1>1. PICK S \in SUBSET Devices : c \in [S -> Status]
  BY DEF Caches
<1> QED
  BY <1>1

\* The cache of a manager that has loaded nothing.
LEMMA EmptyIsCache == EmptyCache \in Caches
<1>1. EmptyCache \in [{} -> Status]
  BY DEF EmptyCache
<1>2. {} \in SUBSET Devices
  OBVIOUS
<1> QED
  BY <1>1, <1>2, CachesAre

\* What init loads is a cache, reconciled with the pairings or not.
LEMMA LoadedIs ==
  ASSUME saved \in Caches \cup {NotMigrated}
  PROVE  /\ Loaded \in Caches
         /\ \A paired \in SUBSET Devices : Reconciled(paired) \in Caches
<1>1. EmptyCache \in Caches
  BY EmptyIsCache
<1>2. Loaded \in Caches
  BY <1>1 DEF Loaded
<1>3. ASSUME NEW paired \in SUBSET Devices
      PROVE  Reconciled(paired) \in Caches
  <2>1. Reconciled(paired) \in [paired -> Status]
    BY <1>2, CacheIs DEF Reconciled, Status
  <2> QED
    BY <2>1, CachesAre
<1> QED
  BY <1>2, <1>3

\* Every variable keeps its type, for any devices, builds, activities and bound.
THEOREM TypeCorrect == Spec => []TypeOK
<1> USE PolicyAssumption
<1>1. Init => TypeOK
  <2> SUFFICES ASSUME Init PROVE TypeOK
    OBVIOUS
  <2>1. EmptyCache \in Caches
    BY EmptyIsCache
  <2> QED
    BY <2>1 DEF Init, ManagerAtStart, WorldAtStart, TypeOK
<1>2. TypeOK /\ [Next]_vars => TypeOK'
  <2> SUFFICES ASSUME TypeOK, [Next]_vars
               PROVE  TypeOK'
    OBVIOUS
  <2> USE DEF managerVars, powerVars, requestVars, history
  <2>1. CASE Initialize
    <3>1. CASE InitialPowerState
      BY <3>1 DEF InitialPowerState, TypeOK
    <3>2. CASE InitManager
      <4>1. cache' \in Caches
        BY <3>2, LoadedIs DEF InitManager, TypeOK
      <4> QED
        BY <3>2, <4>1 DEF InitManager, TypeOK
    <3>3. CASE CuList
      BY <3>3 DEF CuList, Happens, TypeOK
    <3>4. CASE CuDisconnect
      BY <3>4 DEF CuDisconnect, DisconnectDevice, SetDeviceConnection, Happens, TypeOK
    <3> QED
      BY <2>1, <3>1, <3>2, <3>3, <3>4 DEF Initialize
  <2>2. CASE PowerChanges
    BY <2>2 DEF PowerChanges, Happens, TypeOK
  <2>3. CASE PowerMode
    <3>1. CASE PwIsMigrated
      BY <3>1 DEF PwIsMigrated, TypeOK
    <3>2. CASE PwSnapshot
      <4>1. leaving' \subseteq DOMAIN cache
        BY <3>2, ToDisconnectParts DEF PwSnapshot, NonHids
      <4>2. leaving' \in SUBSET Devices
        BY <4>1, CacheIs DEF TypeOK
      <4>3. (adapterOn \in BOOLEAN)' /\ (happened \in SUBSET Activities)'
        BY <3>2 DEF PwSnapshot, EnableBluetooth, Happens, TypeOK
      <4> QED
        BY <3>2, <4>2, <4>3 DEF PwSnapshot, TypeOK
    <3>3. CASE PwDisconnect
      BY <3>3 DEF PwDisconnect, DisconnectDevice, SetDeviceConnection, Happens, TypeOK
    <3> QED
      BY <2>3, <3>1, <3>2, <3>3 DEF PowerMode
  <2>4. CASE Request
    BY <2>4 DEF Request, Event, Happens, TypeOK
  <2>5. CASE EventLoop
    <3>1. CASE RqIsMigrated \/ RqAskFlag \/ RqAskCache \/ RqRespond
      BY <3>1 DEF RqIsMigrated, RqAskFlag, RqAskCache, RqRespond, TypeOK
    <3>2. CASE RqConnect
      BY <3>2 DEF RqConnect, SetDeviceConnection, Happens, TypeOK
    <3> QED
      BY <2>5, <3>1, <3>2 DEF EventLoop
  <2>6. ASSUME NEW d \in Devices, Client(d)
        PROVE  TypeOK'
    <3> USE DEF Event, Happens
    <3>1. CASE SetAutoConnect(d)
      <4>1. cache' \in Caches
        BY <3>1, CacheIs, CachesAre DEF SetAutoConnect, TypeOK, Status
      <4> QED
        BY <3>1, <4>1 DEF SetAutoConnect, TypeOK
    <3>2. CASE Pair(d)
      <4>1. cache' \in Caches
        <5>1. cache' \in [DOMAIN cache \cup {d} -> Status]
          BY <3>2, CacheIs DEF Pair, TypeOK, Status
        <5> QED
          BY <5>1, CacheIs, CachesAre DEF TypeOK
      <4> QED
        BY <3>2, <4>1 DEF Pair, TypeOK
    <3>3. CASE Unpair(d)
      <4>1. cache' \in Caches
        <5>1. cache' \in [DOMAIN cache \ {d} -> Status]
          BY <3>3, CacheIs DEF Unpair, TypeOK
        <5> QED
          BY <5>1, CacheIs, CachesAre DEF TypeOK
      <4> QED
        BY <3>3, <4>1 DEF Unpair, TypeOK
    <3>4. CASE Connect(d) \/ Disconnect(d)
      BY <3>4 DEF Connect, Disconnect, TypeOK
    <3> QED
      BY <2>6, <3>1, <3>2, <3>3, <3>4 DEF Client
  <2>7. CASE Enable \/ Disable \/ ImportCache \/ SetFlag
    <3>0. CASE Enable \/ Disable
      <4>1. adapterOn' \in BOOLEAN /\ connected' \in SUBSET Devices
        BY <3>0 DEF Enable, Disable, TypeOK
      <4>2. happened' \in SUBSET Activities /\ events' \in Nat
        BY <3>0 DEF Enable, Disable, Event, Happens, TypeOK
      <4> QED
        BY <3>0, <4>1, <4>2 DEF Enable, Disable, TypeOK
    <3>1. CASE ImportCache
      BY <3>1 DEF ImportCache, Event, Happens, TypeOK
    <3>2. CASE SetFlag
      <4>1. isMigrated' \in BOOLEAN
        BY <3>2 DEF SetFlag
      <4> QED
        BY <3>2, <4>1 DEF SetFlag, TypeOK
    <3> QED
      BY <2>7, <3>0, <3>1, <3>2
  <2>8. CASE ClearCache
    <3>1. EmptyCache \in Caches
      BY EmptyIsCache
    <3> QED
      BY <2>8, <3>1 DEF ClearCache, Event, Happens, TypeOK
  <2>9. CASE UNCHANGED vars
    BY <2>9 DEF vars, TypeOK
  <2> QED
    BY <2>1, <2>2, <2>3, <2>4, <2>5, <2>6, <2>7, <2>8, <2>9 DEF Next
<1> QED
  BY <1>1, <1>2, PTL DEF Spec

-----------------------------------------------------------------------------
(* The invariant behind the policy's properties                            *)

\* The history of activities has everything that is still under way.
LEMMA HistoryInvariant == Spec => []HistoryIsCurrent
<1>1. Init => HistoryIsCurrent
  BY DEF Init, ManagerAtStart, WorldAtStart, HistoryIsCurrent
<1>2. TypeOK /\ HistoryIsCurrent /\ [Next]_vars => HistoryIsCurrent'
  <2> SUFFICES ASSUME TypeOK, HistoryIsCurrent, [Next]_vars
               PROVE  HistoryIsCurrent'
    OBVIOUS
  <2>0. events \in Nat
    BY DEF TypeOK
  <2> USE DEF HistoryIsCurrent, Unsettling, managerVars, powerVars, requestVars, history
  <2>1. CASE Initialize
    <3>1. CASE InitialPowerState \/ InitManager
      BY <3>1 DEF InitialPowerState, InitManager
    <3>2. CASE CuList
      BY <3>2 DEF CuList
    <3>3. CASE CuDisconnect
      BY <3>3 DEF CuDisconnect, DisconnectDevice, SetDeviceConnection
    <3> QED
      BY <2>1, <3>1, <3>2, <3>3 DEF Initialize
  <2>2. CASE PowerChanges
    <3>1. events' # 0 \/ happened' # {}
      BY <2>2 DEF PowerChanges
    <3>2. CASE AtRest
      BY <2>2, <3>1, <3>2 DEF PowerChanges, AtRest
    <3>3. CASE ~AtRest
      <4>1. happened' = happened \cup {IF stage = "up" THEN "power" ELSE "earlyPower"}
        BY <2>2, <3>3 DEF PowerChanges
      <4> QED
        BY <2>2, <3>1, <4>1 DEF PowerChanges
    <3> QED
      BY <3>2, <3>3
  <2>3. CASE PowerMode
    BY <2>3 DEF PowerMode, PwIsMigrated, PwSnapshot, EnableBluetooth, PwDisconnect, DisconnectDevice,
                SetDeviceConnection
  <2>4. CASE Request
    BY <2>0, <2>4 DEF Request, Event
  <2>5. CASE EventLoop
    <3>1. CASE RqIsMigrated \/ RqAskFlag \/ RqAskCache \/ RqRespond
      BY <3>1 DEF RqIsMigrated, RqAskFlag, RqAskCache, RqRespond
    <3>2. CASE RqConnect
      BY <3>2 DEF RqConnect, SetDeviceConnection
    <3> QED
      BY <2>5, <3>1, <3>2 DEF EventLoop
  <2>6. ASSUME NEW d \in Devices, Client(d)
        PROVE  HistoryIsCurrent'
    BY <2>0, <2>6 DEF Client, SetAutoConnect, Pair, Unpair, Connect, Disconnect, Event
  <2>7. CASE Enable \/ Disable \/ ImportCache \/ ClearCache
    BY <2>0, <2>7 DEF Enable, Disable, ImportCache, ClearCache, Event
  <2>8. CASE SetFlag
    BY <2>8 DEF SetFlag
  <2>9. CASE UNCHANGED vars
    BY <2>9 DEF vars
  <2> QED
    BY <2>1, <2>2, <2>3, <2>4, <2>5, <2>6, <2>7, <2>8, <2>9 DEF Next
<1> QED
  BY <1>1, <1>2, TypeCorrect, PTL DEF Spec

\* A request that has found the flag set finds it set again, but for a
\* clearMigration.
LEMMA FlagInvariant == Spec => []FlagIsTested
<1>1. Init => FlagIsTested
  BY DEF Init, ManagerAtStart, WorldAtStart, FlagIsTested
<1>2. TypeOK /\ HistoryIsCurrent /\ FlagIsTested /\ [Next]_vars => FlagIsTested'
  <2> SUFFICES ASSUME TypeOK, HistoryIsCurrent, FlagIsTested, [Next]_vars
               PROVE  FlagIsTested'
    OBVIOUS
  <2> USE DEF HistoryIsCurrent, FlagIsTested, managerVars, powerVars, requestVars, history
  <2>1. CASE Initialize
    BY <2>1 DEF Initialize, InitialPowerState, InitManager, CuList, CuDisconnect,
                DisconnectDevice, SetDeviceConnection
  <2>2. CASE PowerChanges
    BY <2>2 DEF PowerChanges, AtRest
  <2>3. CASE PowerMode
    BY <2>3 DEF PowerMode, PwIsMigrated, PwSnapshot, EnableBluetooth, PwDisconnect, DisconnectDevice,
                SetDeviceConnection
  <2>4. CASE Request
    BY <2>4 DEF Request, Event
  <2>5. CASE EventLoop
    BY <2>5 DEF EventLoop, RqIsMigrated, RqAskFlag, RqAskCache, RqRespond, RqConnect,
                SetDeviceConnection
  <2>6. ASSUME NEW d \in Devices, Client(d)
        PROVE  FlagIsTested'
    BY <2>6 DEF Client, SetAutoConnect, Pair, Unpair, Connect, Disconnect, Event
  <2>7. CASE Enable \/ Disable \/ ImportCache \/ ClearCache
    BY <2>7 DEF Enable, Disable, ImportCache, ClearCache, Event
  <2>8. CASE SetFlag
    <3>1. UNCHANGED <<stage, rpc, happened>> /\ switching # "no"
      BY <2>8 DEF SetFlag
    <3>2. stage \notin {"power", "init"}
      BY <3>1
    <3>3. isMigrated' \/ switching = "clearing"
      BY <2>8 DEF SetFlag, TypeOK
    <3> QED
      BY <3>1, <3>2, <3>3
  <2>9. CASE UNCHANGED vars
    BY <2>9 DEF vars
  <2> QED
    BY <2>1, <2>2, <2>3, <2>4, <2>5, <2>6, <2>7, <2>8, <2>9 DEF Next
<1> QED
  BY <1>1, <1>2, TypeCorrect, HistoryInvariant, PTL DEF Spec

\* A request is rejected only on the word of a stored status, or when a
\* clearMigration has reset the flag since it was first tested.
THEOREM RejectionIsFounded == Spec => RejectsOnKnownStatus
<1> DEFINE Founded ==
      answer # "rejected" /\ answer' = "rejected" =>
        \/ asker \in DOMAIN cache /\ cache[asker] # "enabled"
        \/ ~isMigrated /\ "clearMigration" \in happened
<1>1. FlagIsTested /\ [Next]_vars => [Founded]_vars
  <2> SUFFICES ASSUME FlagIsTested, Next, answer # "rejected", answer' = "rejected"
               PROVE  \/ asker \in DOMAIN cache /\ cache[asker] # "enabled"
                      \/ ~isMigrated /\ "clearMigration" \in happened
    OBVIOUS
  <2> USE DEF FlagIsTested, managerVars, powerVars, requestVars, history
  <2>1. CASE Initialize \/ PowerChanges \/ PowerMode
    BY <2>1 DEF Initialize, InitialPowerState, InitManager, CuList, CuDisconnect,
                PowerChanges, PowerMode, PwIsMigrated, PwSnapshot, EnableBluetooth, PwDisconnect
  <2>2. CASE Request
    BY <2>2 DEF Request
  <2>3. CASE EventLoop
    BY <2>3 DEF EventLoop, RqIsMigrated, RqAskFlag, RqAskCache, RqRespond, RqConnect
  <2>4. ASSUME NEW d \in Devices, Client(d)
        PROVE  FALSE
    BY <2>4 DEF Client, SetAutoConnect, Pair, Unpair, Connect, Disconnect
  <2>5. CASE Enable \/ Disable \/ ImportCache \/ ClearCache \/ SetFlag
    BY <2>5 DEF Enable, Disable, ImportCache, ClearCache, SetFlag
  <2> QED
    BY <2>1, <2>2, <2>3, <2>4, <2>5 DEF Next
<1> QED
  BY <1>1, FlagInvariant, PTL DEF Spec, RejectsOnKnownStatus

\* What the clean-up of Initialize has still to disconnect, in either build.
LEMMA StartupInvariant == Spec => []StartupInv
<1>1. Init => StartupInv
  BY DEF Init, ManagerAtStart, WorldAtStart, StartupInv
<1>2. TypeOK /\ HistoryIsCurrent /\ StartupInv /\ [Next]_vars => StartupInv'
  <2> SUFFICES ASSUME TypeOK, HistoryIsCurrent, StartupInv, [Next]_vars,
                      events' = 0, happened' = {}
               PROVE  StartupInv'
    BY DEF StartupInv
  <2>0. events \in Nat
    BY DEF TypeOK
  <2> USE DEF StartupInv, managerVars, powerVars, requestVars, history
  <2>1. CASE Initialize
    <3>1. CASE InitialPowerState \/ InitManager
      BY <3>1 DEF InitialPowerState, InitManager
    <3>2. CASE CuList
      BY <3>2 DEF CuList, KnownStatus, AutoConnect, Gated
    <3>3. CASE CuDisconnect
      <4>1. events = 0 /\ happened = {} /\ stage = "cleanUp"
        BY <3>3 DEF CuDisconnect, DisconnectDevice, SetDeviceConnection
      <4>2. CASE doomed = {} /\ stage' = "up"
        BY <3>3, <4>1, <4>2 DEF CuDisconnect, KnownStatus, AutoConnect, Gated
      <4>3. ASSUME NEW d \in doomed, doomed' = doomed \ {d}, connected' = connected \ {d},
                   stage' = stage
            PROVE  StartupInv'
        BY <3>3, <4>1, <4>3 DEF CuDisconnect, KnownStatus, AutoConnect, Gated
      <4> QED
        BY <3>3, <4>2, <4>3 DEF CuDisconnect, DisconnectDevice, SetDeviceConnection
    <3> QED
      BY <2>1, <3>1, <3>2, <3>3 DEF Initialize
  <2>2. CASE PowerChanges \/ Request \/ Enable \/ Disable \/ ImportCache \/ ClearCache
    <3>1. events' = events + 1
      BY <2>2 DEF PowerChanges, Request, Enable, Disable, ImportCache, ClearCache, Event
    <3> QED
      BY <2>0, <3>1
  <2>3. CASE PowerMode \/ EventLoop \/ SetFlag
    <3>1. events = 0 /\ happened = {}
      BY <2>3 DEF PowerMode, PwIsMigrated, PwSnapshot, EnableBluetooth, PwDisconnect, DisconnectDevice,
                  EventLoop, RqIsMigrated, RqAskFlag, RqAskCache, RqRespond, RqConnect,
                  SetDeviceConnection, SetFlag
    <3>2. ppc = "idle" /\ rpc = "idle" /\ switching = "no"
      BY <3>1 DEF HistoryIsCurrent
    <3> QED
      BY <2>3, <3>2 DEF PowerMode, PwIsMigrated, PwSnapshot, EnableBluetooth, PwDisconnect, EventLoop,
                        RqIsMigrated, RqAskFlag, RqAskCache, RqRespond, RqConnect, SetFlag
  <2>4. ASSUME NEW d \in Devices, Client(d)
        PROVE  StartupInv'
    <3>1. events' = events + 1
      BY <2>4 DEF Client, SetAutoConnect, Pair, Unpair, Connect, Disconnect, Event
    <3> QED
      BY <2>0, <3>1
  <2>5. CASE UNCHANGED vars
    BY <2>5 DEF vars, KnownStatus, AutoConnect, Gated
  <2> QED
    BY <2>1, <2>2, <2>3, <2>4, <2>5 DEF Next
<1> QED
  BY <1>1, <1>2, TypeCorrect, HistoryInvariant, PTL DEF Spec

\* After Initialize no device the plugin knows is connected that the stored
\* statuses do not ask for, in either build, whatever was connected before.
THEOREM StartupIsClean == Spec => []StartupLeavesNoUnwanted
<1>1. StartupInv => StartupLeavesNoUnwanted
  BY DEF StartupInv, StartupLeavesNoUnwanted, KnownStatus, AutoConnect, Gated
<1> QED
  BY <1>1, StartupInvariant, PTL

-----------------------------------------------------------------------------
(* Standby and deep sleep                                                  *)

\* A step that takes nothing from the history.
LEMMA UndrivenBefore ==
  ASSUME happened \subseteq happened', Undriven'
  PROVE  Undriven
BY DEF Undriven

\* What the policy has still to disconnect, at each step of a notification, of
\* the clean-up, and around them.
LEMMA QuietInvariant ==
  ASSUME "deepSleep" \notin InitialPower
  PROVE  Spec => []QuietInv
<1>1. Init => QuietInv
  BY DEF Init, ManagerAtStart, WorldAtStart, QuietInv
<1>2. TypeOK /\ HistoryIsCurrent /\ FlagIsTested /\ QuietInv /\ [Next]_vars => QuietInv'
  <2> SUFFICES ASSUME TypeOK, HistoryIsCurrent, FlagIsTested, QuietInv, [Next]_vars,
                      Undriven', isMigrated', power' \in {"standby", "deepSleep"}
               PROVE  QuietInv'
    BY DEF QuietInv
  <2> USE DEF managerVars, powerVars, requestVars, history
  <2>1. CASE Initialize
    <3>1. CASE InitialPowerState \/ InitManager
      <4>1. stage' \in {"init", "list"}
        BY <3>1 DEF InitialPowerState, InitManager
      <4> QED
        BY <4>1 DEF QuietInv
    <3>2. CASE CuList
      <4>1. "btrmgrFails" \notin happened'
        BY DEF Undriven
      <4>2. happened' = happened /\ doomed' = {d \in connected \ Hids : KnownStatus(d) /\ ~AutoConnect(d)}
        BY <3>2, <4>1 DEF CuList
      <4>3. Undriven /\ power = power' /\ power \in InitialPower
        BY <3>2, <4>2, UndrivenBefore DEF CuList, HistoryIsCurrent, Undriven
      <4>4. isMigrated /\ stage' = "cleanUp" /\ UNCHANGED <<cache, connected>>
        BY <3>2 DEF CuList
      <4>5. QuietBut(doomed)'
        BY <4>2, <4>3, <4>4 DEF QuietBut, NonHids, KnownStatus, AutoConnect, Gated
      <4> QED
        BY <4>4, <4>5 DEF QuietInv
    <3>3. CASE CuDisconnect
      <4>1. "btrmgrFails" \notin happened'
        BY DEF Undriven
      <4>2. Undriven /\ isMigrated /\ power = power' /\ stage = "cleanUp"
        BY <3>3, <4>1, UndrivenBefore DEF CuDisconnect, DisconnectDevice, SetDeviceConnection
      <4>3. QuietBut(doomed)
        BY <4>2 DEF QuietInv
      <4>4. CASE doomed = {} /\ stage' = "up" /\ UNCHANGED connected
        <5>1. ppc' = "idle"
          BY <3>3, <4>2 DEF CuDisconnect, HistoryIsCurrent, Undriven
        <5>2. QuietBut({})'
          BY <3>3, <4>3, <4>4 DEF CuDisconnect, QuietBut, NonHids
        <5> QED
          BY <4>4, <5>1, <5>2 DEF QuietInv
      <4>5. ASSUME NEW d \in doomed, doomed' = doomed \ {d}, connected' = connected \ {d},
                   stage' = stage
            PROVE  QuietInv'
        <5>1. QuietBut(doomed)'
          BY <3>3, <4>3, <4>5 DEF CuDisconnect, QuietBut, NonHids
        <5> QED
          BY <4>2, <4>5, <5>1 DEF QuietInv
      <4> QED
        BY <3>3, <4>1, <4>4, <4>5 DEF CuDisconnect, DisconnectDevice, SetDeviceConnection
    <3> QED
      BY <2>1, <3>1, <3>2, <3>3 DEF Initialize
  <2>2. CASE PowerChanges
    <3>0. stage = "up"
      BY <2>2 DEF PowerChanges, Undriven
    <3>1. ppc' = "isMigrated" /\ from' = power /\ UNCHANGED <<stage, isMigrated, cache, connected>>
          /\ ppc = "idle" /\ power' # power /\ power' # "unknown" /\ power \in PowerStates
      BY <2>2 DEF PowerChanges, TypeOK
    <3>2. CASE ComesIntoForce(power, power')
      BY <3>0, <3>1, <3>2 DEF QuietInv, ComesIntoForce, FallsAsleep
    <3>3. CASE ~ComesIntoForce(power, power')
      <4>1. happened \subseteq happened'
        BY <2>2, <3>3 DEF PowerChanges
      <4>2. Undriven
        BY <4>1, UndrivenBefore
      <4>3. power' = "standby" /\ power = "deepSleep"
        BY <3>1, <3>3 DEF ComesIntoForce, FallsAsleep, PowerStates
      <4>4. QuietBut({})
        BY <3>0, <3>1, <4>2, <4>3 DEF QuietInv
      <4>5. QuietBut({})'
        BY <3>1, <4>3, <4>4 DEF QuietBut, NonHids
      <4> QED
        BY <3>0, <3>1, <4>5 DEF QuietInv
    <3> QED
      BY <3>2, <3>3
  <2>3. CASE PowerMode
    <3>1. "btrmgrFails" \notin happened'
      BY DEF Undriven
    <3>2. UNCHANGED <<stage, isMigrated, cache, power, happened, doomed>>
      BY <2>3, <3>1 DEF PowerMode, PwIsMigrated, PwSnapshot, EnableBluetooth, PwDisconnect, DisconnectDevice,
                        SetDeviceConnection
    <3>3. Undriven /\ isMigrated /\ power \in {"standby", "deepSleep"}
      BY <3>2, UndrivenBefore
    <3>4. stage = "up"
      BY <2>3, <3>3 DEF PowerMode, PwIsMigrated, PwSnapshot, EnableBluetooth, PwDisconnect, HistoryIsCurrent, Undriven
    <3>5. CASE PwIsMigrated
      <4>1. ppc = "isMigrated" /\ ppc' = "snapshot" /\ UNCHANGED <<connected, from>>
        BY <3>3, <3>5 DEF PwIsMigrated
      <4>2. ComesIntoForce(from, power) \/ QuietBut({})
        BY <3>3, <3>4, <4>1 DEF QuietInv
      <4>3. ComesIntoForce(from, power)' \/ QuietBut({})'
        BY <3>2, <4>1, <4>2 DEF ComesIntoForce, FallsAsleep, QuietBut, NonHids
      <4> QED
        BY <3>2, <3>4, <4>1, <4>3 DEF QuietInv
    <3>6. CASE PwSnapshot
      <4>1. /\ ppc = "snapshot" /\ leaving' = ToDisconnect(cache, from, power)
            /\ ppc' = IF leaving' = {} THEN "idle" ELSE "disconnect"
            /\ UNCHANGED connected
        BY <3>6 DEF PwSnapshot
      <4>2. QuietBut(leaving')
        <5>1. CASE FallsAsleep(from, power)
          <6>1. leaving' = {d \in NonHids(cache) : cache[d] = "disabled"}
            BY <4>1, <5>1, ToDisconnectParts
          <6>2. power # "deepSleep"
            BY <5>1 DEF FallsAsleep
          <6> QED
            BY <6>1, <6>2 DEF QuietBut
        <5>2. CASE power = "deepSleep"
          <6>1. leaving' = NonHids(cache)
            BY <4>1, <5>2, ToDisconnectParts
          <6> QED
            BY <6>1 DEF QuietBut
        <5>3. CASE ~ComesIntoForce(from, power)
          <6>1. leaving' = {}
            BY <4>1, <5>3, ToDisconnectParts
          <6>2. QuietBut({})
            BY <3>3, <3>4, <4>1, <5>3 DEF QuietInv
          <6> QED
            BY <6>1, <6>2
        <5> QED
          BY <3>3, <5>1, <5>2, <5>3 DEF ComesIntoForce
      <4>3. QuietBut(leaving)'
        BY <3>2, <4>1, <4>2 DEF QuietBut, NonHids
      <4>4. CASE leaving' = {}
        <5>1. QuietBut({})'
          BY <4>3, <4>4 DEF QuietBut
        <5> QED
          BY <3>2, <3>4, <4>1, <4>4, <5>1 DEF QuietInv
      <4>5. CASE leaving' # {}
        BY <3>2, <3>4, <4>1, <4>3, <4>5 DEF QuietInv
      <4> QED
        BY <4>4, <4>5
    <3>7. CASE PwDisconnect
      <4>1. PICK d \in leaving : leaving' = leaving \ {d} /\ connected' = connected \ {d}
        BY <3>1, <3>7 DEF PwDisconnect, DisconnectDevice, SetDeviceConnection
      <4>2. /\ ppc = "disconnect"
            /\ ppc' = IF leaving' = {} THEN "idle" ELSE "disconnect"
        BY <3>7 DEF PwDisconnect
      <4>3. QuietBut(leaving)
        BY <3>3, <3>4, <4>2 DEF QuietInv
      <4>4. QuietBut(leaving)'
        BY <3>2, <4>1, <4>3 DEF QuietBut, NonHids
      <4>5. CASE leaving' = {}
        <5>1. QuietBut({})'
          BY <4>4, <4>5 DEF QuietBut
        <5> QED
          BY <3>2, <3>4, <4>2, <4>5, <5>1 DEF QuietInv
      <4>6. CASE leaving' # {}
        BY <3>2, <3>4, <4>2, <4>4, <4>6 DEF QuietInv
      <4> QED
        BY <4>5, <4>6
    <3> QED
      BY <2>3, <3>5, <3>6, <3>7 DEF PowerMode
  <2>4. CASE Request \/ ImportCache \/ ClearCache
    <3>1. happened' \cap {"request", "performMigration", "clearMigration"} # {}
      BY <2>4 DEF Request, ImportCache, ClearCache, Event
    <3> QED
      BY <3>1 DEF Undriven
  <2>5. CASE EventLoop \/ SetFlag
    <3>1. happened \subseteq happened'
      BY <2>5 DEF EventLoop, RqIsMigrated, RqAskFlag, RqAskCache, RqRespond, RqConnect,
                  SetDeviceConnection, SetFlag
    <3>2. rpc # "idle" \/ switching # "no"
      BY <2>5 DEF EventLoop, RqIsMigrated, RqAskFlag, RqAskCache, RqRespond, RqConnect, SetFlag
    <3>3. happened' \cap {"request", "performMigration", "clearMigration"} # {}
      BY <3>1, <3>2 DEF HistoryIsCurrent, Unsettling
    <3> QED
      BY <3>3 DEF Undriven
  <2>6. ASSUME NEW d \in Devices, Client(d)
        PROVE  QuietInv'
    <3>1. CASE SetAutoConnect(d) \/ Pair(d) \/ Connect(d)
      <4>1. happened' \cap {"setAutoConnect", "pair", "connect"} # {}
        BY <3>1 DEF SetAutoConnect, Pair, Connect, Event
      <4> QED
        BY <4>1 DEF Undriven
    <3>2. CASE Unpair(d) \/ Disconnect(d)
      <4>1. /\ happened \subseteq happened' /\ connected' \subseteq connected
            /\ NonHids(cache)' \subseteq NonHids(cache)
            /\ \A e \in NonHids(cache)' : cache'[e] = cache[e]
            /\ UNCHANGED <<stage, isMigrated, power, ppc, from, leaving, doomed>>
        BY <3>2 DEF Unpair, Disconnect, Event, NonHids
      <4>2. Undriven
        BY <4>1, UndrivenBefore
      <4>3. ASSUME NEW D, QuietBut(D)
            PROVE  \A e \in (connected' \cap NonHids(cache)') \ D :
                      cache'[e] # "disabled" /\ power' # "deepSleep"
        BY <4>1, <4>3 DEF QuietBut
      <4>4. ComesIntoForce(from, power)' <=> ComesIntoForce(from, power)
        BY <4>1 DEF ComesIntoForce, FallsAsleep
      <4>5. (QuietBut(doomed) => QuietBut(doomed)') /\ (QuietBut(leaving) => QuietBut(leaving)')
            /\ (QuietBut({}) => QuietBut({})')
        BY <4>1, <4>3 DEF QuietBut, NonHids
      <4> QED
        BY <4>1, <4>2, <4>4, <4>5 DEF QuietInv
    <3> QED
      BY <2>6, <3>1, <3>2 DEF Client
  <2>7. CASE Enable \/ Disable
    <3>1. /\ happened \subseteq happened' /\ connected' \subseteq connected
          /\ UNCHANGED <<stage, isMigrated, cache, power, ppc, from, leaving, doomed>>
      BY <2>7 DEF Enable, Disable, Event
    <3>2. Undriven
      BY <3>1, UndrivenBefore
    <3> QED
      BY <3>1, <3>2 DEF QuietInv, QuietBut, NonHids, ComesIntoForce, FallsAsleep
  <2>8. CASE UNCHANGED vars
    <3>1. UNCHANGED <<stage, isMigrated, cache, connected, power, ppc, from, leaving, doomed, happened>>
      BY <2>8 DEF vars
    <3>2. Undriven
      BY <3>1, UndrivenBefore
    <3> QED
      BY <3>1, <3>2 DEF QuietInv, QuietBut, NonHids, ComesIntoForce, FallsAsleep
  <2> QED
    BY <2>1, <2>2, <2>3, <2>4, <2>5, <2>6, <2>7, <2>8 DEF Next
<1> QED
  BY <1>1, <1>2, TypeCorrect, HistoryInvariant, FlagInvariant, PTL DEF Spec

\* A box that is not started in deep sleep: once a power transition has been
\* served, no device is connected against the policy in standby or deep sleep.
THEOREM AsleepQuiet ==
  ASSUME "deepSleep" \notin InitialPower
  PROVE  Spec => []AsleepIsQuiet
<1>1. HistoryIsCurrent /\ QuietInv => AsleepIsQuiet
  BY DEF QuietInv, QuietBut, AsleepIsQuiet, Settled
<1> QED
  BY <1>1, HistoryInvariant, QuietInvariant, PTL
-----------------------------------------------------------------------------
(* Waking up                                                               *)

\* A box that is on has Bluetooth on, or a notification on its way to turn it on.
LEMMA AwakeInvariant == Spec => []AwakeInv
<1>1. Init => AwakeInv
  BY DEF Init, ManagerAtStart, WorldAtStart, AwakeInv
<1>2. TypeOK /\ HistoryIsCurrent /\ AwakeInv /\ [Next]_vars => AwakeInv'
  <2> SUFFICES ASSUME TypeOK, HistoryIsCurrent, AwakeInv, [Next]_vars,
                      Unhindered', "power" \in happened', isMigrated', power' = "on"
               PROVE  AwakeInv'
    BY DEF AwakeInv
  <2> USE DEF managerVars, powerVars, requestVars, history
  <2>1. CASE Initialize
    <3>1. stage # "up" /\ happened' \subseteq happened \cup {"btrmgrFails"}
      BY <2>1 DEF Initialize, InitialPowerState, InitManager, CuList, CuDisconnect,
                  DisconnectDevice, SetDeviceConnection
    <3> QED
      BY <3>1 DEF HistoryIsCurrent, Unhindered
  <2>2. CASE PowerChanges
    BY <2>2 DEF PowerChanges, AwakeInv
  <2>3. CASE PowerMode
    <3>1. "btrmgrFails" \notin happened'
      BY DEF Unhindered
    <3>2. UNCHANGED <<isMigrated, cache, power, happened>>
      BY <2>3, <3>1 DEF PowerMode, PwIsMigrated, PwSnapshot, EnableBluetooth, PwDisconnect,
                        DisconnectDevice, SetDeviceConnection
    <3>3. Unhindered /\ "power" \in happened /\ isMigrated /\ power = "on"
      BY <3>2 DEF Unhindered
    <3>4. CASE PwIsMigrated
      BY <3>3, <3>4 DEF PwIsMigrated, AwakeInv
    <3>5. CASE PwSnapshot
      <4>1. leaving' = {} /\ ppc' = "idle"
        BY <3>3, <3>5, ToDisconnectParts DEF PwSnapshot
      <4>2. adapterOn' = TRUE \/ NonHids(cache) = {}
        BY <3>1, <3>3, <3>5 DEF PwSnapshot, EnableBluetooth
      <4> QED
        BY <3>2, <4>1, <4>2 DEF AwakeInv, NonHids
    <3>6. CASE PwDisconnect
      BY <3>3, <3>6 DEF PwDisconnect, AwakeInv
    <3> QED
      BY <2>3, <3>4, <3>5, <3>6 DEF PowerMode
  <2>4. CASE Request \/ EventLoop
    <3>1. UNCHANGED <<isMigrated, cache, adapterOn, power, ppc>>
      BY <2>4 DEF Request, EventLoop, RqIsMigrated, RqAskFlag, RqAskCache, RqRespond, RqConnect
    <3>2. happened \subseteq happened' /\ happened' \subseteq happened \cup {"request", "btrmgrFails"}
      BY <2>4 DEF Request, Event, EventLoop, RqIsMigrated, RqAskFlag, RqAskCache, RqRespond,
                  RqConnect, SetDeviceConnection
    <3>3. Unhindered /\ "power" \in happened
      BY <3>2 DEF Unhindered
    <3> QED
      BY <3>1, <3>3 DEF AwakeInv, NonHids
  <2>5. ASSUME NEW d \in Devices, Client(d)
        PROVE  AwakeInv'
    <3>1. CASE Pair(d)
      BY <3>1 DEF Pair, Event, Unhindered
    <3>2. CASE SetAutoConnect(d) \/ Unpair(d) \/ Connect(d) \/ Disconnect(d)
      <4>1. UNCHANGED <<isMigrated, adapterOn, power, ppc>> /\ NonHids(cache)' \subseteq NonHids(cache)
        BY <3>2 DEF SetAutoConnect, Unpair, Connect, Disconnect, NonHids
      <4>2. /\ happened \subseteq happened'
            /\ happened' \subseteq happened \cup {"setAutoConnect", "unpair", "connect", "disconnect"}
        BY <3>2 DEF SetAutoConnect, Unpair, Connect, Disconnect, Event
      <4>3. Unhindered /\ "power" \in happened
        BY <4>2 DEF Unhindered
      <4> QED
        BY <4>1, <4>3 DEF AwakeInv
    <3> QED
      BY <2>5, <3>1, <3>2 DEF Client
  <2>6. CASE Enable
    <3>1. adapterOn' = TRUE /\ UNCHANGED <<isMigrated, power, ppc>>
      BY <2>6 DEF Enable
    <3>2. happened \subseteq happened' /\ happened' \subseteq happened \cup {"enable"}
      BY <2>6 DEF Enable, Event
    <3>3. Unhindered /\ "power" \in happened
      BY <3>2 DEF Unhindered
    <3> QED
      BY <3>1, <3>3 DEF AwakeInv
  <2>7. CASE Disable \/ ImportCache \/ ClearCache
    BY <2>7 DEF Disable, ImportCache, ClearCache, Event, Unhindered
  <2>8. CASE SetFlag
    <3>1. happened' = happened /\ happened \cap Unsettling # {}
      BY <2>8 DEF SetFlag, HistoryIsCurrent
    <3> QED
      BY <3>1 DEF Unhindered, Unsettling
  <2>9. CASE UNCHANGED vars
    BY <2>9 DEF vars, AwakeInv, NonHids, Unhindered
  <2> QED
    BY <2>1, <2>2, <2>3, <2>4, <2>5, <2>6, <2>7, <2>8, <2>9 DEF Next
<1> QED
  BY <1>1, <1>2, TypeCorrect, HistoryInvariant, PTL DEF Spec

\* A box that has woken up with a device to serve has Bluetooth on, unless BTRMGR
\* failed, or a client turned it off or changed the set of devices since.
THEOREM AwakeOn == Spec => []AwakeIsOn
<1>1. AwakeInv => AwakeIsOn
  BY DEF AwakeInv, AwakeIsOn, Settled
<1> QED
  BY <1>1, AwakeInvariant, PTL
=============================================================================
