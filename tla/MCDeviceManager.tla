-------------------------- MODULE MCDeviceManager --------------------------
(***************************************************************************)
(* Instances of DeviceManager for TLC.                                     *)
(***************************************************************************)
EXTENDS DeviceManagerProperties, TLC

CONSTANTS headset, remote   \* an audio device, and a human interface device

Info(type, auto, time, vol) ==
    [addr |-> TRUE, type |-> type, auto |-> auto, time |-> time, vol |-> vol]

One(d, info) == d :> info

\* The AS file as it is found: missing, malformed, empty of devices, with a
\* device whose autoconnect is set, with one where it was never set.
MCFiles ==
    {NoFile, BadFile, EmptyMap,
     One(headset, Info("AUDIO", "enabled", 0, 1)),
     One(headset, Info("UNKNOWN", "unset", NoTime, 0))}

\* deviceInfo as it is found: absent, or left by the build without migration.
MCStores == {NoInfo, StoreView(One(remote, FreshInfo(remote)))}

MCPaired == {{headset}, {headset, remote}}

OneFile == {One(headset, Info("AUDIO", "enabled", 0, 1))}
NoStore == {NoInfo}
HeadsetPaired == {{headset}}
=============================================================================
