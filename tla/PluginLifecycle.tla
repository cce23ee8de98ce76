--------------------------- MODULE PluginLifecycle ---------------------------
(***************************************************************************)
(* The life of the Bluetooth objects: construction, Initialize, the calls, *)
(* Deinitialize and destruction, against the threads that may be inside    *)
(* (the JSON-RPC workers and the timer of Discovery) or may come in from   *)
(* outside: BTRMGR's, through the static pointer _instance, and            *)
(* PowerManager's, through the notification object.                        *)
(*                                                                         *)
(* External: Thunder.  It calls one plugin object at a time, and only once *)
(* Initialize has returned without a message; when there is a message, or  *)
(* the plugin is deactivated, it calls Deinitialize and drops its          *)
(* reference.  A JSON-RPC call holds a reference on its object, so the     *)
(* object outlives the call; the timer, BTRMGR and PowerManager hold none. *)
(* Neither Unregister of PowerManager nor the one of BTRMGR is taken to    *)
(* wait for a call already under way.                                      *)
(*                                                                         *)
(* Undefined behaviour: in the memory of a destroyed object the flag may   *)
(* have any value, and a new object may get the same address.              *)
(***************************************************************************)
EXTENDS Discovery

CONSTANTS
    Btrmgr,           \* the thread that runs bluetoothSrv_EventCallback
    Power,            \* the thread that runs OnPowerModeChanged
    LifeFaults,       \* what may fail, see AllLifeFaults
    MaxDeactivations  \* bound: plugin objects deinitialized in a behaviour

AllLifeFaults == {"register",    \* BTRMGR_RegisterForCallbacks fails
                  "unregister",  \* BTRMGR_UnRegisterFromCallbacks fails
                  "power",       \* there is no PowerManager interface
                  "manager"}     \* BluetoothDeviceManager::init fails

Visitors == {Btrmgr, Power}

ASSUME LifecycleAssumption ==
    /\ Btrmgr # Power
    /\ LifeFaults \subseteq AllLifeFaults
    /\ MaxDeactivations \in Nat

VARIABLES
    life,       \* the next step of Initialize or Deinitialize, "down" or "up"
    plugin,     \* the object Thunder holds, or NoObject
    instance,   \* Bluetooth::_instance
    callback,   \* BTRMGR has the plugin's callback
    listening,  \* the object whose notification PowerManager has, or NoObject
    service,    \* the objects whose device manager has its _service
    at,         \* where each visitor is
    visited,    \* the object it is in, or NoObject
    deactivations

lifeVars == <<life, plugin, instance, callback, listening, service, deactivations>>
visitorVars == <<at, visited>>
vars == <<discoveryVars, lifeVars, visitorVars>>

InitializeSteps   == {"register", "power", "manager"}
DeinitializeSteps == {"deManager", "dePower", "deInstance", "deBtrmgr"}

TypeOK ==
    /\ DiscoveryTypeOK
    /\ life \in {"down", "up"} \cup InitializeSteps \cup DeinitializeSteps
    /\ plugin \in IF life = "down" THEN {NoObject} ELSE Objects
    /\ instance \in Objects \cup {NoObject}
    /\ callback \in BOOLEAN
    /\ listening \in Objects \cup {NoObject}
    /\ service \in SUBSET Objects
    /\ at \in [Visitors -> {"outside", "tested", "inside", "storing"}]
    /\ visited \in [Visitors -> Objects \cup {NoObject}]
    /\ deactivations \in Nat

\* The first object has been constructed; its address is as good as any.
FirstObject == CHOOSE o \in Objects : TRUE

Init ==
    /\ DiscoveryInit
    /\ alive = {FirstObject}
    /\ life = "register"
    /\ plugin = FirstObject
    /\ instance = FirstObject
    /\ callback = FALSE
    /\ listening = NoObject
    /\ service = {}
    /\ at = [v \in Visitors |-> "outside"]
    /\ visited = [v \in Visitors |-> NoObject]
    /\ deactivations = 0

LifeFails(fault) == fault \in LifeFaults

\* history: what Thunder does not wait for, and the code does not either.
Disturb(reason) == disturbed' = (disturbed \/ reason)

objectVars == <<discoveryRunning, scheduled, discovering, pc, locals, calls>>

-----------------------------------------------------------------------------
(* Initialize                                                              *)

\* The constructor publishes the object, at any address that is free.
Construct ==
    /\ life = "down"
    /\ deactivations <= MaxDeactivations
    /\ \E o \in Objects \ alive :
        /\ alive' = alive \cup {o}
        /\ discoveryRunning' = [discoveryRunning EXCEPT ![o] = FALSE]
        /\ plugin' = o
        /\ instance' = o
    /\ life' = "register"
    /\ UNCHANGED <<scheduled, discovering, pc, locals, history, callback, listening,
                   service, deactivations, visitorVars>>

RegisterCallback ==
    /\ life = "register"
    /\ \/ callback' = TRUE /\ life' = "power"
       \/ LifeFails("register") /\ life' = "deManager" /\ UNCHANGED callback
    /\ UNCHANGED <<discoveryVars, plugin, instance, listening, service, deactivations, visitorVars>>

\* Without the interface Initialize goes on without power notifications.
RegisterPower ==
    /\ life = "power"
    /\ listening' = plugin \/ (LifeFails("power") /\ UNCHANGED listening)
    /\ life' = "manager"
    /\ UNCHANGED <<discoveryVars, plugin, instance, callback, service, deactivations, visitorVars>>

InitManager ==
    /\ life = "manager"
    /\ \/ service' = service \cup {plugin} /\ life' = "up"
       \/ LifeFails("manager") /\ life' = "deManager" /\ UNCHANGED service
    /\ UNCHANGED <<discoveryVars, plugin, instance, callback, listening, deactivations, visitorVars>>

-----------------------------------------------------------------------------
(* Deinitialize and destruction                                            *)

IsInside(o) == \E t \in Callers : pc[t] # "idle" /\ this[t] = o

Deactivate ==
    /\ life = "up"
    /\ deactivations < MaxDeactivations
    /\ life' = "deManager"
    /\ Disturb(discoveryRunning[plugin] \/ ~AllIdle)
    /\ UNCHANGED <<alive, objectVars, plugin, instance, callback, listening, service,
                   deactivations, visitorVars>>

DeManager ==
    /\ life = "deManager"
    /\ service' = service \ {plugin}
    /\ life' = "dePower"
    /\ Disturb(\E v \in Visitors : at[v] = "storing")
    /\ UNCHANGED <<alive, objectVars, plugin, instance, callback, listening, deactivations,
                   visitorVars>>

\* Seeded fault: the notification is left registered.
DePowerForgotten ==
    /\ life = "dePower"
    /\ life' = "deInstance"
    /\ UNCHANGED <<discoveryVars, plugin, instance, callback, listening, service, deactivations,
                   visitorVars>>

DePower ==
    /\ life = "dePower"
    /\ listening' = NoObject
    /\ life' = "deInstance"
    /\ Disturb(at[Power] # "outside")
    /\ UNCHANGED <<alive, objectVars, plugin, instance, callback, service, deactivations,
                   visitorVars>>

DeInstance ==
    /\ life = "deInstance"
    /\ instance' = NoObject
    /\ life' = "deBtrmgr"
    /\ Disturb(at[Btrmgr] # "outside")
    /\ UNCHANGED <<alive, objectVars, plugin, callback, listening, service, deactivations,
                   visitorVars>>

\* A failure is logged, and the callback stays where it is.
DeBtrmgr ==
    /\ life = "deBtrmgr"
    /\ callback' = FALSE \/ (LifeFails("unregister") /\ UNCHANGED callback)
    /\ life' = "down"
    /\ plugin' = NoObject
    /\ deactivations' = deactivations + 1
    /\ UNCHANGED <<discoveryVars, instance, listening, service, visitorVars>>

\* The last reference is gone.
Destroy ==
    /\ \E o \in alive \ {plugin} :
        /\ ~IsInside(o)
        /\ alive' = alive \ {o}
        /\ \E junk \in BOOLEAN : discoveryRunning' = [discoveryRunning EXCEPT ![o] = junk]
    /\ UNCHANGED <<scheduled, discovering, pc, locals, history, lifeVars, visitorVars>>

-----------------------------------------------------------------------------
(* The visitors                                                            *)

Move(v, place, o) ==
    /\ at' = [at EXCEPT ![v] = place]
    /\ visited' = [visited EXCEPT ![v] = o]
    /\ UNCHANGED <<alive, discoveryRunning, scheduled, discovering, pc, locals, disturbed, lifeVars>>

Arrive(v, place, o) ==
    /\ at[v] = "outside"
    /\ calls < MaxCalls
    /\ calls' = calls + 1
    /\ Move(v, place, o)

GoOn(v, place, o) == Move(v, place, o) /\ UNCHANGED calls

\* An event: the callback ignores it when there is no instance ...
EventArrives ==
    /\ callback
    /\ instance # NoObject
    /\ Arrive(Btrmgr, "tested", instance)

\* ... and otherwise names the pointer a second time.  Without a lock around
\* the two, the compiler may read it once or twice.
EventEnters ==
    /\ at[Btrmgr] = "tested"
    /\ \E o \in {visited[Btrmgr], instance} : GoOn(Btrmgr, "inside", o)

PowerChanges ==
    /\ listening # NoObject
    /\ Arrive(Power, "inside", listening)

\* A visitor may call an operation of the device manager that uses _service
\* after it has tested that there is one; then it leaves.
VisitorStores(v) ==
    /\ at[v] = "inside"
    /\ visited[v] \in service
    /\ GoOn(v, "storing", visited[v])

VisitorLeaves(v) ==
    /\ at[v] \in {"inside", "storing"}
    /\ GoOn(v, "outside", NoObject)

VisitorStep ==
    \/ EventArrives \/ EventEnters \/ PowerChanges
    \/ \E v \in Visitors : VisitorStores(v) \/ VisitorLeaves(v)

-----------------------------------------------------------------------------

LifeStep ==
    \/ RegisterCallback \/ RegisterPower \/ InitManager
    \/ DeManager \/ DePower \/ DeInstance \/ DeBtrmgr

Next ==
    \/ Construct \/ LifeStep \/ Deactivate \/ Destroy
    \/ \E t \in Callers :
        /\ life = "up"
        /\ CallStart(t, plugin) \/ CallStop(t, plugin)
        /\ UNCHANGED <<lifeVars, visitorVars>>
    \/ DiscoveryNext /\ UNCHANGED <<lifeVars, visitorVars>>
    \/ VisitorStep

Spec == Init /\ [][Next]_vars

FairSpec == Spec /\ DiscoveryFairness

-----------------------------------------------------------------------------
(* Properties                                                              *)

\* What the plugin has registered, published and acquired is there while it
\* is up, and gone when it is down, on every failure path of Initialize.
\* (Of BTRMGR's callback only what a failed unregistration leaves.)
RegisteredWhileUp ==
    /\ life = "up" => callback /\ instance = plugin /\ plugin \in service
    /\ life = "down" => listening = NoObject /\ instance = NoObject /\ service = {}

\* A thread without a reference is in an object that is gone, or in the device
\* manager of one, behind its test of _service, that has released it.
Astray ==
    \/ pc[Timer] # "idle" /\ this[Timer] \notin alive
    \/ \E v \in Visitors :
        \/ at[v] \in {"inside", "storing"} /\ visited[v] \notin alive
        \/ at[v] = "storing" /\ visited[v] \notin service

\* A plugin that is deactivated without a discovery on and without anybody
\* inside, after calls that did not overlap, is never entered again: not by a
\* timer that was left in the queue, not by an event although BTRMGR may have
\* kept the callback, not by a power notification.  (With a discovery on, or
\* with somebody inside, it may be.)
NobodyAstray == Astray => disturbed

-----------------------------------------------------------------------------
(* The inductive invariant behind NobodyAstray and DiscoveryIsKnown        *)

\* Where the plugin object is known, by the step of its life.
PluginIsHeld ==
    /\ plugin # NoObject => plugin \in alive
    /\ instance = IF life \in {"down", "deBtrmgr"} THEN NoObject ELSE plugin
    /\ life \in {"power", "manager", "up"} => callback
    /\ listening # NoObject =>
        listening = plugin /\ life \in {"manager", "up", "deManager", "dePower"}
    /\ service \subseteq {plugin}
    /\ life = "up" => plugin \in service
    /\ service # {} => life \in {"up", "deManager"}

\* As long as nothing is disturbed, one thread at a time is in the discovery,
\* in the active plugin; timer, flag and BTRMGR agree but for its step.
DiscoveryIsOrderly ==
    /\ \A t \in Threads : pc[t] # "idle" =>
        /\ life = "up" /\ this[t] = plugin
        /\ \A u \in Threads : pc[u] # "idle" => u = t
        /\ pc[t] \in {"stRevoke", "stSchedule", "spRevoke", "spStop", "spClear"} =>
            discoveryRunning[plugin]
        /\ pc[t] \in {"spStop", "spClear"} => scheduled = {}
        /\ pc[t] = "spClear" => ~discovering
    /\ \A o \in scheduled : life = "up" /\ o = plugin /\ discoveryRunning[o]
    /\ discovering =>
        life = "up" /\ (discoveryRunning[plugin] \/ \E t \in Threads : pc[t] = "stSetFlag")
    /\ \A o \in alive : discoveryRunning[o] => life = "up" /\ o = plugin

\* ... and the visitors are in the plugin while it expects them.
VisitorsAreOrderly ==
    /\ at[Btrmgr] # "outside" => visited[Btrmgr] = plugin /\ life \notin {"down", "deBtrmgr"}
    /\ at[Power] # "outside" =>
        visited[Power] = plugin /\ life \in {"manager", "up", "deManager", "dePower"}
    /\ \A v \in Visitors : at[v] = "storing" => visited[v] \in service

LifeInv == PluginIsHeld /\ (~disturbed => DiscoveryIsOrderly /\ VisitorsAreOrderly)
=============================================================================
