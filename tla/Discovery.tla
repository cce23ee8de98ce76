----------------------------- MODULE Discovery -----------------------------
(***************************************************************************)
(* startScan, stopScan and the discovery timer of the Bluetooth plugin.    *)
(*                                                                         *)
(* m_discoveryRunning is a plain bool that JSON-RPC workers and the timer  *)
(* thread read and write without a lock.  Every read, every write, every   *)
(* call of BTRMGR and every call of the timer queue is an action.          *)
(*                                                                         *)
(* A thread executes these steps in an object of class Bluetooth.  An      *)
(* object is identified by its address, because the queue of the timer     *)
(* keeps nothing else of it: a DiscoveryTimer is a pointer.  Which objects *)
(* there are, and which one is called, is up to PluginLifecycle.           *)
(*                                                                         *)
(* External: BTRMGR, of which only "a discovery is under way" is kept, and *)
(* Core::TimerType: Schedule puts a DiscoveryTimer in the queue, Revoke    *)
(* takes the equal ones out and does not wait for a Timed() already begun  *)
(* (the code revokes from inside Timed() as well).                         *)
(***************************************************************************)
EXTENDS Integers

CONSTANTS
    Objects,    \* addresses a Bluetooth object may have
    NoObject,   \* the null pointer
    Callers,    \* threads that call startScan and stopScan
    Timer,      \* the thread of _discoveryTimer
    Faults,     \* what may fail, see AllFaults
    MaxCalls    \* bound: threads that come in from outside in a behaviour

AllFaults == {"adapters",  \* there is no adapter, or it cannot be asked for
              "start",     \* BTRMGR_StartDeviceDiscovery fails
              "stop"}      \* BTRMGR_StopDeviceDiscovery fails

ASSUME DiscoveryAssumption ==
    /\ Objects # {}
    /\ NoObject \notin Objects
    /\ Timer \notin Callers
    /\ Faults \subseteq AllFaults
    /\ MaxCalls \in Nat

Threads == Callers \cup {Timer}

VARIABLES
    alive,             \* the objects that are constructed and not destroyed
    discoveryRunning,  \* m_discoveryRunning of each object
    scheduled,         \* the m_bt of the entries in the queue of _discoveryTimer
    discovering,       \* BTRMGR has a discovery under way
    pc,                \* the next step of each thread
    this,              \* the object it is in, or NoObject
    timed,             \* the timeout of its startScan is positive
    disturbed,         \* history: threads have overlapped, or a stop failed
    calls

history       == <<disturbed, calls>>
locals        == <<this, timed>>
discoveryVars == <<alive, discoveryRunning, scheduled, discovering, pc, locals, history>>

StartSteps == {"stFlag", "stAdapters", "stStart", "stSetFlag", "stRevoke", "stSchedule"}
StopSteps  == {"spFlag", "spRevoke", "spStop", "spClear"}

\* The timer thread never starts a discovery, and only a start with a
\* positive timeout gets to the timer queue.
DiscoveryTypeOK ==
    /\ alive \in SUBSET Objects
    /\ discoveryRunning \in [Objects -> BOOLEAN]
    /\ scheduled \in SUBSET Objects
    /\ discovering \in BOOLEAN
    /\ pc \in [Threads -> StartSteps \cup StopSteps \cup {"idle"}]
    /\ this \in [Threads -> Objects \cup {NoObject}]
    /\ timed \in [Threads -> BOOLEAN]
    /\ disturbed \in BOOLEAN
    /\ calls \in Nat
    /\ pc[Timer] \notin StartSteps
    /\ \A t \in Threads :
        /\ pc[t] # "idle" => this[t] \in Objects
        /\ pc[t] \in {"stRevoke", "stSchedule"} => timed[t]

DiscoveryInit ==
    /\ discoveryRunning = [o \in Objects |-> FALSE]
    /\ scheduled = {}
    /\ discovering = FALSE
    /\ pc = [t \in Threads |-> "idle"]
    /\ this = [t \in Threads |-> NoObject]
    /\ timed = [t \in Threads |-> FALSE]
    /\ disturbed = FALSE
    /\ calls = 0

Goto(t, step) == pc' = [pc EXCEPT ![t] = step] /\ UNCHANGED locals

Return(t) ==
    /\ pc' = [pc EXCEPT ![t] = "idle"]
    /\ this' = [this EXCEPT ![t] = NoObject]
    /\ timed' = [timed EXCEPT ![t] = FALSE]

Fails(fault) == fault \in Faults

AllIdle == \A t \in Threads : pc[t] = "idle"

\* Thread t, doing nothing, enters object o.
Begins(t, o, step) ==
    /\ pc[t] = "idle"
    /\ pc' = [pc EXCEPT ![t] = step]
    /\ this' = [this EXCEPT ![t] = o]
    /\ disturbed' = (disturbed \/ ~AllIdle)

IsRunning(t) == discoveryRunning[this[t]]
SetRunning(t, flag) == discoveryRunning' = [discoveryRunning EXCEPT ![this[t]] = flag]

-----------------------------------------------------------------------------
(* startDeviceDiscovery                                                    *)

CallStart(t, o) ==
    /\ Begins(t, o, "stFlag")
    /\ calls < MaxCalls
    /\ calls' = calls + 1
    /\ \E positive \in BOOLEAN : timed' = [timed EXCEPT ![t] = positive]
    /\ UNCHANGED <<alive, discoveryRunning, scheduled, discovering>>

\* A start while a discovery is running reports success and does nothing.
StFlag(t) ==
    /\ pc[t] = "stFlag"
    /\ IF IsRunning(t) THEN Return(t) ELSE Goto(t, "stAdapters")
    /\ UNCHANGED <<alive, discoveryRunning, scheduled, discovering, history>>

StAdapters(t) ==
    /\ pc[t] = "stAdapters"
    /\ Goto(t, "stStart") \/ (Fails("adapters") /\ Return(t))
    /\ UNCHANGED <<alive, discoveryRunning, scheduled, discovering, history>>

\* A failure is logged, and the start goes on.
StStart(t) ==
    /\ pc[t] = "stStart"
    /\ discovering' = TRUE \/ (Fails("start") /\ UNCHANGED discovering)
    /\ Goto(t, "stSetFlag")
    /\ UNCHANGED <<alive, discoveryRunning, scheduled, history>>

\* Seeded faults: the flag is forgotten; without a timeout nobody stops; the
\* timeout is not looked at.
StSetFlagForgotten(t) ==
    /\ pc[t] = "stSetFlag"
    /\ Goto(t, IF timed[t] THEN "stRevoke" ELSE "spFlag")
    /\ UNCHANGED <<alive, discoveryRunning, scheduled, discovering, history>>

StSetFlagUntimed(t) ==
    /\ pc[t] = "stSetFlag"
    /\ SetRunning(t, TRUE)
    /\ IF timed[t] THEN Goto(t, "stRevoke") ELSE Return(t)
    /\ UNCHANGED <<alive, scheduled, discovering, history>>

StSetFlagAlwaysTimed(t) ==
    /\ pc[t] = "stSetFlag"
    /\ SetRunning(t, TRUE)
    /\ Goto(t, "stRevoke")
    /\ UNCHANGED <<alive, scheduled, discovering, history>>

\* A timeout that is not positive stops the discovery at once.
StSetFlag(t) ==
    /\ pc[t] = "stSetFlag"
    /\ SetRunning(t, TRUE)
    /\ Goto(t, IF timed[t] THEN "stRevoke" ELSE "spFlag")
    /\ UNCHANGED <<alive, scheduled, discovering, history>>

\* startDiscoveryTimer
StRevoke(t) ==
    /\ pc[t] = "stRevoke"
    /\ scheduled' = scheduled \ {this[t]}
    /\ Goto(t, "stSchedule")
    /\ UNCHANGED <<alive, discoveryRunning, discovering, history>>

StSchedule(t) ==
    /\ pc[t] = "stSchedule"
    /\ scheduled' = scheduled \cup {this[t]}
    /\ Return(t)
    /\ UNCHANGED <<alive, discoveryRunning, discovering, history>>

-----------------------------------------------------------------------------
(* stopDeviceDiscovery, called by stopScan and by the timer                *)

CallStop(t, o) ==
    /\ Begins(t, o, "spFlag")
    /\ calls < MaxCalls
    /\ calls' = calls + 1
    /\ UNCHANGED <<alive, discoveryRunning, scheduled, discovering, timed>>

\* The time is up: the entry leaves the queue, and Timed() begins, in the
\* object the entry points to, whether it is still there or not.
TimerFires ==
    /\ \E o \in scheduled :
        /\ Begins(Timer, o, "spFlag")
        /\ scheduled' = scheduled \ {o}
    /\ UNCHANGED <<alive, discoveryRunning, discovering, timed, calls>>

SpFlag(t) ==
    /\ pc[t] = "spFlag"
    /\ IF IsRunning(t) THEN Goto(t, "spRevoke") ELSE Return(t)
    /\ UNCHANGED <<alive, discoveryRunning, scheduled, discovering, history>>

\* Seeded fault: a stop leaves the timer in the queue.
SpRevokeForgotten(t) ==
    /\ pc[t] = "spRevoke"
    /\ Goto(t, "spStop")
    /\ UNCHANGED <<alive, discoveryRunning, scheduled, discovering, history>>

SpRevoke(t) ==
    /\ pc[t] = "spRevoke"
    /\ scheduled' = scheduled \ {this[t]}
    /\ Goto(t, "spStop")
    /\ UNCHANGED <<alive, discoveryRunning, discovering, history>>

\* Seeded fault: a stop that fails keeps the flag.
SpStopKeepsFlag(t) ==
    /\ pc[t] = "spStop"
    /\ \/ discovering' = FALSE /\ Goto(t, "spClear") /\ UNCHANGED disturbed
       \/ Fails("stop") /\ Return(t) /\ disturbed' = TRUE /\ UNCHANGED discovering
    /\ UNCHANGED <<alive, discoveryRunning, scheduled, calls>>

\* A failure is logged, and the stop goes on.
SpStop(t) ==
    /\ pc[t] = "spStop"
    /\ \/ discovering' = FALSE /\ UNCHANGED disturbed
       \/ Fails("stop") /\ disturbed' = TRUE /\ UNCHANGED discovering
    /\ Goto(t, "spClear")
    /\ UNCHANGED <<alive, discoveryRunning, scheduled, calls>>

SpClear(t) ==
    /\ pc[t] = "spClear"
    /\ SetRunning(t, FALSE)
    /\ Return(t)
    /\ UNCHANGED <<alive, scheduled, discovering, history>>

-----------------------------------------------------------------------------

\* BTRMGR ends a discovery by itself; the plugin only passes the event on.
DiscoveryComplete ==
    /\ discovering
    /\ discovering' = FALSE
    /\ UNCHANGED <<alive, discoveryRunning, scheduled, pc, locals, history>>

Start(t) == StFlag(t) \/ StAdapters(t) \/ StStart(t) \/ StSetFlag(t) \/ StRevoke(t) \/ StSchedule(t)
Stop(t)  == SpFlag(t) \/ SpRevoke(t) \/ SpStop(t) \/ SpClear(t)

\* What goes on in the objects there are.
DiscoveryNext ==
    \/ \E t \in Threads : Start(t) \/ Stop(t)
    \/ TimerFires
    \/ DiscoveryComplete

\* The threads are scheduled, and time passes.  Nobody has to call, and BTRMGR
\* need not end a discovery by itself.
DiscoveryFairness ==
    /\ WF_discoveryVars(TimerFires)
    /\ \A t \in Threads : WF_discoveryVars(Start(t) \/ Stop(t))

-----------------------------------------------------------------------------
(* Properties                                                              *)

\* The thread has the discovery of o in hand: it will put the timer in the
\* queue, or clear the flag, or test the flag and then clear it.
InHand(t, o) == this[t] = o /\ pc[t] \in {"stRevoke", "stSchedule"} \cup StopSteps

\* A set flag, which turns every startScan into a no-op, is never left behind
\* alone, however starts, stops and the timer interleave and whatever fails:
\* the timer is queued, or a thread has the discovery in hand.
RunningIsTimed ==
    \A o \in alive :
        discoveryRunning[o] => o \in scheduled \/ \E t \in Threads : InHand(t, o)

\* So startScan works again some time later.
RunningEnds ==
    \A o \in Objects : o \in alive /\ discoveryRunning[o] ~> ~(o \in alive /\ discoveryRunning[o])

\* As long as calls and the timer wait for each other, no stop fails and the
\* plugin is not deactivated under a discovery, a discovery that BTRMGR has
\* under way between calls is one the plugin knows of: stopScan can stop it.
DiscoveryIsKnown ==
    AllIdle /\ discovering /\ ~disturbed => \E o \in alive : discoveryRunning[o]

\* Then a discovery also ends, at the latest when its timeout expires.
DiscoveryEndsUndisturbed == discovering ~> ~discovering \/ disturbed

\* That it always ends is too much to ask: the flag is not guarded by a lock.
DiscoveryEnds == discovering ~> ~discovering
=============================================================================
