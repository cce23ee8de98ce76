----------------------- MODULE PluginLifecycleProofs -----------------------
(***************************************************************************)
(* Theorems about PluginLifecycle and the Discovery in it, for any number  *)
(* of callers and addresses, any faults and any interleaving.              *)
(***************************************************************************)
EXTENDS PluginLifecycle, TLAPS

USE DiscoveryAssumption, LifecycleAssumption DEF Threads

-----------------------------------------------------------------------------
(* Type correctness                                                        *)

\* The first address is an address.
LEMMA FirstObjectType == FirstObject \in Objects
BY DEF FirstObject

\* The plugin starts well typed.
LEMMA InitType == Init => TypeOK
<1> SUFFICES ASSUME Init
             PROVE  TypeOK
  OBVIOUS
<1> USE DEF Init, DiscoveryInit
<1>1. timed \in [Threads -> BOOLEAN] /\ discoveryRunning \in [Objects -> BOOLEAN]
  BY ZenonT(20)
<1>2. \A t \in Threads : pc[t] = "idle"
  OBVIOUS
<1>3. pc \in [Threads -> StartSteps \cup StopSteps \cup {"idle"}] /\ pc[Timer] \notin StartSteps
  BY DEF StartSteps, StopSteps
<1>4. \A t \in Threads :
        /\ pc[t] # "idle" => this[t] \in Objects
        /\ pc[t] \in {"stRevoke", "stSchedule"} => timed[t]
  BY <1>2
<1>5. this \in [Threads -> Objects \cup {NoObject}]
  OBVIOUS
<1>6. DiscoveryTypeOK
  BY <1>1, <1>3, <1>4, <1>5, FirstObjectType DEF DiscoveryTypeOK
<1>7. /\ at \in [Visitors -> {"outside", "tested", "inside", "storing"}]
      /\ visited \in [Visitors -> Objects \cup {NoObject}]
  OBVIOUS
<1> QED
  BY <1>6, <1>7, FirstObjectType DEF TypeOK, InitializeSteps

\* A call, of an object there is, keeps the types of the discovery.
LEMMA CallType ==
    ASSUME DiscoveryTypeOK, NEW t \in Callers, NEW o \in Objects,
           CallStart(t, o) \/ CallStop(t, o)
    PROVE  DiscoveryTypeOK'
<1> USE DEF DiscoveryTypeOK, StartSteps, StopSteps, Begins
<1>1. CASE CallStart(t, o)
  BY <1>1 DEF CallStart
<1>2. CASE CallStop(t, o)
  BY <1>2 DEF CallStop
<1> QED
  BY <1>1, <1>2

\* So does what goes on in the objects.
LEMMA DiscoveryStepType ==
    ASSUME DiscoveryTypeOK, DiscoveryNext
    PROVE  DiscoveryTypeOK'
<1> USE DEF DiscoveryTypeOK, StartSteps, StopSteps, Goto, Return, IsRunning, SetRunning,
            history, locals
<1>1. ASSUME NEW t \in Threads, Start(t)
      PROVE  DiscoveryTypeOK'
  <2>1. CASE StFlag(t) \/ StAdapters(t) \/ StStart(t)
    BY <2>1 DEF StFlag, StAdapters, StStart
  <2>2. CASE StSetFlag(t)
    <3>1. discoveryRunning' \in [Objects -> BOOLEAN]
      BY <2>2 DEF StSetFlag
    <3>2. CASE timed[t]
      BY <2>2, <3>1, <3>2 DEF StSetFlag
    <3>3. CASE ~timed[t]
      BY <2>2, <3>1, <3>3 DEF StSetFlag
    <3> QED
      BY <3>2, <3>3
  <2>3. CASE StRevoke(t)
    BY <2>3 DEF StRevoke
  <2>4. CASE StSchedule(t)
    <3>1. scheduled' \in SUBSET Objects
      BY <2>4 DEF StSchedule
    <3> QED
      BY <2>4, <3>1 DEF StSchedule
  <2> QED
    BY <1>1, <2>1, <2>2, <2>3, <2>4 DEF Start
<1>2. ASSUME NEW t \in Threads, Stop(t)
      PROVE  DiscoveryTypeOK'
  <2>1. CASE SpFlag(t)
    <3>1. CASE Goto(t, "spRevoke")
      BY <2>1, <3>1 DEF SpFlag
    <3>2. CASE Return(t)
      <4>1. UNCHANGED <<alive, discoveryRunning, scheduled, discovering, history>>
        BY <2>1 DEF SpFlag
      <4>2. /\ pc' = [pc EXCEPT ![t] = "idle"]
            /\ this' = [this EXCEPT ![t] = NoObject]
            /\ timed' = [timed EXCEPT ![t] = FALSE]
        BY <3>2
      <4> QED
        BY <4>1, <4>2
    <3> QED
      BY <2>1, <3>1, <3>2 DEF SpFlag
  <2>2. CASE SpRevoke(t)
    BY <2>2 DEF SpRevoke
  <2>3. CASE SpStop(t)
    BY <2>3 DEF SpStop
  <2>4. CASE SpClear(t)
    <3>1. discoveryRunning' \in [Objects -> BOOLEAN]
      BY <2>4 DEF SpClear
    <3> QED
      BY <2>4, <3>1 DEF SpClear
  <2> QED
    BY <1>2, <2>1, <2>2, <2>3, <2>4 DEF Stop
<1>3. CASE TimerFires
  BY <1>3 DEF TimerFires, Begins
<1>4. CASE DiscoveryComplete
  BY <1>4 DEF DiscoveryComplete
<1> QED
  BY <1>1, <1>2, <1>3, <1>4 DEF DiscoveryNext

\* Nothing but a change of its variables changes the types of the discovery.
LEMMA DiscoveryTypeStutter ==
    ASSUME DiscoveryTypeOK, UNCHANGED discoveryVars
    PROVE  DiscoveryTypeOK'
BY DEF DiscoveryTypeOK, discoveryVars, locals, history

\* The steps of the life of the objects keep the types.
LEMMA LifeType ==
    ASSUME TypeOK, Construct \/ LifeStep \/ Deactivate \/ Destroy
    PROVE  TypeOK'
<1> USE DEF TypeOK, InitializeSteps, DeinitializeSteps, visitorVars
<1>1. ASSUME UNCHANGED objectVars, alive' = alive, disturbed' \in BOOLEAN
      PROVE  DiscoveryTypeOK'
  BY <1>1 DEF DiscoveryTypeOK, objectVars, locals
<1>2. CASE Construct
  <2>1. DiscoveryTypeOK'
    BY <1>2 DEF DiscoveryTypeOK, Construct, locals, history
  <2> QED
    BY <1>2, <2>1 DEF Construct
<1>3. CASE RegisterCallback
  BY <1>3, DiscoveryTypeStutter DEF RegisterCallback
<1>4. CASE RegisterPower
  BY <1>4, DiscoveryTypeStutter DEF RegisterPower
<1>5. CASE InitManager
  <2>1. service' \in SUBSET Objects
    BY <1>5 DEF InitManager
  <2>2. UNCHANGED <<discoveryVars, plugin, instance, callback, listening, deactivations, at, visited>>
    BY <1>5 DEF InitManager
  <2>3. life = "manager" /\ life' \in {"up", "deManager"}
    BY <1>5 DEF InitManager
  <2> QED
    BY <2>1, <2>2, <2>3, DiscoveryTypeStutter
<1>6. CASE Deactivate
  BY <1>6, <1>1 DEF Deactivate, Disturb, DiscoveryTypeOK
<1>7. CASE DeManager
  BY <1>7, <1>1 DEF DeManager, Disturb, DiscoveryTypeOK
<1>8. CASE DePower
  BY <1>8, <1>1 DEF DePower, Disturb, DiscoveryTypeOK
<1>9. CASE DeInstance
  BY <1>9, <1>1 DEF DeInstance, Disturb, DiscoveryTypeOK
<1>10. CASE DeBtrmgr
  <2>1. (callback \in BOOLEAN)'
    BY <1>10 DEF DeBtrmgr
  <2>2. life' = "down" /\ plugin' = NoObject /\ deactivations' = deactivations + 1
    BY <1>10 DEF DeBtrmgr
  <2>3. UNCHANGED <<discoveryVars, instance, listening, service, at, visited>>
    BY <1>10 DEF DeBtrmgr
  <2> QED
    BY <2>1, <2>2, <2>3, DiscoveryTypeStutter
<1>11. CASE Destroy
  <2>1. DiscoveryTypeOK'
    BY <1>11 DEF DiscoveryTypeOK, Destroy, locals, history
  <2> QED
    BY <1>11, <2>1 DEF Destroy, lifeVars
<1> QED
  BY <1>2, <1>3, <1>4, <1>5, <1>6, <1>7, <1>8, <1>9, <1>10, <1>11 DEF LifeStep

\* So do the visitors.
LEMMA VisitorType ==
    ASSUME TypeOK, VisitorStep
    PROVE  TypeOK'
<1>1. DiscoveryTypeOK'
  BY DEF VisitorStep, EventArrives, EventEnters, PowerChanges, VisitorStores, VisitorLeaves,
         Arrive, GoOn, Move, TypeOK, DiscoveryTypeOK, locals
<1> QED
  BY <1>1
  DEF VisitorStep, EventArrives, EventEnters, PowerChanges, VisitorStores, VisitorLeaves,
      Arrive, GoOn, Move, TypeOK, Visitors, lifeVars

\* Every variable stays in its type, the timer thread never starts a discovery,
\* and a start without a positive timeout never reaches the timer queue.
THEOREM TypeCorrect == Spec => []TypeOK
<1>1. TypeOK /\ [Next]_vars => TypeOK'
  <2> SUFFICES ASSUME TypeOK, [Next]_vars
               PROVE  TypeOK'
    OBVIOUS
  <2>1. ASSUME NEW t \in Callers, life = "up", CallStart(t, plugin) \/ CallStop(t, plugin),
               UNCHANGED <<lifeVars, visitorVars>>
        PROVE  TypeOK'
    BY <2>1, CallType DEF TypeOK, lifeVars, visitorVars
  <2>2. CASE DiscoveryNext /\ UNCHANGED <<lifeVars, visitorVars>>
    BY <2>2, DiscoveryStepType DEF TypeOK, lifeVars, visitorVars
  <2>3. CASE UNCHANGED vars
    BY <2>3 DEF TypeOK, DiscoveryTypeOK, vars, discoveryVars, lifeVars, visitorVars, locals,
                history
  <2> QED
    BY <2>1, <2>2, <2>3, LifeType, VisitorType DEF Next, VisitorStep
<1> QED
  BY <1>1, InitType, PTL DEF Spec

-----------------------------------------------------------------------------
(* The flag                                                                *)

\* No step of the discovery strands the flag of an object.
LEMMA DiscoveryStepTimed ==
    ASSUME DiscoveryTypeOK, RunningIsTimed, DiscoveryNext
    PROVE  RunningIsTimed'
<1> SUFFICES ASSUME NEW o \in alive', discoveryRunning'[o]
             PROVE  o \in scheduled' \/ \E t \in Threads : InHand(t, o)'
  BY DEF RunningIsTimed
<1> USE DEF DiscoveryTypeOK, RunningIsTimed, InHand, StopSteps, Goto, Return, SetRunning,
            IsRunning, locals, history
\* A start hands over from the thread to the queue, and nothing else.
<1>1. ASSUME NEW t \in Threads, Start(t)
      PROVE  o \in scheduled' \/ \E u \in Threads : InHand(u, o)'
  <2>1. CASE StFlag(t) \/ StAdapters(t) \/ StStart(t)
    BY <2>1 DEF StFlag, StAdapters, StStart
  <2>2. CASE StSetFlag(t)
    BY <2>2 DEF StSetFlag
  <2>3. CASE StRevoke(t)
    BY <2>3 DEF StRevoke
  <2>4. CASE StSchedule(t)
    BY <2>4 DEF StSchedule
  <2> QED
    BY <1>1, <2>1, <2>2, <2>3, <2>4 DEF Start
\* A stop that has found the flag set goes on to clear it.
<1>2. ASSUME NEW t \in Threads, Stop(t)
      PROVE  o \in scheduled' \/ \E u \in Threads : InHand(u, o)'
  <2>1. CASE SpFlag(t) \/ SpRevoke(t) \/ SpStop(t)
    BY <2>1 DEF SpFlag, SpRevoke, SpStop
  <2>2. CASE SpClear(t)
    BY <2>2 DEF SpClear
  <2> QED
    BY <1>2, <2>1, <2>2 DEF Stop
\* Timed() begins by testing the flag.
<1>3. CASE TimerFires
  BY <1>3 DEF TimerFires, Begins
<1>4. CASE DiscoveryComplete
  BY <1>4 DEF DiscoveryComplete
<1> QED
  BY <1>1, <1>2, <1>3, <1>4 DEF DiscoveryNext

\* The flag m_discoveryRunning of a plugin that is there is never left set with
\* nobody to clear it: the timer is queued, or a thread has the discovery in
\* hand.
THEOREM FlagIsNeverStranded == Spec => []RunningIsTimed
<1>1. Init => RunningIsTimed
  BY FirstObjectType DEF Init, DiscoveryInit, RunningIsTimed
<1>2. TypeOK /\ RunningIsTimed /\ [Next]_vars => RunningIsTimed'
  <2> SUFFICES ASSUME TypeOK, RunningIsTimed, [Next]_vars
               PROVE  RunningIsTimed'
    OBVIOUS
  <2>1. DiscoveryTypeOK
    BY DEF TypeOK
  <2>2. ASSUME UNCHANGED <<discoveryRunning, scheduled, pc, this>>, alive' \subseteq alive
        PROVE  RunningIsTimed'
    BY <2>2 DEF RunningIsTimed, InHand
  <2>3. ASSUME NEW t \in Callers, CallStart(t, plugin) \/ CallStop(t, plugin)
        PROVE  RunningIsTimed'
    BY <2>1, <2>3 DEF CallStart, CallStop, Begins, DiscoveryTypeOK, RunningIsTimed, InHand,
                      StopSteps
  \* The flag of a new object is not set.
  <2>4. CASE Construct
    BY <2>1, <2>4 DEF Construct, DiscoveryTypeOK, RunningIsTimed, InHand, locals
  <2>5. CASE LifeStep \/ Deactivate
    BY <2>2, <2>5
    DEF LifeStep, RegisterCallback, RegisterPower, InitManager, DeManager, DePower, DeInstance,
        DeBtrmgr, Deactivate, objectVars, discoveryVars, locals
  \* The flags of the others stay as they are.
  <2>6. CASE Destroy
    BY <2>1, <2>6 DEF Destroy, DiscoveryTypeOK, RunningIsTimed, InHand, locals
  <2>7. CASE VisitorStep
    BY <2>2, <2>7
    DEF VisitorStep, EventArrives, EventEnters, PowerChanges, VisitorStores, VisitorLeaves,
        Arrive, GoOn, Move, locals
  <2>8. CASE UNCHANGED vars
    BY <2>2, <2>8 DEF vars, discoveryVars, locals
  <2> QED
    BY <2>1, <2>3, <2>4, <2>5, <2>6, <2>7, <2>8, DiscoveryStepTimed DEF Next
<1> QED
  BY <1>1, <1>2, TypeCorrect, PTL DEF Spec

-----------------------------------------------------------------------------
(* The inductive invariant                                                 *)

\* The first plugin is held by its pointer only, and nobody is in it.
LEMMA InitLifeInv == Init => LifeInv
BY FirstObjectType
DEF Init, DiscoveryInit, LifeInv, PluginIsHeld, DiscoveryIsOrderly, VisitorsAreOrderly, Visitors

\* Initialize takes and Deinitialize gives back, in every order of failures.
LEMMA PluginStaysHeld ==
    ASSUME TypeOK, PluginIsHeld, [Next]_vars
    PROVE  PluginIsHeld'
<1> USE DEF PluginIsHeld, TypeOK
<1>1. ASSUME UNCHANGED <<alive, lifeVars>>
      PROVE  PluginIsHeld'
  BY <1>1 DEF lifeVars
<1>2. CASE Construct
  BY <1>2 DEF Construct
<1>3. CASE RegisterCallback
  BY <1>3 DEF RegisterCallback, discoveryVars
<1>4. CASE RegisterPower
  BY <1>4 DEF RegisterPower, discoveryVars
<1>5. CASE InitManager
  BY <1>5 DEF InitManager, discoveryVars
<1>6. CASE Deactivate
  BY <1>6 DEF Deactivate
<1>7. CASE DeManager
  BY <1>7 DEF DeManager
<1>8. CASE DePower
  BY <1>8 DEF DePower
<1>9. CASE DeInstance
  BY <1>9 DEF DeInstance
<1>10. CASE DeBtrmgr
  BY <1>10 DEF DeBtrmgr, discoveryVars
<1>11. CASE Destroy
  BY <1>11 DEF Destroy, lifeVars
<1>12. CASE VisitorStep
  BY <1>1, <1>12
  DEF VisitorStep, EventArrives, EventEnters, PowerChanges, VisitorStores, VisitorLeaves,
      Arrive, GoOn, Move
<1>13. ASSUME NEW t \in Callers, CallStart(t, plugin) \/ CallStop(t, plugin), UNCHANGED lifeVars
       PROVE  PluginIsHeld'
  BY <1>1, <1>13 DEF CallStart, CallStop
<1>14. CASE DiscoveryNext /\ UNCHANGED lifeVars
  <2>1. UNCHANGED alive
    BY <1>14
    DEF DiscoveryNext, Start, Stop, StFlag, StAdapters, StStart, StSetFlag, StRevoke, StSchedule,
        SpFlag, SpRevoke, SpStop, SpClear, TimerFires, DiscoveryComplete
  <2> QED
    BY <1>1, <1>14, <2>1
<1>15. CASE UNCHANGED vars
  BY <1>1, <1>15 DEF vars, discoveryVars
<1> QED
  BY <1>2, <1>3, <1>4, <1>5, <1>6, <1>7, <1>8, <1>9, <1>10, <1>11, <1>12, <1>13, <1>14, <1>15
  DEF Next, LifeStep

\* An undisturbed call finds the plugin up and empty.
LEMMA CallIsOrderly ==
    ASSUME TypeOK, PluginIsHeld, DiscoveryIsOrderly, NEW t \in Callers, life = "up",
           CallStart(t, plugin) \/ CallStop(t, plugin), UNCHANGED lifeVars, ~disturbed'
    PROVE  DiscoveryIsOrderly'
<1>1. /\ Begins(t, plugin, "stFlag") \/ Begins(t, plugin, "spFlag")
      /\ UNCHANGED <<alive, discoveryRunning, scheduled, discovering, life, plugin>>
  BY DEF CallStart, CallStop, lifeVars
<1>2. /\ \A u \in Threads : pc[u] = "idle"
      /\ pc'[t] \in {"stFlag", "spFlag"} /\ this'[t] = plugin
      /\ \A u \in Threads \ {t} : pc'[u] = "idle"
  BY <1>1 DEF Begins, AllIdle, TypeOK, DiscoveryTypeOK
<1> QED
  BY <1>1, <1>2 DEF DiscoveryIsOrderly

\* The one thread in the plugin keeps timer, flag and BTRMGR in step.
LEMMA DiscoveryStepIsOrderly ==
    ASSUME TypeOK, PluginIsHeld, DiscoveryIsOrderly, DiscoveryNext, UNCHANGED lifeVars,
           ~disturbed'
    PROVE  DiscoveryIsOrderly'
<1> USE DEF TypeOK, DiscoveryTypeOK, PluginIsHeld, DiscoveryIsOrderly, lifeVars, locals, history,
            Goto, Return, IsRunning, SetRunning
<1>1. ASSUME NEW t \in Threads, Start(t)
      PROVE  DiscoveryIsOrderly'
  <2>1. CASE StFlag(t)
    BY <2>1 DEF StFlag
  <2>2. CASE StAdapters(t)
    BY <2>2 DEF StAdapters
  <2>3. CASE StStart(t)
    BY <2>3 DEF StStart
  <2>4. CASE StSetFlag(t)
    BY <2>4 DEF StSetFlag
  <2>5. CASE StRevoke(t)
    BY <2>5 DEF StRevoke
  <2>6. CASE StSchedule(t)
    BY <2>6 DEF StSchedule
  <2> QED
    BY <1>1, <2>1, <2>2, <2>3, <2>4, <2>5, <2>6 DEF Start
<1>2. ASSUME NEW t \in Threads, Stop(t)
      PROVE  DiscoveryIsOrderly'
  <2>1. CASE SpFlag(t)
    BY <2>1 DEF SpFlag
  <2>2. CASE SpRevoke(t)
    BY <2>2 DEF SpRevoke
  <2>3. CASE SpStop(t)
    BY <2>3 DEF SpStop
  <2>4. CASE SpClear(t)
    BY <2>4 DEF SpClear
  <2> QED
    BY <1>2, <2>1, <2>2, <2>3, <2>4 DEF Stop
<1>3. CASE TimerFires
  BY <1>3 DEF TimerFires, Begins, AllIdle
<1>4. CASE DiscoveryComplete
  BY <1>4 DEF DiscoveryComplete
<1> QED
  BY <1>1, <1>2, <1>3, <1>4 DEF DiscoveryNext

\* What has been disturbed remains disturbed.
LEMMA DisturbedStays ==
    ASSUME TypeOK, [Next]_vars, ~disturbed'
    PROVE  ~disturbed
<1> USE DEF history
<1>1. CASE Construct \/ LifeStep \/ Deactivate \/ Destroy
  BY <1>1
  DEF Construct, LifeStep, Deactivate, Destroy, RegisterCallback, RegisterPower, InitManager,
      DeManager, DePower, DeInstance, DeBtrmgr, Disturb, discoveryVars
<1>2. ASSUME NEW t \in Callers, CallStart(t, plugin) \/ CallStop(t, plugin)
      PROVE  ~disturbed
  BY <1>2 DEF CallStart, CallStop, Begins
<1>3. CASE DiscoveryNext
  BY <1>3
  DEF DiscoveryNext, Start, Stop, StFlag, StAdapters, StStart, StSetFlag, StRevoke, StSchedule,
      SpFlag, SpRevoke, SpStop, SpClear, TimerFires, Begins, DiscoveryComplete
<1>4. CASE VisitorStep
  BY <1>4
  DEF VisitorStep, EventArrives, EventEnters, PowerChanges, VisitorStores, VisitorLeaves,
      Arrive, GoOn, Move
<1>5. CASE UNCHANGED vars
  BY <1>5 DEF vars, discoveryVars
<1> QED
  BY <1>1, <1>2, <1>3, <1>4, <1>5 DEF Next

\* Undisturbed, a plugin is deactivated with no discovery on, and the next one
\* begins with none.
LEMMA LifeStepIsOrderly ==
    ASSUME TypeOK, PluginIsHeld, DiscoveryIsOrderly, VisitorsAreOrderly, ~disturbed',
           Construct \/ LifeStep \/ Deactivate \/ Destroy
    PROVE  DiscoveryIsOrderly' /\ VisitorsAreOrderly'
<1> USE DEF TypeOK, DiscoveryTypeOK, PluginIsHeld, DiscoveryIsOrderly, VisitorsAreOrderly,
            Disturb, Visitors, visitorVars, objectVars, discoveryVars, locals, history
<1>1. CASE Construct
  BY <1>1 DEF Construct
<1>2. CASE RegisterCallback
  BY <1>2 DEF RegisterCallback
<1>3. CASE RegisterPower
  BY <1>3 DEF RegisterPower
<1>4. CASE InitManager
  BY <1>4 DEF InitManager
<1>5. CASE Deactivate
  BY <1>5 DEF Deactivate, AllIdle
<1>6. CASE DeManager
  BY <1>6 DEF DeManager
<1>7. CASE DePower
  BY <1>7 DEF DePower
<1>8. CASE DeInstance
  BY <1>8 DEF DeInstance
<1>9. CASE DeBtrmgr
  BY <1>9 DEF DeBtrmgr
<1>10. CASE Destroy
  BY <1>10 DEF Destroy, lifeVars
<1> QED
  BY <1>1, <1>2, <1>3, <1>4, <1>5, <1>6, <1>7, <1>8, <1>9, <1>10 DEF LifeStep

\* A visitor comes in by the pointer or the notification of the plugin that
\* expects it.
LEMMA VisitorStepIsOrderly ==
    ASSUME TypeOK, PluginIsHeld, DiscoveryIsOrderly, VisitorsAreOrderly, VisitorStep
    PROVE  DiscoveryIsOrderly' /\ VisitorsAreOrderly'
<1>1. UNCHANGED <<alive, discoveryRunning, scheduled, discovering, pc, locals, lifeVars>>
  BY DEF VisitorStep, EventArrives, EventEnters, PowerChanges, VisitorStores, VisitorLeaves,
         Arrive, GoOn, Move
<1>2. DiscoveryIsOrderly'
  BY <1>1 DEF DiscoveryIsOrderly, lifeVars, locals
<1> USE LifecycleAssumption
    DEF TypeOK, PluginIsHeld, VisitorsAreOrderly, Arrive, GoOn, Move, Visitors, lifeVars
<1>3. CASE EventArrives
  BY <1>2, <1>3 DEF EventArrives
<1>4. CASE EventEnters
  BY <1>2, <1>4 DEF EventEnters
<1>5. CASE PowerChanges
  BY <1>2, <1>5 DEF PowerChanges
<1>6. ASSUME NEW v \in Visitors, VisitorStores(v) \/ VisitorLeaves(v)
      PROVE  DiscoveryIsOrderly' /\ VisitorsAreOrderly'
  BY <1>2, <1>6 DEF VisitorStores, VisitorLeaves
<1> QED
  BY <1>3, <1>4, <1>5, <1>6 DEF VisitorStep

\* Initialize and Deinitialize keep hold of what they take, and, unless they are
\* disturbed, nobody is in the plugin when it goes.
THEOREM LifeInvariant == Spec => []LifeInv
<1>1. TypeOK /\ LifeInv /\ [Next]_vars => LifeInv'
  <2> SUFFICES ASSUME TypeOK, LifeInv, [Next]_vars, ~disturbed'
               PROVE  DiscoveryIsOrderly' /\ VisitorsAreOrderly'
    BY PluginStaysHeld DEF LifeInv
  <2>1. PluginIsHeld /\ DiscoveryIsOrderly /\ VisitorsAreOrderly
    BY DisturbedStays DEF LifeInv
  <2>2. ASSUME UNCHANGED <<lifeVars, visitorVars>>
        PROVE  VisitorsAreOrderly'
    BY <2>1, <2>2 DEF VisitorsAreOrderly, lifeVars, visitorVars
  <2>3. CASE UNCHANGED vars
    BY <2>1, <2>2, <2>3 DEF DiscoveryIsOrderly, vars, discoveryVars, lifeVars, locals
  <2> QED
    BY <2>1, <2>2, <2>3, CallIsOrderly, DiscoveryStepIsOrderly, LifeStepIsOrderly,
       VisitorStepIsOrderly
    DEF Next
<1> QED
  BY <1>1, InitLifeInv, TypeCorrect, PTL DEF Spec

-----------------------------------------------------------------------------
(* What follows                                                            *)

\* A plugin that is up is registered with all it hears from; one that is down
\* with nothing but what BTRMGR would not let go of.
THEOREM RegistrationIsBalanced == Spec => []RegisteredWhileUp
<1>1. TypeOK /\ LifeInv => RegisteredWhileUp
  BY DEF TypeOK, LifeInv, PluginIsHeld, RegisteredWhileUp
<1> QED
  BY <1>1, LifeInvariant, TypeCorrect, PTL

\* After an undisturbed deactivation no thread is ever in a plugin that is gone.
THEOREM NobodyGoesAstray == Spec => []NobodyAstray
<1>1. TypeOK /\ LifeInv => NobodyAstray
  BY DEF TypeOK, DiscoveryTypeOK, LifeInv, PluginIsHeld, DiscoveryIsOrderly, VisitorsAreOrderly,
         NobodyAstray, Astray, Visitors
<1> QED
  BY <1>1, LifeInvariant, TypeCorrect, PTL

\* In undisturbed use the plugin knows of every discovery BTRMGR has under way
\* between calls.
THEOREM PluginKnowsDiscovery == Spec => []DiscoveryIsKnown
<1>1. TypeOK /\ LifeInv => DiscoveryIsKnown
  BY DEF TypeOK, LifeInv, PluginIsHeld, DiscoveryIsOrderly, DiscoveryIsKnown, AllIdle
<1> QED
  BY <1>1, LifeInvariant, TypeCorrect, PTL
=============================================================================
