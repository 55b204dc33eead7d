------------------------- MODULE MotorControlProofs -------------------------
(***************************************************************************)
(* Proofs about MotorControl for any set of threads, any fault codes and   *)
(* any value of the times.  The fault stop thread stops the motor because  *)
(* it preempts every thread that could start it again: HandlerOff and      *)
(* HandlerArmed carry what it has done from one of its steps to the next.  *)
(***************************************************************************)
EXTENDS MotorControl, TLAPS

(* What the fault stop thread has done so far nobody undoes before it waits*)
(* again: the state is off, then the bridges are released.                 *)
HandlerOff ==
  /\ faultPc \in {"stop_hw", "record"} => state = "off"
  /\ faultPc = "record" => ~out

(* The ignore time it has set is not counted down before it waits again.   *)
HandlerArmed == faultPc \in {"stop", "stop_hw", "record"} => ignore = StopTime

-----------------------------------------------------------------------------
(* What a command thread does outside a command: it begins one, or it moves*)
(* in its loop, where only app_ppm moves without feeding the timeout.      *)
AppMove(c) ==
  /\ Normal
  /\ \/ ~InFlight(c) /\ \E o \in Ops : Call(c, o)
     \/ /\ \E pc \in {"out", "fed", "test", "passed"} : Loop(c, pc)
        /\ age' = 0 \/ (c \in PpmApps /\ age' = age)

(* Whatever the kind of a command thread, its steps are steps of a command *)
(* or these moves.                                                         *)
LEMMA AppSteps ==
  ASSUME \/ \E c \in Commanders : CommandThread(c) \/ \E o \in Requests : Command(c, o)
         \/ \E a \in AdcApps : AdcThread(a) \/ AdcReset(a) \/ AdcBrake(a)
         \/ \E p \in PpmApps : PpmThread(p) \/ PpmPulse(p)
  PROVE  \E c \in Apps : CallStep(c) \/ AppMove(c)
<1> USE MotorAssumption DEF AppMove, Apps, InFlight, Ops
<1>1. ASSUME NEW c \in Commanders, CommandThread(c) \/ \E o \in Requests : Command(c, o)
      PROVE  CallStep(c) \/ AppMove(c)
  BY <1>1 DEF CommandThread, Feed, Command
<1>2. ASSUME NEW a \in AdcApps, AdcThread(a) \/ AdcReset(a) \/ AdcBrake(a)
      PROVE  CallStep(a) \/ AppMove(a)
  BY <1>2 DEF AdcThread, AdcReset, AdcBrake, AdcCommand
<1>3. ASSUME NEW p \in PpmApps, PpmThread(p) \/ PpmPulse(p)
      PROVE  CallStep(p) \/ AppMove(p)
  <2>1. PpmPulse(p) \/ PpmWake(p) \/ PpmTest(p) \/ PpmSkip(p) => AppMove(p)
    BY DEF PpmPulse, PpmWake, PpmTest, PpmSkip
  <2>2. PpmBrake(p) \/ (\E o \in Requests : PpmCommand(p, o)) => AppMove(p)
    BY DEF PpmBrake, PpmCommand
  <2>3. QED
    BY <1>3, <2>1, <2>2 DEF PpmThread
<1>4. QED
  BY <1>1, <1>2, <1>3

(* The command submachine stays within its program counters.               *)
LEMMA CallStepType ==
  ASSUME TypeOK, NEW t \in Callers, CallStep(t)
  PROVE  TypeOK'
<1> USE MotorAssumption DEF TypeOK, Goto, After, Drove, Ops, motor, iface, mail, tick, calls,
                            tmo, store
<1>1. CASE TryLoad(t)
  BY <1>1 DEF TryLoad
<1>2. CASE TryLock(t)
  BY <1>2 DEF TryLock
<1>3. CASE TryTake(t)
  <2>1. once' \in BOOLEAN /\ ret' \in [Callers -> BOOLEAN]
    BY <1>3, Zenon DEF TryTake
  <2>2. PICK pc \in {"feed", "out", "mode"} : Goto(t, pc)
    BY <1>3 DEF TryTake
  <2>3. QED
    BY <1>3, <2>1, <2>2 DEF TryTake
<1>4. CASE SetMode(t)
  BY <1>4 DEF SetMode, ModeOf, Ops
<1>5. CASE SetIq(t)
  BY <1>5 DEF SetIq, Set, IqOf
<1>6. CASE SetId(t)
  BY <1>6 DEF SetId, Set, IdOf
<1>7. CASE SetCheck(t)
  BY <1>7 DEF SetCheck
<1>8. CASE SetRun(t)
  BY <1>8 DEF SetRun
<1>9. QED
  BY <1>1, <1>2, <1>3, <1>4, <1>5, <1>6, <1>7, <1>8 DEF CallStep

(* Entering an mc_interface command keeps the types of its submachine.     *)
LEMMA BeginType ==
  ASSUME TypeOK, NEW t \in Callers, NEW o \in Ops, Begin(t, o)
  PROVE  /\ at' \in [Callers -> {"out", "load", "lock", "take", "mode", "iq", "id", "run", "start",
                              "feed", "fed", "test", "passed"}]
         /\ op' \in [Callers -> Ops]
         /\ ret' = ret /\ drove' = drove
BY DEF TypeOK, Begin

LEMMA AppMoveType ==
  ASSUME TypeOK, NEW c \in Apps, AppMove(c)
  PROVE  TypeOK'
<1>1. c \in Callers
  BY DEF Callers
<1>2. ASSUME NEW o \in Ops, Call(c, o) PROVE TypeOK'
  BY <1>1, <1>2, BeginType DEF Call, TypeOK, motor, iface, mail, tick, tmo, store
<1>3. ASSUME NEW pc \in {"out", "fed", "test", "passed"}, Loop(c, pc), age' \in {0, age}
      PROVE  TypeOK'
  <2>1. /\ at' \in [Callers -> {"out", "load", "lock", "take", "mode", "iq", "id", "run", "start",
                              "feed", "fed", "test", "passed"}]
        /\ op' \in [Callers -> Ops]
    BY <1>1, <1>3 DEF Loop, Goto, TypeOK, Ops
  <2>2. age' \in 0..TimeoutLoops
    BY <1>3, MotorAssumption DEF TypeOK
  <2>3. QED
    BY <1>3, <2>1, <2>2 DEF Loop, TypeOK, motor, iface, mail, tick, store
<1>4. QED
  BY <1>2, <1>3 DEF AppMove

(* Every action keeps every variable within its type.                      *)
LEMMA TypeStep == TypeOK /\ [Next]_vars => TypeOK'
<1> SUFFICES ASSUME TypeOK, [Next]_vars PROVE TypeOK'
  OBVIOUS
<1> USE MotorAssumption DEF TypeOK, motor, iface, mail, tick, calls, tmo, store
<1>1. ASSUME NEW f \in Faults, IsrFault(f) PROVE TypeOK'
  <2>1. event' \in BOOLEAN /\ shown' \in BOOLEAN
    BY <1>1, Zenon DEF IsrFault
  <2>2. QED
    BY <1>1, <2>1 DEF IsrFault
<1>2. CASE IsrControl
  BY <1>2 DEF IsrControl
<1>3. CASE FaultWake
  <2>1. event' \in BOOLEAN
    BY <1>3, Zenon DEF FaultWake
  <2>2. QED
    BY <1>3, <2>1 DEF FaultWake
<1>4. CASE FaultSame
  BY <1>4 DEF FaultSame
<1>5. CASE FaultNew
  BY <1>5 DEF FaultNew
<1>6. CASE FaultStopState
  BY <1>6 DEF FaultStopState
<1>7. CASE FaultStopHw
  <2>1. out' \in BOOLEAN
    BY <1>7, Zenon DEF FaultStopHw
  <2>2. QED
    BY <1>7, <2>1 DEF FaultStopHw
<1>8. CASE FaultRecord
  BY <1>8 DEF FaultRecord
<1>9. CASE TickLoad
  BY <1>9 DEF TickLoad
<1>10. CASE TickDec
  BY <1>10 DEF TickDec
<1>11. CASE TickSignal
  BY <1>11 DEF TickSignal
<1>12. CASE TickEnd
  BY <1>12 DEF TickEnd
<1>13. ASSUME NEW drvFault \in BOOLEAN, TickClear(drvFault) PROVE TypeOK'
  BY <1>13 DEF TickClear
<1>14. ASSUME NEW f \in Faults, TickRaise(f) PROVE TypeOK'
  <2>1. shown' \in BOOLEAN
    BY <1>14, Zenon DEF TickRaise
  <2>2. QED
    BY <1>14, <2>1 DEF TickRaise
<1>15. CASE FocTimer
  <2>1. out' \in BOOLEAN
    BY <1>15, Zenon DEF FocTimer
  <2>2. QED
    BY <1>15, <2>1 DEF FocTimer
<1>16. ASSUME NEW t \in Callers, CallStep(t) PROVE TypeOK'
  BY <1>16, CallStepType
<1>17. ASSUME NEW c \in Apps, CallStep(c) \/ AppMove(c) PROVE TypeOK'
  BY <1>16, <1>17, AppMoveType DEF Callers
<1>18. ASSUME NEW level \in {"low", "drive"}, PidStore(level) PROVE TypeOK'
  BY <1>18 DEF PidStore
<1>19. CASE KillPin
  BY <1>19 DEF KillPin
<1>20. CASE TmoSample
  <2>1. hasTimeout' \in BOOLEAN /\ killActive' \in BOOLEAN /\ killNow' \in BOOLEAN
    BY <1>20, Zenon DEF TmoSample
  <2>2. age' \in 0..TimeoutLoops
    BY <1>20 DEF TmoSample, Older
  <2>3. drove' \subseteq Callers \cup {PidThd}
    BY <1>20 DEF TmoSample
  <2>4. QED
    BY <1>20, <2>1, <2>2, <2>3 DEF TmoSample
<1>21. CASE TmoOverrideMode
  BY <1>21 DEF TmoOverrideMode
<1>22. CASE TmoOverrideIq
  BY <1>22 DEF TmoOverrideIq
<1>23. CASE TmoOverrideId
  BY <1>23 DEF TmoOverrideId
<1>24. CASE TmoUnlock
  <2>1. locked' \in BOOLEAN
    BY <1>24, Zenon DEF TmoUnlock
  <2>2. QED
    BY <1>24, <2>1 DEF TmoUnlock
<1>25. CASE TmoBrake("brake1", "brake2")
  <2>1. TimeoutThd \in Callers /\ "brake" \in Ops /\ Begin(TimeoutThd, "brake")
    BY <1>25 DEF TmoBrake, Callers, Ops
  <2>2. QED
    BY <1>25, <2>1, BeginType DEF TmoBrake
<1>26. CASE TmoBrake("brake2", "mark")
  <2>1. TimeoutThd \in Callers /\ "brake" \in Ops /\ Begin(TimeoutThd, "brake")
    BY <1>26 DEF TmoBrake, Callers, Ops
  <2>2. QED
    BY <1>26, <2>1, BeginType DEF TmoBrake
<1>27. CASE TmoMark
  BY <1>27 DEF TmoMark
<1>28. CASE TmoRaise
  BY <1>28 DEF TmoRaise
<1>29. ASSUME NEW s \in Storers, StoreUnlock(s) PROVE TypeOK'
  <2>1. locked' \in BOOLEAN
    BY <1>29, Zenon DEF StoreUnlock
  <2>2. QED
    BY <1>29, <2>1 DEF StoreUnlock, StoreGoto
<1>30. ASSUME NEW s \in Storers, StoreRelease(s) PROVE TypeOK'
  <2>1. s \in Callers /\ "release" \in Ops /\ Begin(s, "release")
    BY <1>30 DEF StoreRelease, Callers, Ops
  <2>2. QED
    BY <1>30, <2>1, BeginType DEF StoreRelease, StoreGoto
<1>31. ASSUME NEW s \in Storers, StoreLock(s) PROVE TypeOK'
  BY <1>31 DEF StoreLock, StoreGoto
<1>32. ASSUME NEW s \in Storers, StoreWait(s) PROVE TypeOK'
  BY <1>32 DEF StoreWait, StoreGoto
<1>33. ASSUME NEW s \in Storers, StoreGiveUp(s) PROVE TypeOK'
  <2>1. locked' \in BOOLEAN
    BY <1>33, Zenon DEF StoreGiveUp
  <2>2. QED
    BY <1>33, <2>1 DEF StoreGiveUp, StoreGoto
<1>34. ASSUME NEW s \in Storers, StoreWrite(s) PROVE TypeOK'
  BY <1>34 DEF StoreWrite, StoreGoto
<1>35. ASSUME NEW s \in Storers, StoreDone(s) PROVE TypeOK'
  <2>1. locked' \in BOOLEAN
    BY <1>35, Zenon DEF StoreDone
  <2>2. QED
    BY <1>35, <2>1 DEF StoreDone, StoreGoto
<1>36. ASSUME NEW d \in Detectors, DetectLock(d) PROVE TypeOK'
  BY <1>36 DEF DetectLock, DetectGoto
<1>37. ASSUME NEW d \in Detectors, DetectDrive(d) PROVE TypeOK'
  <2>1. /\ at' \in [Callers -> {"out", "load", "lock", "take", "mode", "iq", "id", "run", "start",
                              "feed", "fed", "test", "passed"}]
        /\ op' \in [Callers -> Ops]
    BY <1>37 DEF DetectDrive, Callers, Ops
  <2>2. QED
    BY <1>37, <2>1 DEF DetectDrive
<1>38. ASSUME NEW d \in Detectors, DetectOverride(d) PROVE TypeOK'
  BY <1>38 DEF DetectOverride, DetectGoto
<1>39. ASSUME NEW d \in Detectors, DetectRelease(d) PROVE TypeOK'
  <2>1. d \in Callers /\ "release" \in Ops /\ Begin(d, "release")
    BY <1>39 DEF DetectRelease, Callers, Ops
  <2>2. QED
    BY <1>39, <2>1, BeginType DEF DetectRelease, DetectGoto
<1>40. ASSUME NEW d \in Detectors, DetectUnlock(d) PROVE TypeOK'
  <2>1. locked' \in BOOLEAN
    BY <1>40, Zenon DEF DetectUnlock
  <2>2. QED
    BY <1>40, <2>1 DEF DetectUnlock, DetectGoto
<1>41. CASE UNCHANGED vars
  BY <1>41 DEF vars
<1>42. CASE Environment
  BY <1>1, <1>17, <1>19, <1>29, <1>36, <1>37, <1>42, AppSteps DEF Environment
<1>43. CASE Threads
  <2>1. CASE IsrControl \/ FaultThread \/ TickThread \/ FocTimer \/ PidThread
    <3>1. ASSUME PidTest PROVE TypeOK'
      BY <3>1 DEF PidTest
    <3>2. QED
      BY <1>18, <3>1, <1>2, <1>3, <1>4, <1>5, <1>6, <1>7, <1>8, <1>9, <1>10, <1>11, <1>12,
       <1>13, <1>14, <1>15, <2>1 DEF FaultThread, TickThread, PidThread
  <2>2. CASE TimeoutThread
    BY <1>16, <1>20, <1>21, <1>22, <1>23, <1>24, <1>25, <1>26, <1>27, <1>28,
       <2>2 DEF TimeoutThread, Callers
  <2>3. CASE \/ \E c \in Commanders : CommandThread(c)
             \/ \E a \in AdcApps : AdcThread(a)
             \/ \E p \in PpmApps : PpmThread(p)
    BY <1>17, <2>3, AppSteps
  <2>4. ASSUME NEW s \in Storers, StoreThread(s) PROVE TypeOK'
    BY <1>16, <1>29, <1>30, <1>31, <1>32, <1>33, <1>34, <1>35, <2>4 DEF StoreThread, Callers
  <2>5. ASSUME NEW d \in Detectors, DetectThread(d) PROVE TypeOK'
    BY <1>16, <1>38, <1>39, <1>40, <2>5 DEF DetectThread, Callers
  <2>6. QED
    BY <1>43, <2>1, <2>2, <2>3, <2>4, <2>5 DEF Threads
<1>44. QED
  BY <1>41, <1>42, <1>43 DEF Next

(* Every variable always holds a value the code can give it: in particular *)
(* the timer thread never stores a negative m_ignore_iterations.           *)
THEOREM TypeCorrect == Spec => []TypeOK
<1>1. ASSUME Init PROVE TypeOK
  <2>1. /\ out \in BOOLEAN /\ locked \in BOOLEAN /\ once \in BOOLEAN /\ event \in BOOLEAN
        /\ hasTimeout \in BOOLEAN /\ killActive \in BOOLEAN /\ killNow \in BOOLEAN
        /\ ret \in [Callers -> BOOLEAN] /\ shown \in BOOLEAN
    BY <1>1, Zenon DEF Init
  <2>2. killPin \in BOOLEAN
    BY <1>1 DEF Init
  <2>3. QED
    BY <1>1, <2>1, <2>2, MotorAssumption DEF Init, TypeOK, Ops
<1>2. QED
  BY <1>1, TypeStep, PTL DEF Spec

-----------------------------------------------------------------------------
(* What a step of a command, timeout, store or detection thread leaves     *)
(* alone.  Such a step needs the fault stop thread to wait.                *)
NormalFrame ==
  /\ Normal
  /\ UNCHANGED <<out, faultNow, mailFault, event, shown, faultPc, tickPc>>
  /\ state' \in {state, "running"}

LEMMA CallStepFrame ==
  ASSUME NEW t \in Callers, CallStep(t)
  PROVE  NormalFrame
BY DEF NormalFrame, CallStep, TryLoad, TryLock, TryTake, SetMode, SetIq, SetId, SetCheck, SetRun,
       motor, iface, mail, tick

LEMMA TimeoutFrame ==
  ASSUME TimeoutThread
  PROVE  NormalFrame
<1> USE DEF NormalFrame, motor, iface, mail, tick
<1>1. CASE CallStep(TimeoutThd)
  BY <1>1, CallStepFrame DEF Callers
<1>2. CASE TmoSample \/ TmoOverrideMode \/ TmoOverrideIq \/ TmoOverrideId \/ TmoUnlock
  BY <1>2 DEF TmoSample, TmoOverrideMode, TmoOverrideIq, TmoOverrideId, TmoUnlock
<1>3. CASE TmoBrake("brake1", "brake2") \/ TmoBrake("brake2", "mark") \/ TmoMark \/ TmoRaise
  BY <1>3 DEF TmoBrake, TmoMark, TmoRaise
<1>4. QED
  BY <1>1, <1>2, <1>3 DEF TimeoutThread

LEMMA AppFrame ==
  ASSUME NEW c \in Apps, CallStep(c) \/ AppMove(c)
  PROVE  NormalFrame
<1>1. CASE CallStep(c)
  BY <1>1, CallStepFrame DEF Callers
<1>2. CASE AppMove(c)
  BY <1>2 DEF AppMove, Call, Loop, Begin, NormalFrame, motor, iface, mail, tick
<1>3. QED
  BY <1>1, <1>2

LEMMA PidFrame == ASSUME PidThread PROVE NormalFrame
BY DEF PidThread, PidTest, PidStore, NormalFrame, motor, iface, mail

LEMMA StoreFrame ==
  ASSUME NEW s \in Storers, StoreThread(s) \/ StoreUnlock(s)
  PROVE  NormalFrame
<1>1. CASE CallStep(s)
  BY <1>1, CallStepFrame DEF Callers
<1>2. CASE StoreUnlock(s) \/ StoreRelease(s) \/ StoreLock(s) \/ StoreWait(s)
  BY <1>2 DEF StoreUnlock, StoreRelease, StoreLock, StoreWait, NormalFrame, motor, iface, mail, tick
<1>3. CASE StoreGiveUp(s) \/ StoreWrite(s) \/ StoreDone(s)
  BY <1>3 DEF StoreGiveUp, StoreWrite, StoreDone, NormalFrame, motor, iface, mail, tick
<1>4. QED
  BY <1>1, <1>2, <1>3 DEF StoreThread

LEMMA DetectFrame ==
  ASSUME NEW d \in Detectors, DetectThread(d) \/ DetectLock(d) \/ DetectDrive(d)
  PROVE  NormalFrame
<1>1. CASE CallStep(d)
  BY <1>1, CallStepFrame DEF Callers
<1>2. CASE DetectLock(d) \/ DetectDrive(d) \/ DetectOverride(d)
           \/ DetectRelease(d) \/ DetectUnlock(d)
  BY <1>2 DEF DetectLock, DetectDrive, DetectOverride, DetectRelease, DetectUnlock, NormalFrame,
              motor, iface, mail, tick
<1>3. QED
  BY <1>1, <1>2 DEF DetectThread

(* Whatever is not a step of the interrupt, the fault stop thread or one of*)
(* the timers is a step of a thread that can do little harm.               *)
LEMMA StepKinds ==
  ASSUME Next
  PROVE  \/ \E f \in Faults : IsrFault(f)
         \/ IsrControl \/ FaultThread \/ TickThread \/ FocTimer \/ KillPin \/ NormalFrame
<1>1. CASE Environment
  BY <1>1, AppSteps, AppFrame, StoreFrame, DetectFrame DEF Environment
<1>2. CASE Threads
  BY <1>2, TimeoutFrame, PidFrame, AppSteps, AppFrame, StoreFrame, DetectFrame DEF Threads
<1>3. QED
  BY <1>1, <1>2 DEF Next

-----------------------------------------------------------------------------
(* The inductive invariant: what the fault stop thread has achieved so far,*)
(* and the two invariants that follow from it step by step.                *)
Core == HandlerOff /\ HandlerArmed /\ NoOrphanOutput /\ FaultDelivered

LEMMA CoreStep == TypeOK /\ Core /\ [Next]_vars => Core'
<1> SUFFICES ASSUME TypeOK, Core, [Next]_vars PROVE Core'
  OBVIOUS
<1> USE DEF Core, HandlerOff, HandlerArmed, NoOrphanOutput, FaultDelivered, Normal
<1>1. ASSUME NEW f \in Faults, IsrFault(f) PROVE Core'
  BY <1>1 DEF IsrFault, motor, iface, tick
<1>2. CASE IsrControl
  BY <1>2 DEF IsrControl, iface, mail, tick
<1>3. CASE FaultWake
  BY <1>3 DEF FaultWake, motor, iface, tick
<1>4. CASE FaultSame
  BY <1>4 DEF FaultSame, motor, mail, tick
<1>5. CASE FaultNew
  BY <1>5 DEF FaultNew, motor, mail, tick
<1>6. CASE FaultStopState
  BY <1>6 DEF FaultStopState, iface, mail, tick
<1>7. CASE FaultStopHw
  BY <1>7 DEF FaultStopHw, iface, mail, tick
<1>8. CASE FaultRecord
  BY <1>8 DEF FaultRecord, motor, mail, tick
<1>9. CASE TickThread
  BY <1>9 DEF TickThread, TickLoad, TickDec, TickClear, TickRaise, TickSignal, TickEnd,
              motor, iface, mail
<1>10. CASE FocTimer
  BY <1>10 DEF FocTimer, iface, mail, tick
<1>11. CASE NormalFrame
  BY <1>11 DEF NormalFrame, TypeOK
<1>12. CASE KillPin \/ UNCHANGED vars
  BY <1>12 DEF KillPin, vars, motor, iface, mail, tick
<1>13. QED
  BY <1>1, <1>2, <1>3, <1>4, <1>5, <1>6, <1>7, <1>8, <1>9, <1>10, <1>11, <1>12, StepKinds
     DEF FaultThread

LEMMA CoreInvariant == Spec => [](TypeOK /\ Core)
<1>1. Init => Core
  BY DEF Init, Core, HandlerOff, HandlerArmed, NoOrphanOutput, FaultDelivered
<1>2. Spec => []TypeOK
  BY TypeCorrect
<1>3. QED
  BY <1>1, <1>2, CoreStep, PTL DEF Spec

(* The bridges are never left driven with the motor state off.             *)
THEOREM NoOrphanOutputHolds == Spec => []NoOrphanOutput
<1>1. Core => NoOrphanOutput
  BY DEF Core
<1>2. QED
  BY <1>1, CoreInvariant, PTL

(* The last fault that the interrupt or the timer thread raised is shown as*)
(* soon as the fault stop thread waits: no event is lost.                  *)
THEOREM FaultDeliveredHolds == Spec => []FaultDelivered
<1>1. Core => FaultDelivered
  BY DEF Core
<1>2. QED
  BY <1>1, CoreInvariant, PTL

(* m_fault_now shows a new fault only when the motor is off and the bridges*)
(* are released: only FaultRecord shows one, and HandlerOff says that the  *)
(* work is done by then.                                                   *)
THEOREM FaultStopsHolds == Spec => FaultStops
<1> DEFINE A == faultNow' \notin {faultNow, NoFault} => state' = "off" /\ ~out'
<1>1. Core /\ [Next]_vars => [A]_vars
  <2> SUFFICES ASSUME Core, [Next]_vars, faultNow' \notin {faultNow, NoFault}
               PROVE  state' = "off" /\ ~out'
    OBVIOUS
  <2>1. CASE FaultRecord
    BY <2>1 DEF FaultRecord, Core, HandlerOff, motor
  <2>2. ~(\E f \in Faults : IsrFault(f)) /\ ~IsrControl /\ ~FocTimer /\ ~KillPin /\ ~NormalFrame
    BY DEF IsrFault, IsrControl, FocTimer, KillPin, NormalFrame, iface
  <2>3. ~TickThread
    BY DEF TickThread, TickLoad, TickDec, TickClear, TickRaise, TickSignal, TickEnd, iface
  <2>4. ~(FaultWake \/ FaultSame \/ FaultNew \/ FaultStopState \/ FaultStopHw) /\ vars' # vars
    BY DEF FaultWake, FaultSame, FaultNew, FaultStopState, FaultStopHw, iface, vars
  <2>5. QED
    BY <2>1, <2>2, <2>3, <2>4, StepKinds DEF FaultThread
<1>2. QED
  BY <1>1, CoreInvariant, PTL DEF Spec, FaultStops

(* The ignore time is m_fault_stop_time_ms whenever the fault stop thread  *)
(* waits again: a thread that counts it down or opens a shorter window does*)
(* not run between the store and the wait.                                 *)
THEOREM IgnoreArmedHolds == Spec => IgnoreArmed
<1> DEFINE A == faultPc # "wait" /\ faultPc' = "wait" => ignore' = StopTime
<1>1. Core /\ [Next]_vars => [A]_vars
  <2> SUFFICES ASSUME Core, [Next]_vars, faultPc # "wait", faultPc' = "wait"
               PROVE  ignore' = StopTime
    OBVIOUS
  <2>1. CASE FaultThread
    BY <2>1 DEF FaultThread, FaultWake, FaultSame, FaultNew, FaultStopState, FaultStopHw,
                FaultRecord, Core, HandlerArmed
  <2>2. ~(\E f \in Faults : IsrFault(f)) /\ ~IsrControl /\ ~FocTimer /\ ~KillPin /\ ~NormalFrame
    BY DEF IsrFault, IsrControl, FocTimer, KillPin, NormalFrame
  <2>3. ~TickThread /\ vars' # vars
    BY DEF TickThread, TickLoad, TickDec, TickClear, TickRaise, TickSignal, TickEnd, vars
  <2>4. QED
    BY <2>1, <2>2, <2>3, StepKinds
<1>2. QED
  BY <1>1, CoreInvariant, PTL DEF Spec, IgnoreArmed

-----------------------------------------------------------------------------
(* Only the timeout thread, stores and detections touch the lock.          *)
LockFrame == UNCHANGED <<locked, storePc, detectPc>>

LEMMA CallStepLockFrame ==
  ASSUME NEW t \in Callers, CallStep(t)
  PROVE  LockFrame
BY DEF LockFrame, CallStep, TryLoad, TryLock, TryTake, SetMode, SetIq, SetId, SetCheck, SetRun,
       iface, store

LEMMA LockStep == TypeOK /\ NoOrphanLock /\ [Next]_vars => NoOrphanLock'
<1> SUFFICES ASSUME TypeOK, NoOrphanLock, [Next]_vars PROVE NoOrphanLock'
  OBVIOUS
<1>1. CASE LockFrame
  BY <1>1 DEF LockFrame, NoOrphanLock
<1>2. CASE UNCHANGED vars
  BY <1>1, <1>2 DEF vars, iface, store, LockFrame
<1>3. CASE TimeoutThread
  <2>1. CASE TmoUnlock
    BY <2>1 DEF TmoUnlock, NoOrphanLock
  <2>2. CASE TmoSample \/ TmoOverrideMode \/ TmoOverrideIq \/ TmoOverrideId
             \/ TmoBrake("brake1", "brake2") \/ TmoBrake("brake2", "mark") \/ TmoMark \/ TmoRaise
    BY <2>2, <1>1 DEF TmoSample, TmoOverrideMode, TmoOverrideIq, TmoOverrideId, TmoBrake, TmoMark,
                      TmoRaise, LockFrame, iface, store
  <2>3. CASE CallStep(TimeoutThd)
    BY <2>3, <1>1, CallStepLockFrame DEF Callers
  <2>4. QED
    BY <1>3, <2>1, <2>2, <2>3 DEF TimeoutThread
<1>4. ASSUME NEW c \in Apps, CallStep(c) \/ AppMove(c) PROVE NoOrphanLock'
  <2>1. CASE CallStep(c)
    BY <2>1, <1>1, CallStepLockFrame DEF Callers
  <2>2. CASE AppMove(c)
    BY <2>2, <1>1 DEF AppMove, Call, Loop, LockFrame, iface, store
  <2>3. QED
    BY <1>4, <2>1, <2>2
<1>5. ASSUME NEW s \in Storers, StoreThread(s) \/ StoreUnlock(s) PROVE NoOrphanLock'
  <2>1. CASE CallStep(s)
    BY <2>1, <1>1, CallStepLockFrame DEF Callers
  <2>2. CASE StoreUnlock(s) \/ StoreGiveUp(s) \/ StoreDone(s)
    BY <2>2 DEF StoreUnlock, StoreGiveUp, StoreDone, NoOrphanLock
  <2>3. CASE StoreRelease(s)
    BY <2>3 DEF StoreRelease, StoreGoto, NoOrphanLock, TypeOK, iface
  <2>4. CASE StoreLock(s)
    BY <2>4 DEF StoreLock, StoreGoto, NoOrphanLock, TypeOK
  <2>5. CASE StoreWait(s)
    BY <2>5 DEF StoreWait, StoreGoto, NoOrphanLock, TypeOK, iface
  <2>6. CASE StoreWrite(s)
    BY <2>6 DEF StoreWrite, StoreGoto, NoOrphanLock, TypeOK, iface
  <2>7. QED
    BY <1>5, <2>1, <2>2, <2>3, <2>4, <2>5, <2>6 DEF StoreThread
<1>6. ASSUME NEW d \in Detectors, DetectThread(d) \/ DetectLock(d) \/ DetectDrive(d)
      PROVE  NoOrphanLock'
  <2>1. CASE CallStep(d) \/ DetectDrive(d)
    BY <2>1, <1>1, CallStepLockFrame DEF DetectDrive, LockFrame, Callers, iface, store
  <2>2. CASE DetectLock(d)
    BY <2>2 DEF DetectLock, DetectGoto, NoOrphanLock, TypeOK, store
  <2>3. CASE DetectOverride(d)
    BY <2>3 DEF DetectOverride, DetectGoto, NoOrphanLock, TypeOK, store
  <2>4. CASE DetectRelease(d)
    BY <2>4 DEF DetectRelease, DetectGoto, NoOrphanLock, TypeOK, iface, store
  <2>5. CASE DetectUnlock(d)
    BY <2>5 DEF DetectUnlock, NoOrphanLock
  <2>6. QED
    BY <1>6, <2>1, <2>2, <2>3, <2>4, <2>5 DEF DetectThread
<1>7. CASE (\E f \in Faults : IsrFault(f)) \/ IsrControl \/ FaultThread
  BY <1>7, <1>1 DEF IsrFault, IsrControl, FaultThread, FaultWake, FaultSame, FaultNew,
                    FaultStopState, FaultStopHw, FaultRecord, LockFrame, iface, store
<1>8. CASE TickThread \/ FocTimer \/ PidThread \/ KillPin
  BY <1>8, <1>1 DEF PidThread, PidTest, PidStore, TickThread, TickLoad, TickDec, TickClear,
                    TickRaise, TickSignal, TickEnd, FocTimer, KillPin, LockFrame, iface, store
<1>9. CASE Environment
  BY <1>4, <1>5, <1>6, <1>7, <1>8, <1>9, AppSteps DEF Environment
<1>10. CASE Threads
  BY AppSteps, <1>3, <1>4, <1>5, <1>6, <1>7, <1>8, <1>10 DEF Threads
<1>11. QED
  BY <1>2, <1>9, <1>10 DEF Next

(* However many stores and detections share the lock with the timeout      *)
(* thread, it is held only while one of them is going to release it.       *)
THEOREM NoOrphanLockHolds == Spec => []NoOrphanLock
<1>1. Init => NoOrphanLock
  BY DEF Init, NoOrphanLock
<1>2. QED
  BY <1>1, TypeCorrect, LockStep, PTL DEF Spec

-----------------------------------------------------------------------------
(* The steps, as the timeout thread sees them.                             *)

(* Its own variables change only in its own steps, except that others feed *)
(* the timeout and press the kill switch.                                  *)
TmoFrame ==
  /\ UNCHANGED <<tmoPc, hasTimeout, killActive, killNow>>
  /\ age' \in {0, age}
  /\ KillSwitch \/ killPin' = killPin

Alone(t) == \A u \in Callers \ {t} : at'[u] = at[u] /\ op'[u] = op[u]

(* Another thread moves without storing anything in the motor.             *)
OtherMove(t) ==
  /\ t # TimeoutThd /\ Alone(t) /\ TmoFrame
  /\ t \in Commanders => ~InFlight(t) \/ age' = 0
  /\ UNCHANGED <<mode, iq, drove>>

(* Nobody moves, and what is stored is stored by a fault or the FOC timer. *)
Harmless ==
  /\ mode' \in {mode, "none"} /\ iq' \in {iq, "low"}
  /\ UNCHANGED calls /\ TmoFrame

TmoOwn ==
  \/ TmoSample \/ TmoOverrideMode \/ TmoOverrideIq \/ TmoOverrideId \/ TmoUnlock
  \/ TmoBrake("brake1", "brake2") \/ TmoBrake("brake2", "mark")
  \/ TmoMark \/ TmoRaise

LEMMA BeginAlone ==
  ASSUME TypeOK, NEW t \in Callers, NEW o, Begin(t, o)
  PROVE  Alone(t) /\ drove' = drove /\ at'[t] = "load" /\ op'[t] = o
BY DEF Begin, Alone, TypeOK

LEMMA AppOther ==
  ASSUME TypeOK, NEW c \in Apps, AppMove(c)
  PROVE  OtherMove(c)
<1>1. c \in Callers /\ c # TimeoutThd
  BY MotorAssumption DEF Callers
<1>2. ASSUME NEW o \in Ops, Call(c, o), ~InFlight(c) PROVE OtherMove(c)
  <2>1. Alone(c) /\ drove' = drove
    BY <1>1, <1>2, BeginAlone DEF Call
  <2>2. QED
    BY <1>1, <1>2, <2>1 DEF Call, OtherMove, TmoFrame, motor, tmo
<1>3. ASSUME NEW pc \in {"out", "fed", "test", "passed"}, Loop(c, pc),
             age' = 0 \/ (c \in PpmApps /\ age' = age)
      PROVE  OtherMove(c)
  <2>1. Alone(c)
    BY <1>1, <1>3 DEF Loop, Goto, Alone, TypeOK
  <2>2. c \in PpmApps => c \notin Commanders
    BY MotorAssumption
  <2>3. QED
    BY <1>1, <1>3, <2>1, <2>2 DEF Loop, OtherMove, TmoFrame, motor
<1>4. QED
  BY <1>2, <1>3 DEF AppMove

LEMMA StoreKinds ==
  ASSUME TypeOK, NEW s \in Storers, StoreThread(s) \/ StoreUnlock(s)
  PROVE  CallStep(s) \/ OtherMove(s) \/ Harmless
<1>1. s \in Callers /\ s # TimeoutThd /\ s \notin Commanders
  BY MotorAssumption DEF Callers, Apps
<1>2. CASE StoreRelease(s)
  <2>1. Alone(s) /\ drove' = drove
    BY <1>1, <1>2, BeginAlone DEF StoreRelease
  <2>2. QED
    BY <1>1, <1>2, <2>1 DEF StoreRelease, OtherMove, TmoFrame, motor, tmo
<1>3. CASE StoreUnlock(s) \/ StoreLock(s) \/ StoreWait(s) \/ StoreGiveUp(s) \/ StoreWrite(s)
           \/ StoreDone(s)
  BY <1>3 DEF StoreUnlock, StoreLock, StoreWait, StoreGiveUp, StoreWrite, StoreDone, Harmless,
              TmoFrame, motor, tmo
<1>4. QED
  BY <1>2, <1>3 DEF StoreThread

LEMMA DetectKinds ==
  ASSUME TypeOK, NEW d \in Detectors, DetectThread(d) \/ DetectLock(d) \/ DetectDrive(d)
  PROVE  CallStep(d) \/ OtherMove(d) \/ Harmless
<1>1. d \in Callers /\ d # TimeoutThd /\ d \notin Commanders
  BY MotorAssumption DEF Callers, Apps
<1>2. CASE DetectRelease(d)
  <2>1. Alone(d) /\ drove' = drove
    BY <1>1, <1>2, BeginAlone DEF DetectRelease
  <2>2. QED
    BY <1>1, <1>2, <2>1 DEF DetectRelease, OtherMove, TmoFrame, motor, tmo
<1>3. CASE DetectDrive(d)
  <2>1. Alone(d)
    BY <1>1, <1>3 DEF DetectDrive, Alone, TypeOK
  <2>2. QED
    BY <1>1, <1>3, <2>1 DEF DetectDrive, OtherMove, TmoFrame, motor
<1>4. CASE DetectLock(d) \/ DetectOverride(d) \/ DetectUnlock(d)
  BY <1>4 DEF DetectLock, DetectOverride, DetectUnlock, Harmless, TmoFrame, motor, tmo
<1>5. QED
  BY <1>2, <1>3, <1>4 DEF DetectThread

LEMMA Kinds ==
  ASSUME TypeOK, Next
  PROVE  \/ \E t \in Callers : CallStep(t) \/ OtherMove(t)
         \/ Harmless \/ TmoOwn
         \/ \E level \in {"low", "drive"} : PidStore(level)
<1>1. (\E f \in Faults : IsrFault(f)) \/ IsrControl \/ FocTimer \/ KillPin \/ PidTest => Harmless
  BY DEF IsrFault, IsrControl, FocTimer, KillPin, PidTest, Harmless, TmoFrame, motor, tmo
<1>2. FaultThread => Harmless
  BY DEF FaultThread, FaultWake, FaultSame, FaultNew, FaultStopState, FaultStopHw, FaultRecord,
         Harmless, TmoFrame, motor, tmo
<1>3. TickThread => Harmless
  BY DEF TickThread, TickLoad, TickDec, TickClear, TickRaise, TickSignal, TickEnd, Harmless,
         TmoFrame, motor, tmo
<1>4. TimeoutThread => TmoOwn \/ CallStep(TimeoutThd)
  BY DEF TimeoutThread, TmoOwn
<1>5. CASE Environment
  BY <1>1, <1>5, AppSteps, AppOther, StoreKinds, DetectKinds DEF Environment, Callers
<1>6. CASE Threads
  BY <1>1, <1>2, <1>3, <1>4, <1>6, AppSteps, AppOther, StoreKinds, DetectKinds
     DEF Threads, PidThread, Callers
<1>7. QED
  BY <1>5, <1>6 DEF Next

(* A step of a command moves its own thread only, which is inside.         *)
LEMMA CallAlone ==
  ASSUME TypeOK, NEW t \in Callers, CallStep(t)
  PROVE  /\ Alone(t) /\ TmoFrame
         /\ at[t] # "out" /\ op'[t] \in {op[t], "release"}
<1>1. PICK pc : Goto(t, pc)
  BY DEF CallStep, TryLoad, TryLock, TryTake, SetMode, SetIq, SetId, SetCheck, SetRun
<1>2. Alone(t) /\ op'[t] \in {op[t], "release"}
  BY <1>1 DEF Goto, Alone, TypeOK
<1>3. TmoFrame /\ at[t] # "out"
  BY DEF CallStep, TryLoad, TryLock, TryTake, SetMode, SetIq, SetId, SetCheck, SetRun, TmoFrame,
         tmo
<1>4. QED
  BY <1>2, <1>3

(* Where a step of a setter leads.                                         *)
LEMMA SetModeTo ==
  ASSUME TypeOK, NEW t \in Callers, SetMode(t)
  PROVE  /\ at'[t] \in {"run", "id", "iq"}
         /\ op[t] \in {"drive", "release", "brake"} => at'[t] = "iq"
         /\ mode' = ModeOf(op[t]) /\ iq' = iq
<1>1. \A pc : Goto(t, pc) => at'[t] = pc
  BY DEF Goto, TypeOK
<1>2. QED
  BY <1>1 DEF SetMode

LEMMA SetIqTo ==
  ASSUME TypeOK, NEW t \in Callers, SetIq(t)
  PROVE  /\ at'[t] \in {"id", "run", After(t)}
         /\ op[t] = "drive" => at'[t] = "id"
         /\ iq' = IqOf(op[t]) /\ mode' = mode
<1>1. \A pc : Goto(t, pc) => at'[t] = pc
  BY DEF Goto, TypeOK
<1>2. QED
  BY <1>1 DEF SetIq, Set, ModeOf

(* A command thread resets the timeout on its way out of a command.        *)
LEMMA FlightKept ==
  ASSUME TypeOK, Next, NEW c \in Commanders, InFlight(c)
  PROVE  InFlight(c)' \/ age' = 0
<1> SUFFICES at'[c] \in {"mode", "iq", "id", "run", "start", "feed"} \/ age' = 0
  BY DEF InFlight
<1>1. c \in Callers /\ c # TimeoutThd
  BY MotorAssumption DEF Callers, Apps
<1>2. \A t \in Callers : Alone(t) /\ t # c => at'[c] = at[c]
  BY <1>1 DEF Alone
<1>3. ASSUME NEW t \in Callers, CallStep(t), t # c PROVE at'[c] = at[c]
  BY <1>2, <1>3, CallAlone
<1>4. ASSUME CallStep(c) PROVE at'[c] \in {"mode", "iq", "id", "run", "start", "feed"}
  <2>1. \A pc : Goto(c, pc) => at'[c] = pc
    BY <1>1 DEF Goto, TypeOK
  <2>2. After(c) = "feed"
    BY DEF After
  <2>3. ~(TryLoad(c) \/ TryLock(c) \/ TryTake(c))
    BY DEF InFlight, TryLoad, TryLock, TryTake
  <2>4. QED
    BY <1>1, <1>4, <2>1, <2>2, <2>3, SetModeTo, SetIqTo
       DEF CallStep, SetId, SetCheck, SetRun, Set
<1>5. ASSUME NEW t \in Callers, OtherMove(t) PROVE at'[c] = at[c] \/ age' = 0
  BY <1>2, <1>5 DEF OtherMove
<1>6. Harmless \/ (\E level \in {"low", "drive"} : PidStore(level)) => at'[c] = at[c]
  BY DEF Harmless, PidStore, calls
<1>7. TmoOwn => at'[c] = at[c]
  <2>1. TmoBrake("brake1", "brake2") \/ TmoBrake("brake2", "mark") => at'[c] = at[c]
    BY <1>1, BeginAlone DEF TmoBrake, Alone, Callers
  <2>2. QED
    BY <2>1 DEF TmoOwn, TmoSample, TmoOverrideMode, TmoOverrideIq, TmoOverrideId, TmoUnlock,
                TmoMark, TmoRaise, calls
<1>8. QED
  BY <1>3, <1>4, <1>5, <1>6, <1>7, Kinds DEF InFlight

-----------------------------------------------------------------------------
(* The timeout thread itself only brakes, between its first brake command  *)
(* and the end of the pass.                                                *)
Own ==
  /\ op[TimeoutThd] \in {"release", "brake"}
  /\ tmoPc \notin {"brake2", "mark"} => at[TimeoutThd] = "out"

LEMMA OwnStep == ASSUME TypeOK, Own, [Next]_vars PROVE Own'
<1> USE DEF Own
<1>1. TimeoutThd \in Callers
  BY DEF Callers
<1>2. ASSUME NEW t \in Callers, t # TimeoutThd, Alone(t), TmoFrame PROVE Own'
  BY <1>1, <1>2 DEF Alone, TmoFrame
<1>3. ASSUME NEW t \in Callers, CallStep(t) PROVE Own'
  <2>1. CASE t # TimeoutThd
    BY <1>2, <1>3, <2>1, CallAlone
  <2>2. CASE t = TimeoutThd
    BY <1>3, <2>2, CallAlone DEF TmoFrame
  <2>3. QED
    BY <2>1, <2>2
<1>4. ASSUME NEW t \in Callers, OtherMove(t) PROVE Own'
  BY <1>2, <1>4 DEF OtherMove
<1>5. Harmless \/ (\E level \in {"low", "drive"} : PidStore(level)) \/ UNCHANGED vars => Own'
  BY DEF Harmless, PidStore, TmoFrame, vars, calls, tmo
<1>6. TmoOwn => Own'
  <2>1. TmoBrake("brake1", "brake2") \/ TmoBrake("brake2", "mark") => Own'
    BY <1>1, BeginAlone DEF TmoBrake
  <2>2. QED
    BY <2>1 DEF TmoOwn, TmoSample, TmoOverrideMode, TmoOverrideIq, TmoOverrideId, TmoUnlock,
                TmoMark, TmoRaise, calls
<1>7. QED
  BY <1>3, <1>4, <1>5, <1>6, Kinds

(* What the override has undone, while the thread acts.                    *)
Undone ==
  /\ hasTimeout \/ killActive \/ tmoPc \notin {"sleep", "override"} =>
       mode \notin {"duty", "pid", "openloop"}
  /\ hasTimeout \/ killActive \/ tmoPc \notin {"sleep", "override", "override_iq"} =>
       iq # "drive" \/ at[TimeoutThd] = "iq"

(* A thread that still answers for what it has stored.                     *)
Claims(t) == t \in Commanders => InFlight(t)

(* What is undone stays undone until somebody drives the motor again, who  *)
(* is in drove by then and has not left the command.                       *)
LEMMA ClaimStep ==
  ASSUME TypeOK, Own, Undone, Next
  PROVE  Undone' \/ \E t \in drove' : Claims(t)'
<1> USE DEF Undone
<1>1. TimeoutThd \in Callers
  BY DEF Callers
<1>2. ASSUME TmoFrame, mode' \in {mode, "none", "current", "brake"}, iq' \in {iq, "low", "brake"},
             at'[TimeoutThd] = at[TimeoutThd]
      PROVE  Undone'
  BY <1>2 DEF TmoFrame
<1>3. ASSUME TmoFrame, ~Acting PROVE Undone'
  BY <1>3 DEF TmoFrame, Acting
<1>4. ASSUME NEW t \in Callers, t # TimeoutThd, CallStep(t)
      PROVE  Undone' \/ (t \in drove' /\ Claims(t)')
  <2>1. TmoFrame /\ at'[TimeoutThd] = at[TimeoutThd]
    BY <1>1, <1>4, CallAlone DEF Alone
  <2>2. CASE SetMode(t)
    <3>1. op[t] \in {"drive", "release", "brake"} => Undone'
      BY <1>2, <2>1, <2>2, SetModeTo DEF ModeOf
    <3>2. op[t] \notin {"release", "brake"} /\ Acting => t \in drove'
      BY <1>4, <2>2 DEF SetMode, Drove, Drives
    <3>3. Claims(t)'
      BY <2>2, SetModeTo DEF Claims, InFlight
    <3>4. QED
      BY <1>3, <2>1, <3>1, <3>2, <3>3
  <2>3. CASE SetIq(t)
    <3>1. op[t] # "drive" => Undone'
      BY <1>2, <2>1, <2>3, SetIqTo DEF IqOf
    <3>2. op[t] = "drive" /\ Acting => t \in drove'
      BY <2>3 DEF SetIq, Drove, Drives
    <3>3. op[t] = "drive" => Claims(t)'
      BY <2>3, SetIqTo DEF Claims, InFlight
    <3>4. QED
      BY <1>3, <2>1, <3>1, <3>2, <3>3
  <2>4. CASE TryLoad(t) \/ TryLock(t) \/ TryTake(t) \/ SetId(t) \/ SetCheck(t) \/ SetRun(t)
    BY <1>2, <2>1, <2>4 DEF TryLoad, TryLock, TryTake, SetId, SetCheck, SetRun, motor
  <2>5. QED
    BY <1>4, <2>2, <2>3, <2>4 DEF CallStep
<1>5. ASSUME CallStep(TimeoutThd) PROVE Undone'
  <2>1. TmoFrame /\ op[TimeoutThd] \in {"release", "brake"}
    BY <1>1, <1>5, CallAlone DEF Own
  <2>2. CASE SetMode(TimeoutThd)
    BY <1>1, <2>1, <2>2, SetModeTo DEF ModeOf, TmoFrame
  <2>3. CASE SetIq(TimeoutThd)
    BY <1>1, <2>1, <2>3, SetIqTo DEF IqOf, TmoFrame
  <2>4. CASE \/ TryLoad(TimeoutThd) \/ TryLock(TimeoutThd) \/ TryTake(TimeoutThd)
             \/ SetId(TimeoutThd) \/ SetCheck(TimeoutThd) \/ SetRun(TimeoutThd)
    <3>1. at[TimeoutThd] # "iq" /\ mode' = mode /\ iq' = iq
      BY <2>4 DEF TryLoad, TryLock, TryTake, SetId, SetCheck, SetRun, motor
    <3>2. QED
      BY <2>1, <3>1 DEF TmoFrame
  <2>5. QED
    BY <1>5, <2>2, <2>3, <2>4 DEF CallStep
<1>6. ASSUME NEW t \in Callers, OtherMove(t) PROVE Undone'
  BY <1>1, <1>2, <1>6 DEF OtherMove, Alone
<1>7. Harmless => Undone'
  BY <1>2 DEF Harmless, calls
<1>8. ASSUME NEW level \in {"low", "drive"}, PidStore(level)
      PROVE  Undone' \/ (PidThd \in drove' /\ Claims(PidThd)')
  <2>1. TmoFrame /\ mode' = mode /\ at' = at /\ iq' = level
    BY <1>8 DEF PidStore, TmoFrame, tmo
  <2>2. Acting /\ level = "drive" => PidThd \in drove'
    BY <1>8 DEF PidStore
  <2>3. Claims(PidThd)'
    BY MotorAssumption DEF Claims, Callers, Apps
  <2>4. QED
    BY <1>2, <1>3, <2>1, <2>2, <2>3
<1>9. TmoOwn => Undone'
  <2>1. TmoBrake("brake1", "brake2") \/ TmoBrake("brake2", "mark") => Undone'
    BY DEF TmoBrake, motor
  <2>2. TmoSample => Undone'
    BY DEF TmoSample, Own, motor
  <2>3. TmoOverrideMode \/ TmoOverrideIq \/ TmoOverrideId \/ TmoUnlock => Undone'
    BY DEF TmoOverrideMode, TmoOverrideIq, TmoOverrideId, TmoUnlock, motor, calls
  <2>4. TmoMark \/ TmoRaise => Undone'
    BY DEF TmoMark, TmoRaise, motor, calls
  <2>5. QED
    BY <2>1, <2>2, <2>3, <2>4 DEF TmoOwn
<1>10. QED
  BY <1>4, <1>5, <1>6, <1>7, <1>8, <1>9, Kinds

(* The history is forgotten only when there is nothing left of it.         *)
LEMMA DroveKept ==
  ASSUME TypeOK, Own, Next
  PROVE  drove \subseteq drove' \/ Undone'
<1>1. ASSUME NEW t \in Callers, CallStep(t) PROVE drove \subseteq drove' \/ Undone'
  <2>1. CASE SetMode(t) /\ t = TimeoutThd
    <3>1. TmoFrame /\ mode' \in {"current", "brake"} /\ at'[TimeoutThd] = "iq"
      BY <1>1, <2>1, CallAlone, SetModeTo DEF Own, ModeOf
    <3>2. QED
      BY <3>1 DEF Undone
  <2>2. CASE SetMode(t) /\ t # TimeoutThd
    BY <2>2 DEF SetMode, Drove
  <2>3. CASE SetIq(t) \/ SetId(t) \/ SetRun(t)
    BY <2>3 DEF SetIq, SetId, SetRun, Drove
  <2>4. CASE TryLoad(t) \/ TryLock(t) \/ TryTake(t) \/ SetCheck(t)
    BY <2>4 DEF TryLoad, TryLock, TryTake, SetCheck
  <2>5. QED
    BY <1>1, <2>1, <2>2, <2>3, <2>4 DEF CallStep
<1>2. (\E t \in Callers : OtherMove(t)) \/ Harmless => drove' = drove
  BY DEF OtherMove, Harmless, calls
<1>3. (\E level \in {"low", "drive"} : PidStore(level)) => drove \subseteq drove'
  BY DEF PidStore
<1>4. TmoOwn => drove \subseteq drove' \/ Undone'
  <2>1. TmoSample => drove' = drove \/ Undone'
    BY DEF TmoSample, Undone
  <2>2. TmoOwn => TmoSample \/ drove' = drove
    BY DEF TmoOwn, TmoOverrideMode, TmoOverrideIq, TmoOverrideId, TmoUnlock, TmoBrake, Begin,
           TmoMark, TmoRaise, calls
  <2>3. QED
    BY <2>1, <2>2
<1>5. QED
  BY <1>1, <1>2, <1>3, <1>4, Kinds

LEMMA UndoneNotDriven ==
  ASSUME Own, Undone, tmoPc = "sleep", hasTimeout \/ killActive
  PROVE  ~Driven
BY DEF Own, Undone, Driven

-----------------------------------------------------------------------------
(* At the end of a pass that found the kill switch pressed nothing from    *)
(* before drives the motor, for any threads, faults and times.             *)
KillInv == Own /\ (drove = {} => Undone)

THEOREM KillReleasedHolds == Spec => []KillReleased
<1>1. Init => KillInv
  BY DEF Init, KillInv, Own, Undone, Callers
<1>2. TypeOK /\ KillInv /\ [Next]_vars => KillInv'
  <2> SUFFICES ASSUME TypeOK, KillInv, [Next]_vars PROVE KillInv'
    OBVIOUS
  <2>1. Own'
    BY OwnStep DEF KillInv
  <2>2. ASSUME Next, drove' = {} PROVE Undone'
    <3>1. CASE drove = {}
      BY <2>2, <3>1, ClaimStep DEF KillInv
    <3>2. CASE drove # {}
      BY <2>2, <3>2, DroveKept DEF KillInv
    <3>3. QED
      BY <3>1, <3>2
  <2>3. CASE UNCHANGED vars
    BY <2>3 DEF KillInv, Own, Undone, vars, motor, calls, tmo
  <2>4. QED
    BY <2>1, <2>2, <2>3 DEF KillInv
<1>3. KillInv => KillReleased
  BY UndoneNotDriven DEF KillInv, KillReleased
<1>4. QED
  BY <1>1, <1>2, <1>3, TypeCorrect, PTL DEF Spec

-----------------------------------------------------------------------------
(* Without a kill switch: when a timeout strikes the age is TimeoutLoops;  *)
(* a thread that feeds the timeout while it acts sets it to 0, and the next*)
(* pass clears has_timeout because TimeoutLoops is not 1.                  *)
NoKill == ~killPin /\ ~killNow /\ ~killActive

TimeoutAge ==
  /\ TimeoutLoops = 0 => ~hasTimeout /\ tmoPc = "sleep"
  /\ hasTimeout \/ tmoPc # "sleep" => age \in {0, TimeoutLoops}

(* Everything in drove has been answered for by a later reset.             *)
Answered == \A t \in drove : t \in Commanders /\ ~InFlight(t)

TimeoutInv ==
  NoKill /\ TimeoutAge /\ Own /\ (age = TimeoutLoops /\ Answered => Undone)

LEMMA AgeStep ==
  ASSUME ~KillSwitch, TypeOK, NoKill, TimeoutAge, Next
  PROVE  /\ NoKill' /\ TimeoutAge'
         /\ age' \in {0, age} \/ TmoSample
<1> USE DEF NoKill, TimeoutAge
<1>1. TmoFrame => NoKill' /\ TimeoutAge' /\ age' \in {0, age}
  BY DEF TmoFrame
<1>2. ASSUME NEW t \in Callers, CallStep(t) \/ OtherMove(t) PROVE TmoFrame
  BY <1>2, CallAlone DEF OtherMove
<1>3. Harmless \/ (\E level \in {"low", "drive"} : PidStore(level)) => TmoFrame
  BY DEF Harmless, PidStore, TmoFrame, tmo
<1>4. TmoSample => NoKill' /\ TimeoutAge'
  BY MotorAssumption DEF TmoSample, Fires, Older, TypeOK
<1>5. TmoOwn /\ ~TmoSample => NoKill' /\ TimeoutAge' /\ age' = age
  <2>1. TmoOverrideMode \/ TmoOverrideIq \/ TmoOverrideId \/ TmoUnlock
          => NoKill' /\ TimeoutAge' /\ age' = age
    BY DEF TmoOverrideMode, TmoOverrideIq, TmoOverrideId, TmoUnlock
  <2>2. TmoBrake("brake1", "brake2") \/ TmoBrake("brake2", "mark") \/ TmoMark \/ TmoRaise
          => NoKill' /\ TimeoutAge' /\ age' = age
    BY DEF TmoBrake, TmoMark, TmoRaise
  <2>3. QED
    BY <2>1, <2>2 DEF TmoOwn
<1>6. QED
  BY <1>1, <1>2, <1>3, <1>4, <1>5, Kinds

LEMMA TimeoutStep ==
  ASSUME ~KillSwitch, TypeOK, TimeoutInv, Next
  PROVE  TimeoutInv'
<1>1. NoKill' /\ TimeoutAge' /\ Own' /\ (age' \in {0, age} \/ TmoSample)
  BY AgeStep, OwnStep DEF TimeoutInv
<1>2. SUFFICES ASSUME age' = TimeoutLoops, Answered', ~Undone' PROVE FALSE
  BY <1>1 DEF TimeoutInv
<1>3. age' # 0
  BY <1>1, <1>2 DEF TimeoutAge, NoKill, Undone
<1>4. age = TimeoutLoops
  <2>1. SUFFICES ASSUME age # TimeoutLoops PROVE FALSE
    OBVIOUS
  <2>2. TmoSample
    BY <1>1, <1>2, <1>3, <2>1
  <2>3. ~hasTimeout
    <3>1. SUFFICES ASSUME hasTimeout PROVE FALSE
      OBVIOUS
    <3>2. age = 0
      BY <2>1, <3>1 DEF TimeoutInv, TimeoutAge
    <3>3. QED
      BY <1>2, <1>3, <2>1, <2>2, <3>2, MotorAssumption DEF TmoSample, Older
  <2>4. QED
    BY <1>2, <2>2, <2>3 DEF TmoSample, TimeoutInv, NoKill, Undone
<1>5. \A t \in drove : t \in Commanders /\ ~(InFlight(t)')
  BY <1>1, <1>2, DroveKept DEF TimeoutInv, Answered
<1>6. Answered
  BY <1>3, <1>5, FlightKept DEF Answered
<1>7. PICK t \in drove' : Claims(t)'
  BY <1>2, <1>4, <1>6, ClaimStep DEF TimeoutInv
<1>8. QED
  BY <1>2, <1>7 DEF Claims, Answered

(* Whatever drives the motor after a pass that found the timeout expired   *)
(* was stored since the first such pass, by a thread that no later reset   *)
(* speaks for: for any number of packet threads, applications, stores and  *)
(* detections, and whatever faults are raised.                             *)
THEOREM TimedOutReleasedHolds == Spec => []TimedOutReleased
<1>1. CASE KillSwitch
  <2>1. TypeOK => TimedOutReleased
    BY <1>1 DEF TimedOutReleased
  <2>2. QED
    BY <2>1, TypeCorrect, PTL
<1>2. CASE ~KillSwitch
  <2>1. Init => TimeoutInv
    BY <1>2, MotorAssumption
       DEF Init, TimeoutInv, NoKill, TimeoutAge, Own, Undone, Callers
  <2>2. TypeOK /\ TimeoutInv /\ [Next]_vars => TimeoutInv'
    <3>1. ASSUME TypeOK, TimeoutInv, UNCHANGED vars PROVE TimeoutInv'
      BY <3>1 DEF TimeoutInv, NoKill, TimeoutAge, Own, Answered, InFlight, Undone, vars, motor,
                  calls, tmo
    <3>2. QED
      BY <1>2, <3>1, TimeoutStep
  <2>3. TimeoutInv => TimedOutReleased
    <3>1. SUFFICES ASSUME TimeoutInv, hasTimeout, age = TimeoutLoops, tmoPc = "sleep", Driven
                   PROVE  ~Answered
      BY DEF TimedOutReleased, Answered
    <3>2. QED
      BY <3>1, UndoneNotDriven DEF TimeoutInv
  <2>4. QED
    BY <2>1, <2>2, <2>3, TypeCorrect, PTL DEF Spec
<1>3. QED
  BY <1>1, <1>2
=============================================================================
