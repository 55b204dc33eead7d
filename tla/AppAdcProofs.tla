---------------------------- MODULE AppAdcProofs ----------------------------
(***************************************************************************)
(* Proofs about AppAdc for any number of threads that configure it and     *)
(* that disable the output, any times and any number of calls.             *)
(***************************************************************************)
EXTENDS AppAdc, TLAPS

-----------------------------------------------------------------------------
(* The thread of the application: one at most, and while it is being       *)
(* started none, or one that is on its way out, as long as no calls have   *)
(* crossed.                                                                *)
Lives ==
  /\ live <= 1 =>
       /\ live = (IF tpc = "none" THEN 0 ELSE 1)
       /\ isRunning <=> tpc \notin {"none", "created", "leaving"}
  /\ ~crossed =>
       /\ live <= 1
       /\ \A c, e \in Configurers : c = e \/ cpc[c] = "idle" \/ cpc[e] = "idle"
       /\ \A c \in Configurers :
            /\ cpc[c] = "wait" => tpc # "created"
            /\ cpc[c] \in {"start", "create"} => tpc \in {"none", "leaving"}

(* While the timer has not fired within a call, the calls are one at a     *)
(* time, and one that disables for ever has set the flag when it cancels   *)
(* the timer.                                                              *)
Outputs ==
  ~fired =>
    /\ \A d, e \in Disablers : d = e \/ Idle(d) \/ Idle(e)
    /\ \A d \in Disablers : dpc[d] = "cancel" => disabled
    /\ forever => disabled /\ ~timer /\ \A d \in Disablers : Idle(d)

(* The safe start.  Between the passes the time that has been added up is  *)
(* not longer than the throttle has been at zero, and it is what was noted *)
(* at the end of the last pass; after the addition this is so unless the   *)
(* throttle was pressed, and then nothing was added.                       *)
Whole(t) == \E k \in Nat : t = k * MsTicks

Guarded == ~torn /\ ~armed /\ safe # "off" /\ live <= 1

Noted == ms = 0 \/ before = ms

AtRest ==
  /\ ms <= run /\ Noted
  /\ \/ tpc \in {"none", "created", "sleep", "read", "load", "leaving"}
     \/ tpc = "early" /\ ctrl = "pid"

Added ==
  /\ tpc = "store" /\ loaded = ms
  /\ IF pressed THEN Noted ELSE loaded + PassTicks <= run

Stored ==
  /\ tpc = "gate" \/ (tpc = "early" /\ ctrl = "duty")
  /\ IF pressed THEN Noted ELSE ms <= run

Starts ==
  /\ run = MinTicks => armed
  /\ ms = MinTicks \/ Whole(ms)
  /\ tpc = "store" => loaded = MinTicks \/ Whole(loaded)
  /\ Guarded => ms < MinTicks /\ (AtRest \/ Added \/ Stored)

IInv == TypeOK /\ Lives /\ Outputs
SInv == IInv /\ Starts

-----------------------------------------------------------------------------
(* Types, the thread and the calls.                                        *)
LEMMA InitInvariant == Init => IInv
<1> SUFFICES ASSUME Init PROVE IInv
  OBVIOUS
<1>1. TypeOK
  <2>1. cpc \in [Configurers -> {"idle", "wait", "start", "create", "configure", "reset"}]
    BY DEF Init
  <2>2. dpc \in [Disablers -> {"idle", "enable", "time", "set", "forever", "cancel"}]
    BY DEF Init
  <2>3. ms \in 0..MinTicks /\ before \in 0..MinTicks /\ loaded \in 0..MinTicks
    BY AdcAssumption DEF Init
  <2>4. run \in 0..MinTicks /\ live \in 0..2
    BY AdcAssumption DEF Init
  <2>5. QED
    BY <2>1, <2>2, <2>3, <2>4 DEF Init, TypeOK, CtrlTypes, SafeStarts
<1>2. Lives /\ Outputs
  BY DEF Init, Lives, Outputs, Idle
<1>3. QED
  BY <1>1, <1>2 DEF IInv

(* What is noted of a time: the whole milliseconds of it.                  *)
LEMMA TruncBound == \A t \in Nat : Trunc(t) \in 0..t
<1>1. ASSUME NEW t \in Nat, NEW m \in Nat \ {0} PROVE (t \div m) * m \in 0..t
  OBVIOUS
<1>2. QED
  BY <1>1, AdcAssumption DEF Trunc

(* A whole number of milliseconds loses nothing.                           *)
LEMMA TruncWhole == \A t \in Nat : Whole(t) => Trunc(t) = t
<1>1. ASSUME NEW k \in Nat, NEW m \in Nat \ {0} PROVE (k * m) \div m = k
  OBVIOUS
<1>2. QED
  BY <1>1, AdcAssumption DEF Trunc, Whole

(* adc_thread keeps the invariant.                                         *)
LEMMA ThreadStep == IInv /\ live <= 1 /\ AdcThread => IInv'
<1> SUFFICES ASSUME IInv, live <= 1, AdcThread PROVE IInv'
  OBVIOUS
<1> USE AdcAssumption
<1> USE DEF IInv, TypeOK, Lives, Outputs, Idle, conf, safety, life, configuring, output, history
<1>1. CASE Begin
  BY <1>1 DEF Begin
<1>2. CASE Leave \/ End
  <2>1. CASE Leave
    BY <2>1 DEF Leave
  <2>2. CASE End
    <3>1. live' = 0 /\ tpc' = "none" /\ tpc = "leaving" /\ isRunning' = isRunning
      BY <2>2 DEF End
    <3>2. UNCHANGED <<conf, safety, stopNow, pressed, loaded, last, run, cpc, dpc, crossed>>
          /\ UNCHANGED <<disabled, timer, forever, fired>>
      BY <2>2 DEF End
    <3>3. TypeOK'
      BY <3>1, <3>2
    <3>4. QED
      BY <3>1, <3>2, <3>3
  <2>3. QED
    BY <1>2, <2>1, <2>2
<1>3. CASE Pass
  BY <1>3 DEF Pass
<1>4. CASE ReadLevel
  BY <1>4 DEF ReadLevel
<1>5. CASE Early
  BY <1>5 DEF Early
<1>6. CASE LoadMs
  BY <1>6 DEF LoadMs
<1>7. CASE StoreMs
  BY <1>7 DEF StoreMs, Sum
<1>8. CASE GateClosed
  <2>1. ms' \in 0..MinTicks
    BY <1>8 DEF GateClosed
  <2>2. TypeOK'
    <3>1. before' = Trunc(ms')
      BY <1>8 DEF GateClosed
    <3>2. before' \in 0..MinTicks
      BY <2>1, <3>1, TruncBound
    <3>3. QED
      BY <1>8, <2>1, <3>2 DEF GateClosed
  <2>3. Lives' /\ Outputs'
    BY <1>8 DEF GateClosed
  <2>4. QED
    BY <2>2, <2>3
<1>9. CASE GateOpen
  BY <1>9 DEF GateOpen
<1>10. QED
  BY <1>1, <1>2, <1>3, <1>4, <1>5, <1>6, <1>7, <1>8, <1>9 DEF AdcThread

(* app_set_configuration keeps it.                                         *)
LEMMA ConfigureStep ==
  ASSUME IInv, live <= 1, NEW c \in Configurers, Stop(c) \/ Configurer(c)
  PROVE  IInv'
<1> USE AdcAssumption
<1> USE DEF IInv, TypeOK, Lives, Outputs, Idle, At, conf, safety, life, thread, output, history
<1>1. CASE Stop(c)
  BY <1>1 DEF Stop
<1>2. CASE Wait(c)
  BY <1>2 DEF Wait
<1>3. CASE StartApp(c)
  BY <1>3 DEF StartApp
<1>4. CASE Create(c)
  <2>1. /\ tpc' = "created" /\ live' = live + 1 /\ live \in {0, 1}
        /\ UNCHANGED <<isRunning, stopNow, disabled, timer, dpc, calls, forever, fired>>
        /\ cpc[c] = "create" /\ cpc' = [cpc EXCEPT ![c] = "configure"]
        /\ ~crossed' => ~crossed /\ tpc # "leaving"
    BY <1>4 DEF Create
  <2>2. TypeOK'
    BY <1>4, <2>1 DEF Create
  <2>3. ~crossed' => live = 0 /\ tpc = "none"
    BY <2>1
  <2>4. live' <= 1 => live = 0 /\ tpc = "none"
    BY <2>1
  <2>5. Lives' /\ Outputs'
    BY <2>1, <2>2, <2>3, <2>4
  <2>6. QED
    BY <2>2, <2>5
<1>5. CASE Configure(c)
  BY <1>5 DEF Configure
<1>6. CASE ResetMs(c)
  BY <1>6 DEF ResetMs
<1>7. QED
  BY <1>1, <1>2, <1>3, <1>4, <1>5, <1>6 DEF Configurer

(* app_disable_output and its timer keep it.                               *)
LEMMA OutputStep ==
  ASSUME IInv, (\E d \in Disablers : Call(d) \/ Disabler(d)) \/ TimerFires
  PROVE  IInv'
<1> USE AdcAssumption
<1> USE DEF IInv, TypeOK, Lives, Outputs, Idle, Turn
<1> USE DEF conf, safety, life, thread, configuring, history
<1>1. ASSUME NEW d \in Disablers, Call(d) PROVE IInv'
  <2>1. TypeOK' /\ Lives'
    BY <1>1 DEF Call
  <2>2. Outputs'
    BY <1>1 DEF Call
  <2>3. QED
    BY <2>1, <2>2
<1>2. ASSUME NEW d \in Disablers, EnableNow(d) PROVE IInv'
  <2>1. TypeOK' /\ Lives'
    BY <1>2 DEF EnableNow
  <2>2. Outputs'
    BY <1>2 DEF EnableNow
  <2>3. QED
    BY <2>1, <2>2
<1>3. ASSUME NEW d \in Disablers, DisableTime(d) PROVE IInv'
  <2>1. TypeOK' /\ Lives'
    BY <1>3 DEF DisableTime
  <2>2. Outputs'
    BY <1>3 DEF DisableTime
  <2>3. QED
    BY <2>1, <2>2
<1>4. ASSUME NEW d \in Disablers, SetTimer(d) PROVE IInv'
  <2>1. TypeOK' /\ Lives'
    BY <1>4 DEF SetTimer
  <2>2. Outputs'
    BY <1>4 DEF SetTimer
  <2>3. QED
    BY <2>1, <2>2
<1>5. ASSUME NEW d \in Disablers, DisableForever(d) PROVE IInv'
  <2>1. TypeOK' /\ Lives'
    BY <1>5 DEF DisableForever
  <2>2. Outputs'
    BY <1>5 DEF DisableForever
  <2>3. QED
    BY <2>1, <2>2
<1>6. ASSUME NEW d \in Disablers, CancelTimer(d) PROVE IInv'
  <2>1. TypeOK' /\ Lives'
    BY <1>6 DEF CancelTimer
  <2>2. Outputs'
    BY <1>6 DEF CancelTimer
  <2>3. QED
    BY <2>1, <2>2
<1>7. CASE TimerFires
  BY <1>7 DEF TimerFires
<1>8. QED
  BY <1>1, <1>2, <1>3, <1>4, <1>5, <1>6, <1>7 DEF Disabler

(* Every step keeps the invariant.                                         *)
LEMMA InvariantStep == IInv /\ [Next]_vars => IInv'
<1>1. ASSUME IInv, UNCHANGED vars PROVE IInv'
  BY <1>1 DEF IInv, TypeOK, Lives, Outputs, Idle, vars, conf, safety, life, thread,
              configuring, output, history
<1>2. QED
  BY <1>1, ThreadStep, ConfigureStep, OutputStep DEF Next

(* Each variable stays within its type.                                    *)
THEOREM TypeCorrect == Spec => []TypeOK
<1>1. IInv => TypeOK
  BY DEF IInv
<1>2. QED
  BY <1>1, InitInvariant, InvariantStep, PTL DEF Spec

(* app_adc_stop and app_adc_start: never two threads on one working area,  *)
(* unless calls have crossed or the old thread was slow to end.            *)
THEOREM OneThreadHolds == Spec => []OneThread
<1>1. IInv => OneThread
  BY DEF IInv, Lives, OneThread, TypeOK
<1>2. QED
  BY <1>1, InitInvariant, InvariantStep, PTL DEF Spec

(* app_disable_output: disabled for ever means until the next call.        *)
THEOREM DisabledHolds == Spec => []DisabledForever
<1>1. IInv => DisabledForever
  BY DEF IInv, Outputs, DisabledForever
<1>2. QED
  BY <1>1, InitInvariant, InvariantStep, PTL DEF Spec

-----------------------------------------------------------------------------
(* The safe start, for a pass of whole milliseconds.                       *)
LEMMA SumWhole ==
  ASSUME Whole(PassTicks), NEW t \in Nat, t = MinTicks \/ Whole(t)
  PROVE  Sum(t) = MinTicks \/ Whole(Sum(t))
<1>1. CASE Whole(t) /\ t + PassTicks < MinTicks
  <2>1. PICK k \in Nat, j \in Nat : t = k * MsTicks /\ PassTicks = j * MsTicks
    BY <1>1 DEF Whole
  <2>2. t + PassTicks = (k + j) * MsTicks
    BY <2>1, AdcAssumption
  <2>3. QED
    BY <1>1, <2>2 DEF Whole, Sum
<1>2. CASE ~(Whole(t) /\ t + PassTicks < MinTicks)
  BY <1>2, AdcAssumption DEF Sum
<1>3. QED
  BY <1>1, <1>2

(* The time at zero is that of the model and that of the code.             *)
LEMMA InitStarts == Init => Starts
<1> SUFFICES ASSUME Init PROVE Starts
  OBVIOUS
<1>1. 0 = 0 * MsTicks /\ 0 \in Nat
  BY AdcAssumption
<1>2. Whole(0)
  BY <1>1 DEF Whole
<1>3. QED
  BY <1>2, AdcAssumption DEF Init, Starts, Guarded

(* Only the thread and a configuration touch what Starts is about.         *)
LEMMA StartsStep ==
  ASSUME Whole(PassTicks), SInv, [Next]_vars
  PROVE  Starts'
<1>1. Whole(0)
  <2>1. 0 = 0 * MsTicks /\ 0 \in Nat
    BY AdcAssumption
  <2>2. QED
    BY <2>1 DEF Whole
<1>2. /\ ms \in 0..MinTicks /\ before \in 0..MinTicks /\ loaded \in 0..MinTicks
      /\ run \in 0..MinTicks /\ MinTicks \in Nat \ {0} /\ PassTicks \in Nat \ {0}
      /\ pressed \in BOOLEAN /\ ctrl \in CtrlTypes
      /\ tpc \in {"none", "created", "sleep", "read", "early", "load", "store", "gate", "leaving"}
      /\ live \in 0..2
  BY AdcAssumption DEF SInv, IInv, TypeOK
<1>3. Starts
  BY DEF SInv
<1> USE DEF Starts, Guarded, AtRest, Added, Stored, Noted, Held
<1> USE DEF conf, safety, life, thread, configuring, output, history
<1>4. CASE Begin
  BY <1>2, <1>3, <1>4 DEF Begin, Whole
<1>5. CASE Leave \/ End
  <2>1. CASE Leave
    BY <1>2, <1>3, <2>1 DEF Leave, Whole
  <2>2. CASE End
    <3>1. live <= 1
      BY <2>2 DEF End, Next, vars
    <3>2. QED
      BY <1>2, <1>3, <2>2, <3>1 DEF End, Whole
  <2>3. QED
    BY <1>5, <2>1, <2>2
<1>6. CASE Pass
  BY <1>1, <1>2, <1>3, <1>6 DEF Pass, Whole
<1>7. CASE ReadLevel
  BY <1>2, <1>3, <1>7 DEF ReadLevel, Whole
<1>8. CASE Early
  BY <1>2, <1>3, <1>8 DEF Early, Whole
<1>9. CASE LoadMs
  <2>1. /\ tpc = "load" /\ tpc' = "store" /\ loaded' = ms /\ ms' = ms /\ before' = before
        /\ run' = MinTicks => armed'
        /\ ~armed' => ~armed
        /\ safe' = safe /\ torn' = torn /\ pressed' = pressed /\ live' = live
    BY <1>9 DEF LoadMs
  <2>2. ASSUME Guarded' PROVE ms < MinTicks /\ ms <= run /\ Noted
    BY <1>3, <2>1, <2>2
  <2>3. ASSUME Guarded', ~pressed PROVE loaded' + PassTicks <= run'
    <3>1. run' = (IF run + PassTicks < MinTicks THEN run + PassTicks ELSE MinTicks)
      BY <1>9, <2>3 DEF LoadMs
    <3>2. run' = run + PassTicks
      BY <1>2, <2>1, <2>3, <3>1
    <3>3. QED
      BY <1>2, <2>1, <2>2, <2>3, <3>2
  <2>4. Guarded' => ms' < MinTicks /\ Added'
    BY <2>1, <2>2, <2>3
  <2>5. QED
    BY <1>3, <2>1, <2>4 DEF Whole
<1>10. CASE StoreMs
  <2>1. /\ tpc = "store" /\ ms' = (IF pressed THEN ms ELSE Sum(loaded))
        /\ tpc' = (IF ctrl = "duty" THEN "early" ELSE "gate")
        /\ UNCHANGED <<before, pressed, ctrl, safe, run, armed, torn, live>>
    BY <1>10 DEF StoreMs
  <2>2. ms' = MinTicks \/ Whole(ms')
    BY <1>2, <1>3, <2>1, SumWhole
  <2>3. ASSUME Guarded' PROVE ms' < MinTicks /\ Stored'
    <3>1. CASE pressed
      BY <1>3, <2>1, <2>3, <3>1
    <3>2. CASE ~pressed
      <4>1. loaded + PassTicks <= run /\ run < MinTicks
        BY <1>2, <1>3, <2>1, <2>3, <3>2
      <4>2. ms' = loaded + PassTicks
        BY <1>2, <2>1, <3>2, <4>1 DEF Sum
      <4>3. QED
        BY <1>2, <2>1, <3>2, <4>1, <4>2
    <3>3. QED
      BY <1>2, <3>1, <3>2
  <2>4. QED
    BY <1>3, <2>1, <2>2, <2>3 DEF Whole
<1>11. CASE GateClosed
  BY <1>1, <1>2, <1>3, <1>11, TruncWhole DEF GateClosed
<1>12. CASE GateOpen
  BY <1>2, <1>3, <1>12 DEF GateOpen, Whole
<1>13. ASSUME NEW c \in Configurers, Configure(c) PROVE Starts'
  BY <1>2, <1>3, <1>13 DEF Configure, Whole
<1>14. ASSUME NEW c \in Configurers, ResetMs(c) PROVE Starts'
  <2>1. /\ ms' = 0 /\ run' = 0 /\ tpc' = tpc /\ loaded' = loaded
        /\ torn' = (tpc \in {"early", "store", "gate"})
    BY <1>14 DEF ResetMs
  <2>2. ASSUME Guarded' PROVE ms' < MinTicks /\ AtRest'
    <3>1. ~torn'
      BY <2>2
    <3>2. tpc \notin {"early", "store", "gate"}
      BY <2>1, <3>1, Zenon
    <3>3. tpc' \in {"none", "created", "sleep", "read", "load", "leaving"}
      BY <1>2, <2>1, <3>2
    <3>4. QED
      BY <1>2, <2>1, <3>3
  <2>3. tpc' = "store" => loaded' = MinTicks \/ Whole(loaded')
    BY <1>3, <2>1
  <2>4. QED
    BY <1>1, <1>2, <2>1, <2>2, <2>3
<1>15. ASSUME NEW c \in Configurers, Stop(c) \/ Wait(c) \/ StartApp(c) PROVE Starts'
  BY <1>2, <1>3, <1>15 DEF Stop, Wait, StartApp, Whole
<1>16. ASSUME NEW c \in Configurers, Create(c) PROVE Starts'
  <2>1. CASE tpc = "none"
    BY <1>2, <1>3, <1>16, <2>1 DEF Create, Whole
  <2>2. CASE tpc # "none"
    <3>1. live' > 1
      BY <1>2, <1>16, <2>2 DEF Create, SInv, IInv, Lives
    <3>2. QED
      BY <1>3, <1>16, <3>1 DEF Create, Whole
  <2>3. QED
    BY <2>1, <2>2
<1>17. CASE TimerFires \/ \E d \in Disablers : Call(d) \/ Disabler(d)
  <2>1. UNCHANGED <<conf, safety, thread, history, live>>
    BY <1>17 DEF TimerFires, Call, Disabler, EnableNow, DisableTime, SetTimer,
         DisableForever, CancelTimer
  <2>2. QED
    BY <1>3, <2>1 DEF Whole
<1>18. CASE UNCHANGED vars
  BY <1>3, <1>18 DEF vars, Whole
<1>19. QED
  BY <1>4, <1>5, <1>6, <1>7, <1>8, <1>9, <1>10, <1>11, <1>12, <1>13, <1>14, <1>15, <1>16,
     <1>17, <1>18 DEF Next, AdcThread, Configurer

(* A pass that drives the motor has seen the throttle at zero long         *)
(* enough.                                                                 *)
LEMMA DriveArmed == SInv /\ live <= 1 /\ Drives => armed \/ torn \/ safe = "off"
BY DEF SInv, IInv, TypeOK, Drives, Starts, Guarded, Held

(* With safe start the motor is driven only after the throttle has been at *)
(* zero for MIN_MS_WITHOUT_POWER on end, if the thread sleeps for whole    *)
(* milliseconds: pulses_without_power_before has no fraction.              *)
THEOREM SafeStartHolds ==
  ASSUME Whole(PassTicks)
  PROVE  Spec => SafeStart
<1>1. Init => SInv
  BY InitInvariant, InitStarts DEF SInv
<1>2. SInv /\ [Next]_vars => SInv'
  BY InvariantStep, StartsStep DEF SInv
<1>3. SInv /\ [Next]_vars => [Drives => armed \/ torn \/ safe = "off"]_vars
  BY DriveArmed DEF Next
<1>4. QED
  BY <1>1, <1>2, <1>3, PTL DEF Spec, SafeStart
=============================================================================
