-------------------------------- MODULE AppAdc --------------------------------
(***************************************************************************)
(* The throttle application (app_adc.c), whose thread turns the level of   *)
(* the throttle into commands for the motor; its start, stop and           *)
(* configuration (app_set_configuration) by the threads of the interfaces; *)
(* and app_disable_output with its timer (app.c).  All the threads have    *)
(* the same priority; the timer runs in an interrupt.                      *)
(***************************************************************************)
EXTENDS Integers

CONSTANTS
  Configurers,   (* threads that call app_set_configuration                *)
  Disablers,     (* threads that call app_disable_output                   *)
  PassTicks,     (* sleep_time, in ticks of the system time                *)
  MsTicks,       (* ticks of a millisecond                                 *)
  MinTicks,      (* MIN_MS_WITHOUT_POWER, in ticks                         *)
  MaxConfigs,    (* bound: calls of app_set_configuration                  *)
  MaxCalls       (* bound: these and the calls of app_disable_output       *)

ASSUME AdcAssumption ==
  /\ {PassTicks, MsTicks, MinTicks} \subseteq Nat \ {0}
  /\ {MaxCalls, MaxConfigs} \subseteq Nat

VARIABLES
  ctrl, safe,  \* config.ctrl_type and config.safe_start
  ms,          \* ms_without_power, in ticks
  before,      \* pulses_without_power_before, in ticks
  stopNow,     \* stop_now
  isRunning,   \* is_running
  tpc,         \* where adc_thread is
  live,        \* number of threads on adc_thread_wa
  pressed,     \* the level it has read
  loaded,      \* ms_without_power as read for the addition
  last,        \* the command of this pass to the motor: brake, drive it, or let go
  cpc,         \* where each configurer is
  configs,     \* number of calls of app_set_configuration
  crossed,     \* a call came before the last one had done its work, or a thread was slow to end
  disabled,    \* output_disabled_now
  timer,       \* output_vt is armed
  dpc,         \* where each disabler is, and its argument
  calls,       \* number of calls of app_disable_output
  run,         \* time with the throttle at zero, up to MinTicks
  armed,       \* it has been long enough since the last fault or configuration
  torn,        \* a configuration is being set, or has come in the middle of a pass
  forever,     \* the last call was to disable the output for ever, and it is over
  fired        \* the timer has fired in the middle of a call, or two have overlapped

conf == <<ctrl, safe>>
safety == <<ms, before>>
life == <<stopNow, isRunning, live>>
configuring == <<cpc, configs, crossed>>
output == <<disabled, timer, dpc, calls, forever, fired>>
history == <<run, armed, torn>>
thread == <<tpc, pressed, loaded, last>>
vars == <<conf, safety, life, thread, configuring, output, history>>

CtrlTypes == {"current", "duty", "pid"}
SafeStarts == {"off", "on", "noFault"}

Init ==
  /\ ctrl = "current" /\ safe = "off"
  /\ ms = 0 /\ before = 0
  /\ stopNow = TRUE /\ isRunning = FALSE /\ tpc = "none" /\ live = 0
  /\ pressed = FALSE /\ loaded = 0 /\ last = "none"
  /\ cpc = [c \in Configurers |-> "idle"] /\ configs = 0 /\ crossed = FALSE
  /\ disabled = FALSE /\ timer = FALSE
  /\ dpc = [d \in Disablers |-> "idle"] /\ calls = 0
  /\ run = 0 /\ armed = FALSE /\ torn = FALSE /\ forever = FALSE /\ fired = FALSE

-----------------------------------------------------------------------------
(* adc_thread.                                                             *)

Begin ==
  /\ tpc = "created" /\ tpc' = "sleep"
  /\ isRunning' = TRUE
  /\ UNCHANGED <<conf, safety, stopNow, live, pressed, loaded, last, configuring,
                 output, history>>

Leave ==
  /\ tpc = "sleep" /\ stopNow
  /\ tpc' = "leaving"
  /\ isRunning' = FALSE /\ last' = "none"
  /\ UNCHANGED <<conf, safety, stopNow, live, pressed, loaded, configuring, output, history>>

(* Until it has ended the thread uses its working area.                    *)
End ==
  /\ tpc = "leaving" /\ tpc' = "none"
  /\ live' = live - 1
  /\ UNCHANGED <<conf, safety, stopNow, isRunning, pressed, loaded, last, configuring, output,
                 history>>

(* A pass begins.  While there is a fault, the safe start begins anew.     *)
Pass ==
  /\ tpc = "sleep" /\ ~stopNow
  /\ tpc' = "read"
  /\ \E fault \in BOOLEAN :
       IF fault /\ safe # "noFault"
       THEN ms' = 0 /\ run' = 0 /\ armed' = FALSE /\ torn' = FALSE
       ELSE UNCHANGED <<ms, run, armed, torn>>
  /\ last' = "none"
  /\ UNCHANGED <<conf, before, life, pressed, loaded, configuring, output>>

(* The level is read: it asks for power, or it is at zero or asks to brake. *)
ReadLevel ==
  /\ tpc = "read"
  /\ IF disabled THEN tpc' = "sleep" /\ UNCHANGED pressed
     ELSE tpc' = (IF ctrl = "pid" THEN "early" ELSE "load") /\ pressed' \in BOOLEAN
  /\ UNCHANGED <<conf, safety, life, loaded, last, configuring, output, history>>

Held == ms < MinTicks /\ safe # "off"

(* Duty cycle and speed are set within the switch over config.ctrl_type.   *)
Early ==
  /\ tpc = "early"
  /\ last' = IF Held THEN last ELSE IF pressed THEN "drive" ELSE "release"
  /\ tpc' = IF ctrl = "pid" THEN "load" ELSE "gate"
  /\ UNCHANGED <<conf, safety, life, pressed, loaded, configuring, output, history>>

(* ms_without_power += ... is a load and a store.                          *)
LoadMs ==
  /\ tpc = "load"
  /\ loaded' = ms
  /\ run' = IF pressed THEN 0 ELSE IF run + PassTicks < MinTicks THEN run + PassTicks ELSE MinTicks
  /\ armed' = (armed \/ run' = MinTicks)
  /\ tpc' = "store"
  /\ UNCHANGED <<conf, safety, life, pressed, last, configuring, output, torn>>

Sum(t) == IF t + PassTicks < MinTicks THEN t + PassTicks ELSE MinTicks

StoreDecay ==   \* mutant: the time runs back while the throttle is pressed
  /\ tpc = "store"
  /\ ms' = IF pressed THEN ms - PassTicks ELSE Sum(loaded)
  /\ loaded' = 0
  /\ tpc' = IF ctrl = "duty" THEN "early" ELSE "gate"
  /\ UNCHANGED <<conf, before, life, pressed, last, configuring, output, history>>

StoreMs ==
  /\ tpc = "store"
  /\ ms' = IF pressed THEN ms ELSE Sum(loaded)
  /\ loaded' = 0
  /\ tpc' = IF ctrl = "duty" THEN "early" ELSE "gate"
  /\ UNCHANGED <<conf, before, life, pressed, last, configuring, output, history>>

(* Without enough time at zero the motor is braked, and if the throttle is *)
(* not at zero the time begins anew: nothing was added since last time.    *)
(* pulses_without_power_before is an integer number of milliseconds.       *)
Trunc(t) == (t \div MsTicks) * MsTicks

GateKeep ==   \* mutant: the time goes on where it was
  /\ tpc = "gate" /\ tpc' = "sleep" /\ pressed' = FALSE
  /\ Held
  /\ before' = Trunc(ms)
  /\ last' = "brake"
  /\ UNCHANGED <<conf, ms, life, loaded, configuring, output, history>>

GateClosed ==
  /\ tpc = "gate" /\ tpc' = "sleep" /\ pressed' = FALSE
  /\ Held
  /\ ms' = IF ms = before THEN 0 ELSE ms
  /\ before' = Trunc(ms')
  /\ last' = "brake"
  /\ UNCHANGED <<conf, life, loaded, configuring, output, history>>

(* The level pressed asks for current.  Otherwise it is at zero, which     *)
(* lets go or, with the cruise control, keeps the speed, or asks to brake. *)
GateOpen ==
  /\ tpc = "gate" /\ tpc' = "sleep" /\ pressed' = FALSE
  /\ ~Held
  /\ last' \in IF ctrl # "current" THEN {last}
               ELSE IF pressed THEN {"drive"} ELSE {"drive", "release", "brake"}
  /\ UNCHANGED <<conf, safety, life, loaded, configuring, output, history>>

AdcThread ==
  \/ Begin \/ Leave \/ End \/ Pass \/ ReadLevel \/ Early \/ LoadMs \/ StoreMs
  \/ GateClosed \/ GateOpen

-----------------------------------------------------------------------------
(* app_set_configuration: app_adc_stop, app_adc_start, app_adc_configure.  *)

At(c, here, there) == cpc[c] = here /\ cpc' = [cpc EXCEPT ![c] = there]

Stop(c) ==
  /\ At(c, "idle", "wait")
  /\ configs < MaxConfigs /\ configs + calls < MaxCalls
  /\ configs' = configs + 1
  /\ stopNow' = TRUE
  /\ crossed' = (crossed \/ tpc = "created" \/ \E e \in Configurers : cpc[e] # "idle")
  /\ UNCHANGED <<conf, safety, isRunning, live, thread, output, history>>

WaitNot(c) ==   \* mutant: the end of the thread is not waited for
  /\ At(c, "wait", "start")
  /\ UNCHANGED <<conf, safety, life, thread, configs, crossed, output, history>>

Wait(c) ==
  /\ At(c, "wait", "start")
  /\ ~isRunning
  /\ UNCHANGED <<conf, safety, life, thread, configs, crossed, output, history>>

StartNot(c) ==   \* mutant: stop_now is not set back
  /\ At(c, "start", "create")
  /\ UNCHANGED <<conf, safety, life, thread, configs, crossed, output, history>>

StartApp(c) ==
  /\ At(c, "start", "create")
  /\ stopNow' = FALSE
  /\ UNCHANGED <<conf, safety, isRunning, live, thread, configs, crossed, output, history>>

Create(c) ==
  /\ At(c, "create", "configure")
  /\ live' = live + 1
  /\ tpc' = "created"
  /\ crossed' = (crossed \/ tpc = "leaving")
  /\ UNCHANGED <<conf, safety, stopNow, isRunning, pressed, loaded, last, configs,
                 output, history>>

Configure(c) ==
  /\ At(c, "configure", "reset")
  /\ ctrl' \in CtrlTypes /\ safe' \in SafeStarts
  /\ torn' = TRUE
  /\ UNCHANGED <<safety, life, thread, configs, crossed, output, run, armed>>

ResetMs(c) ==
  /\ At(c, "reset", "idle")
  /\ ms' = 0
  /\ run' = 0 /\ armed' = FALSE
  /\ torn' = (tpc \in {"early", "store", "gate"})
  /\ UNCHANGED <<conf, before, life, thread, configs, crossed, output>>

Configurer(c) == Wait(c) \/ StartApp(c) \/ Create(c) \/ Configure(c) \/ ResetMs(c)

-----------------------------------------------------------------------------
(* app_disable_output and output_vt_cb.                                    *)

Turn(d, here, there) == dpc[d] = here /\ dpc' = [dpc EXCEPT ![d] = there]
Idle(d) == dpc[d] = "idle"

Call(d) ==
  /\ configs + calls < MaxCalls /\ calls' = calls + 1
  /\ \E arg \in {"enable", "time", "forever"} : Turn(d, "idle", arg)
  /\ forever' = FALSE
  /\ fired' = \E e \in Disablers \ {d} : ~Idle(e)
  /\ UNCHANGED <<conf, safety, life, thread, configuring, disabled, timer, history>>

EnableNow(d) ==
  /\ Turn(d, "enable", "idle")
  /\ disabled' = FALSE
  /\ UNCHANGED <<conf, safety, life, thread, configuring, timer, calls, forever,
                 fired, history>>

DisableTime(d) ==
  /\ Turn(d, "time", "set")
  /\ disabled' = TRUE
  /\ UNCHANGED <<conf, safety, life, thread, configuring, timer, calls, forever,
                 fired, history>>

SetTimer(d) ==
  /\ Turn(d, "set", "idle")
  /\ timer' = TRUE
  /\ UNCHANGED <<conf, safety, life, thread, configuring, disabled, calls, forever,
                 fired, history>>

DisableForever(d) ==
  /\ Turn(d, "forever", "cancel")
  /\ disabled' = TRUE
  /\ UNCHANGED <<conf, safety, life, thread, configuring, timer, calls, forever,
                 fired, history>>

CancelNot(d) ==   \* mutant: the timer goes on
  /\ Turn(d, "cancel", "idle")
  /\ forever' = TRUE
  /\ UNCHANGED <<conf, safety, life, thread, configuring, disabled, timer, calls,
                 fired, history>>

CancelTimer(d) ==
  /\ Turn(d, "cancel", "idle")
  /\ timer' = FALSE
  /\ forever' = \A e \in Disablers \ {d} : Idle(e)
  /\ UNCHANGED <<conf, safety, life, thread, configuring, disabled, calls, fired,
                 history>>

TimerOnly ==   \* mutant: the callback does not set output_disabled_now
  /\ timer /\ timer' = FALSE
  /\ fired' = (fired \/ \E d \in Disablers : ~Idle(d))
  /\ UNCHANGED <<conf, safety, life, thread, configuring, disabled, dpc, calls, forever,
                 history>>

TimerFires ==
  /\ timer /\ timer' = FALSE
  /\ disabled' = FALSE
  /\ fired' = (fired \/ \E d \in Disablers : ~Idle(d))
  /\ UNCHANGED <<conf, safety, life, thread, configuring, dpc, calls, forever, history>>

Disabler(d) == EnableNow(d) \/ DisableTime(d) \/ SetTimer(d) \/ DisableForever(d) \/ CancelTimer(d)

-----------------------------------------------------------------------------
(* What a thread does whose working area is given to another is unknown:   *)
(* nothing that comes after is modelled.                                   *)
Next ==
  /\ live <= 1
  /\ \/ AdcThread \/ TimerFires
     \/ \E c \in Configurers : Stop(c) \/ Configurer(c)
     \/ \E d \in Disablers : Call(d) \/ Disabler(d)

(* The threads are scheduled in turns and the timer expires.               *)
Fairness ==
  /\ WF_vars(live <= 1 /\ AdcThread) /\ WF_vars(live <= 1 /\ TimerFires)
  /\ \A c \in Configurers : WF_vars(live <= 1 /\ Configurer(c))
  /\ \A d \in Disablers : WF_vars(live <= 1 /\ Disabler(d))

Spec == Init /\ [][Next]_vars /\ Fairness

-----------------------------------------------------------------------------
(* Properties.                                                             *)

TypeOK ==
  /\ stopNow \in BOOLEAN /\ isRunning \in BOOLEAN /\ pressed \in BOOLEAN
  /\ disabled \in BOOLEAN /\ timer \in BOOLEAN
  /\ ctrl \in CtrlTypes /\ safe \in SafeStarts
  /\ ms \in 0..MinTicks /\ before \in 0..MinTicks
  /\ loaded \in 0..MinTicks /\ run \in 0..MinTicks
  /\ tpc \in {"none", "created", "sleep", "read", "early", "load", "store", "gate", "leaving"}
  /\ last \in {"none", "brake", "release", "drive"}
  /\ cpc \in [Configurers -> {"idle", "wait", "start", "create", "configure", "reset"}]
  /\ dpc \in [Disablers -> {"idle", "enable", "time", "set", "forever", "cancel"}]
  /\ live \in 0..2 /\ crossed \in BOOLEAN

(* With safe start, the motor is driven only after the throttle has been   *)
(* at zero for MIN_MS_WITHOUT_POWER on end since the last fault and the    *)
(* last configuration, unless the configuration came within a pass, or a   *)
(* pass between its two stores.                                            *)
Drives == tpc \in {"early", "gate"} /\ tpc' # tpc /\ last' = "drive" /\ ~Held

SafeStart == [][Drives => armed \/ torn \/ safe = "off"]_vars

(* The wait of app_adc_stop is enough to keep the working area of          *)
(* adc_thread to one thread, however often it is configured and by         *)
(* whichever threads, but for three windows, none of which the code closes: *)
(* two calls of app_set_configuration overlap; one comes before the thread *)
(* that the last one created has set is_running; or the old thread, having *)
(* cleared is_running, has still not ended when the new one is created.    *)
OneThread == live > 1 => crossed

(* app.c:169: after a call with -1 the output is disabled for ever (until  *)
(* the next call), provided the timer of an earlier call does not fire     *)
(* within this one and no other thread calls.                              *)
DisabledForever == forever /\ ~fired => disabled

(* Output that one thread disables, and not for ever, is enabled again.    *)
EnabledAgain == []<>(disabled => forever \/ live > 1)

(* A new configuration gets through: the old thread ends and the new one   *)
(* reaches its loop, before the next configuration comes.  A call that     *)
(* overlaps another can find stop_now set back by it and wait for ever.    *)
Reconfigured ==
  []<>(configs = 0 \/ crossed \/ (isRunning /\ \A c \in Configurers : cpc[c] = "idle"))
=============================================================================
