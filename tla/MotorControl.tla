---------------------------- MODULE MotorControl ----------------------------
(***************************************************************************)
(* The motor interface of the firmware (mc_interface.c) with the threads   *)
(* that share it: command threads, the fault stop thread, the 1 ms         *)
(* interface timer, the 1 ms FOC timer, the PID thread, the ADC interrupt, *)
(* the 10 ms timeout thread, a thread storing a configuration and a thread *)
(* running a detection under the interface lock.  Single motor hardware,   *)
(* FOC mode.                                                               *)
(*                                                                         *)
(* Command threads differ in when they reset the timeout: after a command, *)
(* before it, or only when a pulse has come.                               *)
(*                                                                         *)
(* None of the state is protected by a mutex.  A step is one access to a   *)
(* variable another thread or the interrupt also uses.  Threads of         *)
(* priority NORMALPRIO interleave freely (round robin, quantum of 0.4 ms); *)
(* the fault stop thread runs at HIGHPRIO - 3 and preempts all of them;    *)
(* the interrupt preempts everything outside a system lock.                *)
(***************************************************************************)
EXTENDS Naturals

CONSTANTS
  Commanders,    (* a command, then timeout_reset: packets, CAN, ADC (duty)*)
  AdcApps,       (* app_adc in current control: timeout_reset first        *)
  PpmApps,       (* app_ppm: timeout_reset when a pulse has come           *)
  Requests,      (* the commands they send                                 *)
  Storers,       (* threads in conf_general_store_*_configuration          *)
  Detectors,     (* threads that run a detection under the interface lock  *)
  TimeoutThd,    (* timeout_thread                                         *)
  PidThd,        (* pid_thread of mcpwm_foc.c                              *)
  Faults,        (* fault codes that can be raised                         *)
  NoFault,       (* FAULT_CODE_NONE                                        *)
  StopTime,      (* m_fault_stop_time_ms, in 1 ms ticks                    *)
  KillTime,      (* what a kill switch passes to ignore_input_both         *)
  TimeoutLoops,  (* timeout_msec, in 10 ms loops of that thread; 0: never  *)
  BrakeDrives,   (* timeout_brake_current >= cc_min_current                *)
  KillSwitch     (* a kill switch input is configured                      *)

Apps == Commanders \cup AdcApps \cup PpmApps
Callers == Apps \cup Storers \cup Detectors \cup {TimeoutThd}

(* set_duty, set_pid_speed and set_pid_pos, set_current above and below    *)
(* the minimum, set_brake_current, set_openloop_phase.                     *)
Ops == {"duty", "pid", "drive", "release", "brake", "openloop"}
Drives(o) == o \notin {"release", "brake"}

ASSUME MotorAssumption ==
  /\ Requests \subseteq Ops \ {"openloop"}
  /\ NoFault \notin Faults
  /\ TimeoutThd \notin Apps \cup Storers \cup Detectors
  /\ PidThd \notin Callers
  /\ Commanders \cap (AdcApps \cup PpmApps) = {} /\ AdcApps \cap PpmApps = {}
  /\ Apps \cap (Storers \cup Detectors) = {} /\ Storers \cap Detectors = {}
  /\ StopTime \in Nat \ {0}
  /\ KillTime \in Nat \ {0}
  /\ TimeoutLoops \in Nat \ {1}
  /\ BrakeDrives \in BOOLEAN
  /\ KillSwitch \in BOOLEAN

VARIABLES
  mode,        \* m_control_mode
  state,       \* m_state: "off" or "running" (FOC has no other)
  iq,          \* m_iq_set: "low" (below cc_min_current) or what set it
  id,          \* m_id_set: "low" or "drive" (only open loop commands set it)
  out,         \* m_output_on: the half bridges are driven
  ignore,      \* m_ignore_iterations
  locked,      \* m_lock_enabled
  once,        \* m_lock_override_once
  faultNow,    \* m_fault_now
  mailFault,   \* m_fault_stop_fault
  event,       \* event flag 1 of the fault stop thread
  shown,       \* history: the last fault raised has been shown since
  faultPc,     \* where the fault stop thread is
  tickPc,      \* where the interface timer thread is
  tickVal,     \* the counter value it has read
  pidPc,       \* where the PID thread is
  at,          \* where each caller is, in its loop or inside a command
  op,          \* which command
  ret,         \* retval of its try_input is not zero
  drove,       \* history: who has driven the motor since the timeout thread
               \* began to act, or since its last accepted brake command
  tmoPc,       \* where the timeout thread is
  age,         \* 10 ms loops since timeout_reset
  hasTimeout, killActive,
  killNow,     \* kill_sw as sampled in this loop
  killPin,     \* the kill switch input
  storePc, pass,   \* a storing thread: where it is, for which motor
  detectPc         \* where each detection is

motor  == <<mode, state, iq, id, out>>
iface  == <<ignore, locked, once, faultNow>>
mail   == <<mailFault, event, shown>>
tick   == <<tickPc, tickVal, pidPc>>
calls  == <<at, op, ret, drove>>
tmo    == <<tmoPc, age, hasTimeout, killActive, killNow>>
store  == <<storePc, pass>>

vars == <<motor, iface, mail, faultPc, tick, calls, tmo, killPin, store, detectPc>>

IqOf(o) == IF o = "drive" \/ (o = "brake" /\ BrakeDrives) THEN o ELSE "low"
IdOf(o) == IF o = "openloop" THEN "drive" ELSE "low"
ModeOf(o) == IF o \in {"drive", "release"} THEN "current" ELSE o
Starts(o) == o # "release" /\ (o = "brake" => BrakeDrives)

Init ==
  /\ mode = "none" /\ state = "off" /\ iq = "low" /\ id = "low" /\ out = FALSE
  /\ ignore = 0 /\ locked = FALSE /\ once = FALSE /\ faultNow = NoFault
  /\ mailFault = NoFault /\ event = FALSE /\ shown = TRUE /\ faultPc = "wait"
  /\ tickPc = "top" /\ tickVal = 0 /\ pidPc = "test"
  /\ at = [t \in Callers |-> "out"]
  /\ op = [t \in Callers |-> "release"]
  /\ ret = [t \in Callers |-> FALSE]
  /\ drove = {}
  /\ tmoPc = "sleep" /\ age = 0
  /\ hasTimeout = FALSE /\ killActive = FALSE /\ killNow = FALSE
  /\ killPin \in IF KillSwitch THEN BOOLEAN ELSE {FALSE}
  /\ storePc = [s \in Storers |-> "idle"]
  /\ pass = [s \in Storers |-> 1]
  /\ detectPc = [d \in Detectors |-> "idle"]

(* The timeout thread acts on a timeout or a kill switch, or has done so.  *)
Acting == tmoPc # "sleep" \/ hasTimeout \/ killActive

(* A thread of normal priority runs only while the fault stop thread waits. *)
Normal == faultPc = "wait" /\ ~event

-----------------------------------------------------------------------------
(* Faults: the interrupt, the mailbox and the fault stop thread.           *)

(* mc_interface_mc_timer_isr finds a fault and calls fault_stop: the       *)
(* mailbox and the event are written with nothing in between.              *)
IsrFault(f) ==
  /\ mailFault' = f /\ shown' = FALSE
  /\ event' = TRUE
  /\ UNCHANGED <<motor, iface, faultPc, tick, calls, tmo, killPin, store, detectPc>>

(* The ADC interrupt runs the current controller, which switches the       *)
(* bridges on again whenever the state says that the motor is running.     *)
IsrControl ==
  /\ state = "running" /\ ~out
  /\ out' = TRUE
  /\ UNCHANGED <<mode, state, iq, id, iface, mail, faultPc, tick, calls, tmo, killPin,
                 store, detectPc>>

FaultWake ==
  /\ faultPc = "wait" /\ event
  /\ event' = FALSE
  /\ faultPc' = "check"
  /\ UNCHANGED <<motor, iface, mailFault, shown, tick, calls, tmo, killPin, store, detectPc>>

(* The fault is already shown: only the ignore time starts again.          *)
FaultSameAnyFault ==   \* mutant: any fault shown makes the next one a repeat
  /\ faultPc = "check" /\ faultNow # NoFault
  /\ ignore' = StopTime
  /\ shown' = (faultNow = mailFault)
  /\ faultPc' = "wait"
  /\ UNCHANGED <<motor, locked, once, faultNow, mailFault, event, tick, calls, tmo, killPin,
                 store, detectPc>>

FaultSameNoRearm ==   \* mutant: a repeated fault does not restart the ignore time
  /\ faultPc = "check" /\ faultNow = mailFault
  /\ shown' = TRUE
  /\ faultPc' = "wait"
  /\ UNCHANGED <<motor, iface, mailFault, event, tick, calls, tmo, killPin, store, detectPc>>

FaultSame ==
  /\ faultPc = "check" /\ faultNow = mailFault
  /\ ignore' = StopTime
  /\ shown' = TRUE
  /\ faultPc' = "wait"
  /\ UNCHANGED <<motor, locked, once, faultNow, mailFault, event, tick, calls, tmo, killPin,
                 store, detectPc>>

FaultNew ==
  /\ faultPc = "check" /\ faultNow # mailFault
  /\ ignore' = StopTime
  /\ faultPc' = "stop"
  /\ UNCHANGED <<motor, locked, once, faultNow, mail, tick, calls, tmo, killPin, store,
                 detectPc>>

(* mcpwm_foc_stop_pwm: the state first, then the bridges.                  *)
FaultStopState ==
  /\ faultPc = "stop"
  /\ mode' = "none" /\ state' = "off"
  /\ faultPc' = "stop_hw"
  /\ UNCHANGED <<iq, id, out, iface, mail, tick, calls, tmo, killPin, store, detectPc>>

FaultStopHwNoBridges ==   \* mutant: the bridges stay driven
  /\ faultPc = "stop_hw"
  /\ iq' = "low" /\ id' = "low"
  /\ faultPc' = "record"
  /\ UNCHANGED <<mode, state, out, iface, mail, tick, calls, tmo, killPin, store, detectPc>>

FaultStopHw ==
  /\ faultPc = "stop_hw"
  /\ iq' = "low" /\ id' = "low" /\ out' = FALSE
  /\ faultPc' = "record"
  /\ UNCHANGED <<mode, state, iface, mail, tick, calls, tmo, killPin, store, detectPc>>

FaultRecordNothing ==   \* mutant: m_fault_now is never set
  /\ faultPc = "record"
  /\ shown' = (faultNow = mailFault)
  /\ faultPc' = "wait"
  /\ UNCHANGED <<motor, iface, mailFault, event, tick, calls, tmo, killPin, store, detectPc>>

(* The mailbox is read a second time: it may hold a later fault by now.    *)
FaultRecord ==
  /\ faultPc = "record"
  /\ faultNow' = mailFault
  /\ shown' = TRUE
  /\ faultPc' = "wait"
  /\ UNCHANGED <<motor, ignore, locked, once, mailFault, event, tick, calls, tmo, killPin, store,
                 detectPc>>

FaultThread ==
  FaultWake \/ FaultSame \/ FaultNew \/ FaultStopState \/ FaultStopHw \/ FaultRecord

-----------------------------------------------------------------------------
(* The interface timer thread (run_timer_tasks) and the FOC timer thread.  *)

TickLoadNoGuard ==   \* mutant: the counter is decremented at zero too
  /\ Normal /\ tickPc = "top"
  /\ tickVal' = ignore
  /\ tickPc' = "dec"
  /\ UNCHANGED <<motor, iface, mail, faultPc, pidPc, calls, tmo, killPin, store, detectPc>>

(* m_ignore_iterations-- is a load and a store.                            *)
TickLoad ==
  /\ Normal /\ tickPc = "top"
  /\ tickVal' = ignore
  /\ tickPc' = IF ignore > 0 THEN "dec" ELSE "clear"
  /\ UNCHANGED <<motor, iface, mail, faultPc, pidPc, calls, tmo, killPin, store, detectPc>>

TickDec ==
  /\ Normal /\ tickPc = "dec"
  /\ ignore' = tickVal - 1
  /\ tickVal' = 0
  /\ tickPc' = "faults"
  /\ UNCHANGED <<motor, locked, once, faultNow, mail, faultPc, pidPc, calls, tmo, killPin, store,
                 detectPc>>

(* drvFault: the gate driver still reports a fault on its pin.             *)
TickClear(drvFault) ==
  /\ Normal /\ tickPc = "clear"
  /\ faultNow' = IF drvFault THEN faultNow ELSE NoFault
  /\ tickPc' = "faults"
  /\ UNCHANGED <<motor, ignore, locked, once, mail, faultPc, tickVal, pidPc, calls, tmo, killPin,
                 store, detectPc>>

(* A check of the timer tasks calls fault_stop from the thread.            *)
TickRaise(f) ==
  /\ Normal /\ tickPc = "faults"
  /\ mailFault' = f /\ shown' = FALSE
  /\ tickPc' = "signal"
  /\ UNCHANGED <<motor, iface, event, faultPc, tickVal, pidPc, calls, tmo, killPin, store,
                 detectPc>>

TickSignal ==
  /\ Normal /\ tickPc = "signal"
  /\ event' = TRUE
  /\ tickPc' = "faults"
  /\ UNCHANGED <<motor, iface, mailFault, shown, faultPc, tickVal, pidPc, calls, tmo, killPin,
                 store, detectPc>>

TickEnd ==
  /\ Normal /\ tickPc = "faults"
  /\ tickPc' = "top"
  /\ UNCHANGED <<motor, iface, mail, faultPc, tickVal, pidPc, calls, tmo, killPin, store, detectPc>>

TickThread ==
  \/ TickLoad \/ TickDec \/ TickSignal \/ TickEnd
  \/ \E drvFault \in BOOLEAN : TickClear(drvFault)
  \/ \E f \in Faults : TickRaise(f)

FocTimerKeepsBridges ==   \* mutant: stop_pwm_hw forgotten
  /\ Normal
  /\ state = "running" /\ mode \in {"current", "brake", "openloop"}
  /\ iq = "low" /\ id = "low"
  /\ mode' = "none" /\ state' = "off"
  /\ UNCHANGED <<iq, id, out, iface, mail, faultPc, tick, calls, tmo, killPin, store, detectPc>>

(* timer_update, under the system lock: when a current command is below    *)
(* the minimum the modulation is switched off.  A current off delay, field *)
(* weakening or a phase override (3179-3189) only put that off: left out.  *)
FocTimer ==
  /\ Normal
  /\ state = "running" /\ mode \in {"current", "brake", "openloop"}
  /\ iq = "low" /\ id = "low"
  /\ mode' = "none" /\ state' = "off"
  /\ out' = FALSE
  /\ UNCHANGED <<iq, id, iface, mail, faultPc, tick, calls, tmo, killPin, store, detectPc>>

(* pid_thread tests the control mode and stores m_iq_set after its         *)
(* computation, whatever the mode is by then.  A set speed below the       *)
(* minimum makes it return instead: it has not come to the test.           *)
PidTest ==
  /\ Normal /\ pidPc = "test" /\ mode = "pid"
  /\ pidPc' = "store"
  /\ UNCHANGED <<motor, iface, mail, faultPc, tickPc, tickVal, calls, tmo, killPin, store,
                 detectPc>>

PidStore(level) ==
  /\ Normal /\ pidPc = "store"
  /\ iq' = level
  /\ drove' = IF Acting /\ level = "drive" THEN drove \cup {PidThd} ELSE drove
  /\ pidPc' = "test"
  /\ UNCHANGED <<mode, state, id, out, iface, mail, faultPc, tickPc, tickVal, at, op, ret, tmo,
                 killPin, store, detectPc>>

PidThread == PidTest \/ \E level \in {"low", "drive"} : PidStore(level)

-----------------------------------------------------------------------------
(* An mc_interface command in thread t: mc_interface_try_input, then the   *)
(* setter of mcpwm_foc.c.                                                  *)

(* Only these reset the timeout after a command, accepted or not.          *)
After(t) == IF t \in Commanders THEN "feed" ELSE "out"

(* The command is forgotten when the thread leaves it.                     *)
Goto(t, pc) ==
  /\ at' = [at EXCEPT ![t] = pc]
  /\ op' = [op EXCEPT ![t] = IF pc \in {"feed", "out"} THEN "release" ELSE @]

Begin(t, o) ==
  /\ at' = [at EXCEPT ![t] = "load"]
  /\ op' = [op EXCEPT ![t] = o]
  /\ UNCHANGED <<ret, drove>>

TryLoad(t) ==
  /\ Normal /\ at[t] = "load"
  /\ ret' = [ret EXCEPT ![t] = ignore > 0]
  /\ Goto(t, "lock")
  /\ UNCHANGED <<motor, iface, mail, faultPc, tick, drove, tmo, killPin, store, detectPc>>

(* The counter is read a second time before the lock is looked at; these   *)
(* three reads are one step: an interleaving of another thread between     *)
(* them only refuses a command that one step would refuse or let through.  *)
TryLock(t) ==
  LET gated == ignore = 0 /\ locked
  IN /\ Normal /\ at[t] = "lock"
     /\ Goto(t, IF gated /\ once THEN "take"
                ELSE IF gated \/ ret[t] THEN After(t) ELSE "mode")
     /\ ret' = [ret EXCEPT ![t] = @ /\ gated /\ once]
     /\ UNCHANGED <<motor, iface, mail, faultPc, tick, drove, tmo, killPin, store, detectPc>>

TryTake(t) ==
  /\ Normal /\ at[t] = "take"
  /\ once' = FALSE
  /\ Goto(t, IF ret[t] THEN After(t) ELSE "mode")
  /\ ret' = [ret EXCEPT ![t] = FALSE]
  /\ UNCHANGED <<motor, ignore, locked, faultNow, mail, faultPc, tick, drove, tmo, killPin, store,
                 detectPc>>

(* History: t stores part of a command that drives the motor.              *)
Drove(t) == drove' = IF Acting /\ Drives(op[t]) THEN drove \cup {t} ELSE drove

SetMode(t) ==
  /\ Normal /\ at[t] = "mode"
  /\ mode' = ModeOf(op[t])
  /\ IF t = TimeoutThd THEN drove' = {} ELSE Drove(t)
  /\ Goto(t, CASE op[t] \in {"duty", "pid"} -> "run"
              [] op[t] = "openloop" -> "id"
              [] OTHER -> "iq")
  /\ UNCHANGED <<state, iq, id, out, iface, mail, faultPc, tick, ret, tmo, killPin, store,
                 detectPc>>

(* Below the minimum current the setter returns before it starts the motor.*)
Set(t) == IF Starts(op[t]) THEN "run" ELSE After(t)

(* A current command stores iq, then id; an open loop one id, then iq; a   *)
(* brake command leaves id alone.                                          *)
SetIq(t) ==
  /\ Normal /\ at[t] = "iq"
  /\ iq' = IqOf(op[t])
  /\ Drove(t)
  /\ Goto(t, IF ModeOf(op[t]) = "current" THEN "id" ELSE Set(t))
  /\ UNCHANGED <<mode, state, id, out, iface, mail, faultPc, tick, ret, tmo, killPin, store,
                 detectPc>>

SetId(t) ==
  /\ Normal /\ at[t] = "id"
  /\ id' = IdOf(op[t])
  /\ Drove(t)
  /\ Goto(t, IF op[t] = "openloop" THEN "iq" ELSE Set(t))
  /\ UNCHANGED <<mode, state, iq, out, iface, mail, faultPc, tick, ret, tmo, killPin, store,
                 detectPc>>

(* The setter looks at the state first and stores only a change.           *)
SetCheck(t) ==
  /\ Normal /\ at[t] = "run"
  /\ Goto(t, IF state = "running" THEN After(t) ELSE "start")
  /\ UNCHANGED <<motor, iface, mail, faultPc, tick, ret, drove, tmo, killPin, store,
                 detectPc>>

SetRun(t) ==
  /\ Normal /\ at[t] = "start"
  /\ state' = "running"
  /\ Drove(t)
  /\ Goto(t, After(t))
  /\ UNCHANGED <<mode, iq, id, out, iface, mail, faultPc, tick, ret, tmo, killPin, store,
                 detectPc>>

CallStep(t) ==
  \/ TryLoad(t) \/ TryLock(t) \/ TryTake(t)
  \/ SetMode(t) \/ SetIq(t) \/ SetId(t) \/ SetCheck(t) \/ SetRun(t)

-----------------------------------------------------------------------------
(* Command threads.                                                        *)
(* Thread c goes to pc without a command: feeding the timeout or not.      *)
Loop(c, pc) ==
  /\ Goto(c, pc)
  /\ UNCHANGED <<motor, iface, mail, faultPc, tick, ret, drove, tmoPc, hasTimeout, killActive,
                 killNow, killPin, store, detectPc>>

Call(c, o) ==
  /\ Begin(c, o)
  /\ UNCHANGED <<motor, iface, mail, faultPc, tick, tmo, killPin, store, detectPc>>

(* A packet, a CAN frame, or a pass of app_adc under duty cycle or speed   *)
(* control: a command, then timeout_reset.                                 *)
Command(c, o) == Normal /\ at[c] = "out" /\ Call(c, o)

Feed(c) == Normal /\ at[c] = "feed" /\ age' = 0 /\ Loop(c, "out")

CommandThread(c) == Feed(c) \/ CallStep(c)

(* A pass of app_adc under current control: timeout_reset, then a command. *)
(* Safe start brakes and does not reset.                                   *)
AdcReset(a) == Normal /\ at[a] = "out" /\ age' = 0 /\ Loop(a, "fed")

AdcCommand(a, o) == Normal /\ at[a] = "fed" /\ Call(a, o)

AdcBrake(a) == Normal /\ at[a] = "out" /\ Call(a, "brake")

AdcThread(a) == (\E o \in Requests : AdcCommand(a, o)) \/ CallStep(a)

(* A pass of app_ppm: timeout_reset when a pulse has come, then the test of*)
(* has_timeout, then a command or none.                                    *)
PpmPulse(p) == Normal /\ at[p] = "out" /\ age' = 0 /\ Loop(p, "test")

PpmWake(p) == Normal /\ at[p] = "out" /\ Loop(p, "test") /\ UNCHANGED age

PpmTestNone(p) ==   \* mutant: has_timeout is not tested
  Normal /\ at[p] = "test" /\ Loop(p, "passed") /\ UNCHANGED age

PpmTest(p) ==
  Normal /\ at[p] = "test" /\ ~hasTimeout /\ Loop(p, "passed") /\ UNCHANGED age

(* has_timeout, or the pulse itself is too old.                            *)
PpmBrake(p) == Normal /\ at[p] = "test" /\ Call(p, "brake")

PpmCommand(p, o) == Normal /\ at[p] = "passed" /\ Call(p, o)

PpmSkip(p) == Normal /\ at[p] = "passed" /\ Loop(p, "out") /\ UNCHANGED age

PpmThread(p) ==
  \/ PpmWake(p) \/ PpmTest(p) \/ PpmBrake(p) \/ PpmSkip(p)
  \/ (\E o \in Requests : PpmCommand(p, o)) \/ CallStep(p)

-----------------------------------------------------------------------------
(* The timeout thread.  One motor is brakes twice, once per motor number.  *)

KillPin ==
  /\ KillSwitch
  /\ killPin' = ~killPin
  /\ UNCHANGED <<motor, iface, mail, faultPc, tick, calls, tmo, store, detectPc>>

(* The age in this pass, and whether the pass acts.                        *)
Older == IF age < TimeoutLoops THEN age + 1 ELSE age
Fires == killPin \/ (TimeoutLoops # 0 /\ Older = TimeoutLoops)

TmoSampleNoOverride ==   \* mutant: no mc_interface_release_motor_override
  /\ Normal /\ tmoPc = "sleep"
  /\ age' = Older
  /\ killNow' = killPin
  /\ tmoPc' = IF Fires THEN "unlock" ELSE "sleep"
  /\ drove' = IF Fires /\ (hasTimeout \/ killActive) THEN drove ELSE {}
  /\ hasTimeout' = (Fires /\ hasTimeout)
  /\ killActive' = (Fires /\ killActive)
  /\ UNCHANGED <<motor, iface, mail, faultPc, tick, at, op, ret, killPin, store, detectPc>>

TmoSampleOnce ==   \* mutant: acts on the first timeout only, never clears has_timeout
  /\ Normal /\ tmoPc = "sleep"
  /\ age' = Older
  /\ killNow' = killPin
  /\ tmoPc' = IF Fires /\ ~hasTimeout THEN "override" ELSE "sleep"
  /\ drove' = IF Fires /\ (hasTimeout \/ killActive) THEN drove ELSE {}
  /\ killActive' = (Fires /\ killActive)
  /\ UNCHANGED <<motor, iface, mail, faultPc, tick, at, op, ret, hasTimeout, killPin, store,
                 detectPc>>

TmoSampleNoKill ==   \* mutant: the override is for an expired timeout only
  /\ Normal /\ tmoPc = "sleep"
  /\ age' = Older
  /\ killNow' = killPin
  /\ tmoPc' = IF ~Fires THEN "sleep"
              ELSE IF killPin \/ hasTimeout \/ killActive THEN "unlock" ELSE "override"
  /\ drove' = IF Fires /\ (hasTimeout \/ killActive) THEN drove ELSE {}
  /\ hasTimeout' = (Fires /\ hasTimeout)
  /\ killActive' = (Fires /\ killActive)
  /\ UNCHANGED <<motor, iface, mail, faultPc, tick, at, op, ret, killPin, store, detectPc>>

TmoSample ==
  /\ Normal /\ tmoPc = "sleep"
  /\ age' = Older
  /\ killNow' = killPin
  /\ tmoPc' = IF ~Fires THEN "sleep"
              ELSE IF hasTimeout \/ killActive THEN "unlock" ELSE "override"
  /\ drove' = IF Fires /\ (hasTimeout \/ killActive) THEN drove ELSE {}
  /\ hasTimeout' = (Fires /\ hasTimeout)
  /\ killActive' = (Fires /\ killActive)
  /\ UNCHANGED <<motor, iface, mail, faultPc, tick, at, op, ret, killPin, store, detectPc>>

(* mc_interface_release_motor_override: no try_input.                      *)
TmoOverrideMode ==
  /\ Normal /\ tmoPc = "override"
  /\ mode' = "current"
  /\ tmoPc' = "override_iq"
  /\ UNCHANGED <<state, iq, id, out, iface, mail, faultPc, tick, calls, age, hasTimeout,
                 killActive, killNow, killPin, store, detectPc>>

TmoOverrideIq ==
  /\ Normal /\ tmoPc = "override_iq"
  /\ iq' = "low"
  /\ tmoPc' = "override_id"
  /\ UNCHANGED <<mode, state, id, out, iface, mail, faultPc, tick, calls, age, hasTimeout,
                 killActive, killNow, killPin, store, detectPc>>

TmoOverrideId ==
  /\ Normal /\ tmoPc = "override_id"
  /\ id' = "low"
  /\ tmoPc' = "unlock"
  /\ UNCHANGED <<mode, state, iq, out, iface, mail, faultPc, tick, calls, age, hasTimeout,
                 killActive, killNow, killPin, store, detectPc>>

TmoUnlock ==
  /\ Normal /\ tmoPc = "unlock"
  /\ locked' = FALSE
  /\ tmoPc' = "brake1"
  /\ UNCHANGED <<motor, ignore, once, faultNow, mail, faultPc, tick, calls, age, hasTimeout,
                 killActive, killNow, killPin, store, detectPc>>

TmoBrake(from, to) ==
  /\ Normal /\ tmoPc = from /\ at[TimeoutThd] = "out"
  /\ Begin(TimeoutThd, "brake")
  /\ tmoPc' = to
  /\ UNCHANGED <<motor, iface, mail, faultPc, tick, age, hasTimeout, killActive, killNow,
                 killPin, store, detectPc>>

(* mc_interface_ignore_input_both compares and stores in two accesses.     *)
TmoMark ==
  /\ Normal /\ tmoPc = "mark" /\ at[TimeoutThd] = "out"
  /\ hasTimeout' = (hasTimeout \/ ~killNow)
  /\ killActive' = killNow
  /\ tmoPc' = IF killNow /\ KillTime > ignore THEN "raise" ELSE "sleep"
  /\ UNCHANGED <<motor, iface, mail, faultPc, tick, calls, age, killNow, killPin, store,
                 detectPc>>

(* What another thread has stored since the comparison is overwritten, a   *)
(* longer fault time of the fault stop thread too.                         *)
TmoRaise ==
  /\ Normal /\ tmoPc = "raise"
  /\ ignore' = KillTime
  /\ tmoPc' = "sleep"
  /\ UNCHANGED <<motor, locked, once, faultNow, mail, faultPc, tick, calls, age, hasTimeout,
                 killActive, killNow, killPin, store, detectPc>>

TimeoutThread ==
  \/ TmoSample \/ TmoOverrideMode \/ TmoOverrideIq \/ TmoOverrideId \/ TmoUnlock
  \/ TmoBrake("brake1", "brake2") \/ TmoBrake("brake2", "mark")
  \/ TmoMark \/ TmoRaise \/ CallStep(TimeoutThd)

-----------------------------------------------------------------------------
(* conf_general_store_mc_configuration and _app_configuration: once per    *)
(* motor number unlock, release, lock and wait; then write the flash.      *)

StoreGoto(s, pc) == storePc' = [storePc EXCEPT ![s] = pc]

StoreUnlock(s) ==
  /\ Normal /\ storePc[s] \in {"idle", "unlock"}
  /\ locked' = FALSE
  /\ StoreGoto(s, "release")
  /\ UNCHANGED <<motor, ignore, once, faultNow, mail, faultPc, tick, calls, tmo, killPin, pass,
                 detectPc>>

StoreRelease(s) ==
  /\ Normal /\ storePc[s] = "release"
  /\ Begin(s, "release")
  /\ StoreGoto(s, "lock")
  /\ UNCHANGED <<motor, iface, mail, faultPc, tick, tmo, killPin, pass, detectPc>>

StoreLock(s) ==
  /\ Normal /\ storePc[s] = "lock" /\ at[s] = "out"
  /\ locked' = TRUE
  /\ StoreGoto(s, "wait")
  /\ UNCHANGED <<motor, ignore, once, faultNow, mail, faultPc, tick, calls, tmo, killPin, pass,
                 detectPc>>

(* mc_interface_wait_for_motor_release sees the motor off.                 *)
StoreWait(s) ==
  /\ Normal /\ storePc[s] = "wait" /\ state = "off"
  /\ StoreGoto(s, IF pass[s] = 1 THEN "unlock" ELSE "write")
  /\ pass' = [pass EXCEPT ![s] = 3 - @]
  /\ UNCHANGED <<motor, iface, mail, faultPc, tick, calls, tmo, killPin, detectPc>>

StoreGiveUpLocked(s) ==   \* mutant: the failing path forgets the unlock
  /\ Normal /\ storePc[s] = "wait" /\ state = "running"
  /\ StoreGoto(s, "idle")
  /\ pass' = [pass EXCEPT ![s] = 1]
  /\ UNCHANGED <<motor, iface, mail, faultPc, tick, calls, tmo, killPin, detectPc>>

(* It does not within two seconds: the lock is undone, nothing is stored.  *)
StoreGiveUp(s) ==
  /\ Normal /\ storePc[s] = "wait" /\ state = "running"
  /\ locked' = FALSE
  /\ StoreGoto(s, "idle")
  /\ pass' = [pass EXCEPT ![s] = 1]
  /\ UNCHANGED <<motor, ignore, once, faultNow, mail, faultPc, tick, calls, tmo, killPin,
                 detectPc>>

(* The flash is written under the system lock: no thread runs meanwhile.   *)
StoreWrite(s) ==
  /\ Normal /\ storePc[s] = "write"
  /\ StoreGoto(s, "settle")
  /\ UNCHANGED <<motor, iface, mail, faultPc, tick, calls, tmo, killPin, pass, detectPc>>

(* After 100 ms in which the other threads run again.                      *)
StoreDone(s) ==
  /\ Normal /\ storePc[s] = "settle"
  /\ locked' = FALSE
  /\ StoreGoto(s, "idle")
  /\ UNCHANGED <<motor, ignore, once, faultNow, mail, faultPc, tick, calls, tmo, killPin, pass,
                 detectPc>>

StoreThread(s) ==
  \/ StoreRelease(s) \/ StoreLock(s) \/ StoreWait(s) \/ StoreGiveUp(s) \/ StoreWrite(s)
  \/ StoreDone(s) \/ (storePc[s] = "unlock" /\ StoreUnlock(s)) \/ CallStep(s)

-----------------------------------------------------------------------------
(* hall_analyze, a detection: lock, any number of open loop commands that  *)
(* go to mcpwm_foc.c directly, each after a timeout_reset, then one release*)
(* let through by mc_interface_lock_override_once, and unlock.             *)

DetectGoto(d, pc) == detectPc' = [detectPc EXCEPT ![d] = pc]

DetectLock(d) ==
  /\ Normal /\ detectPc[d] = "idle" /\ at[d] = "out"
  /\ locked' = TRUE
  /\ DetectGoto(d, "held")
  /\ UNCHANGED <<motor, ignore, once, faultNow, mail, faultPc, tick, calls, tmo, killPin, store>>

DetectDrive(d) ==
  /\ Normal /\ detectPc[d] = "held" /\ at[d] = "out"
  /\ age' = 0
  /\ op' = [op EXCEPT ![d] = "openloop"]
  /\ at' = [at EXCEPT ![d] = "mode"]
  /\ UNCHANGED <<motor, iface, mail, faultPc, tick, ret, drove, tmoPc, hasTimeout, killActive,
                 killNow, killPin, store, detectPc>>

DetectOverride(d) ==
  /\ Normal /\ detectPc[d] = "held" /\ at[d] = "out"
  /\ once' = TRUE
  /\ DetectGoto(d, "release")
  /\ UNCHANGED <<motor, ignore, locked, faultNow, mail, faultPc, tick, calls, tmo, killPin,
                 store>>

DetectRelease(d) ==
  /\ Normal /\ detectPc[d] = "release"
  /\ Begin(d, "release")
  /\ DetectGoto(d, "unlock")
  /\ UNCHANGED <<motor, iface, mail, faultPc, tick, tmo, killPin, store>>

(* mc_interface_wait_for_motor_release waits for at most a second, and the *)
(* detection goes on whatever it returns.                                  *)
DetectUnlock(d) ==
  /\ Normal /\ detectPc[d] = "unlock" /\ at[d] = "out"
  /\ locked' = FALSE
  /\ DetectGoto(d, "idle")
  /\ UNCHANGED <<motor, ignore, once, faultNow, mail, faultPc, tick, calls, tmo, killPin, store>>

-----------------------------------------------------------------------------
Environment ==
  \/ \E f \in Faults : IsrFault(f)
  \/ \E c \in Commanders, o \in Requests : Command(c, o)
  \/ \E a \in AdcApps : AdcReset(a) \/ AdcBrake(a)
  \/ \E p \in PpmApps : PpmPulse(p)
  \/ \E s \in Storers : storePc[s] = "idle" /\ StoreUnlock(s)
  \/ \E d \in Detectors : DetectLock(d) \/ DetectDrive(d)
  \/ KillPin

DetectThread(d) == DetectOverride(d) \/ DetectRelease(d) \/ DetectUnlock(d) \/ CallStep(d)

Threads ==
  \/ IsrControl \/ FaultThread \/ TickThread \/ FocTimer \/ PidThread \/ TimeoutThread
  \/ \E c \in Commanders : CommandThread(c)
  \/ \E a \in AdcApps : AdcThread(a)
  \/ \E p \in PpmApps : PpmThread(p)
  \/ \E s \in Storers : StoreThread(s)
  \/ \E d \in Detectors : DetectThread(d)

Next == Environment \/ Threads

Spec == Init /\ [][Next]_vars

(* Every thread of the firmware is an endless loop that the round robin    *)
(* scheduler runs again and again, and the interrupt recurs with each PWM  *)
(* period; app_ppm wakes every 2 ms.  New commands, pulses, ADC values,    *)
(* faults and stores come from outside: not fair.                          *)
Fairness ==
  /\ WF_vars(IsrControl) /\ WF_vars(FaultThread) /\ WF_vars(TickThread)
  /\ WF_vars(FocTimer) /\ WF_vars(TimeoutThread)
  /\ \A c \in Commanders : WF_vars(CommandThread(c))
  /\ \A a \in AdcApps : WF_vars(AdcThread(a))
  /\ \A p \in PpmApps : WF_vars(PpmThread(p))

LiveSpec == Spec /\ Fairness

-----------------------------------------------------------------------------
(* Type invariant. *)
TypeOK ==
  /\ mode \in {"none", "duty", "pid", "current", "brake", "openloop"}
  /\ state \in {"off", "running"}
  /\ iq \in {"low", "drive", "brake"} /\ id \in {"low", "drive"} /\ out \in BOOLEAN
  /\ ignore \in Nat /\ locked \in BOOLEAN /\ once \in BOOLEAN
  /\ faultNow \in Faults \cup {NoFault}
  /\ mailFault \in Faults \cup {NoFault} /\ event \in BOOLEAN /\ shown \in BOOLEAN
  /\ faultPc \in {"wait", "check", "stop", "stop_hw", "record"}
  /\ tickPc \in {"top", "dec", "clear", "faults", "signal"}
  /\ tickVal \in Nat /\ (tickPc = "dec" => tickVal > 0)
  /\ pidPc \in {"test", "store"}
  /\ at \in [Callers -> {"out", "load", "lock", "take", "mode", "iq", "id", "run", "start", "feed",
                         "fed", "test", "passed"}]
  /\ op \in [Callers -> Ops]
  /\ ret \in [Callers -> BOOLEAN]
  /\ drove \subseteq Callers \cup {PidThd}
  /\ tmoPc \in {"sleep", "override", "override_iq", "override_id", "unlock", "brake1", "brake2",
                "mark", "raise"}
  /\ age \in 0..TimeoutLoops
  /\ hasTimeout \in BOOLEAN /\ killActive \in BOOLEAN /\ killNow \in BOOLEAN
  /\ killPin \in BOOLEAN
  /\ storePc \in [Storers -> {"idle", "unlock", "release", "lock", "wait", "write", "settle"}]
  /\ pass \in [Storers -> {1, 2}]
  /\ detectPc \in [Detectors -> {"idle", "held", "release", "unlock"}]

(* A fault code appears in m_fault_now only once the motor is off and the  *)
(* bridges are released, whatever the command threads were doing when the  *)
(* fault stop thread preempted them.                                       *)
FaultStops ==
  [][faultNow' \notin {faultNow, NoFault} => state' = "off" /\ ~out']_vars

(* The bridges are never left driven with the motor state off, where no    *)
(* thread would switch them off again: only between the two halves of      *)
(* stop_pwm, because the state goes off first and the interrupt looks at   *)
(* the state.                                                              *)
NoOrphanOutput == out /\ state = "off" => faultPc = "stop_hw"

(* When the fault stop thread has nothing to do, it has shown the last     *)
(* fault raised in m_fault_now since it was raised, and what is shown now  *)
(* is that fault, or it has been cleared: an event sent while the thread   *)
(* was busy is not lost.  A fault that another one overwrote in the mailbox*)
(* before the thread read it is lost, and the property does not forbid it. *)
(* Between the two stores of a fault raised by the timer thread the event  *)
(* has not been sent yet.                                                  *)
FaultDelivered ==
  Normal /\ tickPc # "signal" => shown /\ faultNow \in {NoFault, mailFault}

(* Whenever the fault stop thread has handled an event, new or repeated,   *)
(* the ignore time is back at m_fault_stop_time_ms.                        *)
IgnoreArmed ==
  [][faultPc # "wait" /\ faultPc' = "wait" => ignore' = StopTime]_vars

(* The interface is locked only while a store or a detection that locked   *)
(* it is still going to unlock it, on every path through the store.        *)
NoOrphanLock ==
  locked => \/ \E s \in Storers : storePc[s] \in {"unlock", "wait", "write", "settle"}
            \/ \E d \in Detectors : detectPc[d] # "idle"

(* The motor runs under a duty cycle, a PID set point or a drive current.  *)
(* The interrupt uses id in open loop mode only.                           *)
Driven ==
  /\ state = "running"
  /\ mode \in {"duty", "pid"} \/ iq = "drive" \/ (mode = "openloop" /\ id = "drive")

(* Thread t has passed try_input and has not left the command, or has not  *)
(* reset the timeout after it.                                             *)
InFlight(t) == at[t] \in {"mode", "iq", "id", "run", "start", "feed"}

(* Without a kill switch, what drives the motor at the end of a pass of the*)
(* timeout thread that found the timeout expired was stored after the first*)
(* pass of this timeout and after the last brake command that was let      *)
(* through, and by somebody the reset does not speak for: a packet thread  *)
(* still in the command it will reset the timeout for, app_adc that had    *)
(* reset it before a command it took longer than the timeout for, app_ppm  *)
(* that had tested has_timeout before it was set, a detection, or the PID  *)
(* thread with a store for the mode it had tested.  Nothing from before the*)
(* timeout survives it, although faults make the interface refuse the brake*)
(* commands.  With a kill switch this fails: timeout.c:211-212 leaves      *)
(* has_timeout set while the switch is pressed and does not override.      *)
TimedOutReleased ==
  ~KillSwitch /\ hasTimeout /\ age = TimeoutLoops /\ tmoPc = "sleep" /\ Driven =>
    \E t \in drove : t \in Commanders => InFlight(t)

(* If commands and pulses stop coming for good, the motor is not driven for*)
(* good, also where app_ppm or the PID thread was overtaken by the timeout.*)
TimeoutStops == <>[](TimeoutLoops # 0 /\ age = TimeoutLoops) => <>[]~Driven

(* At the end of a pass that found the kill switch pressed nothing from    *)
(* before drives the motor, also under the interface lock and in an ignore *)
(* window: what does was stored after the first pass for this switch or    *)
(* the timeout before it, and after the last brake command let through.    *)
KillReleased ==
  killActive /\ tmoPc = "sleep" /\ Driven => drove # {}
=============================================================================
