# Verification of the motor controller firmware

TLA+ modules, TLC model-checking configurations and TLAPS proofs for the VESC
motor controller firmware in this repository (C, STM32F4, ChibiOS).  Paths are relative
to the repository root.  The specification language is plain TLA+; a definition carries
the name of the C function or variable it stands for wherever TLA+ allows it, and
`PROJECT.json` maps every definition to its lines.

    cd tla
    tlasany MotorControl.tla                       # parse
    tlc -workers 2 -config MotorFault.cfg MCMotorControl
    tlapm MotorControlProofs.tla                   # proofs

## 1. Inventory

The firmware is one statically linked image.  Threads are ChibiOS threads, round robin
with a quantum of 0.4 ms inside a priority; almost all of them run at NORMALPRIO and
interleave freely.  The fault stop thread runs at HIGHPRIO - 3, the CAN reader at
NORMALPRIO + 1, the sample sender at NORMALPRIO - 1 and the flash check at LOWPRIO.  The
ADC and timer interrupts preempt every thread that is not inside a system lock.  Most of
the shared state is plain globals without a mutex.

| Component | State | Operations | Interacts with | Hard behaviour | What makes it correct |
|---|---|---|---|---|---|
| Motor interface (`mc_interface.c`, setters of `mcpwm_foc.c`) | control mode, state, set points, `m_ignore_iterations`, `m_lock_enabled`, `m_lock_override_once`, `m_fault_now`, the fault mailbox | the `mc_interface_set_*` setters, `try_input`, `lock`/`unlock`/`lock_override_once`, `fault_stop`, `ignore_input_both`, `release_motor_override`, the 1 ms timers, the ADC interrupt | called by every command source; mailbox to the fault stop thread; stops the PWM | command threads, timer, interrupt and fault thread interleave at single loads and stores; checks are stale when used | a fault stops the motor and blocks commands; the last fault raised is shown; bridges never driven with the motor off; the lock is never left behind |
| Timeout and kill switch (`timeout.c`) | last reset time, `has_timeout`, `kill_sw_active`, `timeout_brake_current`, watchdog | the 10 ms thread; `timeout_reset` from all command sources | motor interface (release, unlock, brake, ignore window) | command threads reset it at different points: after a command, before it, or once per pulse; races with stores that hold the lock | commands that stop lead to a released motor |
| Configuration store (`conf_general.c`) | RAM copy, EEPROM, backup register block | `read_*`, `store_*`, `eeprom_var` | motor lock; EEPROM emulation; system lock counter | a two-motor sequence that can fail at each half; flash erase stalls everything | a store is done under the lock, all or nothing, and undone on failure |
| EEPROM emulation (`eeprom.c`) | two flash pages with a status each and an append-only list of slots | `EE_Init`, `EE_ReadVariable`, `EE_WriteVariable`, page transfer, format | configuration store; flash controller | power loss between any two flash operations, flash errors half way through a transfer | a variable written and acknowledged is read back, after any restart |
| Packet framing (`packet.c`) | receive buffer with read and write index, bytes left | `packet_process_byte`, `packet_send_packet`, `packet_reset` | USB, UART, BLE byte streams; command processor | noise, truncated packets, false start bytes, resynchronisation; buffer limits | a valid frame is delivered exactly once and whole, whatever precedes it; no wrong frame |
| CAN link (`comm_can.c`) | rx ring of 100 frames, per-buffer reassembly, status message arrays, ping state | fragmented buffer send, frame decoding, ping, status polling | CAN bus; command processor; motor interface (set duty, current, ...) | frames lost, reordered or interleaved from several senders; ring overflow; ping timeouts | a reassembled buffer is one sender's; ping answers belong to the ping |
| Command processor (`commands.c`) | send function pointers, blocking thread buffer and flag | `commands_process_packet`, blocking thread, `commands_send_packet*` | all links; motor interface; store; terminal | the answer of a blocking command goes to whoever sent last; a blocking command is dropped while one runs | an answer reaches the link that asked |
| Terminal and detections (`terminal.c`, `conf_general.c` detections) | the detection under way | `hall_analyze`, `measure_*`, `detect_apply_all_foc` | motor lock and override; direct FOC calls | runs the motor outside `try_input` | leaves motor and lock as they were |
| Applications (`applications/`, `app.c`) | per-application ramp, safe start, `output_disabled_now` | ADC, PPM, nunchuk, UART, balance, PAS, finn threads | motor interface; timeout; CAN forwarding | safe start after restart, reconfiguration while a thread runs | no motion without a release first; a stopped application sends nothing |
| Shutdown (`shutdown.c`) | button integrator, inactivity time | 10 ms thread, `shutdown_reset_timer` | motor interface, backup store | long press during fault, store at power off | data is backed up before power is cut |
| Boot and firmware update (`flash_helper.c`, `main.c`) | new-app pages, bootloader, CRC result | erase, write, jump, integrity check | command processor; timeout (watchdog) | power loss, erase longer than the watchdog | never runs a corrupt image |
| Memory pools (`mempools.c`) | in-use flags | `mempools_alloc_*`, `mempools_free_*` | commands, terminal, CAN | non-atomic search and mark; exhaustion | a block has one owner |
| Not modelled: FOC and BLDC numeric control (`mcpwm_foc.c`, `mcpwm.c`, `digital_filter.c`, `utils.c` maths), encoders, IMU, BMS, LispBM, LoRa and NRF radios, boards in `hwconf/`, generated configuration code, ChibiOS, libcanard, blackmagic, lzo, qmlui | | | | numeric or third-party | out of a model checker's reach or not this program |

## 2. Plan

Order: what stops the motor first, then what survives a power loss, then the links.

| # | Module(s) | Models | State |
|---|---|---|---|
| 1 | `MotorControl`, `MCMotorControl`, `MotorControlProofs` | command threads (packets, ADC, PPM), fault stop thread, timers, PID thread, interrupt, timeout and kill switch, a store, a detection | done, single motor |
| 2 | `Eeprom`, `AbstractStore`, `MCEeprom`, `EepromProofs`, `EepromRefinement` | the EEPROM emulation and the store it implements | done |
| 3 | `Packet`, `FrameStream`, `MCPacket`, `PacketProofs` | sender, line and receive buffer of the packet layer, and the stream decoder it implements | done |
| 4 | `CanLink`, `MessageLink`, `MCCanLink`, `CanLinkProofs` | fragmented buffers over the CAN bus, the receive ring, the decoder, and the link they implement | done, without ping |
| 5 | `Commands`, `CommandsProofs` | who gets the reply to a packet, the blocking thread | done for the routing of replies |
| 6 | `FlashHelper`, `FlashHelperProofs` | integrity of the running firmware, erasing and writing flash beside it, a cached check | done for sector 7 |
| 7 | `AppAdc`, `AppAdcProofs` | the throttle application with its safe start, its restart, disabling the output | done, one application |
| 8 | `ConfigStore` | the store sequences of `conf_general.c` over two motors: lock, failure of either half, `utils_sys_lock_cnt`, checksum, on top of `AbstractStore` | not written |
| 9 | `DualFault`, `Ping`, `Shutdown`, `Mempools`, `Worker` | smaller protocols, see section 7 | not written |

Composition: `CanLink` delivers what `Commands` receives.  `Commands` takes the CAN bus as
an interface that hands over whole packets with the controller they name, which is what
`MessageLink` promises and `CanLink` is proved to keep.  `FlashHelper` takes the system
lock and the release of the motor as single steps (`MotorControl` has the release).

Abstract specifications: `AbstractStore` (implemented by `Eeprom`, proved and checked),
`FrameStream` (by `Packet`, proved and checked), `MessageLink` (by `CanLink`, proved and
checked).

None of the modules with a theorem declares a RECURSIVE operator; the one there is, in
`MCPacket`, is the checksum of the run and no proof reaches it.

## 3. The models

### 3.1 `MotorControl`: who drives the motor

The globals of `mc_interface.c` and the control part of `motor_all_state_t` are the
variables; none of them has a mutex, so a step is one access to a variable that another
thread or the interrupt uses.

| Variables | Code |
|---|---|
| `mode`, `state`, `iq`, `id`, `out` | `m_control_mode`, `m_state`, `m_iq_set`, `m_id_set`, `m_output_on` of `mcpwm_foc.c`; currents only as below or above `cc_min_current`, and by which command |
| `ignore`, `locked`, `once`, `faultNow` | `m_ignore_iterations`, `m_lock_enabled`, `m_lock_override_once`, `m_fault_now` |
| `mailFault`, `event`, `faultPc` | `m_fault_stop_fault`, event flag 1, the position of the fault stop thread |
| `tickPc`, `tickVal` | `run_timer_tasks`; the loaded value of `m_ignore_iterations--` |
| `pidPc` | `pid_thread`, between its test of `m_control_mode` and its store of `m_iq_set` |
| `at`, `op`, `ret` | each calling thread in its own loop, inside `mc_interface_try_input` and inside a setter |
| `tmoPc`, `age`, `hasTimeout`, `killActive`, `killNow`, `killPin` | `timeout_thread`, its counters and the kill switch input |
| `storePc`, `pass`, `detectPc` | a thread in `conf_general_store_*_configuration`, a thread in a detection |
| `shown`, `drove` | history: the last fault raised has been shown; who has stored part of a driving command since the timeout thread began to act |

Actions, by the thread that takes them: `IsrFault`, `IsrControl` (interrupt); `FaultWake`,
`FaultSame`, `FaultNew`, `FaultStopState`, `FaultStopHw`, `FaultRecord` (fault stop
thread); `TickLoad`, `TickDec`, `TickClear`, `TickRaise`, `TickSignal`, `TickEnd`,
`FocTimer` (1 ms timers); `PidTest`, `PidStore` (PID thread); `TryLoad`, `TryLock`,
`TryTake`, `SetMode`, `SetIq`, `SetId`, `SetCheck`, `SetRun` (a command inside any
caller); `Tmo*` (timeout thread); `Store*`, `Detect*`.  The command threads are of three
kinds, by when they call `timeout_reset`:

- `Commanders` (`Command`, `Feed`): packets, CAN frames, and `app_adc.c` under duty cycle or
  speed control.  The command comes first, the reset after it, accepted or not;
- `AdcApps` (`AdcReset`, `AdcCommand`, `AdcBrake`): `app_adc.c` under current control resets
  the timeout (`app_adc.c:398`) and then commands; with safe start it brakes and does not
  reset;
- `PpmApps` (`PpmPulse`, `PpmWake`, `PpmTest`, `PpmBrake`, `PpmCommand`, `PpmSkip`):
  `app_ppm.c` resets when a pulse has come (`app_ppm.c:113`), also wakes without one, tests
  `has_timeout` (`app_ppm.c:152`) and then commands without a reset.

Scheduling: a thread of NORMALPRIO takes a step only while `Normal`, that is when the
fault stop thread (HIGHPRIO - 3) has nothing to do; the interrupt always can.

Abstracted: set points to what decides whether the motor runs.  PID speed and position are
one request: the setter starts the motor as `duty` does, and the PID thread stores `iq`
for it, low or high.  A set speed below the minimum makes that thread return before its
test. `FocTimer` leaves out the current off delay, field weakening and the phase override,
which only put its switching off later.  A store of one motor stands for the single motor
build, where the two passes lock the same motor.  The flash write runs under the system
lock and is one step.  Limits, statistics and sampling do not touch these variables.

### 3.2 `Eeprom`: a store in two flash pages

A step is one flash operation, the unit that a power loss or a flash error cuts off:
programming a half word, marking a page, erasing a page.  `EE_ReadVariable` is the
operator `ReadVariable`: the routines are called by one thread at a time and a read
changes nothing.

| Variables | Code |
|---|---|
| `page` | the two flash pages: status half word and slots of (data, address) |
| `pc`, `ctx` | the next flash operation, and the routine it belongs to: `EE_WriteVariable`, `EE_PageTransfer`, `EE_Init`, or `EE_Init` finishing a transfer that had copied everything |
| `new`, `cur`, `spot`, `todo` | locals: the page that becomes valid, the slot being programmed, the variables the copying loop has not come to |
| `req`, `result` | arguments and return value of `EE_WriteVariable` |
| `losses` | power losses since `EE_Init` was last completed; a bound, not in the code |

`WriteSame`, `WriteRefused`, `WriteSlot` are the three ways into `EE_WriteVariable`;
`ProgramData`, `ProgramVar`, `PageFull` are `EE_VerifyPageFullWriteVariable`;
`MarkReceive`, `Copy`, `CopyDone`, `Erase`, `Mark` are `EE_PageTransfer` and, with
`BootSettled`, `BootReceived`, `BootHalfCopied`, `BootFormat`, `Format`, `EE_Init`.  `Fail`
is a flash operation that returns an error; `PowerLoss` starts over in `EE_Init` with the
flash as it is, except that an erase may have reached the header only (`CutOff`).

Assumptions: programming a half word is atomic; the order of `VirtAddVarTab` plays no part
(`Copy` takes any variable of `todo`); the value 0xFFFF (`Blank`) can be stored and is in
the runs, because a slot that holds it looks half empty.

`AbstractStore` is what the emulation is for: variables, one write at a time, a power
supply that can fail.  A write that returned success has taken effect, one that failed or
was cut off has or has not, and nothing else changes a value.  `Stored(v)` is the
refinement mapping: what `v` will read once `EE_Init` has repaired the pages.  The first
slot of a receiving page counts at once, because `EE_Init` will keep it; everything else
comes from the valid page.

### 3.3 `Packet`: frames in a byte stream

| Variables | Code |
|---|---|
| `buffer`, `read`, `write`, `left` | `rx_buffer`, `rx_read_ptr`, `rx_write_ptr`, `bytes_left` |
| `pc`, `frame` | inside the loop around `try_decode_packet`; the payload handed to `process_func` |
| `wire`, `sent`, `clean` | the line: what `packet_send_packet` sent and has not arrived, its payload, and whether it arrives whole on an empty buffer |

`ProcessByte` is `packet_process_byte` up to the loop, with the shift of the linear buffer
and the branch "Out of space (should not happen)"; `Decoded`, `Invalid`, `MoreData` are
one pass of the loop; `Send`, `Arrive`, `Lose`, `Noise` are the other end and the line.
Noise may be any byte at any time between frames, so every stream of bytes occurs.

`FrameStream` has no buffer: a list of undecided bytes from which a frame is delivered as
soon as it is complete, and a byte is dropped only when no frame can start with it.  The
mapping is `Live`, the bytes between the two pointers.

### 3.4 `CanLink`: buffers cut into frames

| Variables | Code |
|---|---|
| `sending`, `offset` | each thread inside `comm_can_send_buffer`: its buffer, and `i` |
| `readPc`, `frames`, `read`, `write` | `cancom_read_thread`; `rx_frames`, `rx_frame_read`, `rx_frame_write` |
| `event`, `pc`, `slot` | event flag 1 and `cancom_process_thread`: the pointer it got from `comm_can_get_rx_frame` |
| `head`, `rxmsg`, `torn` | its copy of the frame: what the slot held at the beginning and at the end of the copy, and whether it is half of each |
| `buffer`, `lastId` | `rx_buffer`, each byte as the buffer it is from and its place in it; `rx_buffer_last_id` |
| `submitted`, `delivered`, `arrived`, `done`, `overrun`, `clean`, `lost`, `sends` | bookkeeping: what was sent, what reached the commands, the numbers of the frames, whether the ring has been full, whether anything has happened to a buffer on its way |

`Start` and `Transmit` are `comm_can_send_buffer`, one frame per step because `can_mtx` is
held for one frame; `Lost` is a frame that `canTransmit` gives up or the bus loses.  A
frame that is sent arrives in the ring in the same step: the read thread has a higher
priority than everything else here.  `ReadSignal` is its `chEvtSignal`.  `Wake`,
`GetFrame`, `GetNone`, `CopyHead` and `CopyRest` are the process thread up to
`decode_msg`. The copy of the slot (`comm_can.c:1204`) is made outside the mutex, word by
word, and the read thread can put another frame into the slot meanwhile.  If two frames
differ in their data only and the copy is cut before the data, it is all of the later one;
otherwise it is `torn`.  `DecodeOther`, `DecodeFill`, `DecodeProcess` and `DecodeShort`
are `decode_msg` of a whole copy; `DecodeTorn` is that of a torn one, which takes the
command of one of the two frames and any bytes, offset and sender.  (In the code the bytes
of such a long fill may go up to 5 bytes past `rx_buffer`; the model cuts them off there.)
Offsets are plain numbers: the byte of a short one is exact because the first loop ends at
255, the two bytes of a long one because a buffer has at most 512 bytes.  The checksum
tells any two contents apart (`CrcMatches`); two buffers never have equal bytes, so that a
mixed buffer is always noticed.

`MessageLink` is what the bus is for: a set of messages handed over, and those that have
come out, each at most once.  A receiver that has been overrun can tear a frame, and each
torn frame lets at most one spoilt message through, from one of the
controllers.  `delivered` maps to itself and `submitted` to what the messages look like at
the other end.

### 3.5 `Commands`: who gets the reply

| Variables | Code |
|---|---|
| `pc`, `packet`, `replyFunc` | the thread of each interface inside `commands_process_packet`, and its arguments |
| `sendFunc`, `fwdFunc`, `blockingFunc` | `send_func`, `send_func_can_fwd`, `send_func_blocking` |
| `lastId` | `rx_buffer_last_id`, which `send_packet_wrapper` sends to |
| `bufferOwner`, `sendBuffer`, `termOwner` | `send_buffer_mutex` and `send_buffer_global`, `terminal_mutex` |
| `isBlocking`, `cmdBuffer`, `event`, `bpc`, `running` | `is_blocking`, `blocking_thread_cmd_buffer`, the event flag and the blocking thread |
| `answers`, `forwarded`, `raced`, `received` | bookkeeping: replies with their packet, receiver and data; the packet forwarded last; whether two commands got into the blocking thread's buffer |

A packet is one of five kinds, by the way its reply takes: `values` (COMM_GET_VALUES:
through `reply_func` from the shared buffer), `mcconf` (`commands_send_mcconf`: through
`send_func` from the shared buffer), `forward` (COMM_FORWARD_CAN), `termSync` and
`terminal` (the terminal at once, or in the blocking thread).  `Receive` is a packet of an
interface, which on CAN comes from one of the controllers and may be `quiet` (a null reply
function); `ReceiveBad` is a CAN buffer whose checksum fails, after the sender has been
noted; `ReceiveReply` is a reply to what was forwarded, which the wrapper sends to the
controller it has just been received from (`comm_can.c:1413`).

### 3.6 `FlashHelper`: the program memory

| Variables | Code |
|---|---|
| `image`, `crcFlag`, `crcOf` | the chunks of the firmware, the flag and the checksum behind it (as the image it is of) |
| `boot` | `main` up to the start of the other threads, or halted in its loop |
| `crcIndex`, `crcUnit` | `index` of `flash_helper_verify_flash_memory_chunk` and the hardware CRC unit (as the chunks it was fed with) |
| `ui`, `checkDone`, `uiOk` | sector 7 in pieces, `qmlui_check_done`, `qmlui_ok` |
| `crLock`, `sysLock`, `watchdog` | the lock bit of the flash controller, the system lock, the watchdog's period |
| `pc`, `op`, `found` | the threads inside `flash_helper_erase_qmlui`, `_write_qmlui` and `_qmlui_data` |
| `ops`, `faults`, `firstCut`, `relocked`, `raced` | bounds and bookkeeping |

`Verify`, `WriteFlag`, `WriteCrc`, `WriteFails` are `flash_helper_verify_flash_memory`;
`Chunk` and `LastChunk` the integrity thread; `ResetDone` to `Leave` are `erase_sector` and
`write_data` with the reset of the cache before them; `Scan`, `SetOk`, `SetDone`, `Use` are
`qmlui_check` and its caller.  `Corrupt`, `PowerCut`, `WorkFails` are the faults.  `Goto`
lets only the holder of the system lock run.  A firmware that is flashed anew is a new
`Init`; erasing and writing the area of a new firmware are the same steps without a cache.

### 3.7 `AppAdc`: the throttle

| Variables | Code |
|---|---|
| `ctrl`, `safe` | `config.ctrl_type` by the way its command takes, `config.safe_start` |
| `ms`, `before`, `loaded` | `ms_without_power`, `pulses_without_power_before`, and the value loaded for `+=`; in system ticks |
| `stopNow`, `isRunning`, `tpc`, `live` | `stop_now`, `is_running`, `adc_thread`, the number of threads on its working area |
| `pressed`, `last` | the level it has read, the command of this pass |
| `cpc`, `dpc` | threads in `app_set_configuration` and `app_disable_output` |
| `disabled`, `timer` | `output_disabled_now`, `output_vt` |
| `run`, `armed`, `torn`, `crossed`, `forever`, `fired`, `calls`, `configs` | bookkeeping of the properties, and bounds |

`Pass`, `ReadLevel`, `Early`, `LoadMs`, `StoreMs`, `GateClosed`, `GateOpen` are a pass of
the thread, in the order of its `ctrl_type`: a duty cycle is set after, a speed before the
time at zero is added.  `Stop`, `Wait`, `StartApp`, `Create`, `Configure`, `ResetMs` are
the stop, start and configuration of this application, called by any number of threads:
`app_set_configuration` has no lock and USB, UART and CAN all call it.  `Leave` clears
`is_running` and `End` is the end of the thread, which until then uses its working area.
What happens once two threads are on one working area is not modelled: `Next` needs `live
<= 1`, and `OneThread` says through which windows it comes to that.  The level, the
buttons and the fault are inputs; filters, ramps and the commands to other controllers are
left out.  The two configurations are with the throttle application selected.


## 4. Model checking

Deadlock is checked in the runs of `MotorControl`, `Eeprom` and `Packet`.  The other four
stop when their bounds are used up (all packets received, all buffers sent, the controller
halted, no calls left, two threads on one working area), which is no deadlock; their
liveness properties stand in for it.

| Run | Expected | Question | Bounds |
|---|---|---|---|
| `MotorFault` | pass | `TypeOK`, `NoOrphanOutput`, `FaultDelivered`, `NoOrphanLock`, `FaultStops`, `IgnoreArmed` | one `app_adc` thread, one store, the PID thread, two faults, `StopTime` 1, no timeout |
| `MotorTimeout` | pass | `TimedOutReleased`: nothing from before a timeout drives the motor after it, though ignore windows refuse the brake command | one packet thread with PID and current requests, the PID thread, one fault, timeout of two loops, a timeout brake current |
| `MotorKill` | pass | `KillReleased`: nothing from before a kill switch drives the motor after the pass that found it, under the interface lock too | a detection, `KillTime` 2, no command thread |
| `MotorTimeoutLive` | pass | `TimeoutStops`: commands that stop for good lead to a motor that is not driven for good | one `app_ppm` thread with duty, PID and current requests, the PID thread, fair threads, no faults |
| `EepromStore` | pass | `TypeOK`, `OnePage`, `ReadBack`, `RoomForCopy`, `IsStore` | two variables, two values, 5 slots, one power loss in `EE_Init` in a row, any number outside, flash errors in plain writes |
| `EepromSwap` | violation | `KeptBySwap` | a variable outside the table, 4 slots |
| `EepromBoot` | violation | `NeverLost` | power may fail in the last window of `EE_Init` |
| `PacketStream` | pass | `TypeOK`, `HasSpace`, `Delivered`, `IsStream` | four byte values, `PACKET_MAX_PL_LEN` 3, long headers from 2 bytes on |
| `CanLink` | pass | `TypeOK`, `InOrder`, `CleanAccepted`, `IsLink`, `AllFetched` | two senders, two buffers of one, two or six bytes, one lost frame, a ring of 3 |
| `Commands` | pass | `TypeOK`, `AnswersOwn`, `AloneOwn`, `BlockingOwn`, `BlockingEnds` | one wired interface, CAN with two controllers, three packets |
| `FlashHelper` | pass | `TypeOK`, `IntactRuns`, `WorkProtected`, `CacheTrue`, `NoNeedlessReset`, `CorruptHalts` | two threads, three chunks, two pieces, three operations, two faults |
| `AppAdc` | pass | `TypeOK`, `OneThread`, `DisabledForever`, `SafeStart`, `EnabledAgain`, `Reconfigured` | two configuring threads and one disabling, two configurations and three calls together, three passes at zero |

Why these bounds are enough to see the interesting cases:

- Motor: one thread of each kind, because a second command thread only adds what the
  store, the detection and the timeout thread do already: another caller of the same
  setters.  Each run has the kind of command thread its question is hardest for: the
  packet thread, which the timeout's reset speaks for only after its command, in
  `MotorTimeout`; `app_ppm`, which commands after a stale test of `has_timeout` and never
  resets for it, in `MotorTimeoutLive`; the theorems are for all kinds together.  Two
  faults are needed to overwrite the mailbox (`FaultDelivered`) and for a fault that is
  new while another is shown.  Times count ticks and only whether a counter is zero
  matters; `StopTime` 2 leaves a tick inside the window.
- EEPROM: two variables are the least for which a transfer has something to copy; two
  values are the least for which old and new differ, and one is 0xFFFF.  Five slots are
  the fewest in which a transfer cut off at its first slot and two attempts of `EE_Init`
  fit (`PagesLargeEnough` in `MCEeprom`), so `RoomForCopy` is checked at its limit, and a
  page is full after five writes.  The real page has 4095 slots for the variables of
  `eeprom.h:73`; enough consecutive power losses inside `EE_Init` do fill it, which is
  what `BootLosses` bounds.
- Packet: the byte values are 0, 1 (a length, no start byte) and 2 and 3 (start bytes,
  lengths, and 3 also the stop byte), so every byte of a frame can be taken for a header,
  the checksum or the end.  The checksum of the run is weak on purpose: noise matches it
  often.  Payloads of three bytes reach both headers and make the buffer of 11 bytes wrap
  within any two frames.
- CAN: the sizes are scaled down and keep their order: a buffer of one frame, one whose
  only fill is cut short, and one of six bytes with a full fill, a full one with a two
  byte offset and a cut one (`Lengths`; `FillMax` 2 for 255, `FillLen` 3 and `LongLen` 2
  for 7 and 6).  The ring of 3 is filled up by one buffer while the process thread waits,
  so overruns happen in most behaviours, and with them copies that the read thread tears;
  with two buffers every mixture of two senders' frames occurs.
- Commands: three packets are the least for which a reply to a forwarded packet, a packet
  in between and a second one meet; two controllers are the least for which
  `rx_buffer_last_id` can be the wrong one.
- Flash: three chunks have a first, a middle and a last; two pieces a half written
  interface; two faults a power cut and a corruption, or a cut first start and another.
- ADC: two configuring threads and two configurations are the least that can overlap; one
  caller alone can still meet a thread that has not begun or not ended.  Three passes at
  zero (`MinTicks` 3) tell the first, a middle and the last; a millisecond is a tick and a
  pass is one, so that a pass is a whole number of them.  That matters: with half
  milliseconds `SafeStart` fails, see section 5.

Fairness in `MotorControl` (`LiveSpec`, `MotorTimeoutLive` only): weak fairness of the
timeout thread, the two timer threads, the fault stop thread, each command thread once it
is inside its loop (`app_ppm` wakes every 2 ms by itself) and the control
interrupt.  These are endless loops in ChibiOS threads of one priority that the round
robin scheduler runs in turn, the fault stop thread above them waits for an event, and the
interrupt recurs with the PWM.  Nothing outside is fair: packets, pulses, throttle values,
faults and stores need not come, and the PID thread is not needed.  The run has no faults
because a fault that recurs for ever preempts the timeout thread for ever.

In the four later modules the specification itself has the fairness, and only the liveness
properties use it.  Every thread that has been woken gets its turn: the process and read
threads of `CanLink`, each interface's thread and the blocking thread of `Commands`
(ChibiOS hands a mutex over to its first waiter), the throttle thread and its configurers
in `AppAdc`, as long as one thread is on its working area. The integrity thread has the
lowest priority, and a thread with the system lock keeps it out: it gets strong fairness,
because the others sleep between their packets.  The virtual timer of `AppAdc`
expires.  Sending, receiving, calling, faults and power cuts need not happen.

Every property of a passing run has a mutant in `PROJECT.json`: an operator beside the
action it changes (marked `mutant` in the modules), with the mistake a change to that code
could make, which the run catches.

## 5. What the runs found

Two runs end in a counterexample, both in the EEPROM emulation:

1. `EepromSwap`: `VirtAddVarTab` has no entry for the configuration of motor 2, which
   the next page transfer drops (`conf_general.c:66`).
2. `EepromBoot`: `EE_Init` marks the new page valid before it erases the old one; power
   that fails in between leaves two valid pages, and the next `EE_Init` formats both
   (`eeprom.c:231`, `eeprom.c:184`).

Further behaviours that the models have, and that their properties name as the exception
they make or leave open:

- `FlashHelper`: the flag that the checksum was computed is programmed before the checksum
  (`flash_helper.c:299`, `320`), and `main` halts for ever when it does not match
  (`main.c:238`).  Power that fails in between on the very first start leaves an intact
  firmware that never runs again: `IntactRuns` has to exclude `firstCut`.
- `FlashHelper`: a thread that ends an operation locks the controller for one that has
  unlocked it and waits for the motor (`flash_helper.c:367`, `391`); the erase then does
  nothing and returns `FLASH_COMPLETE` (`relocked` in `WorkProtected`).
- `Commands`: a reply through `send_func` goes to whoever was served last (`AloneOwn` holds
  for undisturbed packets only); two blocking commands can both be accepted (`raced` in
  `BlockingOwn`); the output of COMM_TERMINAL_CMD_SYNC goes to the interface of the last
  blocking command (`commands.c:1081`, `158`), which no property forbids.
- `AppAdc`: with an `update_rate_hz` whose pass is not a whole number of milliseconds,
  `pulses_without_power_before` is truncated (`app_adc.c:377-381`), the time at zero is not
  taken back while the throttle is pressed, and several short times at zero add up to a
  safe start.  TLC finds this with `MsTicks` 2; `SafeStartHolds` has it as a hypothesis.  A
  configuration in the middle of a pass can be overwritten by the pass (`torn`).  The timer
  of an earlier call can undo a disable for ever within the call (`fired`).
- `AppAdc`: two threads can get on the working area of `adc_thread` through three windows
  (`crossed` in `OneThread`): two calls of `app_set_configuration` overlap; one comes
  before the thread the last one created has set `is_running`; or the old thread has
  cleared `is_running` (`app_adc.c:115`) and has not ended when the new one is created
  (`app_adc.c:62`).  A call that overlaps another can also have `stop_now` set back under
  its wait and wait for ever.
- `CanLink`: a ring that fills up loses all of its frames (`overrun`), and from then on the
  read thread can tear the copy of a frame (`comm_can.c:1204`): a short buffer has no
  checksum, and the checksum of a long one does not cover who sent it.
- `MotorControl`: a fault with the code that is still shown does not stop a motor that a
  command has started in the millisecond before the tick clears `m_fault_now`
  (`mc_interface.c:2363`, `2774`); a fault that another overwrites in the mailbox before
  the fault stop thread has read it is not shown; the timeout thread unlocks the interface
  while a store waits (`timeout.c:215`).
- `MotorControl`, applications: `app_ppm.c` commands after its test of `has_timeout`
  (`app_ppm.c:152`) and `app_adc.c` after its reset (`app_adc.c:398`).  A timeout that
  strikes in between leaves the motor driven with `has_timeout` set, until the brake
  command of the next pass.  So does the PID thread, whose store can come after the
  override (`mcpwm_foc.c:4416`).  `TimedOutReleased` names who can be the cause;
  `TimeoutStops` says that it does not last.
- `MotorControl`, kill switch: `has_timeout` is kept while the switch is pressed, so a
  timeout that begins meanwhile and is still there when the switch is released gets no
  override (`timeout.c:212`), and the switch's own ignore window then refuses the brake
  command (`timeout.c:222`).  `TimedOutReleased` and `TimeoutStops` are for builds without
  a switch, and even `<>[]killPin => <>[]~Driven` is refuted by TLC: a command that was
  under way when the switch struck is never taken back.
- `MotorControl`: `mc_interface_ignore_input_both` stores what it had compared before: it
  can cut a longer window of the fault stop thread to its own 20 ms, and the tick's stale
  store can end the new window at once (`mc_interface.c:1649`, `2364`).
- `Eeprom`: after a flash error in a transfer, writes go to the receiving page and reads
  come from the old one until the next restart (`eeprom.c:582`); with `FailIn = {"write",
  "transfer"}` `ReadBack` fails.

Other interleavings of `MotorControl`: a command that passed `try_input` runs after the
fault handler (`mc_interface.c:1701`), the decrement of the ignore counter can undo a
window that has just been opened (`mc_interface.c:2364`), a detection drives the motor
without asking `try_input` (`terminal.c:1008`), the lock and its one-command override are
tested and used in two steps (`mc_interface.c:1703`, `1707`), and two setters can mix
(`mcpwm_foc.c:916`). The passing properties state what remains true beside them:
`IgnoreArmed` that the window is opened, not that it lasts; `FaultStops` that the motor is
off when the fault is shown, not afterwards; `TimedOutReleased` and `KillReleased` that
nothing from before drives the motor, not that nothing does.

## 6. Proofs

All theorems hold for any sets of threads, faults, variables, values and bytes and for any
times and sizes that satisfy the named assumptions (`MotorAssumption`, `EepromAssumption`,
`PacketAssumption`, `SendableAssumption`, `CanAssumption`, `CommandsAssumption`,
`FlashAssumption`, `AdcAssumption`, `CrcAssumption`), which TLC evaluates in the runs.

**`MotorControlProofs`.** `TypeCorrect`.  `NoOrphanOutputHolds`, `FaultDeliveredHolds`,
`FaultStopsHolds` and `IgnoreArmedHolds` share the invariant `Core`: the fault stop thread
preempts every thread that could undo its work, so what it has done stays done until it
waits again: the state is off, then the bridges are released (`HandlerOff`), and the ignore
time is set (`HandlerArmed`).  `NormalFrame` says that nothing but the interrupt and the
handler moves while it runs.  `NoOrphanLockHolds`: for any number of stores and detections.
`KillReleasedHolds` and `TimedOutReleasedHolds` are about what the override of
the timeout thread has undone (`Undone`: once it has passed a step, no command from before
drives the motor in that way).  `ClaimStep`: a step that breaks `Undone` is one of a thread
that is in `drove` after it, and that `Claims` it: a packet thread is still in its command.
`DroveKept`: `drove` is emptied only where `Undone` holds, before the override and at a
brake command that was let through.  `Own`: the timeout thread itself only brakes.  Hence
`KillInv`, that `Undone` holds whenever `drove` is empty, for any threads and with any kill
switch, timeout, faults and detections.  `TimeoutInv` adds `Answered`: if all that are in
`drove` are packet threads that have left their command, the reset after it has come
(`FlightKept`), so that at the full age `Undone` holds.  It needs a build
without a kill switch (`NoKill`, `TimeoutAge`); with one it is false, see section 5.

**`EepromProofs`.**  `TypeCorrect`, with the well-foundedness of the naturals for the slot
that the two searches choose.

**`EepromRefinement`.**  Under `Fits` (every variable is in `VirtAddVarTab`, there are
finitely many, a page has room for a transfer that is cut off and for `BootLosses + 1`
rounds of copying, power does not fail in the window of finding 2, flash errors hit plain
writes only): `ImplementsStore`, `OnePageHolds`, `ReadBackHolds`, `RoomForCopyHolds`,
`NeverLostHolds`, `KeptBySwapHolds`.  The last two state the properties of the two
`violation` runs: they hold once the gap each run finds is closed, so neither finding
hides another one.  The type invariant and these properties are far from inductive; `IInv`
adds

- `Phase`: which states the two pages can be in before each flash operation;
- `Leads`: the variable a transfer was called for is the first it writes, which is how
  `EE_Init` recognises it;
- `Programs`: the slot whose data half word is written is the first free one;
- `Consistent`: a receiving page never contradicts the valid one, except for that
  variable, and holds every variable the loop has left behind, so that it can replace it;
- `Bounded`: how many slots of the receiving page can be used by now (`Limit`), counted
  with the cardinality of `todo` and the losses so far.  A round leaves out the variable in
  the first slot, if there is one (`Used`);
- `Answered`: what a successful write stored.

Each action has a lemma `Step...` that keeps these parts and maps the step to a step of
`AbstractStore` or a stutter (`StoreStep`): a write takes effect in the `ProgramVar` of its
slot, also when that is the first slot of a transfer; every other step of a transfer, of a
repair and of a power loss leaves all of `Stored` alone.  `Inductive` puts them together.
The room `Fits` asks for is exact: for `N` variables and `B = BootLosses` it is `1 + N * (B
+ 1)` slots (the transfer was cut off with a data half word but no address in the first
slot) or `N + (N - 1) * (B + 1)` (it was cut off at its last step), and `IInv` was
model-checked with this bound for (N, B) = (2, 1), (1, 2), (3, 0), while with one slot less
TLC finds `RoomForCopy` violated each time.  The constants of `EepromStore` satisfy it.
`IsStore` is an implication of safety specifications; neither has fairness.

`CallsEnd` has none of the hypotheses of `Fits` but that the table is finite: `Left` counts
the steps the call under way can still take, `StepsDown` says that every step except a
power loss and the start of a call makes it smaller, and it is never more than three for
each variable of the table plus seven.  So no loop of `eeprom.c` runs for ever, with flash
errors and power losses anywhere and variables that are in no table.  It says nothing of
how long a flash operation takes.

**`PacketProofs`.**  `TypeCorrect` (no byte is stored outside `rx_buffer`) and
`HasSpaceHolds` (the branch marked "should not happen" is dead) for every
`PACKET_MAX_PL_LEN`, from `Room`: what is buffered plus what is waited for is at most a
frame, and the buffer is two bytes larger.  `StreamRefined` (`Spec => IsStream`): what
`try_decode_packet` finds at an offset is what `FrameStream` calls a frame there, lacks or
rules out (`FrameGood`, `GoodFrame`, `NoHope`); a shift changes none of the live bytes
(`StoreLive`); and between two bytes something is missing and at least `bytes_left` of it
(`Waits`), so that skipping the decoder loses nothing.  `DeliveredHolds`: while a frame is
under way on an empty buffer, what has come and what is still on the wire make up the frame
(`Underway`), and a beginning of a frame never makes the receiver wait for more than the
rest of it (`PartFrame`).  Of the checksum both use only `CrcAssumption`, that it has two
bytes.

**`CanLinkProofs`.**  `TypeCorrect`, `InOrderHolds` and `Refines` (`Spec => IsLink`) for
any number of senders, frames, losses and any ring, with the torn copies in it.  `IInv`
adds to the type

- `Ring`: the unread frames are the last ones that arrived, also after an overrun, and what
  was fetched is older than they are; the slot being copied is the one before the oldest
  unread one, so that only a frame that fills up the ring gets into it, and that frame is
  newer;
- `Undisturbed`: the copy can be torn only once the ring has been filled up, because the
  read thread has to come round to the slot that is being copied;
- `Numbered`: what is sent has the next number, and each sender has its own message;
- `LastFrames`: a message has one last frame, in the ring or in the copy, and none while it
  is still being sent;
- `Delivered`: what is delivered was sent, and its last frame has been decoded.

So a message is delivered once, although its fragments stay in `rx_buffer`.  `StepRefines`
maps `Start` to `Submit`, a frame that fills up the ring to `Overrun` (`TransmitRefines`),
a torn copy to `Tear` (`CopyRefines`), a delivering decode to `Deliver` and that of a torn
copy to `Spoil` (`DecodeRefines`), and the rest to stutters.

`CleanAcceptedHolds` is about bytes that are not in `rx_buffer` yet: `OwnAt(m, i, k)` says
that byte `i` will be the one of `m` once the frames before frame `k` are decoded, because
the last of those that write it is one of `m`, or there is none and it is there already.
`SentWhole` says so of the bytes a sender has sent, `ProcessWhole` of the messages whose
last frame waits; `Orderly` that a new frame replaces none that is still
needed.  `WholeInv` was model-checked before it was proved.

**`CommandsProofs`.**  `TypeCorrect`, `OwnAnswers`, `AloneAnswers` from `Known`: what the
thread of an interface knows of its packet, its kind and its reply function at each place
(`OwnPackets`, `OwnFuncs`, `KindAt`), that the owner of the mutex has filled the buffer
(`Buffered`), that `rx_buffer_last_id` is written by the one thread that uses it
(`LastKnown`), and what an undisturbed packet has left in `send_func` and
`send_func_can_fwd` (`Undisturbed`, `ForwardKnown`).  Answers are only added, so each
property is shown of the one answer a step adds (`UnlockGood`, `ForwardGood`).
`BlockingAnswers`, from `BlockingInv`: until two blocking commands have been accepted at
once, a command is with one of the thread that stores it, the event and the blocking thread,
and its packet has no answer until the blocking thread gives one.

**`FlashHelperProofs`.**  `TypeCorrect`, `IntactRunsHolds`, `WorkProtectedHolds`,
`CacheTrueHolds`, `NoNeedlessResetHolds`.  The invariant says that the firmware
only loses content, so that a chunk that is intact now was intact when its checksum was
stored and when the integrity thread came by (`Checksum`, `Passed`: it may be interrupted
between any two chunks); that a thread at `work` or `leave` holds the system lock (`Locks`);
and, while nobody has come in between, that a writer after its reset of the cache is alone
and a reader knows what sector 7 holds (`Cached`).

**`AppAdcProofs`.**  `TypeCorrect`, `OneThreadHolds`, `DisabledHolds`, for any number of
configuring threads: `Lives` says where a configurer and the thread can be relative to each
other until something has `crossed`.  `SafeStartHolds` has the
hypothesis that a pass is a whole number of milliseconds (`Whole(PassTicks)`); its invariant
`Starts` says that `ms_without_power` is never more than the throttle has been at zero, and
that what was noted at the end of a pass is still what the next one adds to, so that a pass
with the throttle pressed finds nothing added and starts anew.

Only model-checked: the liveness properties `TimeoutStops`, `AllFetched`, `BlockingEnds`,
`CorruptHalts`, `EnabledAgain` and `Reconfigured`, which are out of the prover's reach
with ENABLED and fairness.  `TimedOutReleased` with a kill switch in the model is false
and no run states it.  Every safety property of the passing runs has a theorem, and the
properties of the `violation` runs have one under the hypotheses named above. Properties
of recursive definitions are out of reach, too: the prover has no induction over data,
which is one reason why the checksum is a constant operator.

## 7. What is not modelled

`PROJECT.json` lists every component.  Left out for good: the floating point control loops,
observers and filters, sensors, radios, boards, generated code, LispBM and the vendored
libraries, which are nearly all of the 290 000 lines in this repository; the share of lines
the modules map says little for that reason.

Within reach but not written: the store of a configuration as a whole (`conf_general.c`:
checksum, two motors, the backup data; a store that fails on the second motor leaves the
first one locked, `conf_general.c:449`), the system lock counter (`utils.c:609`, which
`conf_general.c:482` holds while it sleeps), one fault mailbox for two motors
(`mc_interface.c:2767`), `comm_can_ping` (a late answer between `comm_can.c:570` and `572`
counts for the next ping), the pools of `mempools.c` (search and mark are not atomic), the
worker, the shutdown button, the restart of the other applications, a decoder that waits for
a long frame that noise announced (`packet.c:223`, no timeout; `packet_reset` is never
called), and the error that `EE_Init` returns and nobody looks at (`conf_general.c:90`).

Within the modelled parts: dual motor hardware, the BLDC mode,
`mc_interface_set_configuration`, what two threads on one working area of `app_adc.c` do
to each other, the area for a new firmware, the other CAN modes, and a flash half word
that is only partly programmed.
