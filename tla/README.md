# Betaflight SITL for Windows: a formal model

This directory holds TLA+ modules that model the Windows port of the Betaflight
software-in-the-loop simulator (`src/src/*.c`), TLC configurations that check
them on small instances, and TLAPS proofs for every value of the constants.

## 1. Inventory

The port wraps the Betaflight firmware (a submodule, external here) in one of
two ways: a standalone program driven by UDP packets from a simulator
(`main_windows.c`, `udplink_windows.c`), or a library the simulator loads and
steps in its own process (LOCAL mode, `sitl_local.c`). `wincompat.c` replaces
operating-system and firmware calls in both; `serial_tcp_win.c` and
`ws_proxy_win.c` let the configurator connect.

| Component | State it keeps | Operations | What is hard | What makes it correct |
|---|---|---|---|---|
| UDP FDM clock (`udplink_windows.c`, `wincompat.c`, `main_windows.c`) | last timestamp, carried fraction, delta to commit, pending time, event, virtual clock | receive a packet, commit at the unlock, take, run a quantum, idle, wait | two threads and three atomic operations; lost, repeated, reordered packets; a busy-wait on the clock | no time without sensors, none invented or lost, no lost wake-up, one gyro run per period |
| Serial TCP bridge (`serial_tcp_win.c`) | client slots, count, rings, listener | accept, receive, disconnect, send, drop, stop, reopen | a thread per client, handles reused by the system, a bounded slot table | count matches slots, each socket closed by one owner, a leaver frees its slot |
| Configuration and reboot, LOCAL (`sitl_local.c`, `wincompat.c`) | PG records, flash image, EEPROM file and handle, request flags | set path, reload, reboot, save, step, shutdown, init | host and MSP thread on one EEPROM; requests deferred across steps | a file holds its own aircraft, the selected one flies, edits are not lost |
| WebSocket proxy (`ws_proxy_win.c`) | eight sessions of two sockets | accept, handshake, connect upstream, forward, drop, stop | the registry and the threads close the same sockets | no socket or slot leaks, the end of one side reaches the other |
| Host step, LOCAL (`sitl_local.c`) | remainder, RC frame, crash-flip latch, motor packet | `sitl_local_step` | jittered host steps, a change of rate between two of them, a stale motor packet, an arm edge inside a step | no time lost, deadlines stay on the grid, frames arrive, outputs are of this step |
| Burst recorder (`sitl_local.c`) | ring of records, window and record times, the log | `localBurstLog`, `sitlBurstDrain` | writer and reader on different threads, and no lock | records come out once and in order, none torn; the reader catches up |
| Simulator telemetry (`udplink_windows.c`, `wincompat.c`) | voltage, current, speeds, temperatures, lowpass filters, meters, charge | set, read, integrate, reset | state that outlives a restart in the process; a getter that advances a filter | what is shown is of this power-up; steady data arrives |
| Blackbox logs (`wincompat.c`) | folder, cap, counter, open name, pending prune, scan lock | open, close, prune, renumber, select a folder, set the cap | renumbering on another thread than logging | numbers follow age, no log is overwritten, the cap is restored |
| OSD canvas (`sitl_osd.c`) | canvas being drawn, published frame and its revision, usable size | clear, draw, commit, poll, place an element | the host reads while the firmware draws; boots with another size or no OSD | a frame is a committed screen, a revision names one frame |
| OSD font (`sitl_osd.c`) | 256 characters, which of them were seen, revision, the path last looked at | flash a character, poll, save, adopt a stored font | files are read and written outside the lock; the aircraft changes under an upload | no font travels to another aircraft, what was flashed reaches host and disk |
| Mode ranges and rates (`sitl_local.c`) | table of activation conditions, the rate profile | set and get an arm switch, a range, a rate, the rate type, the 3D feature | a full table, a refused call half-way, two scales | a setter changes what it names and is read back |
| Filter-chain gating (`wincompat.c`, `sitl_local.c`) | a snapshot per chain | the renamed calls of `msp.c`, reload, reboot, boot | a chain rebuilt in flight shakes the aircraft, one not rebuilt is stale | a flying chain is rebuilt for a cause only; after deferred work the loop runs on its settings |
| Loggers, standalone boot, sensor conversion, tools | see `PROJECT.json` | | | |

Components meet at a few places. The configurator's bytes go through the
bridge's ring to the firmware's MSP/CLI parser, whose saves and reboots become
requests of the configuration component; a reboot in turn drops the bridge's
clients. The host's `sitl_local_step` applies the requests between scheduler
passes; what they load is what the filter-chain gating compares with its
snapshots, and which aircraft they select is what the OSD font's cache follows.
The MSP thread also drains the burst recorder and tidies the logs up. A reboot
or a restart resets part of the telemetry and of the canvas. The UDP clock and
the LOCAL step are alternatives: a build has one.

The hazards of each component are in `PROJECT.json` (`hazards`), each at its
source line, with the properties that cover it or the reason why none does.

## 2. Modules

| Module | What it models |
|---|---|
| `VirtualClock` | what the UDP clock promises: covered time grows, the clock follows it in quanta |
| `FdmClock` | the UDP clock in detail; implements `VirtualClock` |
| `SerialTcp`, `MCSerialTcp` | one UART port of the bridge; its instances for TLC |
| `SerialTcpProofs` | theorems about it |
| `LocalConfig`, `MCLocalConfig` | configuration and reboot in LOCAL mode; its instances for TLC |
| `LocalConfigProofs` | theorems about it |
| `LocalStep`, `MCLocalStep` | the host's steps in LOCAL mode; its instances for TLC |
| `LocalStepProofs` | theorems about it |
| `WsProxy`, `MCWsProxy` | the WebSocket proxy; its instance for TLC |
| `WsProxyProofs` | theorems about it |
| `ModeRanges` | the setters and getters of mode ranges and rates, as operators |
| `LocalSettings`, `MCLocalSettings` | a setting's way from configurator, setter or file into the flight loop, with `ModeRanges`; its instance for TLC |
| `LocalSettingsProofs` | theorems about both |
| `DroppingQueue` | what the burst recorder promises: a bounded queue that refuses a record only when it is full |
| `BurstRecorder` | the burst recorder's ring and its two threads, which implement `DroppingQueue` |
| `BlackboxLogs`, `MCBlackboxLogs` | the rolling folder of logs; its instances for TLC |
| `RecorderProofs` | theorems about the ring and the logs |
| `OsdCanvas`, `MCOsdCanvas` | canvas and published frame; its instance for TLC |
| `OsdFont` | the font cache and its files |
| `OsdProofs` | theorems about canvas and font |
| `SimTelemetry`, `MCSimTelemetry` | battery, motor speeds and what power-up resets; its instance for TLC |
| `UdplinkProofs` | theorems about the two parts of `udplink_windows.c`, `FdmClock` and `SimTelemetry` |

Definitions keep the names of the functions they stand for; the ones that split
a function into steps say which part they are, and `map` in `PROJECT.json`
gives the lines. Variables with a `g` or camel-case name are the variables of
the code, the others are program counters, the environment, used-up bounds or
history, and the declarations say which.

### FdmClock

Each thread has a program counter (`rx`, `loop`) and a step of the model is one
shared access of the code: `udpRecv` computes the delta and stores it,
`updateState` (external) writes the sensors or returns early, and the three
atomic operations of `sitlUdpFdmCommitPending` (exchange, add, signal) are
three actions. The main loop's `RunQuantum`, `TakePending`, `IdlePass` and
`WaitEvent`/`WaitTimeout` are the statements of `run()`. Time is counted in
ticks, `Sub` to the microsecond, so the fraction that the code carries in a
double is an exact value here; rounding of doubles is not modelled.
`scheduler()` is reduced to its gyro deadline and the busy-wait near it.
The datagram's timestamp is any value in `0..MaxTs`: lost, repeated and
reordered packets and a simulator restart are all the choice of that value.

### SerialTcp

A critical section is one step; what the code does after it left the lock is
another one, because that is where the threads interleave. `behind` is the
operating system's handle table: `accept` may return any closed handle, so a
thread that kept a handle may find another connection behind it. Bytes carry
the connection they came from, so that a property can say whose session reads
them. The transmit ring has no state between calls (each write drains it).
`Reopen` takes the 100 ms sleep of `serialTcpStop` to be long enough for the
old listener to leave.

### LocalConfig

A configuration is a record of its aircraft, the number of its last edit and
whether the LOCAL pins are in place (`Pinned` stands for the four functions that
set them); this is what the properties tell apart. `writeEEPROM` has the three
steps of the firmware's driver (unlock, copy, lock). The host thread walks
through `sitl_local_step`: re-pin, pending reboot or reload (flush, switch,
open, validate, load, apply), scheduler pass. The MSP thread edits, saves,
reboots and serves the deferred writes. The two threads interleave freely, in the
EEPROM work too, because nothing in the code keeps them apart. Two things go
wrong there (section 5), and history variables notice them: `overlapped`, that a
write of the MSP thread has run into the host's EEPROM work or the other way
round, and `carried`, that a later boot has met a file that does not exist and
made it from the image of the aircraft before. The properties hold up to these
two events and name them.

### LocalStep

`host` follows one call of `sitl_local_step`: `Enter` snaps the length,
`DeferredWork` does what may come between (a reboot, and armed too a reload or
another aircraft, can bring another PID denominator) and splits the length into
quanta and a remainder, `RunQuantum` is one turn of the loop (`sitlStepTime`, then
a pass of the scheduler), and the crash-flip latch and the motor packet follow.
Time is in microseconds. The scheduler is external and reduced to what the code's
comments rely on: a pass on a deadline or after it runs the gyro and, on every
`denom`-th sample, the PID loop, whose `udpSend` fills the packet slot; the next
deadline is a period after this one; a pass with more than the guard time left
runs the RX task; one that is nearer than the poll threshold spins. The quantum
divides the loop period and need not divide the gyro's: `OnGrid` tells the gyro
periods on which a quantum ends under every configured denominator. `Reinit` is a
shutdown and another boot: the statics of the step outlive it.

### BlackboxLogs

A folder maps numbers to logs, and a log is known by the order of its creation,
so that "oldest" means something. `sitlBlackboxEnforce` runs on either thread in
single renames and removals under the scan lock; the flight thread creates logs
from the counter without it. The folder is the host's, or `DefaultDir` when it
selected none. As on Windows, a file that is open can be neither
renamed nor removed; it is this, and not `gBlackboxOpenLogName`, that protects
the open log (section 5). The host calls when it likes, and a scan that meets
more logs than it can track finds any `MaxTracked` of them. History variables say
when the numbering has gone wrong for a known reason (`Strayed`): the host has
tidied up a folder with the open log in it, or a scan has left logs out.

### WsProxy

`behind` is the handle table again, now with two sockets per session and handles
that the system gives out again as soon as they are closed. The table of sessions starts zeroed or emptied. The host's stop is two steps: the flag and
the listen socket, then the drop. What a configurator sends matters only where
it ends the session.

### LocalSettings and ModeRanges

`pg` holds the settings in RAM, grouped by the chain that is built from them;
`chain` and `mixer` hold the settings each was built from, `snapshot` what
`wincompat.c` compares with. A handler of the configurator is two steps or more:
it writes the records, and then makes the renamed calls one by one, so deferred
work of the host's thread can fall in between. The EEPROM work itself is one step
here; how it interleaves is `LocalConfig`. `flying` says which chains hold the
state of a running loop. `ModeRanges` has no variables: the setters are
functions from a table to a table and a return value. A slot that is all zero is
free, and is at the same time a condition of the ARM box: `SetRange` keeps this.
Of the three columns of the rates one is modelled, by its three scales.

### BurstRecorder

Step thread and MSP thread share four volatile words and no lock, so each access
to one of them is a step: that the ring is full is found out in one step
(`FindFull`) and acted on in another (`Drop`), with the drain free to make room in
between, and that a window runs is seen in one (`SeeWindow`) and called off in
another when the log does not open (`OpenFails`). A record is represented by its number, and time by
what is left to wait. Everything else of a record is read from the flight loop;
one of these reads is not innocent (section 5).

### OsdCanvas and OsdFont

The canvas is drawn by the OSD task, one element per step, and published under
`gOsdCrit`; the host polls the revision and copies a frame when it has moved.
The firmware's list of active elements is made at the start of a frame, so an
element the host moves meanwhile is drawn at its old place once more. A boot may
report another canvas size or have the OSD off. `strokes` and `committed` are
the history that says what a frame should show.

A getter of the font is several steps: what `osdFontSyncWithPath` decides under
the lock, the files it writes and reads outside of it, and what it does with the
result under the lock again. Characters arrive between these steps. A character
is the font it comes from, a font torn if it names two.

### SimTelemetry

Every action is the feeding of a step or one scheduler task of it. A voltage or
a frequency is a small number; a PT1 filter moves a part of the way and never
past its input. What a reboot (`Reboot`) and a restart in the process
(`Shutdown`, `Boot`) leave in RAM is what the code leaves there.

## 3. Runs

| Run | Asks | Bounds |
|---|---|---|
| `fdm_clock` | all the clock's properties, under every interleaving | 4 packets, timestamps 0..13, 2 ticks per us, period of 2 quanta |
| `tcp_bridge` | who owns and who closes a socket; a leaver frees its slot | 2 slots, 3 handles, 1 reboot, and either 3 connections and a stop or 2 that send a byte each |
| `config` | whose configuration is in which file; deferred edits and re-pins happen | 2 aircraft, the second with a file or new; either 2 requests, or 1 request and a second boot; an edit or none |
| `local_step` | time, deadlines, frames, outputs, crash flip | 3 steps of 4 lengths, 4 rates, 1 disarm, 1 more boot, an RC frame every 600 us |
| `blackbox_logs` | nothing is lost that the cap does not ask for | 4 numbers, 4 logs of which a scan tracks 3, 2 folders, caps 0 to 2, 2 host calls |
| `ws_sessions` | sockets and slots are given back; each end notices the other's | 2 sessions, 3 handles, 2 slots, 2 starts |
| `settings` | chains rebuilt for a cause; deferred work leaves the loop on its settings; setters are local | 2 aircraft, 2 edits, 2 requests, 2 slots of mode conditions, boxes ARM and ANGLE |
| `burst` | first in, first out; the drain catches up; a bounded queue is implemented | a ring of 3, windows of 4 records, 3 windows, 1 failed open |
| `osd_canvas` | a frame is a committed screen; a revision names one; a placed element arrives | canvas 3 by 2 at most, 2 elements, 3 draws, 2 boots, 2 placements |
| `osd_font` | fonts stay with their aircraft, tear only where section 5 says, and arrive | 2 aircraft, fonts of 2 characters, 2 uploads, 2 switches, 1 restart, 1 failed write |
| `telemetry` | reports are of this power-up; steady data arrives | 2 motors, 4 packets, 2 looptimes, 2 cutoffs, 3 inputs, 2 boots |
| `save_and_reboot` | the documented effect of a reboot, see section 5 | as `settings` |

Why the bounds are enough. The clock needs a delta below a quantum, one above,
one out of range and one that goes back, in one behaviour: four packets and
fourteen ticks reach all of these with carries (`MaxDelta` is five
microseconds, so an out-of-range delta is possible). Two slots and three
connections are the smallest instance in which the table is full, a slot is
taken over and a handle is reused. Handles that no thread and no slot remembers
are interchangeable, so the models offer the least of them (`Offered` in
`SerialTcp`, `Unused` in `WsProxy`) and every remembered one. Where a bound on
everything at once would be too large, `Starts` lists the combinations that are
explored. Two aircraft are enough to confuse one with the other; two requests
put a switch and a reload or a reboot in one step, and one before a shutdown is a
switch that the second boot finds pending. The step lengths are half a
period, one that snaps, one that does not and two periods. The four rates have
quanta of 100, 50 and 25 us; one of them does not divide its gyro period (4 kHz,
denominator 2), and each gyro rate has a denominator to change. Three steps carry
a remainder over deferred work and a second boot. With the real 8000 us between RC frames a run would need hundreds of
quanta to see two of them; 600 us has the same place in the logic, which only
compares the difference with it. A cap of 2, four logs and four numbers leave
room for gaps, for a folder over its cap, for a log created in the middle of a
renumbering and, with three logs tracked, for one that a scan leaves out; two
calls are a change of folder and back, or one during a log and one after it. Two
sessions over two starts are one that a drop leaves behind and one that may
suffer from it, and with three handles for their four sockets one must get a
handle that the other had. Two slots of mode conditions are full with one
box used twice. A ring of three holds two records, less than a window, so it
fills, drops and wraps. Two characters are the fewest that can be torn, and two
uploads the fewest that can be mixed.

Deadlock is checked except in the bridge, the proxy, the logs and the telemetry,
which stop when everything the bounds allow has been done.

Fairness. The two threads of the clock, of the burst recorder and of the bridge
are scheduled by the operating system: weak fairness on their steps, none on the
peers and packets. `LocalConfig` assumes that the host keeps stepping and that
the MSP thread keeps polling, as both are loops without an exit. Strong fairness
is used for the two deferred writes only: the MSP thread looks at both requests on
every pass of its loop (`sitl_local.c:1064-1072`), however often the configurator's
commands, which the model does not order, keep it from them in between.
`BlackboxLogs` has weak fairness on the housekeeping of both threads and on the
MSP thread taking the request, none on logging. `WsProxy` has it on each session
thread, because none of its calls blocks for ever (`recv` has a timeout of 5 s,
`connect` is tried 50 times, `select` waits 1 s), and on the drop. `OsdCanvas`
and `OsdFont` have it on a host that polls, and the canvas on the OSD task, none
on the configurator. `SimTelemetry` has it on the control loop and the voltage
task of a controller that is stepped, none on the battery alerts task, which
only runs disarmed.

## 4. Proofs

`UdplinkProofs` proves of the clock, for every tick size, quantum, gyro period,
delta limit and number of packets, assuming `ClockConstants` only:

- `TypeCorrect`: the type invariant.
- `Invariance`: the inductive invariant `IInv`. Conservation of time alone is
  inductive, but `SensorsBeforeTime` is not: it needs to know that between
  `updateState` and the end of the commit everything accepted is covered, and
  that before `updateState` nothing of the accepted delta is published, which
  `IInv` says per value of `rx`.
- `SensorsFirst`, `Conservation`: from `IInv`.
- `WakeUp`: published time and the event, by an invariant of its own that
  relates the event to the place of the two threads.
- `NoSpin`, `GyroRate`: under `OnGrid` (the gyro period is a multiple of the
  quantum, and the scheduler's poll threshold is at most a quantum), by the
  invariant that the clock is a multiple of the quantum and the next deadline
  at most a period away.
- `Implementation`: initial states map to initial states and every step to a
  step or a stutter of `VirtualClock`, with the clock since boot as its `run`.
- `ClockMovesForAReason`: `ClockAccounts`, if a quantum is no longer than a gyro
  period. Two invariants are needed. `HeldInv`: a delta waits in `gFdmCommitUs`
  between two packets only after a refused one, so a delta that the next packet
  overwrites was never shown to anyone. `AheadInv`: the next deadline is ahead of
  the clock, without which an idle pass could run the gyro.

and of the telemetry, for every host, battery, set of cutoffs and looptimes and
number of motors, assuming `TelemetryAssumption`:

- `ReportsAreCurrent`: `ReportsAreOfThisPowerUp`, by `TelemetryInv`. The property
  alone is not inductive: the statistics take what the current meter shows, so no
  reading may be above the peak (`MeterInv`), and the first boot resets nothing,
  so it must find nothing to reset (`FirstBootInv`). The filters keep their type
  because a PT1 filter does not go past its input (`TowardStays`).
- That the slowest motor is no faster than the average needs the recursive sum
  over the motors. That the recursion has a solution, and that the sum is at least
  the slowest speed times the number of motors, are shown without induction: a
  smallest set of motors for which it fails would lose its first motor and fail
  still (`SumExists`, `SumAtLeast`).

`LocalStepProofs` proves, for every set of rates and step lengths and any number
of steps, boots and disarms, assuming `StepConstants`:

- `StepTypeCorrect`, `StepConservation`: by `StepInv`. Conservation is not
  inductive alone: at the end of the loop what was not run is given up for the
  carried remainder, and the two are equal only because what is left always has
  that remainder modulo the quantum, which `StepInv` adds.
- `DeadlinesAreKept`: the gyro is served once for every deadline, never early and
  less than a quantum late, at every rate that the code accepts and whatever the
  denominator; exactly on the deadline, and without a spin, on a gyro period of
  `OnGrid`. `PaceInv` is the first part with a clock that is not a period ahead.
  `GridInv` adds for the second that the time since the last deadline is a
  multiple of the quantum. The running step may use the quantum of a denominator
  that is no longer in force (`PeriodInv`); the lemma `SameQuantum` shows that on
  such a period this is the same quantum.
- `FlipNeedsBoxAtArming`: crash flip follows the arm edge, without a condition.
  `LatchInv` is needed because host and firmware update their latches at
  different places of a step: from an RC frame to the end of the step it says
  what the host's update is about to do, and it holds because all the frames of a
  step carry the same switches.
- `FramesKeepCadence`: a due RC frame is late by two quanta and the guard time at
  most, at every gyro period of two quanta and the guard time or more, on the grid
  and off it. `RcInv` says where the lag may come from: the guard time before a
  deadline, and the gyro run that takes the pass after it.
- `PacketsAreFresh`: the packet that is handed over is of the latest PID run of
  this step, and a step of a loop period has one. The gyro may be late, so the
  argument counts samples and not time: `MotorInv` keeps, while the loop runs, a
  deadline before which the step began and that no sample since then was the
  PID's if no packet has been published, and of `denom` consecutive samples one is
  (`EveryRemainder`). A step whose deferred work changes the loop period needs a
  quantum more (`SureOfPid`).

`RecorderProofs` proves of the ring, for every size of the ring, of the window and
of the rates, any number of windows and failed opens, assuming `BurstAssumption`:

- `RingInvariance`: the inductive invariant `RingInv`. That records come out in
  order says nothing of the slots that are still to come out, nor of what a
  thread has found out about the other's index when it acts on it. `RingInv`
  adds both: the slots from tail to head hold consecutive records, the step that
  is about to publish has left one slot free, the drain that is about to advance
  has not reached the head.
- `RingFifo`: first in, first out, from it.
- `NoSlotIsShared`: the slot being stored into is not one still to be written.
- `QueueImplementation`: the ring implements `DroppingQueue`. The queue is the
  content of the slots from tail to head; `RingInv` makes it a window of
  consecutive numbers (`WaitingIsWindow`), on which a publish is an append and an
  advance a tail. A drop maps to the refusal that was settled when the step read
  the indices, not when it acts on it, by which time there may be room again.

and of the logs, for any folders, numbers, caps, calls and left-behind logs,
assuming `LogConstants`:

- `LogInvariance`: `LogSafe`, which is types, a list in ascending order in every
  job (`WellListed`) and, until the numbering has `Strayed`, `LogInv`. The first
  two hold for ever: what the threads do after it has strayed is still theirs.
- `NumbersAreAges`, `NoLogIsOverwritten`, by `LogInv`. That ages and numbers agree
  (`AgeOrder`) holds in the middle of a renumbering too, but is not inductive: it
  depends on what the thread that holds the scan lock has listed. `WorkInv` says
  that the list is ascending (`Listed`), that no log that is to stay has gone from
  it (`Survive`), and that every log of the folder has its new number, or is still
  to come in the list, or was created after the list was made (`Placed`). A new
  log is written without the lock. That it hits no older one is `CounterInv`: a
  counter that is set is above every log of the folder in use and of the MSP
  thread's list of it (`Covers`), and so is the one the host is about to set.
- That a folder has a list in ascending order, which the model chooses, is
  `AscendingListExists`, from a smallest set of numbers that has none.

`SerialTcpProofs` proves, for every number of slots, handles and connections,
whichever handles the system gives out again, assuming `TcpConstants`:

- `TcpTypes`: types, with what a thread and the listener have in hand.
- `SlotsAlwaysAgree`, `NoDoubleClose`: slots, count and open sockets agree, and
  none is closed twice. Together they are inductive with one more fact
  (`Unplaced`): a connection that is accepted and has no slot yet is open, and no
  slot and no thread about to close has its handle. The count is a cardinality;
  the lemmas on finite sets say how it moves with the slots.

`LocalConfigProofs` proves, for any number of aircraft, edits, requests and
boots, from any of the starts, assuming `ConfigConstants`:

- `EveryFileOfItsAircraft`, `SelectedIsFlown`, by `ConfigInv`, whose first part
  holds of every interleaving and whose others hold until one of the two events
  that the properties name: where the two
  threads can be at once (`Phases`), where the EEPROM handle is (`HandleAtEnv`),
  that the MSP thread writes only while the host is away from the EEPROM (`Apart`,
  until `overlapped`), whose configuration is in RAM and in the flash image at each stage of a reload
  (`OwnersAgree`), and what there is to load at it (`Loadable`).
- `EveryDeferredEditIsHeld`: the safety half of `DeferredEditPersists`. An edit
  whose write was deferred is in the file of its aircraft, or in RAM with that
  write requested or under way, unless the threads' EEPROM work has overlapped;
  what a later boot carries over does no harm to it. By `HeldInv`, on top of
  `ConfigInv`: only between a write's copy and its lock does the image of an opened
  file differ from the file (`ImageInv`); and the file is no newer than the image,
  the image no newer than the records, except from a switch to the load
  (`AgeInv`). That the write is done in the end is liveness, and stays with the run.

`WsProxyProofs` proves, for every number of sessions, slots, handles and starts,
whichever closed handles the system gives out again:

- `EverySocketIsClosed`: an open socket has a thread that still has its handle
  and its close ahead (`SocketsHeld`).
- `EverySlotIsGivenBack`: every used slot has a thread that will give back one of
  the same handle. Per session this is false: a thread whose slot a drop emptied
  gives back the slot of a newer session with the same handle. The invariant
  `SlotsCounted` is a count: a handle never has more slots than threads that will
  give one back.

`OsdProofs` proves, for canvases of any size, any strokes, fonts of any length
and any number of aircraft, uploads and restarts:

- `ScreenIsPublished`, `RevisionIsAName`, by `CanvasInv`: the mirror shows the
  strokes since the last clear, the published frame shows the committed ones at
  the cells of its layout, and revisions grow. That the layout has a place of its
  own for every cell (`IndexInRange` and the lemmas beside it) is what a copy
  with another row length would break.
- `FontsStayHome`, by `OwnInv`: whose characters are in the cache, in the scratch
  buffer and in the files, at each section of a getter, while the path moves.
- `TearingNeedsOverlap`, by `TearInv`: until one of the two overlaps of the
  property has happened, what has been seen of an upload lies below its next
  address, so a bitmap that was cleared half-way never becomes full.

`LocalSettingsProofs` proves, for tables of any size, any boxes, files and
settings, and any number of edits and requests, assuming `ModeConstants` and
`SettingsConstants`:

- `RebuiltForACause`: a chain of a running loop is rebuilt only for a cause. By
  `SettingsInv`: the snapshot of a chain that nothing has touched since it was
  built is what the chain would be built from now (`SnapshotsFit`), and the
  selected file exists.
- `WorkKeepsStep`: deferred work leaves chains and mixer on the settings in RAM,
  because what it does not rebuild reads the same in the image it loads
  (`ReloadEffect`).
- `SettersChangeWhatTheyName`: the setters are local and are read back. The table
  is closed up by rank, with a choice of the slot that has a given number of kept
  slots up to it. That there is exactly one is a matter of counting and needs no
  induction: the ranks are an injection of the kept slots into as many numbers
  (`RankUnique`, `RankedIsTheMember`). A call that finds no room has removed the
  box's conditions before it looked, and is harmless all the same: a table that
  is full after the removal lost nothing in it (`FullWasFull`).

Only model-checked. Liveness, which the prover does not reach: `BacklogDrains`,
`LeaverFreesSlot`, `DeferredEditPersists`, `SaveIsRepinned`, `CapIsRestored`,
`LinkLossReachesPeer`, `LeaverReleasesMsp`, `DrainCatchesUp`,
`PlacedElementReachesHost`, `FontReachesHostAndDisk`, `SteadyDataArrives`.
Every other property of the runs is stated by a theorem.

Some theorems about the UDP clock rest on a condition on its constants. The code
enforces the second of these only.

| Condition | Theorems | In the code |
|---|---|---|
| `OnGrid` (of `FdmClock`) | `NoSpin`, `GyroRate` | `main_windows.c:392` only warns when the period is not a multiple of 100 us, and `sitlGyroHz` accepts any rate from 100 to 10000 Hz |
| `Quantum <= Period` | `ClockMovesForAReason` | `sitlGyroHz` accepts at most 10 kHz, a period of 100 us |

Each is met by the instance of the run, so neither is empty. The others rest on
the named assumptions about constants only. Where a property promises less than
the code's comments do, it names the state in which it promises nothing, and
section 5 says what the code does there.

## 5. Where code and documents disagree

The run `save_and_reboot` ends with a counterexample. `wincompat.c:1535-1537`
says that boot-time settings apply on "Save and Reboot". A reboot first writes
the RAM records (`sitl_local.c:834`), then finds the image it opens identical to
the one it compares with, and returns (876-884) before it re-applies anything.

These properties name an event after which they promise nothing. Without any of
the exceptions TLC refutes them in their runs (`NeverOverwritten` without the
second reason of `Strayed` with `MaxTracked = 2`).

| Property | Event | Code |
|---|---|---|
| `FileOfItsAircraft`, `SelectedAircraftFlown`, `DeferredEditPersists` | `overlapped`: a write of the MSP thread and the host's EEPROM work at once | nothing orders `sitl_local.c:1064-1072` and `wincompat.c:1496-1548` against `sitl_local.c:834-875`, and there is one handle and one image |
| `FileOfItsAircraft`, `SelectedAircraftFlown` | `carried`: a later boot in the process with a file that does not exist | the flash image is erased only by a switch (`sitl_local.h:294`), so the new file gets the tune of the aircraft before |
| `NumbersFollowAge`, `NeverOverwritten`, `CapIsRestored` | `Strayed`: the folder of the open log tidied up by the host, or logs left out of a scan | see `CapDeletesTheOldest` below, and `wincompat.c:1831`: past `SITL_BLACKBOX_MAX_TRACKED` logs (1778) the counter is set without the rest |

These formulas are stated in the modules and belong to no run: TLC refutes each
when it is put into the configuration named.

| Formula | Configuration | Documented | Code |
|---|---|---|---|
| `NextConnectionStartsClean` | `SerialTcp.cfg` | the next connection starts in MSP mode | the count is re-read outside the lock; a failed send injects nothing |
| `GyroOnDeadline` | `LocalStep.cfg`, `Rates <- MCHalved` | every realtime deadline falls exactly on a step (`sitl_local.c:1097-1099`, 2030-2041) | the quantum divides the loop period (`gyro.targetLooptime`, `wincompat.c:596`), not the gyro's |
| `NoDeadBridge` | `WsProxy.cfg` | a WebSocket with a dead MSP bridge is what the configurator cannot recover from (`ws_proxy_win.c:551-553`) | the thread of a dropped session closes its two handle values once more (399, 431, 477, 478) |
| `CapDeletesTheOldest` | `BlackboxLogs.cfg`, `MaxTracked = 4` | the oldest logs are deleted (`wincompat.c:2163-2164`), existing ones never overwritten (2122) | a cap set while a log is open makes the counter forget that log (2175-2177) |
| `HostFontIsWhole` | `OsdFont.cfg` | a host is given a complete font (`sitl_osd.c:485-488`, 715-717) | the test for completeness is a bitmap that a second upload does not clear |
| `FrameLayoutIsPacked` | `OsdCanvas.cfg` | `chars[y * cols + x]` (`sitl_local.h:340-341`) | rows are `SITL_LOCAL_OSD_MAX_COLS` apart (`sitl_osd.c:358`) |
| `ClosesOnlyDrained` | `BurstRecorder.cfg` | the file is closed when the ring is drained (`sitl_local.c:323-324`) | the window's end is looked at after the loop; a record pushed in between waits for the next window |
| `ReadersOnlyRead` | `SimTelemetry.cfg` | "Only reads and a memcpy happen here" (`sitl_local.c:413`) | each `getMotorFrequencyHz` advances the lowpass in front of the RPM filter |

Three of them need a word.

- `GyroOnDeadline`. At 4 kHz with the PID loop at half the rate the loop period is
  500 us, the quantum 100 us, and the first deadline of 250 us is served at 300.
  `GyroKeepsPace`, which the run checks at this rate too, says what remains true:
  less than a quantum late, no deadline left out, and no spin at the rates where
  quanta end on deadlines.
- `NoDeadBridge`. If the system has given one of the two handles to the MSP link
  of a new session, that link is closed under the new session's thread, which
  then fails in `select` and polls for ever (452). `LinkLossReachesPeer` says that
  nothing else leaves a WebSocket like this.
- `CapDeletesTheOldest`. The survivors are renumbered around the open log, which
  is locked, and the counter becomes how many there are. If the open log has a
  higher number, the next one that is created takes the number of an existing log
  and overwrites it. For a change of the folder the header asks for a call before
  logging starts (`sitl_local.h:271`), for the cap it does not.

Met while modelling, without a formula:

- Bridge. A thread whose client was dropped meets an error of `select`, takes it
  for a timeout and polls for ever (`serial_tcp_win.c:128-133`). If handle and
  slot are in use again by then, it reads the bytes of the new connection and
  closes it. A connection accepted between the drop and the close of the
  listener (314) survives the stop in its slot until the reopen forgets it.
- Configuration. `README.md:353` says that switch and reload wait for the
  disarm; only the reboot looks at the arming flag (`sitl_local.c:1873-1884`,
  against the comment at 1874-1877).
- Settings. The snapshots of a reload are taken from RAM and not from what the
  running chain was built from (`sitl_local.c:859-865`): a filter setting that
  the CLI changed is lost if the file holds the same value. A reload makes the
  list of active mode conditions not again (890-899). Any reload that loads
  another image rebuilds the D-term chain and the RC processing. The setters of
  rates do not rebuild the RC processing, and the rate type is not clamped.
  An arm switch of channel 0 with the range 0..0 is an empty slot and reads back
  as none. Nothing sets `gLocalForceFullInit`.
- Step. The arm edge is looked for once per step: a disarm and an arming within
  one step, or a box switched on in the frame after it, are not told apart from
  a flight that goes on (`sitl_local.c:1655-1672`). The comment at 2031-2032 has the
  scheduler round deadlines up to the grid; the model takes the next deadline a
  period after the last one, as the firmware's scheduler counts it. At rates such
  as 3 or 6 kHz, whose periods are no multiple of 25 us, the quantum falls below
  the poll threshold and the poll of 2034-2037 spins, as TLC shows;
  `GyroKeepsPace` excludes the spin on `OnGrid` only. With a
  sample period of 100 us every pass is on a deadline and the RX task never runs,
  and a rate above 10 kHz set at compile time (`README.md:105`) has a period
  below the quantum; the properties leave both out. A host that
  steps less than a loop period is handed zeros for the steps in between, which
  the code counts and does not avoid.
- Logs. `gBlackboxOpenLogName` is a path and is compared with base names
  (`wincompat.c:1895`, 1910), so it never matches; only the sharing mode of
  Windows protects the open log. The cap of the environment replaces the host's
  at every change of folder (1986). The highest number is looked for among
  the logs that were tracked (1949), so an untracked one can have the next number
  and be overwritten.
- Proxy. The session table is zeroed, and zero is not `INVALID_SOCKET`: until
  the first drop no session is tracked, and the first stop closes none
  (`ws_proxy_win.c:80`, against the comment at 49-53). A session thread whose
  sockets were closed under it spins on the error of `select`. The
  payload of a ping is sent to the MSP port as
  if it were data (368, 466).
- OSD. A published frame's `frames` is one behind `gFrameCount`, which a reboot
  does not reset. `gActive` stays set when a later boot has the OSD off. A placed
  element is not written to the EEPROM. A font flashed before the first getter
  is dropped; one flashed for a new aircraft before a getter has noticed the
  change is saved to the old one. `osdEnsureLock` sets its flag before the
  critical section is initialised.
- Telemetry. A new `rpm_filter_lpf_hz` does not reach the gain of the lowpass
  (`wincompat.c:1637-1653`). A restart in the process keeps the filters, the last
  host's data and the peak temperatures.

## 6. Not modelled

Floating point conversions of sensors and GPS; file formats and log text;
process creation, the audit log and crash logging; the tools, the HTTP server
and the build. In the modelled parts: `sitlUdpFdmReset` (no caller), the partial
sends of a peer that stops reading, a shutdown whose wait for the MSP thread
times out, the `longjmp` of a reboot that leaves the MSP thread's critical
section held (`sitl_local.c:184`), `gLocalPendingEepromPath` copied while the step
reads it (775), a host that passes no output record to a step, the flush throttle
and the legacy open of the logs, the
wrappers of the OSD that only pass a call on, the telemetry of the extended UDP
packet, and the pitch and yaw columns of the rates.

## 7. Plan

Done: the clock, the bridge, the proxy, and of LOCAL mode the configuration, the
settings, the host step, the logs, the burst recorder, the OSD and the
telemetry, with the proofs of section 4. Next, in this order:

1. `LocalConfig` shown to implement `LocalSettings`' one-step EEPROM work.
2. A composition of bridge, proxy and configuration: a reboot that comes through
   the proxy, drops the bridge's clients and reaches the configurator as a close.
