# SmartHouse: a verification development

SmartHouse is two programs joined by a serial line. A Freescale FRDM-KL25Z board
(`src/Keil-KL25Z`) reads a temperature sensor (DHT11), an infrared motion sensor and
an ultrasonic range finder, switches two relays, and reports everything to a PC. On
the PC a Windows dialog, the Supervisor (`src/SmartHouse/Supervisor`), shows the
reports and can write settings back. This directory holds TLA+ models of both
programs, the TLC configurations that check them on small instances, and TLAPS proofs
of the results that matter most.

Path abbreviations: `FW/` is `src/Keil-KL25Z/src/projects/SmartHouse/`, `SUP/` is
`src/SmartHouse/Supervisor/`, `DRV/` is `src/Keil-KL25Z/src/drivers/`.

## Inventory

### The board

One thread, no interrupt but SysTick, which only counts. The target is built from
`main.c`, `SerialComm.c`, `dht11.c`, `mcg.c`, `uart.c` and vendor start-up code; no
other file of the tree is compiled into it.

| Part | State | Operations | Correct when |
| --- | --- | --- | --- |
| Main loop, `FW/main.c:31-158` | the limit `uHiTemp`, the two relay pins | one turn: take a command, read the temperature, switch relay 1 for heat, poll motion, engage relay 1 for motion, measure the distance, switch relay 2 for a near object; each followed by a report | after a turn the relays are where the three rules put them and the PC has been told so; the turn ends; no relay stays engaged for ever |
| Protocol, `FW/SerialComm.c` | `szRepBuf` | `RecvBuffer`, `SendBuffer` and the functions that wrap them | a message is taken whole or not at all; a byte out of step does no harm; sending never blocks |
| UART, `DRV/uart/uart.c` | data register, flags RDRF and OR | `uart0_init`, `uart0_getchar`, `uart0_putchar`, `uart0_getchar_present` | bytes are delivered in order; the divisor gives the baud rate |
| DHT11, `FW/dht11.c:13-242` | `dht`, `msTicks` and the counters of `BitRec` | `SysTick_Handler`, `Delay`, `GetTemp`, `BitRec` | an undisturbed reading is read right and taken; a wrong one is refused |
| Motion, range, LEDs, `FW/dht11.c:244-373` | `DelayCounter` | `GetInfrared`, `SonicDistance` | a motion is held for exactly ten polls |
| Start, `FW/main.c:31-89`, `system_MKL25Z4.c` | `SystemCoreClock`, SysTick's period | `SystemInit`, `SystemCoreClockUpdate`, `SysTick_Config`, two endless loops for errors | the loop is entered only with the clock it believes it has, the tick dht11.c counts in, and the Supervisor's baud rate |
| Clock, `DRV/mcg/mcg.c` | the MCG registers | `pll_init` and 24 transitions between the eight clock modes | each transition ends in its mode or reports an error and leaves a mode the hardware allows |
| Library, `queue.c`, `alloc.c` | a linked queue, a free list | add, remove, move; malloc, free | not in the target |

### The Supervisor

| Part | State | Operations | Correct when |
| --- | --- | --- | --- |
| Dialog, `SUP/SupervisorDlg.cpp`, `SUP/Buffer.cpp` | the six labels, the message queue | open a port, `OnComReceive`, `ProcessMsg` | shows only what the board said, since this port was opened |
| Settings, `SUP/SupervisorDlg.cpp:427-500` | `m_fDistance`, `m_fHumid`, `m_fTemperature` | the OK button and three `Update...` functions | a changed setting is written once, an unchanged one never |
| Port class, `SUP/com_class.h` | the handle, the window to notify, `com_thread` | open, close, read, write, `com_thread` | no notification is lost between the two threads; a line error purges |

### How they interact, and what is hard

The board writes frames `<command, length, payload>` and polls for bytes about once a
second, one byte deep. The PC writes frames in one go. Inside the Supervisor the
driver raises events, `com_thread` turns each into a window message, and the UI thread
reads whatever the driver then has. The hard behaviours are therefore: bytes lost to
an overrun, or taken for something else because a previous message was not consumed
whole; a byte that arrives during `SendBuffer`; a busy-wait without a timeout; two
threads asking the driver for the same one-shot error report; messages of a closed
port handled after the next was opened; a frame split between two reads; counters
that start at, stop at or wrap at the wrong value; a reading overwritten before it is
known to be good. `PROJECT.json` lists each hazard with its line and the properties
that would catch it.

## Modules

| Module | Models | Role |
| --- | --- | --- |
| `Uart` | receive side of UART0 | extended by `Controller` |
| `Controller` | main loop, protocol, relays, motion | the core of the board |
| `Telemetry` | what the board promises to a listener | abstract specification, implemented by `Controller` |
| `Dht11` | the sensor driver with its timing | detailed model of what `Controller` takes as one step |
| `Mcg` | the clock driver, and what `main()` makes of its answer | extended by `Boot` |
| `BaudRate` | `uart0_init` | extended by `Boot` |
| `Boot` | `main()` before its loop | composes `Mcg` and `BaudRate` |
| `Supervisor` | dialog and port class, two threads | the PC |
| `View` | what the PC promises to whoever looks at it | abstract specification, implemented by `Supervisor` |
| `Settings` | the OK button, its three updates, `write()` | the way from the dialog to the line |
| `SmartHouse` | board and PC | composes `Telemetry` and `Supervisor` |
| `ControllerProofs`, `Dht11Proofs`, `McgProofs`, `McgPlanProofs`, `BootProofs`, `SupervisorProofs`, `SettingsProofs`, `SmartHouseProofs` | | theorems |
| `MCController`, `MCDht11`, `MCMcg`, `MCBoot`, `MCSupervisor`, `MCSettings`, `MCSmartHouse` | | instances for TLC |

An operator whose name ends in an underscore and a word (`GetTemp_Unchecked`) is a
deliberately wrong version of the definition after it. Nothing uses it; putting it in
that definition's place must break the property it stands for, which shows that the
property says something about the code.

### Uart and Controller

`pc` is the statement `main()` is about to execute, cut where another actor can
interfere: every call that reads the UART is a step of its own. `RecvBuffer` is
`RecvNothing`, `RecvCommand`, `RecvLength` and `RecvPayload`; the last three wait until
a byte is there, as the busy-wait of `uart0_getchar` does. `SendBuffer` is one step:
the bytes leave (the transmitter drains by itself), and if a byte has arrived by then
it is consumed as the answer. What leaves is recorded in `told`, one entry for each
kind of frame. `szRepBuf` holds only what was stored since the last `memset`; `RepByte`
reads zeros past it.

`CtrlRelay` drives its pin low and `ReleaseRelay` drives it high, so `relay1` and
`relay2` are TRUE when the pin is low. `Initialize()` leaves both low: the board starts
with both relays engaged. `GetTemp` chooses the temperature byte and whether the
checksum was right; either way the byte is in `dht`, and either way relay 1 follows it,
as in the code. `SonicDistance` chooses a distance. The PC sends each frame of
`HostFrames` at most once, at any moment, and its bytes come in one at a time (`Store`),
find the register full (`Overrun`), or meet a receiver whose overrun flag was never
cleared (`Deaf`). Nothing in the program clears that flag. Whether the receiver stays
deaf then is the silicon's business: `OverrunBlocks` is the set of possible answers, and
each overrun takes one of them.

`sinceMotion` and `verified` are history: polls since a motion, and the last reading
whose checksum was right. They feed no guard of the board.

`Telemetry` has no receiver, no sensors and no program counter: a turn is a fixed order
of frames, an optional reading first, and a frame about a relay carries the position the
relay has. The refinement mapping has to move one thing. The code switches a relay and
reports it in the next call, the abstract specification does both at once, so
`reported` already holds the new position between the two.

### Dht11

Time is counted in microseconds within a tick (`phase`) and in ticks (`msTicks`). Every
action is one edge of the sensor with the loop of the board that waits for it; a pulse
of d microseconds advances the counter by one tick more or less depending on the phase.
The sensor and its possible disturbances are the environment. `Rec` and `dht` are
filled by the code's own arithmetic; the tick counter wraps at `TickModulus` (2^32 in
the code) and `MeasuredBit` subtracts modulo it, as unsigned arithmetic does.

### Supervisor

`thread` is where `com_thread` is in its loop, `ui` where the UI thread is in
`OnComReceive` or in opening a port. `ReceiveMessage` and `Read` are two steps because
bytes can arrive between the count that `ClearCommError` returns and `ReadFile`.
The Windows driver is environment: a queue, two events that are collected until
`WaitCommEvent` reports them, an error that `ClearCommError` reports once. `Messages`
is `OnComReceive`'s loop over a chunk, `Show` is `ProcessMsg`'s switch, and `Overlay`
the buffer that is not cleared between two messages. `unannounced`, `fresh` and
`tainted` are history. To open a port has three outcomes and a fourth that shows later:
`OpenPort`; `OpenPortFails`, when `CreateFile` or `CreateThread` fails after the old port
was closed; `OpenPortRefused`, when the number is outside 1..1024, which `open()` finds
before it touches the old port, so that this one goes on under blank labels; and
`ThreadEnds`, when `SetCommMask` fails in `com_thread`: the port stays open, and nobody
announces what arrives (`Listens` is false, as it is before `SetCommMask`). What
`SetupComm`, `SetCommState`, `SetCommTimeouts` and `PurgeComm` return is only asserted, so
that a release build goes on; the model takes them to do what they are asked. `write()` belongs to `Settings`; of it `Supervisor` keeps the
`ClearCommError` it begins with, because that takes an error away from the other two.

`View` forgets threads, queues and bytes. It has the frames that have been said and may
still be shown, and the labels; frames are shown oldest first, whole, once, or missed.
Under the mapping `pending` is the driver's queue cut into frames, then the wire.

Two behaviours follow from the loop over a chunk that no property states. The board no
longer sends the mark FF FF between frames (commented out at `FW/SerialComm.c:19-20`),
and the position where the loop looks for it counts one byte more than the board ever
sent. So when several frames are read at once only the first is shown. And the position
may pass the end of `szBuf[256]`; no frame of the board has the length byte this takes,
and the queue of the runs is too short for it.

### Mcg

Every function of the driver has the same form: check the mode and the arguments, then
write registers and wait for status bits in an order of its own. So a function is one
action (`Call`) that checks and, if nothing is wrong, leaves its script in `todo`. A
script is data: register writes (`Write`), read-modify-writes that or bits in (`WriteOr`)
and waits (`Await`, with the error code a timeout returns). `Step` performs a write,
`Found` ends a wait that has succeeded, and `TimeOut` one that has not: the function
returns its error and leaves the registers as they are. `C` and `S` are the fields of the
control and status registers that the driver uses. Callers may call any function, in any
mode, after any answer.

`CoreClockRight` compares the frequency an answer gives with `MCGOUTClock`, the reading
of the registers in `SystemCoreClockUpdate`, two pieces of code that know nothing of each
other.

The MCG itself is environment. Each status bit follows the control fields at any time
(`Follow`, `Target`): CLKST shows the PLL only once PLLST does, changing the PLL's
settings takes its lock away, and CLKS = 3, which is reserved, may select anything.
A wait times out when all status bits have settled on something else, or, `MaxLate`
times, although the hardware would still have followed.

### BaudRate and Boot

`Try` is one turn of `uart0_init`'s loop over the oversampling ratios, `Configure` what
follows the loop. Divisions truncate as in C. Where the divisor is zero the code divides
by zero; the processor has no divide instruction, and its run-time library returns zero.
Registers have their width: the divisor takes 13 bits.

`main` is the statement `main()` is about to execute; where it ends in `while(1)` the
model rests in `spin`. `pll_init` runs as `Mcg`'s script, beside the hardware. `main()`
keeps the frequency it returns in a `char`, which is zero for the frequency it gets, and
accepts nothing but zero (`MainAccepts`). Besides the request `main()` makes of
`uart0_init` the model lets the build make others, so that the search is checked on
more than one.

### Settings

A click on OK runs three updates in turn, and each may run `write()`: `ClearCommError`,
a purge of the output if it reported an error, `WriteFile`. `ok` is the update and `call`
the system call the UI thread has reached. `Carried` is the conversion of a value to two
bytes, with the rounding of a `float`: 23.30 goes out as 23 and 29. Two defects of the
updates appear as they are: `UpdateTemperature` compares with `m_fTemperature`, which
nothing changes, and stores the new value in `m_fHumid`. The board of this module takes
every message (`has`), since the question is what the PC sends; what the real board makes
of these messages is `Controller`'s.

### SmartHouse

Each step of `Telemetry` that speaks puts its frame on `Supervisor`'s wire and waits for
the wire to be free. `missed` is history: a frame was lost, purged, or read behind another
one since the labels were last cleared. Only the direction from board to PC is composed.
The other one is in `Controller` (a PC that may write any of its frames at any time) and
in `Settings` (which writes happen); the board rejects all of them.

## Runs

| Run | Question | Result |
| --- | --- | --- |
| `ctrl` | With messages a PC writes, in any state of disorder: does the loop implement `Telemetry`; do relays, reports and frame order stay right; is a motion held for its polls, every reported reading verified and the newest; are bytes outside 1..10 harmless; can the loop stop anywhere but inside `RecvBuffer`; is relay 1 released once heat and motion are over? | holds |
| `dht11` | Every phase, every wrap, one disturbed pulse: are bits right, wrong readings refused, right ones taken? No deadlock: the loops and the sensor stay in step, which is how a wait too many or too few would show. | holds |
| `mcg` | All sequences of calls, on four boards: is the clock monitor off where it must be; does an answer mean what it says; is the FLL in its range and a PLL in use locked; is the frequency it gives the one CMSIS computes from the registers; does `main()` start only on a locked PLL? No deadlock: a wait always ends. | holds |
| `boot` | From reset to the loop: does `main()` get there; with the clock, the frequency and the tick it believes in; does it meet the Supervisor's baud rate; does `uart0_init` find the best ratio for this and other requests, and do its registers hold what it found? | holds |
| `sup_aligned` | Frames arrive whole, the line has errors, ports are reopened: is a notification lost; is what was announced read in the end; is anything shown that the board did not say, or said before; does the dialog implement `View`? | holds |
| `settings` | Ports close, lines fail, writes fail: does a board hold what the user confirmed, but for the exceptions the property names? | holds |
| `house` | Both programs: when nothing is on its way and nothing was missed, do the labels show the board's relays and measurements? | holds |
| `ctrl_motion_report` | Does 1 from `GetInfrared` mean a motion? | violated |
| `ctrl_set_temperature` | Does a temperature set by the PC become the limit? | violated |
| `ctrl_whole_message` | Does `RecvBuffer` hand over whole messages? | violated |
| `sup_split` | Frames arrive byte by byte: is anything shown that no frame carries? | violated |
| `sup_error` | Are bytes read from a queue a line error has hit? | violated |

### Disagreements found

1. `FW/main.c:132` says 1 from `GetInfrared` means a moving object. `DelayCounter`
   starts at 0, as if one had just been seen, so the first nine polls after power-up
   report motion and engage relay 1.
2. `FW/Include/SerialProtocol.h:20-29` lists the settings 0x86 to 0x88 among the messages
   of the PC. `RecvBuffer` rejects every first byte above 10 and `main()` has no case for
   them. The rest of the rejected message stays on the line and is read as the start of
   the next one: the length byte 2 of `CMD_SET_TEMPERATURE`, if it is the next byte
   `RecvBuffer` sees, makes the loop wait for bytes that may never come.
3. `RecvBuffer`'s payload loop counts from 2 up to the length of the payload alone, so two
   bytes of each message stay on the line and `GetDHT` reads zeros for the temperature.
4. `OnComReceive` takes what one `read()` returns for a sequence of whole frames. When a
   read ends inside a frame, zeros are shown for the missing bytes, and the rest is taken
   for a frame of its own.
5. `com_thread` and `read()` both call `ClearCommError`, which reports an error once.
   `com_thread` ignores the answer; when it calls first, `read()` sees no error and does
   not purge.

More places deserve a reader's attention, though no document of the project promises
otherwise, or none that a run could hold against the code:

- After a wait that timed out, the `|=` on CLKS in `fee_fbi` can produce the reserved
  value 3; and `blpe_pbe` accepts a PLL of 200 MHz. Both are listed as hazards.
- `fbe_fee` keeps the FLL's reference in a `short`. 32768 Hz, the frequency of every watch
  crystal, does not fit; the function refuses 20.97 MHz with error 0x33, which
  `DRV/mcg/readme.txt:40` explains as "FLL frequency is below minimum value for range 0".
  `fei_fee` and `fbi_fee` use an `int` and accept the same crystal.
- `main()` asks for 115200 baud and says that the UART's clock is 48 MHz; the clock is
  24 MHz, so the board speaks at 57692 baud, which is what the comment at `FW/main.c:17`
  (57600) and the Supervisor's default say. Each of the two errors alone would separate the
  programs (`SpeaksToSupervisor`).
- The comment at `src/platforms/freedom.h:36-38` of the firmware gives the output of the
  PLL divided by two. Line 44 of the same header, `DRV/mcg/mcg.c:32`, the code and
  `StartsRight` all have it undivided, 48 MHz.
- The comment at `FW/main.c:81` speaks of a tick of 1 ms; the tick is 10 us, which is what
  `dht11.c` counts in (`StartsRight`).
- The exceptions in `ConfirmedIsHeld`: a message that was lost is not sent again, because
  the value counts as set before `write()` is called; 21.00 is never sent as a temperature;
  a humidity equal to the temperature set before is taken for unchanged.

### Bounds, and why they are enough

- Controller: `PulseWidth` is 2 in `ctrl`, so that a pulse can be begun, held, extended and
  over; it is 10 as in the code in `ctrl_motion_report`, and `PirPulse` is proved for every
  width. The temperatures 20 and 26 lie on either side of the limit 25 and of the limits a
  message can set; the distances include the threshold itself. `HostFrames` are a message
  without a byte in 1..10 and the one command with an effect, `CMD_DHT`, with the length
  byte that makes the loop read it whole (`ctrl_whole_message` has the one the protocol
  means). Each is sent once: sending it again adds bytes to a line whose bytes are already
  lost in every combination, and the theorems put no bound on the set of messages.
  `OverrunBlocks` has both values in `ctrl`.
- Dht11: the pulse lengths are those of the sensor (26 to 28 and 70 us, response after
  34); 58 us is a disturbed pulse that reads as either bit depending on the phase. Two
  readings, one of which has a sum above 255. `TickModulus` 12 is the least at which no
  pulse is longer than the counter, so the counter wraps inside pulses all the time, and
  all ten phases occur. The theorems hold for every modulus above 11, all pulses up to 50
  us (0) and from 60 to 100 us (1), all readings, and any `CallDelay`. Pulses of 51 to 59
  us are ambiguous, and no claim is made of them.
- Supervisor: three kinds of frames with one, two and four payload bytes that matter, a
  queue of nine bytes (two frames, or one and the rest), two posted messages. `ReadMax`
  is the code's 255, which the runs never fill; the theorems cover a full read.
  `MaxPosted` delays `com_thread` where the real queue would grow; two are enough for one
  message to be handled while another is waiting. `sup_aligned` assumes that the driver
  has each frame whole, which is where the code behaves as meant; `sup_split` drops that
  assumption for the display, and the theorems about the two threads hold with and
  without it.
- Mcg: four crystals, one for each way the arguments are judged (8 MHz, the board's:
  good for FLL and PLL; a watch crystal: FLL only; 3 MHz: PLL only; 60 MHz, which every
  function that would go over to the external clock refuses with 0x21), one slow and one
  fast internal reference, and PLL settings that are right, out of the divider's range,
  and out of the PLL's range. `DRS` is 1 and `DMX32` is 0, as `SystemInit` leaves them; the driver never
  writes either. One late wait (`MaxLate`) is enough for a call to start while the
  hardware still follows an earlier one; the theorem puts no bound on late waits.
- Boot: the board's crystal and PLL settings. The requests are the board's and fourteen
  others, chosen for the branches of the search: rates that many ratios suit equally well
  (the later wins), rates for which the divisor is one or zero, a divisor that does not fit
  13 bits, rates that are refused, clocks below and above the limits. The theorems hold for
  every request below 2^27 baud, above which `baud_rate * i` passes 32 bits.
- Settings: boxes hold hundredths. Each kind has its default, two kinds share a value (the
  humidity that equals a temperature) and 23.30 loses a hundredth on the way. `MaxQueued` 4
  leaves one message of an earlier click in the driver when the next click comes. The
  theorem covers all values from 16.00 to 255.99; below 16 the rounding would need more
  digits, from 256 on the byte overflows, and the dialog checks neither.
- SmartHouse: one reading, two distances on either side of the threshold, so that all five
  frames occur with each of their relay values; `sup_aligned` has the line errors, which are
  therefore off here. A queue of nine bytes, two posted messages, as above.

### Fairness and deadlock

The board's liveness assumes weak fairness of `Board` (one thread that never sleeps; the
busy-waits on sensor pins end, because the sensors are taken to answer) and of
`ByteArrives` (the line delivers what was written to it). A wait in `RecvBuffer` is not
assumed to end. Nothing is assumed of the PC or of motion.

`Supervisor`'s `FairSpec` assumes weak fairness of `com_thread` and of each step the UI
thread takes by itself: Windows schedules both, and a posted message is dispatched. Nothing
is assumed of the user, the board or the line. `Boot`'s `BootFairSpec` assumes it of `main()`
and of the hardware, which follows its control bits in the end; that a wait can still
time out is in the property. No liveness is claimed of the clock driver's other functions:
all waits are counted, and end in any case.

`CHECK_DEADLOCK FALSE` is said where the program really can stop: in the runs in which a PC
message can leave the loop waiting (and `LoopAlive` says it can stop only there), and in
`boot`, which ends at the loop or in `while(1)`. All other runs check for deadlock.

## Proofs

All are checked by TLAPS for every value of the constants, under the named assumptions of
the modules (`ControllerAssumption`, `OverrunAssumption`, `Dht11Assumption`,
`SupervisorAssumption`, `McgAssumption`, `PllSettingsAssumption`, `RequestsAssumption`,
`SettingsAssumption`, `HouseAssumption`), which TLC evaluates on each run. Some theorems
have a hypothesis of their own, because what they say is only meant, or only true, of
some constants:

| Hypothesis | Of | Says | Because |
| --- | --- | --- | --- |
| `Crystals = {8000000}` | `StartsRightCorrect`, `SpeaksToSupervisorCorrect` | the crystal is the board's | `main()` asks for 48 MHz of this crystal and computes with no other |
| `Aligned` | `IsViewCorrect`, `NothingInventedCorrect`, `LabelsAgreeCorrect` | the driver has each frame whole; a read has room for the whole queue; a frame is `<command, length, payload>` | without it the results are false: `sup_split` shows it for a frame in pieces, and a read that is cut short by `ReadMax` leaves a piece |
| `Protocol` | `NothingInventedCorrect` | motion and relay frames carry one byte, 0 or 1; distances and readings carry four | it is what `FW/SerialComm.c` and `FW/main.c` send |
| `Showable` | `LabelsAgreeCorrect` | a temperature is not 0, and a distance is a positive float of four bytes | `ProcessMsg` leaves the label as it is for any other |
| `Named` | `CoreClockRightCorrect` | an internal reference the driver accepts has the frequency CMSIS names | the driver accepts a range, and computes with the frequency it is told |
| `Tellable` | `BootedCorrect` | a PLL frequency within the range is a multiple of 256 | `main()` keeps it in a `char` and takes zero for success; 50 MHz, also legal, would leave it in its error loop |

The constants of the runs satisfy them: `house` the three of the Supervisor and `Showable`,
`sup_aligned` the first two of these, `mcg` `Named` and `Tellable`, `boot` the board's crystal.

| Theorem | Argument |
| --- | --- |
| `ControllerProofs!TypeCorrect` | one step for each action; lemmas for a byte taken from and stored in the register, and for the common shape of the sending steps |
| `LoopOutcomeCorrect`, `ReadingsVerifiedCorrect` | `LoopInv`: what has been decided so far in this turn, by `pc`, in four parts (heat, motion, near, reading). `LoopOutcome` alone speaks of one value of `pc` and is not inductive |
| `InertHostCorrect` | `InertInv`: besides the property, every byte in the line and in the register was sent by the PC (`CarriedInv`), so none of them is a command |
| `PirPulseCorrect` | `PulseInv`: `DelayCounter` and `sinceMotion` agree once one of them has meaning |
| `ImplementsTelemetry` | the mapping of `stage` and `reported`; each step of the board is a step of `Telemetry` or a stutter. It needs `LoopInv`: a relay frame is computed from the condition, not from the pin |
| `NoLostWakeupCorrect` | `WakeInv`: the property itself, `CountInv` (while a read is under way its count does not exceed what is queued, and what it will leave behind is due another look, was never announced, or is left by a full read) and the types of the queues |
| `NothingFromBeforeCorrect` | `FreshInv`: what is queued, or is about to be read, came in through this port, so that a stale message finds nothing old to show |
| `SupervisorProofs!TypeCorrect` | one lemma for each of three groups of variables (`FlagsNext`, `ControlsNext`, `ContentsNext`); that the labels keep their type needs `ChainExists` and `FoldExists`, below |
| `IsViewCorrect` | `ShowInv`: the types, `WakeInv`, and `WholeInv`: the queue is frames put one after the other, and a read that is under way ends with one of them. `PendingIs` says that the mapping's `pending` is these frames and the wire; lemmas `CutsAppend`, `CutsDrop`, `CutsHead` what arriving, taking and showing do to them; then each step is a step of `View` or a stutter |
| `NothingInventedCorrect` | a read shows the first frame of the queue and no other (`ReadShows`), and what `ProcessMsg` makes of a frame of the protocol is in that frame (`FrameShown`), zeroes behind its end included |
| `Dht11Proofs!TypeCorrect`, `BitsRightCorrect`, `OneDisturbedRefusedCorrect`, `UndisturbedTakenCorrect` | `ReadInv`: sensor and driver are in step (`Together`), the bits so far are right or exactly one byte is wrong. Lemma `Measured`: the difference of two counter values modulo `TickModulus` is the number of tick boundaries in the pulse; `PulseRead`: so it falls on the right side of the threshold; `OneBitMore`: shifting in a bit continues the byte; `SumTells`: two readings that differ in one byte have different checksums |
| `McgProofs!MonitorOffCorrect` | `MonitorInv`: besides the property, what is left of the script is of one of two kinds. `OnScript` never selects the internal reference, and turns the monitor on only after the external one has been seen in use; `OffScript` never turns the monitor on, and turns it off before it selects the internal reference. Lemmas say how the two kinds are put together from pieces (`LeadsThenOn`, `OnThenCalm`, `HushesThenOff`, ...); each call then starts a script of one kind, and each step, late or not, leaves one |
| `McgProofs!TypeCorrect` | `TypeInv`: besides the types, every operation of the script has the fields and values of a register it is about, and there are at most twelve of them |
| `McgPlanProofs!RightModeCorrect`, `RunsLockedCorrect`, `FllInSpecCorrect`, `CoreClockRightCorrect`, `BootedCorrect` | `PlanInv`, described below: what is left of the script leads from what is known of the hardware to the end the function promises. Each property is one consequence of it (`RightModeShows`, `LockedShows`, `FllShows`); `Booted` needs `ReturnInv` besides, since a history in which waits have timed out must not turn an error into zero |
| `BootProofs!StartsRightCorrect` | `StartInv`: until `pll_init` is called the clock is in the mode it has after reset; while it runs, what is left of its script says, by the number of operations left, what the registers hold (`Progress`); once it has returned without an error the registers are those of a locked PLL and the hardware has nowhere else to go. A wait that times out leaves an error that `main()` refuses. `StartsRight` alone speaks only of the last moment |
| `BootProofs!BestRatioCorrect`, `InToleranceCorrect` | `UartInv`: the best of the ratios tried so far, the later of equal ones, and a difference that is that ratio's. Lemma `DivisorFits`: where the request is high enough the divisor fits its register; `AcceptedRate`: a difference below 3 % is a rate within 3 % |
| `SpeaksToSupervisorCorrect` | `StartInv`, `UartInv` and `AskedInv`: the rate was asked for in whole kHz, and in the loop the UART is ready. What is left is arithmetic of two numbers |
| `BootTypeCorrect` | `BootTypeInv`; `ClockTyped`: whatever the registers hold, CMSIS makes a natural number of them |
| `SettingsProofs!ConfirmedIsHeldCorrect` | `SettingsInv`: the property for the settings the handler has already passed, and what `m_fHumid`, against which the humidity will be compared, stands for at each point of the handler (`StandsFor`: a temperature, once `UpdateTemperature` has run). Lemmas say what the three ways to change the queue (`AppendArrives`, `TransmitArrives`, `DropArrives`) do to what will arrive, and `CarriedUpToOne` that the conversion loses at most a hundredth |
| `SettingsProofs!TypeCorrect` | the queue has room for as many messages as updates are left to run; needs `SettingsInv` for what the updates compare |
| `SmartHouseProofs!HouseIsSupervisor`, `HouseIsBoard` | each step of the house is a step of `Supervisor` and of `Telemetry`, or a stutter: neither program constrains the other |
| `HouseNoLostWakeup`, `HouseNothingFromBefore` | so what is proved of `Supervisor` holds in the house |
| `LabelsAgreeCorrect` | `HouseInv`: `ShowInv`; what was told of a relay is its position (`ToldInv`); and, as long as nothing was missed, for each kind of frame either one that carries the last value told is still to be shown, or the label has it (`LastInv`: `Due` or `Agreed`) |

Only model-checked: liveness (`LoopAlive`, `RelayReleased`, `WaitingIsTaken`, `Starts`) and
the fairness of refined specifications, which are out of the prover's reach. Every invariant
and every action property of the passing runs is a theorem.

### Three things a reader of the proofs should know

*Recursive functions.* `Show` for a chunk and `FramesIn` are recursive functions, and an
induction theorem with an operator parameter cannot be used. The proofs use induction over
a set instead (`Induction`: a set that has 0, and `n + 1` with every `n`, has all of `Nat`).
By it `FoldExists` and `ChainExists` show that there is a function with the defining
equation, so that the recursive definition, a `CHOOSE`, has it; what the function returns is
then proved by a set of the same kind.

*Scripts of the clock driver.* An inductive invariant for all 24 functions has to say
something of every register and status bit at every point of every script, while the
hardware moves the bits in an order of its own. `PlanInv` says it in one sentence: what is
left of the script leads from what is known now to the end the function promises. What is
known (`Known`) is the control fields and the status bits that have settled on what the
fields ask for; a write takes knowledge away, a wait that ends adds some (`Leap`). `LeadsTo`
follows a script that way. `FollowKnown` says that the hardware takes no knowledge away, so
the invariant survives every interleaving. Each function then needs one lemma: its script
leads from what its checks have established to its `Final`. The strict form of `LeadsTo`
adds that no wait is known to be in vain and no unlocked PLL is selected, and is claimed
until a wait times out; the other form is claimed of `pll_init` after any history, and
`ReturnInv` keeps of it what `main()` depends on. The end includes that an external clock in
use is one the driver accepts (`Allowed`): the five functions that go over to it refuse one
above 50 MHz, and `fbe_fee`, which checks nothing of the kind, computes its reference with
16 bits. `McgAssumption` is written with inequalities instead of intervals of millions of
numbers, which the SMT solver handles and TLC evaluates no slower.

*The prover.* The encoding of sequences that tlapm 1.4.5 gives to its SMT solver has an
axiom on `Len` and `DOMAIN` that is inconsistent with a function whose domain is not an
initial segment of the naturals, such as the buffer `[0 .. 5 -> ...]`. The obligations of all
proofs have therefore been tried again with only the sound half of that axiom: none needs the
other. Where a length
is needed, the steps cite `LenProperties` or `EmptySeq` by name.

## Not modelled

- Most of the tree. Of its lines, by far the largest part is `src/Document` (manuals, other
  people's sample projects, register headers of chips the board does not have) and vendor
  code beside the target: device headers, drivers of peripherals nothing uses, a library
  with `queue.c`, `alloc.c`, `printf.c` and others, none of which is in the target's project
  file or called by a file that is. They have no behaviour in this system, and a model of
  them would say nothing about it. The two programs themselves, a few thousand lines with
  the clock driver, are modelled but for what follows.
- The transmit side of the UART: it drains by itself and the driver waits for it.
- UART1 and UART2 in `uart.c`, which nothing calls.
- The arithmetic from ticks to centimetres and the LED colours in `SonicDistance`.
- In `mcg.c`: `atc`, which trims a reference and keeps the mode; `chk_for_resistor`, which
  reads pins; `clk_monitor_0`, which does what its caller says. `pll_init` ignores its
  argument `mcgout_select`, though the comment at `DRV/mcg/mcg.c:51-52` gives it a meaning.
- Waits for a sensor that never answers. They have no timeout; the loop simply stops.
- In `com_class.h`: the synchronous variant, the stream operators, suspend and resume, which
  the dialog does not use. That `write()` may return while its operation is pending is not
  visible, because the driver of Windows copies the bytes. The setup calls of `open_port`
  are taken to succeed.
- MFC and the shell of the application, pins and clock gates.

## Plan

The order was: the board's loop, its protocol and `Telemetry`; the sensor; the Supervisor's
two threads; the clock driver; the settings; the start of the board, which composes the
clock driver with `uart0_init`; the composition of both programs; and `View`. Proofs
followed each module. All of that is done. What would come next, by value:

1. `SonicDistance` in the style of `Dht11`: the tick that may or may not fall into an echo
   moves the distance by 0.174 cm, and the threshold with it.
2. The library's `queue.c` and `alloc.c`, should the target ever use them.

No module that is proved about declares a RECURSIVE operator.
