# Verification of the pcb_heater firmware

TLA+ models of the firmware of a PCB heater (STM32F0, FreeRTOS 10.2.1), the TLC
configurations that check them on small instances, and TLAPS proofs of what holds for every value of the
constants. Paths below are relative to the repository (`src/...`); the modules are in this directory.

## 1. The system

`src/main.c` starts five tasks and the hardware they share:

| part | state it keeps | operations | talks to |
|---|---|---|---|
| `vPID_Task` (2 s, priority 1) | `pidData`, `temp_cur_val`, `work_cnt`, PWM compare register | sample the MAX6675, choose the setpoint (0 after `HEATER_OFF_TIME`), run `pid_Controller`, set the pulse width, count, feed the watchdog | SPI bus under `xSPI_Mutex`; the display task through `temp_cur_val`, `temp_set_val`, `work_cnt` |
| `vIndDataOutTask` (100 ms, priority 1) | `scnt`, `cur_displ`, `temp_set_val`, display buffer | take key presses, step the setpoint, reset `work_cnt`, write the number to show | semaphores of the keys; the refresh through the buffer |
| `vGetButtonStateTask` (10 ms, priority 1) | `buttons_cnt` | sample, debounce and repeat two keys, give a counting semaphore per press | `vIndDataOutTask` |
| `vLed7segUpdateTask` (3 ms, priority 2) | `cur_digit`, segment register, position pins | multiplex the display | SPI bus under `xSPI_Mutex` |
| `vSaveDataTask` (900 s, priority 1) | one half word of flash | compare, erase the page, program the setpoint | `temp_set_val` |
| `main`, `periphery_init` | everything, from reset | restore the setpoint, start the regulator at rest, PWM at 0, start the watchdog (5 s) | |
| `pid.c` | `sumError`, `lastProcessValue` | `pid_Init`, `pid_Controller` | `vPID_Task` |

Under them runs a vendored kernel, and beside them lies a library that the firmware shares with other devices and
does not link into its tasks:

| part | state it keeps | operations | talks to |
|---|---|---|---|
| FreeRTOS (`src/library/freertos`) | tick counter, two lists of delayed tasks, suspension and pended ticks, the running task | `vTaskDelayUntil`, `vTaskDelay`, waits with a timeout, the tick interrupt, the context switch | every task |
| `buffer.c`, `usart_hl.c` | two ring buffers, the transmit interrupt | send a string, read, peek, drop and flush; the interrupt handler | the USART; a task and its interrupt |
| Modbus RTU slave (`library/modbus`, `protocols/modbus_serial_drv.c`, `all/modbus_cb.c`) | receiver and transmitter states, `FrameRcvFlag`, `packet_buf`, holding registers | `eMBEnable`, `eMBDisable`, `eMBPoll`, the interrupt handler with the receiver timeout | a master on the bus, the two rings |
| SLIP (`protocols/slip_prot.c`) | the packet received so far | `slip_send_packet`, `slip_recv_packet` | the buffered USART |

Calendar and clock chips, 1-Wire, character displays, encoder, I2C and the Ethernet libraries are listed in
`PROJECT.json` with the reason each is left out. `PROJECT.json` also lists the hazards, each at its line, with the
properties that are about it.

**What is hard.** Nothing in the application is protected but the SPI bus: the setpoint, the temperature and
`work_cnt` are `volatile` half words that time-sliced tasks read, modify and store. A display refresh of higher
priority shares a full-duplex bus, and its receive FIFO, with the temperature sample. The setpoint survives power
cuts in a page that is erased before it is written. The processor may stop, and the heater stays driven until the
watchdog bites. A counter that would wrap switches the heater off, and what switches it off is a regulator with a
long memory. Every period is counted by a tick counter that overflows, against times that overflow separately, while
ticks may be pended. In the library the hard part is the border between a task and an interrupt handler: rings that
both update, an interrupt enable bit that both write, a packet that is executed in place while the next one is
received, and bytes that are lost, added, late or too many.

**What makes each part correct.**

- *Heater tasks*: a bad sample never heats; no stale temperature drives the heater for longer than a watchdog
  period; the switch-off is never late and in the end the heater is off; the setpoint stays one that can be dialled from
  the word it was restored from and is saved; the display follows the sample.
- *Regulator*: no overflow, output in range, the integral bounded and draining once the setpoint is 0.
- *Keys*: presses and repetitions follow the time a key is down; none is refused or left behind.
- *SPI bus and display*: a sample is the converter's own word; figures light in their own place; a refresh waits for
  the holder of the bus and nobody else; nothing waits forever.
- *Kernel*: a task wakes at its tick, never sooner and late only by pended ticks; the most important ready task runs.
- *USART*: each ring is a queue; what was accepted is armed and sent; a byte that was tested for stays there.
- *Modbus slave*: a request is executed and answered at most once, as long as no frame ends while another is worked on; an answer goes out whole or not at all, and none is left behind.
- *SLIP*: a packet that arrives whole is returned whole, whatever happened to those before it.

## 2. Modules

| module | models | builds on |
|---|---|---|
| `PidController` | `src/my_libs/pid.c` as operators | |
| `Thermostat` | abstract: what the controller promises, without tasks | |
| `Heater` | `src/main.c`: regulator, display, save task, watchdog, restarts, faults | `PidController`, refines `Thermostat` |
| `HeaterInvariants` | the inductive invariant of `Heater` | `Heater` |
| `SpiBus` | mutex, priorities, SPI, sample and refresh | |
| `SpiBusInvariants` | the inductive invariant of `SpiBus` | `SpiBus` |
| `Buttons` | sampling of the keys and taking of the presses | |
| `Kernel` | time, the delayed lists, suspension and the choice of the running task in `tasks.c` | |
| `CBuffer` | `src/my_libs/buffer.c` as operators on a record | |
| `Fifo` | abstract: a queue that adds at one end and takes at the other | |
| `Usart` | `src/my_libs/usart_hl.c`: a task, the interrupt handler, the peripheral | `CBuffer`, refines `Fifo` twice |
| `Modbus` | the Modbus RTU slave: driver, protocol stack, functions, registers | |
| `Slip` | sender, line and receiver | |
| `HeaterProofs` (and the regulator's), `SpiBusProofs`, `ButtonsProofs`, `KernelProofs`, `UsartProofs`, `ModbusProofs`, `ModbusAnswerProofs`, `SlipProofs` | theorems | |
| `MCHeater`, `MCSpiBus`, `MCButtons`, `MCKernel`, `MCUsart`, `MCModbus`, `MCSlip` | instances for TLC | |

**`Heater`.** A slot is 100 ms, the period of the display task; the other periods are multiples of it (`PidPeriod`,
`SavePeriod`, `WatchdogPeriod`). `Tick` begins a slot and releases the tasks that are due. Within a slot the
released tasks interleave at every access to a shared variable: `IndTake` (lines 150 to 154, which take a press and
reset the counter), `IndAdjust` (155 to 163), `IndNext`, `IndShowSet`, and the two reads of the temperature
`IndShowCheck`, `IndShowCur`; `PidSample`, `PidCheck` (the comparison of line 60), `PidDrive` (62 to 73),
`PidCount` and `PidStore` (the read and the store of `work_cnt++`, and the feeding of the watchdog); `SaveCompare`,
`SaveErase`, `SaveProgram`. `Restart` is `main` from its first line with a given word in flash; power comes on in
`Init`, the watchdog resets in `WatchdogReset`, `PowerCycle` cuts the power at any step and may leave a torn word
when the flash was being changed, `Halt` stops the processor. `age`, `quiet`, `unsaved` and `origin` are history: slots since
the last sample, regulator periods since the last press, slots the flash has differed from the setpoint, and where the
steps of the setpoint start from: `MIN_TEMPERATURE`, or the torn word that was restored. `Dialled(origin)` is what the keys can make
of it; `Dialled(MIN_TEMPERATURE)` are the settings from 50 to 300.

Assumptions of `Heater`: (a) what is released in a slot finishes in it (jobs take microseconds to tens of
milliseconds, a slot 100 ms, and the flash erasure stalls every task alike), so `Tick` waits until all are idle; (b) a sample is
one step, which `SpiBus` justifies; (c) presses come at any time up to the limit of the semaphore, which `Buttons`
justifies; (d) a half word torn by a power cut may read as any of the values in `TornValues`, about which nothing is
assumed: `periphery_init` tests the upper limit only, and the model restores what the code restores. An erased half word reads as a
value (65535) that the keys cannot dial. A
step touches at most one variable that another task writes or reads: lines 62 to 73 store `work_cnt` on one branch and
read the setpoint on the other, so taking them as one step loses no interleaving.

**`SpiBus`.** Tasks are `pid`, `led` and `ind`, the last for all that do not use the bus. A step of a task needs it to be
ready and no ready task to have a higher priority; `Block` and `Give` follow the inheritance of
`xTaskPriorityInherit` and `xTaskPriorityDisinherit`. `ShiftDone` is the peripheral: the display's register takes
every word, selected or not; the FIFO takes a word for every word sent, the converter's if it is selected and any
word otherwise; a full FIFO loses it and sets the overrun flag, which only a read of data and status clears.
`PidDrain` to `PidReceive` are `max6675_get_temp`, `LedOff` to `LedOn` are `led7seg_update` with the SPI driver, and
`IndWrite` is one position of `led7seg_write_uint` or `led7seg_write_err`. The position pins and `HC595_CS` matter by
their edges only. Releases are untimed: a refresh or a sample may begin whenever the last is finished.

**`Buttons`.** A step of the clock is a sample of 10 ms; every tenth releases the display task, and the two tasks
interleave at every access to a semaphore. `MaxHold` bounds how long a key is held.

**`Thermostat`.** Setpoint, reading, duty, stored setpoint: the setpoint moves by single steps, up only from below the
upper limit and down only from above the lower one, a duty is chosen with
the reading it is based on, the store is erased before it is written, and a restart is off and resumes from the
store, a damaged one included, unless what it says is above the upper limit. The refinement maps the reading to `pidData.lastProcessValue`: a reading counts from the moment the duty
follows from it.

**`Kernel`.** The tick counter has `Wrap` values instead of 2^32. `delayed` and `overflow` are the two lists of
delayed tasks, `item` the tick a task's list item carries, `waiting` the tasks that are in an event list too.
`vTaskDelayUntil`, `vTaskDelay` and a wait for an event run in the order of the code: the scheduler is suspended, the
tick is read, the task is put in a list; `xTaskResumeAll` then counts the pended ticks, and every tick may release
tasks one at a time. Ticks may come at any step outside a critical section, and while the scheduler is suspended they are pended, up
to `MaxPended` (a bound). What an event is, and which of several ready tasks of one priority runs, is left open.
`left` and `since` are history: real ticks until a task may run on, and ticks since its reference time, which stops
counting at `Wrap` (a bound: a task that calls `vTaskDelayUntil` 2^32 ticks after its reference time has lost count
in the code too). Of the configuration in `FreeRTOSConfig.h` the model takes the generic selection of a task, no
`INCLUDE_vTaskSuspend` (so `portMAX_DELAY` is a long timed wait), and no tickless idle. The application calls no kernel function
from an interrupt, so the list of tasks readied while the scheduler is suspended stays empty and is left out, and
so is nested suspension.

**`Usart`.** `usart_hl.h` leaves `USE_FREE_RTOS1` undefined, so the critical sections mask interrupts. A call
of the task on a ring is two steps, entry and exit of its critical section, and computes on exit from what it read on entry: only the
masking keeps the handler's update from being lost. The handler is one step, since nothing the two share runs above
it. `CBuffer` has the record with index, length and data of `buffer.c`, so that wrap-around is real. On this
family the overrun flag keeps the interrupt line up until it is cleared, and nothing clears it: the handler is entered
again for ever and the task starves. The model has this; `WaitingIsSent` holds nevertheless, because the handler keeps sending.
`uartGetByte` (lines 68 to 73) returns the byte exactly when `usart_hl_get_byte` says there is none; it has no caller.

**`Modbus`.** A frame is `Size` bytes and a byte knows which frame it is of, so that a packet passes the
checksum exactly when it is one whole frame: the checksum is assumed to detect every damage. The interrupt handler runs
receiver, transmitter and receiver timeout in the order of `MB_USART_ISR_FN`, each of which looks at a flag and at no
enable bit. `eMBPoll` is a sequence of steps: flag tested, flag cleared, packet checked, function called, answer built,
bytes queued one by one, state set, CR1 read, CR1 written. The handler comes between any two of them. Assumptions: the handler is served within a
character time while its interrupt is on; `packet_buf` is at least as large as `rx_buf`; a function of `mbfunc.c` is
one step; the rings are queues, which `Usart` justifies; the master is not constrained at all. `overlap` records that
a frame has ended while `eMBPoll` worked on another.

**`Slip`.** `slip_send_packet` begins with the END that flushes, and `slip_send_byte` is one round of its loop: it gives
`next` to the ring, ignoring that it may find no room, and moves on to the byte behind it (`Behind`): the other half of
an escape, the next place of the packet, or the closing END. The line loses and adds bytes; the receiver may be called
at any moment, and each round of its loop is a step, but for the byte after an ESC, which is read at once (`Escaped`).
A byte carries its packet, its place in it and which half of an escape it is: no action of the receiver looks at
these, only the history does. `broken` is history: the packets of which a byte was lost, into which noise fell, or
which the receiver misread; `arrived` are the packets that were returned as they were sent, `stray` those whose first
END returned something. No caller exists in the firmware; the model takes `slip_recv_packet` as meant to be called
again until it returns a packet.

## 3. Runs

| run | question | bounds | states |
|---|---|---|---|
| `HeaterControl` | the tasks without faults: ranges, the display and its countdown, a switch-off that is never late | 2 setpoints, samples {none, cold, overheated}, switch-off after 2 periods, countdown 2 | 447 200 |
| `HeaterFaults` | sensor errors, stale drive, flash, and the refinement, with halts, watchdog resets, power cuts and torn words | save period 2, watchdog 3, a torn word that is refused and one, between two settings, that is accepted | 2 318 180 |
| `HeaterLive` | left alone: heater off, setpoint saved | halts and watchdog resets | 949 160 |
| `HeaterLostReset` | *violation*: a press whose reset of `work_cnt` is lost | as `HeaterControl` | |
| `HeaterTornWord` | *violation*: the setpoint past its limits after a torn word was restored | the limits of the source, torn word 63 | |
| `HeaterWindup` | *violation*: the heater driven after the switch-off | the constants of the source, slot = regulator period | |
| `SpiBus` | samples and refreshes on one bus, and every one finishes | 3 positions, FIFO of 2, 2 words, 2 numbers | 385 812 |
| `Buttons` | repetition, lost presses, presses left behind | 2 keys, repetition after 8 samples | 113 214 |
| `Kernel` | wakes on time, lists exchanged when empty, the right task runs | 4 tasks, 4 tick values, 2 pended ticks | 1 916 412 |
| `Usart` | rings as queues (refinement), armed sends, liveness of sending | rings of 2, 2 byte values, strings of 0, 2 and 3 | 701 344 |
| `Modbus` | one answer, whole answers, nothing left behind | 3 frames of 2 bytes, rings of 3, 2 registers | 2 334 768 |
| `Slip` | packets after lost, added and misread bytes | 2 packets, 2 bytes of noise, rings and packets of 2 | 3 265 114 |

**Why the bounds are enough.** Two slots to a regulator period put the display task both beside and between samples;
the watchdog is longer than a regulator period and shorter than three, as 5 s is to 2 s (two and a half in `HeaterControl`, one and a half in `HeaterFaults`); a switch-off time of one or two
periods lets a press fall before, at and after the limit; one pending press at a time still gives any number per
slot, because the key task may give again while the display task drains. Two setpoints include both limits; the accepted
torn word adds three between and outside of them, and its saved last step is refused by the next restart. The torn words may follow any erasure or
write, also of a word whose bits could not leave them. The
samples cover the two error cases and a reading far enough from the setpoint to saturate the regulator both
ways. In `SpiBus` the FIFO has its real size of two words, so it is empty, partly full, full, and overrun; the display
its real three positions, and the error sign and 245 differ at each and are written in opposite orders. In `Buttons` the limit of ten
presses, the debouncing and the period of the display task are the real ones; only the repetition is scaled down, and a hold
spans three repetitions. In `Kernel` four tick values let the counter, a reference time and a time to wake
overflow each on its own, and two pended ticks cross an overflow inside one suspension; the four tasks are a
periodic one of high priority that also waits for events, a periodic and a sleeping one of equal priority, and the idle task. In `Usart` a ring
of two is empty, partly full and full at every index, and the strings are empty, fill it, and overfill it. In `Modbus` three frames
let two be glued together or overlong (a ring of three holds one frame and a half) with one more to come whole after
them; they include an echo, a read, a broadcast and one for another slave. In `Slip` the packets are empty, made of a
special code alone, and longer than the receiver's buffer.

**Fairness.** `HeaterLive` assumes weak fairness of each task (FreeRTOS gives every ready task of the highest
ready priority its time slice, and the only task above these sleeps most of the time), of the clock, and of the watchdog's own clock.
Nothing is assumed of the user or of faults; the properties are about a device that is left alone from some moment
on (`LeftAlone`). `SpiBus` assumes weak fairness of the refresh, which has the highest priority, and of the peripheral,
and strong fairness of the sample, which gets the processor again and again between refreshes. `Usart` assumes weak
fairness of the calls that are under way, of the interrupt handler and of the peripheral; nobody has to make a
call. The other runs check safety only.

**Mutants.** Each property of a passing run is shown to fail on a seeded fault of the code it guards: operators named
`<Definition>_<Fault>` next to the definition, listed in `PROJECT.json`.

## 4. What the checks found

- **A key press can be lost to the switch-off** (`HeaterLostReset`). `work_cnt++` at `src/main.c:75` is a read and a
  store; the reset at line 154 ("Reset HeaterOFF counter") can fall in between and is overwritten, and so it is between
  lines 60 and 62. The heater then goes off up to `HEATER_OFF_TIME` early. It errs on the safe side: `CutoffNotLate`,
  checked and proved, says the switch-off never comes late.
- **The switch-off does not switch off** (`HeaterWindup`). After `HEATER_OFF_TIME` (`src/main.h:43`, "min") the
  regulator gets the setpoint 0 and keeps its integral. With the gains of the source, no key press, and a plant that stays at 150
  under the setpoint `s` for the 30 minutes, the integral is `901*(s-150) - 150` in the first period after the switch-off and the pulse
  width `(5*(901*(s-150) - 150) - 375000) / 1000` of at most 450: more than 0 for every setpoint from 235 up, 187 at 275, 300 at 300. Which of these
  the run shows depends on the order in which TLC explores. The comments of lines `main.c:154` ("HeaterOFF counter") and `pid.c:80` ("limit
  integral runaway") say the same of the intention; the limit in `pid.c` is far out of reach in 30 minutes. It takes
  further periods for the integral to drain. `HeaterEventuallyOff` shows that it does drain, and the theorems
  `IntegralDrains` and `OffUnlessWoundUp` say how: by the measured temperature in each period, until
  `K_I * sum <= K_P * temperature`.

- **A torn word in flash can put the setpoint past its limits for good** (`HeaterTornWord`). The word read at start is tested
  against `MAX_TEMPERATURE` only (`main.c:357`). A power cut while 50 is programmed may leave 63: it is restored, equals
  the flash at line 217 and is never replaced, and as it is not on the grid of five the tests of lines 157 and 160 let it step down from 53
  to 48 and up from 298 to 303. A saved 303 is refused by the next start, which begins at 50. `SettingValid`, checked and proved for any
  torn words, says that this is all: the setpoint is less than one step past a limit unless the torn word itself was lower, and
  `SettingsUnlessTorn` that nothing else in the code leads there.

Seen while modelling, in library code that no document makes a promise about, and therefore without a run of their own:

- *A frame that ends between the clearing of `FrameRcvFlag` and the check of the packet is polled twice*
  (`modbus_serial_drv.c:118`). The echo of a single write is left in `packet_buf` and is a valid request, so the write is
  executed and answered again. `OneAnswer` is about masters that wait for their answer (`~overlap`).
- `mbfunc.c:199` assigns the low byte of the register count where it should add it: 258 registers are read as 2.
- `eMBDisable` leaves bytes in both rings; an overrun while the slave is disabled keeps the interrupt line up after the next enable.
- `usart_hl_send_str` gives up at a full ring before it enables the transmit interrupt: a ring that was filled without
  it stays full, and every later send fails (`OkMeansArmed` is about sends that said OK).
- An ESC whose second byte has not arrived when `slip_recv_packet` polls is stored as data (`slip_prot.c:69`), without a sign of it. Noise that
  ends in ESC swallows the leading END, which is meant to "flush out" such noise (`slip_prot.c:17`). `Confined`, checked and
  proved, says that the damage goes no further than the packet.

## 5. Proofs

The first part of `HeaterProofs` is about the regulator for all gains and limits: `PidInRange`, `PidNoOverflow` (under the inequalities
that the gains of the source satisfy with a wide margin), `IntegralDrains`, `OffUnlessWoundUp`. The lemmas establish
what truncating division, the clamp and `maxSumError` do.

The rest of `HeaterProofs` proves every safety property of `Heater` and the refinement of `Thermostat`, from `HeaterAssumption` and
`PidAssumption`, for all periods, limits, samples and torn words. `SettingsUnlessTorn` has one assumption more: that no torn word is accepted but a setting. No property of `Heater` but the type invariant is inductive;
`IInv` in `HeaterInvariants` is. Its parts:

- `TypeInv`: types, the setpoint on the grid of its `origin`, and `SaveInv`: flash blank where the save task has erased and not yet
  programmed it, a setpoint on that grid whenever it sleeps, and otherwise such a setpoint or a word that a restart refuses; `origin` is
  `MIN_TEMPERATURE` or a torn word that a restart accepts;
- `DriveInv`: `age + wdg <= WatchdogPeriod` while the heater is driven: the watchdog is fed after each sample, both count
  the same slots, and a restart zeroes the pulse width;
- `CounterInv`: `quiet <= work_cnt`, and `quiet <= pid_r` while the incremented value is in the register: lost resets only make the counter larger, and it never
  exceeds `HEATER_OFF_TIME + 2`;
- `UnsavedInv`: `unsaved + saveIn <= SavePeriod` while the save task sleeps;
- `DisplayInv`: the countdown runs exactly while the setpoint is selected, and between two samples what is shown is the last one.

Each part has a lemma that a step keeps it, with a step per action; `TypeFrame` and the like reduce the actions that do
not touch its variables to one line. Theorems: `TypeCorrect`, `Invariance`, `SettingAlwaysValid`, `SettingsUnlessTorn`, `BadSampleNeverHeats`,
`StaleDriveIsBounded`, `ErasedOnlyDuringSave`, `UnsavedIsBounded`, `CountdownNeverWraps`, `DisplayIsFresh`,
`CutoffIsNeverLate`, `Implementation`.

`SpiBusProofs` is for any words, numbers and depth of the FIFO, and up to three positions of the display. Exclusion on the bus
is not inductive by itself; `IInv` in `SpiBusInvariants` adds what the code relies on between its lines:

- `MutexInv`: who holds `xSPI_Mutex` is where the tasks are, and the sample has the refresh's priority exactly while
  that waits. From the priorities follow two lemmas: a sample never waits for the mutex (`PidNeverBlocks`), and nothing else runs
  while a refresh does (`WriterWaits`);
- `BusInv`: a word is on the bus only while the task that sent it waits for it;
- `SampleInv`: the FIFO is empty when the sample is sent and then holds the converter's answer or nothing; an overrun
  left over could make it wait, but not read a wrong word;
- `FigureInv`: nothing is lit while a figure travels from the buffer to the register to the outputs.

That the display catches up with a number written rests on two more: what is not yet written is still in `todo`
(`WriteInv`), and the positions refreshed since the last write, counted back from the one that is next, show the
buffer (`ScanInv`); the buffer changes between refreshes only (`WriterAlone`).

Theorems: `TypeCorrect`, `Invariance`, `SampleIsTheConverters`, `TransfersExclude`, `FiguresInPlace`,
`InheritanceEnds`, `NoPriorityInversion`, `DisplayCatchesUp`.

`ButtonsProofs` is for any number of keys, thresholds, semaphore limit and period. `CountOf` says what the counter of
a key is after a hold of `n` samples, by a quotient and a remainder; that the update of the code follows it
(`SampleFacts`) rests on `DivStep`, what one more does to a quotient. `RepetitionExact` follows. `PressesServed` needs
that what has waited is still in the semaphore, and that a key the display task has passed in its run has waited no
longer than the clock has run since (`KeyServed`). `TypeCorrect` includes that the byte never wraps. `NothingIsLost`
says which semaphores are large enough: two presses of a key are at least two samples apart (`GivesAreApart`), so
that one with `DrainEvery < 2 * SemaphoreMax`, as 10 < 20 in the source, never refuses a give.

`KernelProofs` is for any tasks, priorities, delays and length of the tick counter. `IInv` is `TypeOK`,
`TimeInv` (each list holds the ticks of its own round of the counter), `LeftInv` (the ticks a task has left are what its item
says, in modular time), `SinceInv` (so are the ticks since its reference time), `CallInv` (in which steps of a call the
scheduler can be suspended, ticks pended or a switch pending), and `HighestRuns` itself. That `xNextTaskUnblockTime` is not later than the earliest sleeper needs a minimum of
a set of naturals, which is taken from the library's theorems on well-founded orders. Theorems: `TypeCorrect`, `Invariance`,
`SleepsEndOnTime`, `ImportantTasksRun`, `SwitchedListsEmpty`.

`UsartProofs` is for rings of any size and any strings. The rings are shown to implement `Fifo`: each step of the ring is an
addition, a removal, a drop or a stutter on its contents, where contents are index and length taken around the
end of the array; that the task's update on leaving a critical section is one on the ring as it is needs that nothing has changed since it
was read. Theorems: `TypeCorrect`, `SendsAreArmed`, `TestStaysTrue`, `RingsAreQueues`.

`ModbusProofs` and `ModbusAnswerProofs` are for any requests, frame and ring sizes:

- `BytesInv`: what is received are bytes of frames that were sent; gives `TypeCorrect`;
- `ArmedInv`: until the first stop, queued bytes are in state XMIT once the task has said so and armed once it has
  turned the interrupt on; gives `QueuedAreArmed`;
- `CopyInv`, `LengthInv`, `PlaceInv`: what an answer still needs has room, and byte `i` of answer `a` is at its place in what was sent
  and is queued; gives `AnswersAreWhole`;
- `OrderInv`: bytes arrive in the order they were sent; `OnceInv`: a frame that waits, is executed or was answered is
  complete, so that nothing of it is on its way any more, and what follows it is a later frame; gives `AnsweredOnce`.

`SlipProofs` is for any packets, any sizes of the rings and of the receiver's buffer (none of which needs to be more
than 0), and any amount of noise, from `SlipAssumption`: the four special codes are distinct. `Confined` compares what
the receiver has with a whole packet, so the invariant has to say what it has in the middle of one:

- `SentInv`: every byte on its way stands where its packet has it (`Legit`), or is noise;
- `LineInv`, `RingInv`: each byte on its way follows the one sent just before it (`Precedes`), unless something has happened to its packet, or,
  for a first END, to the packet before (`Suspect`); the ends of the two rings and the byte still to be sent are linked in the same way;
- `ReadInv`: the receiver has what the bytes before the next one bring it to (`Reached`): the data up to that place,
  cut to the buffer (`Taken`), and the ESC when the next byte is the second half of an escape;
- `Clear`: no ESC comes just before the first END of an unbroken packet. This is what makes the END flush: behind an ESC it would be data.

`BehindFacts` says that the loop of the sender walks the places of a packet one by one, `TakenFacts` what one more byte adds and that
the whole is `Cut`, `ReadOn` that one round of the receiver moves it from where it must be for a byte to where it must be for the one behind. No
induction over the packet is needed, because the sender keeps its place in it. That a whole packet is returned, and not only that nothing
else is, follows from `StaysOnTheWay`: the closing END of a packet is still to be sent, on its way, lost, or read, and when it is read without
loss the buffer is the packet. Theorems: `TypeCorrect`, `Invariance`, `DamageIsConfined`.

Every safety property and every action property that a passing run checks is stated by a theorem. Only model-checked: liveness
(`HeaterEventuallyOff`, `SettingEventuallySaved`, `RefreshCompletes`, `SampleCompletes`,
`WaitingIsSent`), since TLAPS has no rule for fairness and `ENABLED` here, and the three violations. What liveness rests on is proved where it
can be said without fairness: `IntegralDrains` and `OffUnlessWoundUp` for the heater that goes off, `UnsavedIsBounded` for the setpoint that is saved,
`NoPriorityInversion` for the refresh, `SendsAreArmed` for the bytes that are sent.

## 6. Not modelled

Formatting of the display beyond the figures shown, pin and clock configuration, stack and heap sizes (the results of
`xTaskCreate` are ignored by `main`), the creation of the semaphores in the key task, `vGetTempTask` (never created).
In the other modules `portMAX_DELAY` is taken as forever; with `INCLUDE_vTaskSuspend` 0 it is 2^32 ms. Of the kernel: calls from
interrupts, notifications, software timers, event groups, stream buffers and co-routines, which the application does not
use, and the heap. Of Modbus: `eMBRegisterCB` (no caller) and coils (compiled out). Calendar, clock chips, 1-Wire, character displays,
encoder, I2C and the Ethernet chip: sequences of register accesses with one caller and no state between calls.

Most lines of the repository are vendored: headers of libopencm3, Ethernet and Internet libraries that are not linked
into the firmware, and the parts of FreeRTOS it does not use. The map covers the code of the device and of the
protocols; measured against all lines in the repository its share stays small, and modelling register names would
not make it larger in any useful sense.

## 7. Plan

Done: the heater, the bus and the display, the keys, the regulator, the kernel's time, the USART, Modbus and SLIP, with
proofs of every safety property. What could follow:

1. A composition of `Kernel` and `SpiBus`: the mutex with its event lists on the kernel's own lists, in place of `SpiBus`' own
   choice of the running task.
2. The calendar (`rtc_hal.c`) and the BCD conversions (`convert_fn.c`) against reference definitions over bounded inputs.
3. The start-up of the tasks with allocations that fail.
