# TLA+ verification of the hexacore SDK

The repository is an SDK for boards with the MIK32 Amur microcontroller (one
RISC-V core): drivers for the devices on the board, a start-up layer with and
without FreeRTOS, and examples. The project's own code is in `board/`, `bsp/`,
`cmake/`, `drivers/` and `examples/`; `hal/`, `shared/`, `freertos/`,
`uploader/` are vendored, and of them only what the drivers and the demo stand on
is of interest here. There are no tests. What the program promises is said
in the headers of `drivers/include/`, in comments, and in `docs/` (Russian).

The specifications here are translated from the C source. The documents were
used only to find out what the code is meant to do, and where the two disagree
the disagreement is a checked counterexample (see *Findings*).

## 1. The system

### Components, their state and their operations

| Component | State | Operations | Model |
|---|---|---|---|
| Buttons (`hexa_button.c`) | debounce counters `integ`, bitmaps `state`, `pressed` | `hexa_button_scan`, `_pressed`, `_down` | `HexaButton` |
| I2C bus driver (`hexa_i2c.c`) | `s_i2c_mutex`, the HAL handle with its `ErrorCode` | `hexa_i2c_init`, `read`, `read_raw`, `write`, `write_raw`, `ping`, `scan` | `HexaI2C`, `BusLock` |
| HAL I2C master (`mik32_hal_i2c.c`) | locals of the transfer in progress, `ErrorCode` | `Master_Transmit`, `Master_Receive`, their four wait loops | `HexaI2C` |
| I2C controller and devices (hardware) | the controller's registers; register file and pointer of a device | address, byte in, byte out, NACK, bus error | environment in `HexaI2C` |
| VL53L0X, AHT20, BMP280 | `s_calib` and the tuning data; the chips' conversion | `init`, `start`, `ready`, `get`, `measure` | `HexaSensor` |
| Time (`hexa_time.c`) | none of its own | `hexa_delay_ms`, `hexa_millis` | in `HexaSensor` |
| RV3032 clock | none; the chip's time and its PORF flag | `get_time`, `set_time`, `time_valid` | `HexaRV3032` |
| OLED (`hexa_oled.c`) | frame buffer `fb`; the display's address pointer | ten drawing functions, `clear`, `init`, `flush` | `HexaOled` |
| MPU6050 | none | one or two transfers each | not modelled |
| Buzzer, UART, board start-up | timer registers; console hooks | straight-line register writes | not modelled |
| Demo (`examples/demo`) | `s_data` under `s_lock`, `s_present`, four volatile flags | `app_main`, `input_task`, `sensor_task`, `ui_task`, `detect` | `HexaDemo` (all but the pictures) |
| FreeRTOS kernel (`tasks.c`, `queue.c`, `list.c`) | ready, delayed and event lists, the bitmap of priorities, tick count, the mutex and its holder | tick, switch, suspend and resume of the scheduler, `vTaskDelay`, `xTaskDelayUntil`, take and give of a mutex, `xTaskCreate`, `vTaskDelete` | `RtosKernel` (what the SDK uses) |
| FreeRTOS heap (`heap_4.c`) | the headers of its blocks, the free list | `pvPortMalloc`, `vPortFree` | `RtosHeap` |

### How they interact

* Every driver of a bus device calls `hexa_i2c_*`, from any task. The driver
  takes a mutex for the whole call, waits for it without limit, and gives it
  back on every path; inside, it calls the HAL, which polls the controller's
  status register a bounded number of times.
* The buttons are shared state without a lock: `hexa_button_scan` may be called
  from the main loop, from an interrupt handler or from a task
  (`docs/04-io.md`), while another task asks `hexa_button_pressed`.
* The sensors convert on their own time. The drivers start them, sleep with
  `hexa_delay_ms` and poll for an answer with a timeout.
* The clock goes on while its registers are read, and it remembers loss of
  power in a flag that `set_time` clears and `time_valid` reads.
* Everything above waits for the bus mutex, `s_lock` or a delay, that is for the
  kernel; tasks and mutexes are allocated from its heap, and a failed allocation
  stops the program.
* In the demo three tasks share one structure under a mutex and some flags
  without one; two of them use the bus, and with it the display.

### What is hard, and what would be correct

* **Interleaving.** A register read is two transfers; another task's access to
  the same chip between them would change the chip's register pointer. The
  status of a transfer is computed from an `ErrorCode` that all tasks share.
  `pressed |= mask` and `pressed &= ~mask` are loads and stores.
* **Ordering and late answers.** A byte that arrives after its transfer has
  timed out stays in the data register. A conversion that ends after its
  measure has given up leaves its flag behind.
* **Partial failure.** Any transfer in a sequence may fail, and one that failed
  may have reached the device.
* **Restart and loss of power** between the writes of `set_time`.
* **The tick count wraps**, ticks are put off while the scheduler is suspended,
  and a task that has been put on a list may be woken before it has switched away.
* **Boundaries.** Chunks of at most 255 bytes, counters at their ends, delays
  shorter than a tick, BCD carries, figures partly off the screen, sizes that
  overflow a `size_t`.
* **Liveness.** Locks are waited for without limit, so each holder must let go.

`PROJECT.json` lists every hazard at the line where it bites, with the
properties that would catch it, or the reason why none does yet.

## 2. Modules

| Module | Contents |
|---|---|
| `BusLock` | abstract lock: tasks are out, waiting or inside, and at most one is inside |
| `HexaI2C` | bus driver, HAL master and controller for any tasks, calls and devices; refines `BusLock` |
| `MCHexaI2C` | its instances for TLC |
| `HexaI2CProofs` | inductive invariant, exclusion, own status, chunking, refinement |
| `HexaButton` | scan and pressed statement by statement, scan called in three ways |
| `HexaButtonProofs` | inductive invariant and five properties |
| `HexaSensor` | `init` and `measure` of three sensors against a chip of any speed |
| `HexaSensorProofs` | inductive invariant and the four safety properties |
| `HexaRV3032`, `MCHexaRV3032` | the clock's three functions against a running chip |
| `HexaRV3032Proofs` | the conversions, inductive invariant, and all properties of the clock |
| `HexaOled`, `MCHexaOled` | the drawing functions against a definition by pixels; `init` and `flush` against the display's memory |
| `HexaOledProofs` | what each drawing function writes, inductive invariant, and all properties of the display |
| `HexaDemo`, `MCHexaDemo` | the demo's tasks over `s_data`, `s_rescan` and the bus; the bus is an instance of `BusLock` |
| `HexaDemoProofs` | inductive invariant, whole snapshots, rescans kept |
| `RtosKernel`, `MCRtosKernel` | the scheduler, delays and a mutex with priority inheritance; its mutex refines `BusLock` too |
| `RtosKernelProofs` | inductive invariant of the whole kernel and of its mutex, all safety properties, the refinement, the arithmetic of delays |
| `Allocator` | what a heap promises: chunks apart from each other, a refusal only for want of room |
| `RtosHeap` | first fit, split and merge on the headers of blocks; refines `Allocator` |
| `RtosHeapProofs` | inductive invariant, both properties, the refinement, the size computed for a request |

Names follow the source: variables and actions carry the names of the C
variables and functions they stand for; an operator whose comment begins with
*Fault* is a wrong version of the one after it, and is used only to see that
the properties notice. It is no part of any specification.

### HexaI2C

One action per step that another task or the controller can observe: the call,
`i2c_lock`, `StartTransfer` (`HAL_I2C_Master_Transmit`/`Receive` up to START),
one turn of each wait loop (`WaitTXIS`, `WaitRXNE`, `WaitTC`, `WaitTCR`,
`TimesOut`), `HalReturned` (the tail of the driver's function: second transfer
of a read, `i2c_map_error`, next address of a scan), `i2c_unlock`, `Return`. The
controller and the devices are the environment, modelled by the status bits and
registers the code reads and writes.

Decisions a reader should know:

* `I2C_AUTOEND_ENABLE` is 0 in the configuration, so a transfer ends in
  `WaitTC`, without a STOP (the comments at `mik32_hal_i2c.c:490` and `:586`);
  nothing in the driver sends one, and the next transfer begins with a repeated START.
* A byte is a pair: the number of a register (`RegByte`), or the task and the
  index of a byte of its data (`DataByte`). So a byte left out, sent twice or sent in the
  wrong order is told from the right one, in the registers and on the way.
* Timeouts count polls, not time, as the HAL does; a device may answer after
  any number of polls, or never.
* START does not clear RXNE. Whether NACKF, BERR, ARLO or a byte left in TXDR
  survive it is not said by the source: both outcomes are allowed.
* BERR and ARLO are handled alike and are one flag. `HAL_I2C_Init` cannot fail
  for a master. When the mutex cannot be allocated the program stops in
  `vApplicationMallocFailedHook`: the system is `"halted"`.
* `hexa_i2c_init` runs once, as in every program of the repository.

### HexaButton

`hexa_button_scan` is split where other code can run: each poll (the pin is
read by an external function), the load and the store of `pressed`.
`hexa_button_pressed` is split at its critical section. `mode` says where scan
is called from, and with it which of the two may interrupt which: in `"loop"`
neither, in `"interrupt"` scan comes at any moment outside the critical section
and is not interrupted, in `"task"` they interleave, and the critical section
keeps scan out only between its own load and store. History variables record
the levels seen, how long they have lasted, and the presses not yet answered.

### HexaSensor

A driver's function is a script of steps; most are transfers, some are delays
or the poll loop. A failing transfer ends the job and may or may not have
reached the chip. A successful one carries the right bytes (what can go wrong
below is the subject of `HexaI2C`). The chip ends a conversion whenever it
likes, also after the driver has given up. `hexa_delay_ms` rounds down to
ticks, as `pdMS_TO_TICKS` does. A start that finds the chip still busy, after an
earlier measure has failed, may begin a conversion or be ignored; in the second case the
one that is going on leaves a result that is `"late"`: it ends after the start, but began
before. Between a reset of BMP280 and the rise of `im_update` no time passes: the
comment at `hexa_bmp280.c:171-172` says that the chip holds it from the reset on. An `init` may find a
chip with another number (`WrongChip`). Compensation formulas and CRC are left out; a
bad CRC is one more way for `get` to fail.

### HexaRV3032

The seven time registers are read in a burst during which the clock may move
on between any two registers, and then the seconds are read again. BCD
conversions and register masks are modelled by what they compute; bits the chip
does not use may read as ones. `Restart` restarts the program at any step,
`PowerLoss` also sets the clock to one of `RandomTimes` and PORF to true. Assumptions: a
call takes less than a second (the comment at `hexa_rv3032.c:90-93` relies on
it), so the clock turns at most once in a call; writing the seconds begins a
new second, so none ends inside the write burst; the board loses its power
together with the clock.

### HexaOled

Each drawing function is an operator from its arguments to the sequence of
(byte index, mask) writes the C loops make, and `fb_apply` performs them in
order: the inverting colour makes the order and number of writes matter. A write outside the
buffer, which in C would change another variable, adds a byte to the frame, and
`TypeOK` says that there is none. The reference, `Figure`, defines the
pixels of each figure directly: a line by rounding, a circle by its octants.
The font is a parameter; `ArgumentsAssumption` says that its glyphs are five columns of
seven pixels, as those of `font5x7`, and that a picture is no larger than its size.
Coordinates are integers of any size, where the code has `int16_t`: see *Bounds* and
the end of section 5.

`hexa_oled_flush` is one bus write and so one step. What the display does with
it is external (SSD1306 in the addressing mode that `hexa_oled_init` sends): each
byte goes where the pointer is, and the pointer goes round. A flush may be cut
short after any of the numbers of bytes in `Cuts`, by a failure or by a restart of
the program, after which the display has its memory and its pointer still.
`hexa_oled_init` may fail with any part of its commands taken. A caller flushes
only after an `init` that succeeded, as the demo and the example do.

### HexaDemo

The tasks run in small steps: each access to a flag, each take and give, each
machine word of `snap = s_data` and `s_data = v`. A word's value is the number
of the cycle that wrote it, which is all that tells a torn copy from a whole
one. `input_task` has the highest priority and never waits inside a turn, so a
turn is one step. A call of a device's driver is one turn on the bus: the task
asks, waits, is inside, leaves. That the driver implements this is the
refinement of `BusLock`; what a driver call does between its transfers is left
out. `detect` finds any set of devices and any of them may fail to initialise.
Every `xTaskCreate` and the creation of the mutex may run out of memory, and then
`vApplicationMallocFailedHook` stops everything (`halted`), so the error
branches of `app_main` are never taken. The pictures, and `s_screen` and
`s_inverted`, are left out.

### RtosKernel

The kernel as `bsp/freertos/FreeRTOSConfig.h` configures it: one core, preemption,
time slicing, a bitmap of priorities. Only the task `pxCurrentTCB` makes steps; the
tick may come between any two of them. A step is a critical section,
`vTaskSuspendAll` with what follows under it, `xTaskResumeAll`, or a yield, which
on this port is a trap and switches at once. So a task may be seen, and woken,
between being put on a list and switching away: `"listed"`, `"parked"`,
`"asleep"`, `"delayed"` and `"deleted"` are these places.

A list that `pxIndex` walks is a sequence turned so that the item `pxIndex`
stands at comes last, with the end marker among its items: `vListInsertEnd`
inserts before the last, `listGET_OWNER_OF_NEXT_ENTRY` turns it. The scheduler's
variables are a record `s`, and each function of the kernel is an operator from
such a record to the next, composed as the C functions call each other. The bitmap is
a set of priorities, and of the priorities only those in use exist
(`configMAX_PRIORITIES` bounds them).

Left out, because nothing in the SDK uses it: finite waits and their timeouts,
queues that carry data and their locks, anything given from an interrupt handler (so
`xPendingReadyList` stays empty), a task that holds two mutexes, suspension of
tasks, notifications, event groups, stream buffers, and timers (`configUSE_TIMERS`
is 0). The driver's mutex is never held while `s_lock` is taken or the reverse, so
one mutex is enough.

### RtosHeap

The memory is a function from the addresses of headers to `pxNextFreeBlock` and
`xBlockSize` with its top bit; what a caller has, or lies inside a merged block,
holds no header. `pvPortMalloc` works with the scheduler suspended and is one step.
`vPortFree` is two: the bit of the header is cleared before the scheduler is
suspended (`ClearBit`), then the block is put into the list (`InsertBlock`), and
another task may allocate or free in between. A request is any `size_t`. After a refusal the
malloc hook loops forever (`halted`). `Allocator` knows nothing of lists: memory is
given out where nothing in use overlaps it, and refused only when no such place
exists. For TLC the heap is small and the header two bytes; nothing in the
module depends on either: `ALIGN` may be any of the alignments `portable.h` allows. The
loops that walk the list (`FirstFit`, `Before`) are recursive functions on the headers of
the list.

## 3. What TLC checks

| Run | Expect | What it shows |
|---|---|---|
| `i2c` | pass | two tasks read and write in chunks and ping over a bus that is late, refuses or fails: `StatusIsOwn`, `ReadIsSnapshot`, `WriteIsComplete`, `AbsentNeverOk`, `ChunksAddUp` |
| `i2c_live` | pass | raw reads, raw writes and a scan: `MutexIsReleased`, and the driver implements `BusLock` |
| `i2c_stale` | violation | a late byte is delivered as the answer to the next read |
| `button` | pass | in all three modes no press is lost and bounces are filtered: `NothingLost`, `ReportedOnce`, `SettlesInTime`, `ChangesApart`, `PressIsReported` |
| `button_task` | violation | with scan in a task of its own a press is reported twice |
| `sensors` | pass | what a measure delivers, with and without failures before it: `FreshResult`; `HonestTimeout`, `CalibIsLoaded`, `JobsEnd` |
| `sensor_stale` | violation | VL53L0X delivers, after a failed measure, a range that had ended before this one began |
| `rtc` | pass | `TimeWasShown`, `ValidMeansSet`, `SetTimeHolds` over New Year, with restarts and losses of power |
| `oled` | pass | every figure in every colour against its definition by pixels; `FrameIsShown`: after flushes cut short, failed inits and restarts, what a good flush shows, and how far it is moved |
| `demo` | pass | `SnapshotWhole`, `RescanKept`, `RescanServed`, `FramesGoOn` |
| `kernel` | pass | `ListsExact`, `HighestRuns`, `PriorityIsLent`, `NobodyForgotten`, `WakesOnTime`, `WaiterServed`, `StackComesBack`, and the mutex implements `BusLock` |
| `heap` | pass | `BlocksTile`, `FreeListExact`, and the heap implements `Allocator` |

Every property of a passing run has a mutant in `PROJECT.json`: a plausible bug
in one definition (a dropped guard, an off-by-one, a swapped order) with which
TLC finds the property violated.

### Bounds, and why they are enough

* **I2C.** Two tasks, since a conflict is between two; one device and one empty
  address; `NByteMax = 1` (255 in the code) so that two bytes are already two
  chunks; two registers, and `TmpMax = 2` (31), so that a write of two data bytes goes out as
  three chunks and one of three does not fit; `BusTimeout`
  and `ScanTimeout` of one poll (100 and 5), since what matters is whether the
  answer comes before or after the last poll; the runs with counterexamples
  use 3. The proofs hold for all values. Tasks are interchangeable, so the
  safety run uses symmetry; the liveness run does not.
* **Buttons.** Two buttons (the code has 4 or 5), because the bitmap's hazard is
  between two bits; `DEBOUNCE_MAX = 2`, the smallest with a state in between
  (4 in the code). The proofs hold for all values.
* **Sensors.** Delays and timeouts are the code's, `TICK_RATE_HZ = 100` is the
  code's; `MaxTicks = 20` only stops a counter that is compared with 20 ticks
  at most.
* **Clock.** `MaxSeconds = 2` seconds go by; the requested times stand before
  every kind of carry (a BCD digit, the end of February in a leap year, the end of the
  century), two are refused, and after a loss of power the chip shows a time
  that has nothing to do with them.
* **OLED.** A screen of 7 by 16, so that there are two pages and a width that
  is not a multiple of eight, and coordinates and sizes on, before and beyond
  each edge; one call on a blank and on a chequered frame. Coordinates stay far
  from the ends of `int16_t`, as those of every caller in the repository do. Two
  flushes are cut short, after 5 bytes or after the last of the 14, so that the
  pointer moves by an amount that does not divide the size of the memory; once the
  display is in use only a whole picture is drawn, since drawing and display
  share no state but `fb`.
* **Demo.** The display and one sensor, so that a device may be absent or fail
  while another is there; two words of `s_data`, the least a copy can tear;
  `CYCLES = 2`, where the counter of cycles wraps (2^32); sounds of 2 and 3 turns
  (3 and 6), of which the longer leaves a turn in between.
* **Kernel.** `app_main` with three tasks that share the mutex, as in the demo: two
  of one priority, so that they take turns, and one above, so that a priority is
  lent; two waiters at once, so that their order matters. `WRAP = 3` (2^32), so
  that the two delayed lists change places again and again; delays of 0 and 1 and
  a period of 2, which is as long as `WRAP` allows; two ticks while the scheduler is
  suspended (`MaxPended`), so that one call catches up with both, and another before the
  switch that they ask for. About 507,000 states.
* **Heap.** 33 bytes from an odd address, so that alignment costs at both ends, and
  room for seven of the smallest chunks; a `size_t` of 7 bits, with requests that fit, that
  fit with nothing to spare, that are larger than the heap, that collide with the
  top bit and that overflow with the header; two tasks that free, since `vPortFree`
  has one point where another may come. About 71,000 states.

### Fairness

* `HexaI2C`: weak fairness of the steps of a task that is inside the driver:
  the scheduler slices time between tasks of one priority and the holder is not
  waiting for anything. None is assumed of the bus or a device, so
  `MutexIsReleased` says that the poll limits suffice. That a *waiting* task
  gets the mutex is not claimed: it depends on priorities.
* `HexaButton`: a scan that has begun goes on (weak), and the program keeps
  asking for each button (strong, since the loop asks again and again but a
  scan may be in progress each time it looks).
* `HexaSensor`: the task runs and ticks come; nothing is assumed of the chip.
* `HexaDemo`: the three tasks of one priority share the processor (weak). Taking
  a mutex is strongly fair: a give wakes the waiter, and who gave it sleeps or
  yields in `vTaskDelayUntil` before asking again. Of `input_task` and of the
  buttons nothing is assumed.
* `RtosKernel`: of tasks and ticks nothing is assumed; the idle task gets on if it
  is scheduled again and again (strong, since ticks may meet it anywhere in its
  loop). `WaiterServed` and `StackComesBack` have the premise `IdleAgainAndAgain`:
  the processor is not overloaded. This is what justifies the strong fairness of
  the mutex in `HexaDemo`, whose tasks all sleep between uses. It cannot be had for
  less: if the waiter's rivals never let the processor idle, one of them can take
  the mutex each time just before the task that a give has woken.

`CHECK_DEADLOCK` is nowhere switched off. The one state in which the program
really stops, a failed allocation, is the explicit `Halted` step; in `HexaOled` and
`HexaRV3032` the bound on calls or seconds never leaves a state without a step.

## 4. What is proved

By TLAPS, for every value of the constants within their named assumptions
(`TasksAssumption`, `LimitsAssumption`, `CountAssumption`, ... in the modules
that declare them; TLC evaluates them in the runs).

**HexaI2C** (`HexaI2CProofs`). `TypeOK` is not inductive: the HAL's counters stay
natural numbers only because a wait for a byte is entered with a byte to go.
`IInv` adds `FrameFits` (bytes moved, bytes of this chunk and bytes left add up to
the transfer's size, and the wait loop a task is in tells which of them is
zero), `ControllerFits`, `ErrorFits` (what the HAL returned agrees with the shared
`ErrorCode` while the task is inside, which needs `BusExclusion`: nobody else
can write it) and `StatusFits`. There is a lemma per action, then:

* `Exclusive`: only the mutex holder is inside the driver;
* `StatusOwned`: the status returned is the outcome of the caller's transfer;
* `LengthKept`: chunks add up, for every length and chunk limit;
* `Refinement`: the driver implements `BusLock`, step by step.

On top of `IInv` stand two more invariants. `AnswerFits` says that the controller leaves
the address phase only for a device, that the address it works on is the one the waiting
task gave it, and that what has succeeded had a device; `NobodyThere` (`AbsentNeverOk`)
follows, whatever has failed before. `SyncInv` is about the time before the first
failure, and says that HAL, controller and device are then at the same byte:
`Counted` (bytes to go of the HAL and of the controller differ by the byte in TXDR
or RXDR), `Sent` (the device has taken what has left TXDR, its pointer stands behind it),
`Received` (`buf` and RXDR hold the registers up to its pointer), `Transferred` (what a finished
transfer leaves to the next one of the call) and `Quiet` (nothing is on the way while
nobody waits, so `Bus` cannot move a device between the two transfers of a
read). `ReadSnapshot` and `WriteComplete` follow for any tasks, calls and chunk limits. A
write may be longer than the device has registers; `Written` then leaves out the bytes that
later ones of the same write have replaced, and `RegAtApart` (fewer steps than registers never
come back to the same one) shows that no others are.
The failure in `i2c_stale` is where `SyncInv` stops being true.

**HexaButton** (`HexaButtonProofs`). `IInv` adds `CopiesHold` (what each side has
loaded is still good enough to be stored), `NoEcho` (outside `"task"` mode
nothing pressed has been reported already) and `CounterFits` (the debounce counter
bounds both the length of the last run of equal polls and the time since the
last change, which is why it filters). Theorems: `PressesKept`, `NotTwice`,
`Settles`, `BouncesFiltered`, `TypeCorrect`.

**HexaSensor** (`HexaSensorProofs`). `IInv` says what the chip is doing at every step
of every script: `ChipFits` (what a conversion leaves when it ends, by whether this job's
start has begun it), `CleanFits` (as long as no job has failed no start finds the chip
busy), `FrameFits` and `RangeFits` (which steps are reached only with
the conversion over, and for VL53L0X where the chip is at rest with its flag
down), `CalibFits` (the copy from NVM is over before the calibration is read) and
`TimeFits` (ticks elapsed and ticks still to sleep make up `waited`). The lemma
`Places` turns a step of a script into the places it can stand at. Theorems:
`ResultsAreFresh`, `CalibrationIsLoaded`, `TimeoutIsHonest`, `TypeCorrect`. The first says
two things: as long as no job has failed, every sensor delivers the result of the conversion
its own start has begun; and AHT20 and BMP280, whatever has failed, none that had ended
before that start. Of VL53L0X the second is not true (`sensor_stale`). The last but one
holds for every tick rate of which 10 ms is a whole number of ticks
(`StepAssumption`), which is what the comments on `POLL_STEP_MS` ask for: at 50 Hz
every poll would be without delay.

**HexaRV3032** (`HexaRV3032Proofs`), for any requests, any times the chip can show
and any number of seconds. First the conversions: `Unpacks` (a burst whose bytes
are those of one time is unpacked to that time, unused bits and all), `Goes` (the
seconds change with every turn) and `Writes` (what is sent means what was asked).
`IInv` then adds `BurstFits` (the registers read so far are those the clock shows now,
or the clock has turned since the seconds were read, so that reading them again will
tell), `WriteFits` (the registers written so far are those asked for, and after the last the
clock has turned at most once), `FlagFits` (the flag is down only if all have been
written) and `ShownFits`. `TimeWasShown` and `SetTimeHolds` follow at the steps that
return: `TimeIsWhole`, `TimeIsSet`, `ValidIsSet`, `TypeCorrect`.

**RtosKernel** (`RtosKernelProofs`), for any finite set of tasks, any priorities, delays,
periods and `WRAP`. The proof goes from the lists (what insertion, removal and turning do
to the items, whatever their order) to the operators of the scheduler (each takes a
record that is `Sound` to one that is) and from there to the steps, one lemma each.
`IInv` is the conjunction of

* `Sound`: no task is in two state lists, the bitmap of priorities is exact, the lists of
  sleepers are in order and each on its side of the wrap;
* `Located`: every task that exists is in one of the lists, and its place in the code
  tells which it can be in, above all between being put on a list and switching away;
* `Running`: no ready task comes before the current one, unless that is on its way to a
  switch;
* `Suspended`: which places suspend the scheduler, and that ticks are put off only there;
* `Waiters`: the event list holds the blocked tasks, in the order of their own priorities
  (nobody lends to a task that waits);
* `Lent`: the holder has the priority of the first of the blocked or its own, whichever is
  higher, and every other task its own;
* `Wakened`: while the mutex is free and tasks are blocked, a ready task that comes behind none
  of them is on its way to take it.

Theorems: `KernelInvariant`, `EveryTaskInOneList`, `HighestTaskRuns`, `HolderIsLent`,
`WaitersAreMinded`, and `SleepersWakeOnTime`, which has the hypothesis `MaxPended < WRAP`: the
scheduler is not suspended for a whole turn of the tick count (2^32 ticks), without which a
sleeper's tick would be unknowable.

`MutexInv` ties the count, the holder and the places of the tasks together:
whoever is inside is the holder, and the mutex is free exactly when nobody is
inside. It does not need to know which task runs, so it holds whatever the scheduler
does. `MutexImplementsLock` is the refinement of `BusLock`; with
`Refinement` of `HexaI2C` the same abstract lock is what the kernel gives and what the
driver gives on. `DelayIsRight` is about the comparisons of `xTaskDelayUntil` on a clock
that wraps: the task sleeps exactly when less than its period has passed since
the last wake time, and for the rest of it.

**RtosHeap** (`RtosHeapProofs`), for a heap of any size at any address, any alignment of
`portable.h`, any tasks and requests. `IInv` (theorem `Invariance`) does not walk the list.
It says of the headers alone that the blocks they begin tile the heap, that the next
header of a free block is the least free one above it and does not touch it, that the
free bytes add up to `xFreeBytesRemaining`, and that every block in use belongs to one
caller or to one task that is giving it back. What the two walks find follows: `FirstFit` the
first block that is large enough, `Before` the last below an address. Then a split, a
removal, an insertion and each of the two merges keep the tiling. Theorems: `BlocksTheHeap`,
`FreeListIsExact`, and `ImplementsIt`: every step is one of `Allocator` or a stutter, in particular a
request is refused only if no place is large enough. `ChunksAreApart` shows of the abstract
allocator that its chunks never overlap, and `CallersAreApart` carries that over to the code.
`WantedIsRight`, for a `size_t` of any width: the size that is looked for is the least that holds
request and header in whole units, or 0 when there is none, through three roundings and
two overflow checks.

**HexaOled** (`HexaOledProofs`), for a screen of any size and any arguments. `Paints(ws, S)`
says that a sequence of writes reaches exactly those pixels of `S` that are on the
screen, and each of them once; then the frame is the painted one in every colour, the
inverting one included, and no byte outside the buffer is touched (`PaintsDraws`, `ReachesFrame`). Where a
pixel may be written twice (a circle of radius 0) `CoversDraws` says as much for the other two colours.
Each figure has its own argument:

* `HLine`, `VLine`: clipping, and the masks of the first and the last page;
* `Line`: the error of Bresenham's loop bounds the distance to the true line (`Follows`),
  so the pixel is the nearest, ties included, in runs (`RunSteps`) and in rises (`RiseSteps`);
* `Rect`, `FillRect`: the sides have no pixel in common, down to one row or column;
* `Circle`: the error of the midpoint loop bounds the distance to the true circle
  (`NearCircle`), and the mirrored points that coincide are those the code skips, but for the
  radius 0;
* `FillCircle`: `isqrt32` is the integer square root;
* `Bitmap`, `Letters`: a bit of a row of bytes, a column of a glyph, are the pixel they mean,
  and no two letters share one.

`IInv` (theorem `Invariance`) adds to the properties that the display's pointer is where the flushes cut short
have left it (`display.at = lost`) and that a display whose `init` has succeeded is on. Theorems:
`LinesAreExact`, `RectsAreExact`, `CirclesAreExact`, `PicturesAreExact`, `FrameShown`, `TypeCorrect`. That
nothing is written outside `fb` is part of them.

**HexaDemo** (`HexaDemoProofs`). `IInv` adds `PlacesFit` (where each task may stand, and
that `app_main` no longer runs `detect` once `sensor_task` exists, since both use
it), `LockFits` (who holds `s_lock` stands between its take and its give), `DataFits`
(`s_data` is of one cycle but for the words `sensor_task` has replaced; the words
`ui_task` has copied are those of `s_data`) and `BusFits` (`sensor_task` is on the bus only in front
of a call that uses it, so not when it clears `s_rescan`). One lemma per action, or
per group of actions with the same argument, then `SnapshotsAreWhole`,
`RescansAreKept`, `TypeCorrect`, for any sensors and any size of `s_data`.

`BuzzerFallsSilent` needs no more than `TypeOK`: no press leaves the tone on without a turn
left to end it.

Not only do runs of TLC check the invariants: each module's `TypeOK`, and
`BusExclusion` and `SoundEnds`, are left to the theorems `TypeCorrect`, `Exclusive`
and `BuzzerFallsSilent` alone, but for `HexaOled`, where the run says it too.

Loops. What a loop computes for every input is an induction, and the library's induction
theorems cannot be instantiated by the installed provers. It is done by least counterexample instead: a
nonempty set of natural numbers has a least member (`Least`, from
`WellFoundedInduction` for the one order on `Nat`), and a set of those numbers of turns after which the
claim fails is therefore empty. The recursive functions of `RtosHeap` and `HexaOled` are
shown to exist in the same way, and a fold over a sequence is taken as a
function on sets of places.

Only model-checked: liveness (`MutexIsReleased`, `PressIsReported`, `JobsEnd`,
`RescanServed`, `FramesGoOn`, `WaiterServed`, `StackComesBack`), which the prover does
not do under fairness. Every safety property of a passing run, and each of the three
refinements, has its theorem.

## 5. Findings

Each is a run that TLC must find violated.

1. `button_task` — `pressed |= mask` (`hexa_button.c:43`) is outside any critical
   section. With scan in its own task the same press can be reported twice,
   although `hexa_button.h:39-40` promises exactly once and `docs/04-io.md` allows
   a task. In a loop or an interrupt handler it cannot (`NotTwice`).
2. `i2c_stale` — after a timed-out read nothing resets the controller, and its late
   byte becomes the first byte of the next read, which returns `HEXA_OK`.
   `ReadIsSnapshot` holds as long as no transfer has failed.
3. `sensor_stale` — after a failed `measure` of VL53L0X the interrupt flag may be
   still set, and the next `measure` returns a range that was there before it began. AHT20
   and BMP280 do not have this defect (`FreshResult`). But when an earlier
   measure of theirs has timed out and the chip ignores a start while it converts, they
   deliver a conversion begun before theirs.

Seen while modelling, without a run of its own: `hexa_button.h:13-14` says that the
state changes after four equal polls *in a row*, but the counter goes up and
down, so polls 1, 1, 1, 0, 1, 1 press the button; what does hold is
`SettlesInTime` and `ChangesApart`. `hexa_i2c_ping` of an empty address returns
`HEXA_ERR_TIMEOUT`, not the `HEXA_ERR_NACK` of `docs/05-i2c.md:130`: a transfer without
bytes goes straight to `WaitTC`, which does not look at NACKF
(`mik32_hal_i2c.c:273-286`). A circle of radius 0 in colour 2 inverts its only
pixel twice and draws nothing (`hexa_oled.c:422`), which is why `CirclesExact` leaves it
out; `hexa_oled.h:54-55` promises each pixel once. `demo.c:586-589` says that
`xTaskCreate` returns an error when the heap is too small; the malloc hook stops the program first.
Once a flush has been cut short, every later frame is shown moved by the same
amount, and neither a good flush nor `hexa_oled_init` nor a restart of the program
puts it right (`FrameIsShown` says by how much): the commands of `init` set the
addressing mode but not the pointer.

Seen while reading, and not modelled: `HAL_Micros` is a weak function, so a UART
timeout built on it never elapses; `xsprintf` keeps its output pointer in a
global that two tasks may share; the header of AHT20 says about 100 ms where a
timeout takes up to about 210; `int16_t` differences overflow in a line longer than
32767 pixels; the pause of `BMP280_RESET_MS` is half a tick, that is none, so if the chip
needed some time before it raises `im_update`, the poll could miss it; `s_present` is written field by field while `ui_task` reads it;
`set_time` reads,
changes and writes the status register, and a flag raised in between is lost;
a second `set_time` that fails inside its burst leaves a mixed time which
`time_valid` still accepts; the demo's UI task reads `s_screen` twice per frame, so
the dots may show another screen than the one drawn.

## 6. Not modelled, and why

* Vendored code except the I2C master, the kernel and the heap: used for pins, one
  timer and a UART. The interrupt-driven and slave functions of the HAL are never called.
* Most of the FreeRTOS sources: memory protection wrappers, event groups, stream
  buffers, timers, other ports and other heaps are not compiled or never called,
  and a model of them would say nothing about this SDK. They are most of the
  repository's lines.
* Of the kernel and the heap, what *RtosKernel* and *RtosHeap* in section 2 leave out.
* MPU6050: single transfers with no state; its use of the bus is that of any
  caller of `HexaI2C`.
* Buzzer, UART, start-up: straight-line register writes without concurrency.
* `start`, `ready` and `get` of the sensors called by the application directly;
  the compensation formulas and tuning tables.
* `hexa_rv3032_init` (a status read) and `hexa_rv3032_get_temp` (a formula).
* A second call of `hexa_i2c_init`, which would replace a mutex in use: no
  program in the repository makes one.
* Build scripts, uploader, other examples (single loops calling one driver).

## 7. Plan

Order of work, the most important first; what is done is marked.

1. `BusLock`, `HexaI2C` with its proofs — done.
2. `HexaButton` with its proofs — done.
3. `HexaSensor` with its proofs — done.
4. `HexaRV3032` and `HexaOled` with their proofs — done, function by function for any
   arguments.
5. `HexaDemo` with its proofs — done, on top of `BusLock` instead of `HexaI2C`,
   which the refinement justifies.
6. `RtosKernel` with the refinement of `BusLock` and the proofs of all its safety
   properties — done.
7. `RtosHeap` as a refinement of `Allocator` with its proofs — done, from an invariant on
   headers that does not walk the list.
8. Proofs of what reads, writes and scans deliver (`ReadIsSnapshot`, `WriteIsComplete`,
   `AbsentNeverOk`) — done: every safety property of `HexaI2C` is proved.
