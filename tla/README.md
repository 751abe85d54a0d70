# Verification of the STM32F407 IMU logger

The program in `src/` reads a 10-DOF board (accelerometer ADXL345, gyroscope
L3GD20, compass HMC5883L) over I2C on an STM32F4 Discovery board, computes roll
and pitch, and keeps its loop at 50 Hz with a timer. Built with `SDCARD` it also
writes the angles to a file on an SD card until a push button closes the file;
built with `SWOPRINT` it prints them. There is no operating system: one thread,
`main`, runs against hardware that moves by itself, and in the `SDCARD` build
against two interrupt handlers (the button's EXTI line and SysTick).

This directory holds TLA+ models of that program, the TLC configurations that
check them, and TLAPS proofs. `PROJECT.json` lists the runs, the source lines each
definition stands for, the hazards of the code and the properties that cover
them, the findings, and for each property a mutant of the code that breaks it.

## 1. The system

| part | source | state | operations | interacts with |
|---|---|---|---|---|
| main loop | `User/main.c` | `PastCountVal`, `angles`, `Sdmounted`, `fil`, `FatFs` | start-up, the sampling loop, `TM_EXTI_Handler` | everything below |
| loop timer | `Discovery_board/src/Timer.c` | the prescaler and period found; `check`, `rap_addtion`, `RapFlag` | `InitializeTimer`, `EnsureSetRuntime` | TIM2, which counts on its own |
| I2C driver | `10Dof_Code/src/I2C.c` | the registers of I2C1 | `init_I2C1`, `I2C_start/write/read_ack/read_nack/stop`, `I2C_Write_Reg`, `I2C_Read_Reg`, `I2C_Read_Multi_Reg` | the ST library, I2C1 and the sensors |
| sensors | `10Dof_Code/src/10dof.c` | none, but the sensors' own registers | init and data functions, `convert_2_sgn`, angles | calls the I2C driver |
| LEDs, button | `Discovery_board/src/led.c` | `INT_LED_ButtonPressed` | `LED_ButtonOnPressed`, `LED_ButtonOnReleased`, on, off | the pin PA0 |
| SD driver | `Libraries/fatfs/drivers/fatfs_sd.c` | `TM_FATFS_SD_Stat`, `TM_FATFS_SD_CardType` | initialise, status, read, write, ioctl | the card over SPI; `TM_Time2` |
| delay library | `TM_Libraries/tm_stm32f4_delay.c` | `TM_Time`, `TM_Time2`, custom timers | SysTick handler, `Delayms`, timers | SysTick |
| EXTI library | `TM_Libraries/tm_stm32f4_exti.c` | mask, edge and pending registers | attach, detach, handlers | calls `TM_EXTI_Handler` of main |
| FatFs | `Libraries/fatfs/ff.c` | volume and file objects | `f_mount`, `f_open`, `f_puts`, `f_close` | calls the SD driver |
| system clock, SWO, GPIO, SPI, vendor code | `User/system_stm32f4xx.c`, `TM_Libraries`, `CMSIS`, `StdPeriph` | registers | set-up | |

The interactions are calls downwards, polled registers sideways (TIM2, I2C1, the
card) and interrupts upwards: SysTick changes `TM_Time2` under the SD driver's
loops, and the EXTI handler may run between any two instructions of `main`. Its
priority is above that of SysTick, so milliseconds stand still while it runs.

### What is hard, and what makes each part correct

* **Loop timer.** The wait reads a running counter twice per pass and corrects a
  rollover by hand. Correct: it ends, neither early nor much too late, wherever
  the counter is when it starts. `check` is compared before it is assigned.
* **I2C driver.** All polls are without a timeout and each waits for one event of
  a peripheral that goes on by itself; the acknowledge bit and the stop must be
  set while the right byte is on the wire. Correct: each call is one register
  operation and returns; if an interrupt holds the driver up, no register is
  written that was not asked for, and what goes wrong does not last.
* **Sensors.** The conversion loops make four passes over arrays for three.
  Correct: the axes are the two's complement values the sensor sent; with the pass too many,
  that depends on what lies past the axes.
* **Button.** Two functions share one flag. Correct: nothing is reported twice or
  invented, and a program that polls one of them misses nothing.
* **SD driver.** The card may not answer, refuse, stay busy, send nothing, reject a
  block, or be exchanged. Correct: what is reported as done is done, nothing else
  is touched, and calls come back. One countdown serves as several timeouts.
* **Logging.** The button's handler closes the file and unmounts the volume under
  a running `f_puts`, and FatFs is not re-entrant. Correct: at every moment the card
  holds a volume whose directory is true; after the press the log is complete, the
  recording stops for good, and nothing more is written. The window of the volume and the
  fields that say what is in it are changed one after the other, so this is not true of a
  press at every place (section 5).
* **Delay and EXTI libraries.** The program uses one countdown of the one and one
  line of the other; what else they offer (custom timers, attaching several lines)
  is not called.

The full list, line by line, is under `hazards` in `PROJECT.json`.

## 2. The modules

| module | models | kind |
|---|---|---|
| `TimerSetup`, `MCTimerSetup` | `InitializeTimer` | algorithm, one loop pass per step |
| `SampleTimer`, `MCSampleTimer` | `EnsureSetRuntime` and main's use of it, against TIM2 | concurrent |
| `I2CBus` | I2C1 and the sensors | environment |
| `I2C` (EXTENDS `I2CBus`), `MCI2C` | the driver, access by access, and an interrupt handler that delays it | concurrent |
| `SensorBus` | what the driver promises 10dof.c | abstract specification |
| `ImuData`, `MCImuData` | the data functions | algorithm, undefined behaviour |
| `Button` | the two button functions | |
| `SdMedia` | an SD or MMC card | environment |
| `SdDriver` (EXTENDS `SdMedia`), `MCSdDriver` | `fatfs_sd.c` with SysTick | concurrent, faults |
| `BlockDevice` | what the driver promises FatFs | abstract specification |
| `FatVolume` | the sectors of a FAT volume that logging touches, and when they are consistent | data |
| `SdLog` (EXTENDS `FatVolume`), `MCSdLog` | the `SDCARD` build: main, the button's handler, and the functions of FatFs they call | concurrent, faults |
| `TimerSetup_proof`, `SampleTimer_proof`, `I2C_proof`, `ImuData_proof`, `Button_proof`, `SdDriver_proof`, `SdLog_proof` | theorems about the modules they are named after | proofs |
| `SdLog_card` (EXTENDS `SdLog_proof`) | the theorem about `CardIsConsistent`, and its invariant | proofs |

Operators whose name has a suffix after `_` and whose comment begins with
"Mutant" are defects a programmer could have made; no action uses them.

### `TimerSetup`

`psc` and `period` are the two fields of the init structure, one step is one pass
of the `for` loop: `Found` (the remainder test succeeds), `Advance` (increment and
range check), `OutOfRange` (the range check breaks the loop). The `-1` in the
remainder test is unsigned, so the loop looks for a remainder of **1**, not of 0 as
the comment at Timer.c:9 suggests; the model has the test as it is, and
`FoundIsOneTickShort` says what follows: a full counter cycle is one input tick
short of two delays. A frequency for which the search ends at its bound has a coarse
timer tick: at 200 Hz the wait comes out 6.4 % short. This is the rounding
of `PeriodOf`; the comments promise no accuracy, so no run claims any.

### `SampleTimer`

`Tick` is TIM2; the other actions are the processor, one per access to the
counter: `ReadRapFlag` is the comparison at line 50, `Measure` the read at line
54 or 58. `Word` is the number of values of a `uint32_t`; `U32` keeps sums and
differences in it. The uninitialised `check` (line 44, compared at line 47) takes any
value of `Leftover` when the wait is entered. History variables (`elapsed`,
`worked`, `polls`, `wrapped`, `torn`, `lag`) record what the code does not know:
real time since `PastCountVal`, and whether TIM2 rolled over between the two reads of
a pass.

### `I2CBus`, `I2C`, `SensorBus`

One step of the bus is a start condition, a byte with its acknowledge bit, or a stop
condition; one step of the driver is one access to a register. `I2C_CheckEvent`
is two steps, `ReadSR1` and `ReadSR2`, because it reads two registers and the second
read clears ADDR. `pc` says which statement of which primitive runs, `ev` what is
polled for, `stage` which half of a register function. A byte is abstracted to
its origin, its register number or value, and whether the master acknowledged it, so a
byte in the wrong place is visible. With `MaxIsr > 0` a handler may stop the driver's
thread (not the bus) at any point, `MaxIsr` times.

Of the peripheral, these choices matter:

* the bus stretches the clock (stops) when the driver has to act: on SB, on ADDR, and when
  both the data and the shift register hold a received byte;
* a stop always frees the bus; a stop asked for on an idle bus may be forgotten or stay
  latched until the next start, both are explored;
* after a byte refused without a stop the wire is undriven and reads as 255;
* `DR` is one register for both directions: writing the address overwrites a byte left in it;
* a sensor's register pointer moves on by itself. The gyroscope does so only if bit 7
  of the register number is set, which the number 0xA8 used by `Gyro_data` has.

`SensorBus` has one action per effect: a call is taken, a write takes effect once, a
write or a read returns the right registers.

### `ImuData`

One step is one pass of a conversion loop: `Convert` inside the arrays, `Overrun` the fourth
pass, which reads two bytes behind the raw data and writes an axis behind the result. That is
undefined behaviour, and the model has the outcomes of a build that keeps the variables in
memory and makes each access as written. The bytes read are any of `Bytes`. Each of the two
bytes written (`Layouts`) falls on padding, on the beginning of `raw_data`, on `i`, on `j`,
or on something else: a pointer argument, a saved register, or, for `buf` of
`ADXL345_data` and `Compass_data`, the caller's frame. All places are allowed to all three functions,
because a compiler may put a function into its caller. The indices go on from the bytes
written: with `j` spoilt the loop ends as usual, with `i` spoilt it ends or goes round again,
with indices that mean nothing; there the model stops. `AxesAsSent` is about loops
that end, and about writes that hit nothing `else`: what a spoilt pointer or caller
does is outside the model. `convert_2_sgn` is translated with its `int16_t` conversions; its
branch for negative numbers cannot be reached.

### `Button`

`pressed` is the pin, `flag` the shared flag. History variables count the changes of the
pin from one call to the next and the events reported. With both functions polled, events
do get lost (each takes them from the other), although led.h describes each function by
itself; `LoneFunctionMissesNothing` therefore speaks of programs that use one of them.

### `SdMedia`, `SdDriver`, `BlockDevice`

One step of the driver is a look at the card or at `TM_Time2`, one command with its
answer, or one data block. `pc` is the label of the next statement; during
`disk_initialize` it is the name of the command that has come back. `SendCmd` and
`WaitReady` set up the subroutines `send_cmd` and `wait_ready`, `ret` and `waiter` say who
called them. Local variables get their initial values back when a call returns
(`Reply`), which keeps the state space small. `masked` marks a call made from the
EXTI handler: `Tick`, the part of the SysTick handler that counts `TM_Time2` down, is
then impossible.

The card is one of `sdhc`, `sd2`, `sd1`, `mmc`, `none`. It may leave any command
unanswered (255), refuse any (4), stay busy as long as it likes, send no token or a wrong
one, reject a block, or store it and lose the acknowledgement. Between two calls it may be
exchanged. A call of the handler's begins only when main is outside the driver: what the card makes of
commands in the middle of another call is not modelled here, and `SdLog` treats it as
the loss of all certainty (`torn`). Left out: data damaged on the wire (the driver discards every CRC), data or
address bytes mistaken for tokens or answers, and the data of R7 and OCR beyond the
questions "is the voltage right" and "is it block addressed".

`BlockDevice` is the abstract device: a call stores its blocks in order, each once, and may
stop anywhere; success means that a write is complete, that the data read is what the
sectors hold, that the card is no longer busy after CTRL_SYNC.

### `FatVolume`, `SdLog`

`SdLog` composes `User/main.c`, the handler and the FatFs functions they call:
`f_mount`, `f_open` with `FA_CREATE_ALWAYS`, `f_puts` down to `create_chain`,
`f_close` down to `sync_fs`. A step of main is one statement, or the run of statements
up to the next access to what the handler shares: the volume object (`reg`, `fs`,
`win`), the file object (`fil`, `buf`), `sdmounted` and the card. `pc` is the place in
the code, `loc` the locals that are in use across steps. What main has read into a
local before an interrupt is still used after it, as in the code: `loc.wsect` in
`sync_window`, `loc.ncl` in `create_chain`, the pointer to the volume in
`find_volume`.

`move_window` takes five steps (`MoveWindow`, `SyncWindow`, `ClearFlag`, `ReadWindow`,
`SetSector`), because the window, `wflag` and `winsect` are changed one after the other
and the handler uses all three. `find_volume` takes `FatFs[vol]` (`FindVolume`) before it looks
at `fs_type` (`VolumeStatus`): a press in between makes it mount a volume that is registered
nowhere, and `f_open` goes on with it. Accesses are one step only where a press between
them does what one before or after them does: `put_fat` stores an entry and sets `wflag`
(a window changed without the flag is thrown away by the handler, as if it had not been changed
yet); `f_write` writes its buffer and clears `FA__DIRTY` (the handler can only write the
same buffer once more); the copy of a line into the buffer (the size does not count it yet);
what `create_chain` notes at its end; the fields `f_open` sets before `fp->fs`; and the mounting of a
volume while no file is open. `here` names the place a press came to, and `hit` collects them.

The handler's steps are the sectors it writes (`isr` is its place); main
does not run meanwhile.

The disk is that of `BlockDevice` for calls of one sector: a call that succeeds is
done, one that fails may or may not have done its work, and any call may fail. A
press in the middle of one of main's disk calls lets the handler's commands reach a card
that is waiting for data; `torn` records it, and from then on nothing is certain of what
is read or written.

After the handler has closed the file, `fp->fs` is NULL. f_write read it before, or
reads it again, as the compiler likes: `Boundary`, `NextSector` allow each
outcome (`~fil.fs`).

Text is counted in units, a sector's contents are a record that says whose they are
(`DataOf(file, nr, n)`), a FAT sector is the part of the table in it. A line fits the 50 characters
of main's buffer and so the buffer of `f_puts`, which hands it to `f_write` in one piece. Left out: FAT12, the second copy of the FAT, the
lock table and the volume's id, the search of the directory (one sector, in which the
entry is found or made), a free-cluster count that FSInfo does not know, and the LEDs.

## 3. The runs

| run | configuration | shows |
|---|---|---|
| `timer_setup` | the real clock 2*84000000, nine frequencies from 10 to 1280 Hz, real 16-bit bound | `FoundIsOneTickShort`, `WaitIsHalfACycle`, `SearchEnds` |
| `sample_timer` | Period 11, Count 5, work up to 26 ticks | `EarlyOnlyIfTorn`, `MeasuresElapsed`, `ReturnsInTime`, `WaitEnds` |
| `i2c` | three sensors of four registers, one missing; eight calls; no interrupts | `KeepsPromise` (refinement of `SensorBus`), `CallsReturn` |
| `i2c_isr` | the same with two interrupts | `OnlyTheWriteAskedFor`, `AddrIsNotThrownAway`, `SeveralRegistersHeal` |
| `imu_data` | bytes 0, 127, 128, 255; the write past the axes on every kind of place | `AxesAsSent` |
| `button` | up to 8 counted changes of the pin | `NoEventInvented`, `LoneFunctionMissesNothing` |
| `sd_card` | 3 sectors, two data values, all kinds of card, calls of one and of two blocks | `ReadyMeansReady`, `KeepsPromise` (refinement of `BlockDevice`), `CallsEnd` |
| `sd_log` | four volumes of three clusters, four lines, two presses, any disk call may fail | `CardIsConsistent`, `ClosedFileIsComplete`, `NoWriteWhenStopped`, `Stops` |

Each of them but `i2c_isr`, which is a run of the same module as `i2c`, checks `TypeOK` too. Four runs show that the code does not do what a comment says:

| run | comment | what happens |
|---|---|---|
| `measured_delay_ensured` | Timer.h:31 "ensure a set delay" | TIM2 rolls over between the reads at lines 50 and 58; the unsigned difference is huge and the wait ends early |
| `received_byte_is_returned` | I2C.c:124 "wait until one byte has been received" | the stop is requested before the poll; after an interrupt the stop is over first and the event, which also wants BUSY and MSL, never comes |
| `init_times_out` | fatfs_sd.c:290 "Initialization timeout = 1 sec" | every `send_cmd` sets the same countdown to 500 ms again; with a card that answers but does not get ready the loop does not end |
| `block_length_is_set` | fatfs_sd.c:311 "Set block length: 512" | the test in front is inverted: an SDv1 or MMC card that got ready in time is given up |

### Bounds, and why they are enough

* `SampleTimer`: what the wait does depends on the order of `past`, `cnt`, `Count` and
  `Period`, not on their size. Period 11 and Count 5 are values `InitializeTimer` computes
  (200 Hz). `MaxWork` 26 is more than two cycles, so work that is
  too long, and work that crosses a rollover once or twice, occur. `MaxGap` 1 lets a
  tick fall between any two steps of the wait. `Word` 64 is more than two periods, as 2^32
  is; `Leftover` has a value on each side of Count. `Horizon` only stops the ghost clock.
* `I2C`: four registers, reads of one, two and three, one of them across the end. Two
  interrupts, because the second can hit the recovery from the first.
  `init_I2C1` is Init; the program makes any sequence of calls.
* `SdDriver`: two blocks distinguish first, middle and last of a multiple block transfer
  with its stop; three sectors leave one untouched on a side. `BlockLen` 2 tells
  addresses from sector numbers. A timeout of 1 tells "time left" from "no time left", which
  is all that the code asks; the violation runs use 3, 2 and 1 to keep them apart.
* `Button`: `MaxChanges` bounds the counters only.
* `SdLog`: a sector has three units and a line two, so lines begin at every offset and some
  cross into the next sector. Three clusters, two FAT entries to a sector: the
  chain of the file crosses from one FAT sector into another, so that extending it moves the
  window from one dirty sector to the next. The four volumes are an empty FAT16 card; a FAT32 card
  with an old log to be removed and another file in the way; one with room for a line
  and a half; and one with two sectors to a cluster on which the search for a free cluster
  wraps around. `MaxLines` 4 fills a card. `MaxPresses` 2 lets a press come while the
  handler runs, and one after it.

### Fairness

* `TimerSetup`: `WF(Next)`; `SampleTimer`: `WF(Cpu)`, `WF(Tick)`: one thread that
  nothing stops, and a timer nobody disables.
* `I2C`: `WF(Cpu)`, `WF(Bus)`, `WF(IsrLeave)`: handlers return. No fairness on `Invoke`:
  the program need not call again.
* `SdDriver`: `WF(Driver)`, `WF(Tick)`. None on the card, which may be busy for ever.
  `Tick` is disabled in a call from the EXTI handler, so nothing is claimed about its end.
* `SdLog`: `WF(Main)`, `WF(Handler)`: the processor goes on and disk calls come back. For main's
  reads and writes that is `CallsEnd`. For `disk_initialize` (in `InitVolume`) it is an
  assumption about the card: `init_times_out` shows that it does not return with a card that answers
  and never gets ready, and then main is still in its start-up and records nothing. For the
  handler it is an assumption, too (milliseconds stand still while it runs), which holds for
  every card that does not stay busy for ever. No fairness on `Press`.

`Button` and `ImuData` state no liveness. Deadlock is checked wherever the program never
stops; `TimerSetup` and `ImuData` end when their function does, `Button` at its bound, `SdLog` when its lines and
presses are used up or the recording has stopped.

## 4. The proofs

| theorem | says | for |
|---|---|---|
| `TimerSetup_proof!TypeCorrect`, `FoundIsClose`, `HalfACycle` | `Spec => []TypeOK`, `[]FoundIsOneTickShort`, `[]WaitIsHalfACycle` | all clocks, frequencies, prescaler bounds |
| `SampleTimer_proof!TypeCorrect`, `NeverEarlyOtherwise`, `MeasurementAccurate` | `Spec => []TypeOK`, `[]EarlyOnlyIfTorn`, `[]MeasuresElapsed` | all periods, counts, word sizes |
| `SampleTimer_proof!NeverLate` | `Spec => []ReturnsInTime` | the same, if `GapsAreShort` |
| `I2C_proof!TypeCorrect`, `WritesAreRight`, `AddrIsKept` | `Spec => []TypeOK`, `[]OnlyTheWriteAskedFor`, `AddrIsNotThrownAway` | all sensors, calls, numbers of interrupts |
| `I2C_proof!ReadsHeal` | `Spec => []SeveralRegistersHeal` | the same |
| `I2C_proof!Implements` | `Spec => KeepsPromise`: the driver implements `SensorBus` | all sensors and calls, if `MaxIsr = 0` (the build without `SDCARD`) |
| `ImuData_proof!ConversionIsTwosComplement` | `convert_2_sgn` is two's complement on all 65536 pairs | |
| `ImuData_proof!TypeCorrect`, `AxesAreRight` | `Spec => []TypeOK`, `[]AxesAsSent` | all bytes; all places of `Layouts` |
| `Button_proof!TypeCorrect`, `EventsAreReal`, `AloneIsComplete` | the three invariants of the run | any bound |
| `SdDriver_proof!TypeCorrect` | `Spec => []TypeOK` | all capacities, block lengths, calls, timeouts |
| `SdDriver_proof!ReadyIsReady` | `Spec => []ReadyMeansReady` | the same |
| `SdDriver_proof!Implements` | `Spec => KeepsPromise`: the driver implements `BlockDevice` | the same |
| `SdLog_proof!TypeCorrect`, `NothingAfterStop` | `Spec => []TypeOK`, `Spec => NoWriteWhenStopped` | all volumes, sizes of a sector and of a line, lines, presses |
| `SdLog_proof!ClosedIsComplete` | `Spec => []ClosedFileIsComplete` | the same |
| `SdLog_card!CardStaysConsistent` | `Spec => []CardIsConsistent` | the same |

They rest on the named assumptions of the modules (`SampleTimerAssumption`,
`I2CBusAssumption`, `SdDriverAssumption`, and so on), which TLC evaluates in every run: a
counter of less than half a word, a count of at most a period, transfers of at least one
register and within the card. `NeverLate` has one assumption of its own, `GapsAreShort`:
`Count + 4 * MaxGap <= Period`, that is, the few instructions between two reads
of TIM2 take much less than half a cycle. Without it a pass could miss a whole
cycle and no bound would hold.

**TimerSetup.** `DivMod`, `DivUnique`, `DivDiv` are lemmas about `\div`: dividing by the
prescaler and then by two is dividing by twice the prescaler, which is what links
`PeriodOf` to `CountOf`. `PeriodFits` bounds the period. With them the invariant is
that the prescaler is in its range while the search goes on and that the period is `PeriodOf`
after it.

**SampleTimer.** `EarlyOnlyIfTorn` and `MeasuresElapsed` are not inductive. The invariant
relates the counter to the ghost clock: before a rollover `cnt = past + elapsed`, after one
`cnt + Period + 1 = past + elapsed`, as long as less than a cycle has gone by; and at `measure`
the flag taken at line 50 still describes the counter unless `torn` is set. From that
`Measured` is `elapsed` or, after a rollover, one less. `NeverLate` adds how far the
clock can be at each step of a pass: a pass begins only if the delay was not over when it
was last measured, and each step adds at most one gap.

**I2C.** `OnlyTheWriteAskedFor` is about `landed`, which only the bus changes, while the
driver's position is in `pc`, `stage` and `ev`; a delay may separate the two as far as the
clock stretching of the peripheral allows. `WInv` ties them together: which flags can be set
in which phase of the bus (`FlagInv`), what `seen` can hold between the two reads of a poll
(`SeenInv`), which phase the bus can be in at each statement (`PhaseInv`), which half of
the call runs (`StageInv`), what the data and shift registers hold of a frame that is sent
(`TxInv`) and what has been stored by then (`LandedInv`). The step proof has one case per
action and one lemma per conjunct. The same invariant gives `AddrIsKept`: ADDR can be
seen only in the poll for EV6, so the poll that clears it is the one that leaves the loop.

Reads need the counterpart, `ReadInv`, for calls that no interrupt has held up. `QuietInv`: the
driver finds the bus as it left it, so no poll meets an idle bus. `SelectInv`: the loop is entered with an
empty shift register and the sensor's pointer at the register asked for, and with an empty data
register if nothing was left behind before. `LoopInv`: the byte that comes is acknowledged if and
only if it is not the last one, and the stop has been asked for before the last one is
refused. A byte that was left behind is taken in the first pass, while acknowledge is on; a read of several
registers has another pass, waits there for a byte of its own, and so ends with nothing left
in the data register: that is the healing. `TextInv`: what has been read, and that the byte in the
data register is the next one. `StepImplements` maps `SendByte` to `TakeEffect`, the last stop to the
two returns and all other steps to a stutter.

**ImuData.** The invariant says how many axes are final after `j` passes and that the raw
bytes are those received until the fourth pass (`Counting`), and that all axes are right after it
(`Converted`); the arithmetic of `convert_2_sgn` is a lemma.

**Button.** The flag equals what the last call of either function saw; the counts follow.

**SdDriver.** A call of the driver goes through `send_cmd` and `wait_ready` again and
again, and what is true at a label depends on who called them. `goal` is the label
that is reached when the subroutine comes back; every invariant is stated about it.

* `CtrlInv`: the goal belongs to the function that is running, and `send_cmd` returns to it
  with the command that label expects.
* `CountInv`: at each goal, how many blocks are left and how many are in the buffer. With
  `CtrlInv` this is what makes `TypeOK` inductive: `left` never passes zero, because a goal
  that takes a block has at least one left.
* `ModeInv`: what `disk_initialize` has found out about the card at each of its
  labels. The card moves by itself (it may become ready between two commands), but
  only CMD0 takes it into the idle state (`AnswerMode`), so what has been found out stays true
  until the card is exchanged, and then it does not listen. Between two calls this is
  `ReadyMeansReady`.
* `PromiseInv`: how far a transfer has come. The blocks in the buffer are those of the
  first sectors of the call (`ReadInv`), the blocks stored and those left add up to the
  call, and the card's own position is the sector of the next block (`WriteInv`);
  all of it only while the card is in the transfer state the command asked for. That the transfer starts at
  the sector of the call needs `ReadyMeansReady`: the argument of the command is a sector
  number for one kind of card and a byte address for the others (`AddressRight`).

The refinement then maps a block the card stores in a step of the driver (`TakeBlock`) to `StoreBlock`,
the returns to `Finish` with `Honest`, the card's own steps to `Program` and
`Exchange`, and everything else to a stutter.

**SdLog.** As in the driver, `goal` is the place that is reached when `move_window` is back.

* `Types`, stronger than `TypeOK`: a sector of the card holds a piece of the FAT, a
  directory, text, or `fsinfo`, and the entries of a piece of the FAT are those of the clusters it covers
  (`EntryType`, `WithEntryType`).
* `ClusterInv`: at each place that looks up a cluster, the number is that of a
  cluster and not 0 or an end mark, so no sector beyond the volume is read or written.
* `CountInv`: the text in the file and the text still to be written are no more than the lines put so far.
* `StartInv`: until `f_open` has succeeded there is nothing the handler could close,
  so whatever it does in between the directory is still a directory when `f_open` reads the entry.
* `StopInv`: once the handler has run without coming into `f_write`, main is in its start-up
  or rests in its loop, and there `Sdmounted` is cleared or the volume is unmounted; the handler
  may have come between the test of `Sdmounted` and `f_puts`, and then `validate` fails.

`NothingAfterStop` follows from `StopInv`: of the steps main can take in its loop, only
those inside `f_write` write to the card.

`ClosedIsComplete` needs what the window of the volume and the directory hold while main and the
handler share them (`CloseInv`):

* `WindowInv`: as long as the file is open and no press came to a place that the property leaves
  out (`Intact`), what is in the window for the directory's sector is a directory, unless main is
  between the read of another sector and the change of `winsect`; when main writes the window
  back it is to the sector it was read from; and before an entry of the FAT is put the window
  is not the directory's.
* `SyncInv`: the stages of `f_sync` in the handler: the entry is put together in the window, and
  reaches the card before `f_sync` comes to `fsinfo`.
* `ReportInv`: what `f_puts` has reported is at most the size of the file.
* `ClosedInv`: when the file is closed, the entry on the card stays: main, who may have been
  stopped in the middle of writing back the window, either writes another sector or the same entry.

`CardStaysConsistent` says of every moment what `ClosedIsComplete` says of the end. `Covered` speaks
only of what is on the card, and that is not inductive: what the directory will claim later is
still in the window, in the buffer or in main's locals. The invariant (`FileInvs`) is true as long
as no disk call was torn and the handler has not come into `sync_window`, nor to a window that
winsect calls the directory's and is not (`Sound`):

* `OverInv`: which sector the window is over (`over`: the one read, before main has set
  `winsect` to it), and what in it the card does not have yet. A window without
  `wflag` that may still be written back is a copy of its sector (`Clean`); at the places that
  read or put an entry of the FAT, it is over the sector of that entry. While main is
  between the read and the change of `winsect`, `wflag` is clear, so the handler, if it does not take the
  window for the directory, writes nothing of it and reads over it.
* `FatInv`: on the card and in the window the entries of other files are end marks; the cluster main is
  about to mark is still free.
* `LineInv`: where main is in the line that it writes: a new sector is begun, and a cluster
  asked for, only at offset 0, and then nothing is left in the buffer that a new sector would
  overwrite.
* `OldInv`: until `f_open` has succeeded the entry is the old one with its cluster and its
  text in place, or empty; the entry reaches the card before the cluster is freed.
* `FileInv`: there is a path `p[0], ..., p[len - 1]` of clusters, all different and none another
  file's, such that
  + `ChainOk`: the FAT as main sees it (`View`: the window over the card) links the path and
    ends it; `fil.sclust`, `fil.clust` and the locals of `create_chain` are where they should be in it;
  + `TextOk`: each unit of text up to `fil.fptr` is in its place on the card, or in the dirty buffer;
  + `BufferOk`: the buffer belongs to the sector that `fil.dsect` names;
  + `ClaimsOk`: an entry on the card, or in a window that may still be written, says zero bytes as
    long as the handler has not put the entry together (`Before`), and after that claims a
    prefix of what is on the card, with the whole path linked there (`OnCard`).

`ChainOk` and `TextOk` are dropped once the entry has been put together; then the FAT on the card no
longer changes (`OverStays`): the window is clean, or over the directory. The step proof keeps the path, but
for the two steps that put the last entry of a new cluster (`CreateLinked`, and `CreateMarked` of
the first cluster): there the path gets longer (`ExtendedStep`), and that it still has at
most `Clusters` members is the pigeonhole principle (`LongerIs`). At the end `ChainIs` shows that the
recursive definition of `Chain` has a solution, and `ChainFollows` that it is the path; both by a least
counterexample, since induction is not available.

Only model-checked, because they are beyond the prover: liveness (`WaitEnds`, `SearchEnds`,
`CallsReturn`, `CallsEnd`, `Stops`). Every invariant and every action property that a passing run
checks has a theorem. The refinement of `SensorBus` is proved without interrupts, as
it is checked: with them a read may return what was left behind, and `SeveralRegistersHeal` takes its
place.

## 5. What the checks say about the code

Besides the findings above:

* `SeveralRegistersHeal` is the strongest statement about reads in the `SDCARD` build that
  holds. An interrupt between the address phase and the statement that switches the
  acknowledge bit (I2C.c:106, 122) lets the byte end with the old bit; a byte nobody waits for is
  then left in the data register. After it, each `I2C_Read_Reg` returns the byte of the read
  before, until a read of several registers, which ends in step with the bus again.
* A sensor that is missing stops the program in the poll for its address acknowledge
  (I2C.c:81), before main compares the identifiers; `CallsReturn` is limited to sensors
  that are there.
* A wait across a rollover is one tick long (Timer.c:54), and work longer than a
  cycle is taken for the rest of the division.
* An SDv1 or MMC card is accepted only if `TM_Time2` has run out, that is, if it did *not*
  become ready in time.
* A card that takes the place of another is not heard until it has been initialised, so
  the stale card type does no harm: every call fails until then.
* The card survives a loss of power at every moment: the directory never claims text that is not
  there. It survives a press of the button, too, but for three places in main (without any one
  of these exceptions TLC finds the damage):
  + the middle of a disk call of main's, where the handler's commands reach a card that waits for
    data;
  + `sync_window` (ff.c:709-719): main has read the sector number, the handler moves the window
    to the directory, and main then writes the directory over a sector of the FAT;
  + `move_window` after the read of a sector into the window (ff.c:742) and before `winsect` is
    set to it (ff.c:746), while `winsect` still names the directory, as it does at the first
    cluster of the file. The handler takes the window for the directory, skips the read, puts
    the entry into a sector of the FAT, and writes that over the directory; `f_close` reports success
    and that sector of the directory is lost. `ClosedFileIsComplete` has this exception as well.
* A press at start-up between the read of `FatFs[vol]` and that of `fs_type` (ff.c:2224, 2230)
  unmounts the volume under `find_volume`, which mounts it again although it is registered no more:
  later presses do not unmount it. One that follows tries to close the file; when a disk call of that
  `f_sync` fails after `FA__WRITTEN` has been cleared (ff.c:2838), the next press finds nothing left to
  sync and `f_close` succeeds, with no entry of the file on the card (TLC needs three presses for
  it). `ClosedFileIsComplete` therefore leaves presses at start-up out; nothing is recorded after them.
* A press costs at most the line that is being written. The whole log is lost, although
  its text is on the card, when a disk call of `f_close` fails or when power fails before a
  press: the directory says zero bytes until the file is closed, and the handler unmounts
  and clears `Sdmounted` whatever `f_close` returned.
* After a press during start-up `f_open` may still succeed, with `Sdmounted` 0: the file is
  created and never written.
* `TM_EXTI_DeInit` clears the pending bits of the GPIO lines with `EXTI->PR &= 0xFFFF0000`
  (tm_stm32f4_exti.c:168). Bits of that register are cleared by writing 1, so it clears those
  of the internal lines and leaves the GPIO ones. The program does not call it.

## 6. Not modelled, and why

* The angle computation: floating point, which TLC and the provers lack.
* LED output and console output: no state that the code reads back.
* GPIO, SPI and clock set-up: straight-line register writes before the loop; what they leave behind
  is in the constants (`Clock`) and in `Init` of the modules.
* The rest of the delay and EXTI libraries: main attaches one line, once, and looks at no result; it
  creates no timer. Their other functions have no caller whose sequence of calls could be modelled.
* The other ioctls of the SD driver (only `f_mkfs` and `f_fdisk` use them), the functions of FatFs
  that main does not call, and the disk drivers that are not built.
* Vendor code: CMSIS and its DSP library, the peripheral library (but for the I2C functions the
  driver calls), the board library, the code pages of FatFs, and the copies of FatFs that the
  project does not compile. It is more than 99 % of the 572 944 lines under `src/`; the program's own
  code, with the parts of FatFs and of the drivers that it runs, is about 2000 lines.

## 7. What is left

1. `SdLog` over `SdDriver` itself instead of one-sector calls, to replace `torn` by what the
   card makes of the handler's commands; the state space is the obstacle.
2. main as composition of `I2C`, `SampleTimer` and `SdLog` at the level of their abstract
   specifications, for one statement about the time a pass takes.
