# A TLA+ verification of the WCH IoT SDK

The SDK (`src/`) is a small firmware framework in C for the WCH CH57x and CH58x
RISC-V Bluetooth chips. It is derived from Zephyr, but has no threads: a main
loop (`TMOS_SystemProcess` of the vendor's BLE library, or the sample's `main`)
and interrupt handlers. What is hard to test is therefore what a handler does
between two instructions of the main loop, what queued events do in an
unforeseen order, and arithmetic over a counter that starts again every day.
The repository has no tests.

`PROJECT.json` lists the components, the runs, the mutants, the source lines of
every definition, the findings, the hazards and the theorems. Model-check a run
with `tlc -config <run>.cfg <module>`, check proofs with
`tlapm <module>.tla` for `SequenceLemmas` and the modules whose names end in `Proofs`.

## 1. Inventory

### Modelled

| Part | State it keeps | Operations | Interacts with | Hard behaviour |
|---|---|---|---|---|
| Power management: `subsys/pm/pm.c`, `policy.c`, `soc/riscv/ch58x/power.c` | `z_pm_state`, post-operation flag, notifier list, lock counts, crystal current | `pm_system_suspend`, `pm_system_resume`, lock get/put, notifier register/unregister | RTC alarm; called by the BLE library (`bt_init.c:60`) or the application | handlers between its steps; time passes between reading the counter and sleeping; end of the day; must return |
| RTC timer: `drivers/timer/rtc_timer.c`, `ch58x_hal_rtc.c`; kernel clock: `kernel/timeout.c` | counter, trigger, pending request, `last_count` | `sys_clock_set_ticks`, `RTC_IRQHandler`, `sys_clock_elapsed`, `k_busy_wait` | power management, BLE library's clock | the counter's period is a day while differences are taken modulo 2^32 |
| Time units: `include/sys/time_units.h` | none | 84 conversion functions | clock, delays | five formulas for one quotient; overflow |
| Devices and start-up: `kernel/init.c`, `kernel/device.c`, `subsys/pm/device.c` | status of devices, wake-up flags, wake-up controller | `sys_init`, `z_sys_init_run_level`, `device_is_ready`, `pm_device_wakeup_enable` | every driver | a reset at any step leaves RAM, not registers |
| Memory protection: `arch/riscv/core/core_pmp.c` | hardware entries, entries of every context | static regions, init, add a region, apply, clear, validate a buffer | user code | a range uses two entries; contexts and hardware differ |
| Singly linked lists: `include/sys/slist.h`, `list_gen.h` | head, tail, next pointers | append, prepend, insert, append_list, merge, get, remove, find_and_remove | PM notifiers, GPIO callbacks | tail pointer after long sequences of calls |
| Doubly linked lists: `include/sys/dlist.h` | next and prev pointers | append, prepend, insert, insert_at, remove, get, peeks | none in the SDK | both directions after long sequences of calls |
| GPIO callbacks: `drivers/gpio/gpio_utils.h`, `gpio.c` | the port's callback list | `gpio_manage_callback`, `gpio_fire_callbacks` | lists; applications' handlers | the interrupt walks a list a thread is changing, unprotected |
| GPIO pins: `drivers/gpio/gpio.c`, `ch58x_hal_gpio.c` | output, direction and interrupt registers, inversion | pin configuration, port and pin output, interrupt configuration, port interrupt | GPIO callbacks | events while flags are cleared; one register for output and trigger; pins 22 and 23 |
| UART: `drivers/uart/uart.c`, `ch58x_hal_uart.c`; system clock: `ch58x_hal_clk.c` | FIFOs, interrupt enables, line control, divisor | poll in and out, FIFO fill and read, interrupt enables, configure | applications' handlers | check-then-write against a handler; characters arriving during a read; waits in a handler |
| ADC: `drivers/adc/adc.c`, `adc_context.h` | hardware settings, buffer pointers, context | channel set-up, read, interrupt with callback actions | BLE HAL measures the temperature on the same driver | two users of one context; a callback repeats or cuts short; waits must end |
| Buffers: `subsys/buf/buf.c`, `include/buf/buf.h`, `byteorder.h` | store, data offset, length, saved parsing state | add, push, remove, pull of every width and order, init, reset, clone, save, restore | advertising data | bounds, composition of shifts, restore after overwriting |
| Advertising: `subsys/bluetooth/host/adv.c` | one buffer, the library's parameters | enable, disable | peripheral sample | two lists through one buffer |
| GATT services `sps.c`, `dis.c` and the peripheral sample | characteristic values, connection handle, task events, timer | attribute reads and writes, CCC, notifications, GAP state callback | the vendor's BLE library | queued GAP events lag behind links; long reads at response boundaries |

What makes them correct:

* power management: no sleep outlasts its request, every entry notification has
  its exit, the state that the policy chooses was not locked throughout, the call
  leaves no trace and always returns;
* clock: a wait is short by less than a cycle and not late; elapsed time is exact;
* time units: the exact quotient, rounded as the name says;
* start-up: a device is ready exactly if it was initialised since the reset, an
  enabled wake-up source can wake;
* memory protection: the hardware allows what was added, and a validation agrees
  with it;
* lists: the pointers implement sequences;
* GPIO: every registered callback is called exactly once per interrupt, no pin's
  event is forgotten, a trigger stays as it was asked for (a low one only as long
  as no masked write is made at other pins);
* UART: no output is lost, input keeps its order and stays in its container, the
  handler does not hang while it fills the FIFO, what is written to the registers
  is the requested format and rate;
* ADC: the samples of a read that no measurement falls into stay within the buffer
  and are all written; every wait ends;
* buffers: a queue of bytes with two ends; reads decode what bytes stand for;
* peripheral: the notification timer follows the client and stops before the next
  connection, no link is left without an owner, the device becomes connectable
  again, a client reads whole values.

### Not modelled

* The vendor's BLE library is a binary; its two pairs of headers
  (`lib/ch5*/CH5*BLE_*.h`, 17 000 lines) declare it. `Peripheral` and `AdvData`
  model it from its use.
* The register headers (`CH5*SFR.h`, 3 500 lines), `util_loops.h` and
  `util_macro.h` (2 500 lines of macro tables), toolchain headers: names and
  constants, without state. Together with the library's headers they are more
  than half of the repository's lines of C, which is why the mapped lines are
  a small share of the whole.
* The CH57x files: the same control over other registers. The models follow the
  CH58x files.
* `drivers/timer/sys_timer.c`: no `CMakeLists.txt` builds it.
* The heart rate sample does not compile (`.hrs_ccc_changed = ,`), and `hrs.c` has
  no other user. `host/process.c` is called by nothing. `bt_init.c` is a sequence
  of calls into the library.
* Flash and EEPROM: a range check and a ROM routine outside the repository. Pin
  multiplexing: register writes from a table. Fault output, logging, `printk`:
  formatting. `ring_buffer.h`: declarations without an implementation. Atomics:
  compiler built-ins. Random numbers: a mixed counter.
* Within modelled parts: the RTC's calendar functions (no caller), the offset that
  a calibration of the ADC computes (its conversions are modelled) and the
  conversion to volts, pull resistors of pins, the UART's
  `irq_is_pending` and `irq_tx_complete` (no caller), PMP stack guards and MPRV
  (other configurations), clock gates, crystal settings and LSI calibration
  (single writes, analogue time).

## 2. Plan

Done: power management on its clock; the drivers; lists and buffers; the kernel's
start, time units and memory protection; the BLE peripheral with its advertising
data. Components that share no variable are checked in one run as a sum (section
4), so that the whole stays a matter of minutes.

Proved: section 5, every invariant that a passing run checks. What is left is
liveness, which needs fairness. Next, in the order of their worth: what the
peripheral should promise for its timer and its advertising with several
connections (only `NoStrayLink` is stated for them), and the calendar of the RTC
once something calls it.

## 3. Modules and the code

`map` in `PROJECT.json` gives the lines of every definition.

**`RtcTimer`** — the 32 kHz counter (`cnt`, period `Day`), the trigger register
(`trig`), the interrupt request and `last_count`. `TrigValue` is
`hal_rtc_set_ticks` with its single reduction of values beyond the day; `Sub32`
is subtraction of `uint32_t`, with `Word` for 2^32. `RtcTick` is the hardware.

**`PmPolicy`** — `pm_policy_next_state` as pure operators, and the lock counts.
`Usecs` truncates to 32 bits as the code does. The upper residency check of
`policy.c:27` is not in the model because it is never compiled: it asks for
`SOC_SERIES_CH58X`, and the symbol is `CONFIG_SOC_SERIES_CH58X`.

**`PmSystem`** — `pm_system_suspend` cut into steps where it touches what a
handler also touches: read the counter, decide, set the alarm, notify, set the
post-operation flag, load the state, enter, WFI, and after a deep sleep the
second alarm and WFI, then `pm_system_resume`. Sections under `irq_lock` are one
step. Between steps, if the caller has interrupts open, `RtcIsr` and
application handlers run; these lock and unlock states, register and unregister
notifiers, or call `pm_system_resume`. The hardware state that the SoC code
changes and restores is the crystal's current. The argument is modelled as what
the code takes it for, the RTC count to be awake at. `ChosenNotLocked` is about the
state that the policy chooses, which is entered at the first WFI; the second WFI
is always in SUSPEND_TO_IDLE. `ReturnCode` says what the results 0, 1 and 2 do mean,
which is not quite what is documented (section 6).

**`KernelClock`** — one `k_busy_wait` and `sys_clock_elapsed` over the counter,
with alarms set and served meanwhile. `CyclesOf` is the conversion from
microseconds to cycles, which rounds down: on a 32 kHz counter up to 30 µs are no
cycle at all.

**`TimeUnits`** — `z_tmcvt` with `uint64_t` arithmetic (`W32` for 2^32), each of
the 14 families of functions, and one call after another on a chip whose
frequencies are chosen at start. `InRange` is what the header leaves to the
caller: the result must be representable, and 64-bit arguments of the fast
formula must not exceed the longest timeout.

**`DeviceInit`** — `sys_init`: `.bss`, `.data`, then the init entries level by
level, each with any result; `pm_device_wakeup_enable` in its three steps. `Reset`
(external) happens at any step: RAM keeps its content, registers do not. The `rtc`
device has no state structure; its status is written through a null pointer,
and the model lets that change nothing.

**`Pmp`** — entries as records of mode, permissions, lock and address (powers of
two are a function, so that the module can be proved about); the translation of
regions, the tables of two contexts, the hardware's entries, for the TOR and the
NAPOT build. `Matches`, `Allowed` and `WriteEntry` (external) are the rules of the RISC-V
privileged architecture: the lowest matching entry decides, and a locked entry
ignores writes. The flags of a dynamic region may include `PMP_L`; what a lock
means for machine mode is not modelled. `AsAdded` is stated
for contexts whose regions fit; `ValidateAgrees` for a context that is in force.
`Aligned` is what the code leaves to callers and to the linker in the NAPOT
build.

**`SlistOps`, `SlistSystem`, `DlistSystem`, `NodeLists`** — the pointer operations
of `list_gen.h` as operators on head, tail and next, those of `dlist.h` on the
two links of a ring; two lists over shared nodes with every public operation as
an action; the abstract specification of both kinds: sequences of nodes.
`ImplementsLists` and `ImplementsDlists` are the refinements. Preconditions taken
from the API: a node is in at most one list, and removed only from one.

**`GpioCallbacks`** — `gpio_manage_callback` one load or store at a time, the
interrupt's walk one callback at a time. Stores of the thread take effect in
program order (the compiler may not keep it; nothing in the code forces it).
`HandlersAnytime` says whether handlers change the list in the middle of the
thread's call.

**`GpioPins`** — registers as sets of bits; the calls of `gpio.h` down to the
registers, the levels at the pins, and the port's handler cut where an event may
fall in: read the flags, clear them, call the callbacks (`GpioCallbacks` has what
happens then). The application writes the output of a pin only while the pin has no
interrupt, because the output register holds the triggers. Masked writes are not
restricted by the interrupts of pins outside their mask, although they reach
these pins: `swept` records whose low trigger they turn around.

**`Uart`** — the FIFOs, the interrupt identification, a thread that polls and
enables interrupts, and a handler like the one of `samples/drivers/uart`, one
character at a time. Contracts: the thread polls for input only while the receive
interrupt is off and for output only while the line status interrupt is off (its
flag contains the bit of the empty transmitter, so that `irq_tx_ready` would fill
a FIFO that is not empty); a fill has fewer characters than the FIFO has places.
**`UartConfig`** — the system clock's register, the line control register's
fields and the divisor, and any sequence of requests, with each kind of refusal
and what was written before it. `WCH_UART_0` and `uart0` are the build and the
UART: the flow control, which comes last, fails with -ENOTSUP for any but UART0
and in a build without `CONFIG_WCH_UART_0`, where `uart_wch_configure_get` stores
nothing. `ret` is the result.

**`Adc`** — the driver, the application's reads and `ble_hal_get_inter_temp`,
taking turns on the main loop; the interrupt between any two steps. A sample is
the channel it came from. `SUPPORT_INTERRUPT` is `CONFIG_ADC_SUPPORT_INTERRUPT`,
which has no prompt and is selected nowhere: the SDK as it stands builds the
polled driver, a project that selects it the other. `Calibrate` says whether the
application asks for a calibration, whose last conversion leaves its end
signalled. `overlap` is set when a measurement begins before the application's
read has ended, and cleared when a read begins with the converter idle.

**`ByteOrder`, `Buf`, `ByteDeque`** — integers as functions from byte position
to byte, so that shifts and masks are positions; `buf_simple` as offset and
length over a store; the abstract specification: one sequence of bytes with
room at both ends, and what a restored state must show. Calls that violate an
assertion (`__ASSERT_NO_MSG`) are not made. `MCBuf` takes one-hot values: they
tell every permutation of bytes from every other.

**`GattServices`, `Peripheral`** — attribute callbacks as operators (status and
bytes), and the application: its task's events in the order
`perip_process_event` looks at them, the GAP and CCC callbacks, the timer. The
library's side is marked external: a link comes and goes, its events are queued
and handled later; `CONNECTED` is reported with an established link, the state
of a termination depends on whether links remain; it advertises only when asked
to; `tmos_stop_task` may leave an event that is
already set; the CCC table may keep an entry beyond the link; a
notification may be refused.

**`AdvData`** — the buffer, the parameters handed to the library, and what a
scanner reads from them. Lists that do not fit are left to the assertion of
`buf_simple_add`.

**`MCKernel`, `MCContainers`, `MCDrivers`, `MCPeripheral`** — sums: `part` says which
component runs; the others rest in an initial state. The components of a sum
share no variable and call each other in no modelled operation, so the sum has
every behaviour of each. `MCPmp` and `MCBuf` hold instance values.

## 4. Runs

| Run | Question | Result |
|---|---|---|
| `pm` | `TypeOK`, `NoOversleep`, `CleanReturn`, `NotifierPaired`, `ReturnCode`, `ChosenNotLocked` with handlers between any two steps | hold |
| `pm_liveness` | `SuspendReturns` under fairness | holds |
| `pm_alarm_underflow` | `AlarmInTime`: `NoOversleep` without excluding the first ticks of a day | violated: `ticks - exit_latency_ticks` underflows (pm.c:103) |
| `kernel` | clock: `WaitInTime`, `ElapsedInDay`; units: `ConversionExact`; start-up: `ReadyIsInitialised`, `EnabledCanWake` over resets; PMP: `AsAdded`, `ValidateAgrees` | hold |
| `clock_rollover` | `WaitAcrossRollover`: the comment of timeout.c:31 | violated: the counter does not roll over at 2^32 |
| `pmp_validate` | `NeverTooPermissive`: core_pmp.h:114-115, for a context that need not be in force | violated: the start of a range is read from the hardware (core_pmp.c:725) |
| `containers` | lists: `TailIsLast`, `BothWays`, `ImplementsLists`, `ImplementsDlists`; buffers: `WithinStore`, `ReadsDecode`, `ImplementsDeque` | hold |
| `drivers` | GPIO: `FiredOnce`, `RegisteredListed`, `EventReported`, `TriggerAsAsked`; ADC with interrupts: `NoOverrun`, `AllSamplesWritten`, `ReadCompletes`, `MeasurementEnds`; UART: `NoneLostOut`, `ReadInOrder`, `FillEnds`, `FormatWritten`, `RateNearest` | hold; `NoOverrun` and `AllSamplesWritten` for reads that do not overlap a measurement and without calibration, `TriggerAsAsked` for low triggers that no masked write has reached |
| `gpio_lost_callback` | `AddedIsListed` when handlers add in the middle of a thread's call, as gpio.h allows | violated: a callback is lost |
| `adc_overlap` | `ReadFilled`: adc.h:178-179, for any read | violated: a temperature measurement takes the driver's buffer and context over (adc.c:196) |
| `uart_container` | `ReadWithinContainer`: uart.h:499-500 | violated: the read ends when the FIFO is empty (ch58x_hal_uart.c:42) |
| `peripheral` | `PollFollowsClient`, `NoStrayLink`, `ReadWhole`, `PollStops`, `AdvertisesAgain`; `AdvertisedAsAsked` | hold |

### Bounds, and why they are enough

* `Day` 6 to 8 ticks, `Word` larger but not a multiple: every order of counter,
  request, alarm and end of day occurs, and so does each comparison's boundary.
  `UsecWord`, the thresholds and latencies are scaled so that every state of the
  policy is chosen, including through truncation. `MaxRun` 1: a tick passes in
  the prologue. One notifier suffices because notifiers do not interact; both
  sleep states can be locked, once each; the theorems have no bound.
* Waits of up to 6 µs, at 2 cycles in 3 µs up to 4 cycles: one that is rounded down
  to no cycle, some that are rounded and some that are exact.
  `CyclesOf(MaxUsec) + MaxGap < Day`: longer waits wrap more than once, and the
  loop could not tell.
* In `pm`, `UsecWord` 9 with two microseconds a tick: the microseconds of the
  longer requests do not fit and are truncated, the others do and are not.
* Words of 4 and 8 bits for the conversions, frequencies that divide each other,
  are equal, and are coprime: every formula of `z_tmcvt` is taken, by every
  argument of its width, those that overflow on the way included.
* Five init entries on three levels, with and without device, and results that
  do and do not fit a byte; a reset at each step.
* 8 entries (the default of `CONFIG_PMP_SLOT`) over 16 words; two contexts with
  two regions each beside the stack: ranges that overlap, adjoin and are refused,
  one that is locked in either build, and entries that keep the addresses of an
  earlier use.
* Two lists with four nodes (three of the doubly linked kind, which has no
  merge): a list with an interior, a middle removal beside a non-empty other
  list, and merges of two lists of two.
* One pin of port A; two of port B, one of them with another bit in the interrupt
  registers: masked writes beside a trigger need two pins. A FIFO of 3 places
  with its interrupt at 2, reads of up to 4
  characters into containers of up to 2: full FIFO, several rounds, timeouts.
  Every format, accepted or refused, at one rate, and seven rates, one of them 0,
  at one format, for every clock source with a whole number of MHz; the UARTs and
  builds whose flow control fails with one of the sources.
* Advertising data of 6 bytes: two elements, empty lists, a list that is left
  out, and a shorter list after a longer one.
* Four callbacks (three with handlers anytime): head, middle, tail and a new
  one.
* `BufLen` 2, `MaxExtra` 2, `MaxRepeat` 1: requests that fit exactly, that are
  too long by one, and a repeated first and last sampling. `Calibrate` is `{FALSE}`
  because nothing in the SDK calibrates, and what a calibration breaks is known
  (section 6).
* A store of 8 bytes holds the widest value; four calls write, save, overwrite
  and restore or read.
* One connection (the default of `CONFIG_BT_PERIPHERAL_MAX_CONNECTION`) over
  two handles, two GAP events under way: an end and the next beginning both
  wait. The library does not advertise by itself when a link has ended, so that
  with one connection an end is never handled while another link is up.
  `NoStrayLink` is the property that this concerns: it is proved for any number of
  connections (`LinksAccounted`), and was model-checked with `MaxConn = 2`,
  `BufNum = 0` and `MaxEvents = 3` in this configuration.
  Responses of two bytes: values below, at and beyond a full response.

### Fairness, and why the code justifies it

* `PmSystem`: time passes; a requested interrupt is taken and its handler ends;
  the caller goes on. Strong fairness for the caller, because requests may
  interrupt it again and again but not without end at one instruction.
* `Adc`: a started conversion ends, its interrupt is served, a call goes on, and
  whoever waits polls. Strong fairness for the application's poll: measurements
  of the BLE library are periodic and leave the main loop in between.
* `Uart`: the transmitter sends what it has, and the handler goes on. Nothing is
  assumed of arriving characters, nor of the thread.
* `Peripheral`: `main_process` loops over `TMOS_SystemProcess`, which gives every
  task with work a turn. Nothing is assumed of clients and links.

## 5. Proofs

For every value of the constants that meets the named assumptions.

**`SequenceLemmas`** — what the proofs about lists, advertised data and memory
protection share. Induction over numbers is stated for sets (`Induct`, from the
well-foundedness of the library), so that it needs no theorem with an operator
parameter; with it a recursive function over the links of a list exists
(`FromExists`) and meets linked, distinct elements in their order (`TraversalIs`).
The rest says what a sequence is with an element more or less (`InsertedIs`,
`RemovedIs` and what they keep).

**`PmSystemProofs`** — `TypeCorrect`, `SleepInTime` (`NoOversleep`),
`NotifiersPaired`, `ChosenStateNotLocked` (`ChosenNotLocked`: the first wait; the
second is in SUSPEND_TO_IDLE, locked or not), `ReturnsClean`, `ReturnsResult`
(`ReturnCode`: unless a handler resumes, 0 is a deep sleep, 2 is no sleep, and 1 is
a sleep in SUSPEND_TO_IDLE exactly if the request is not shorter than
`PM_ACTIVE_USEC`, and otherwise no sleep). Assumptions:
`RtcAssumption` and `PolicyAssumption` (sizes), `PmAssumption` (`Latency < Day`)
and `PrologueAssumption`: the CPU reaches the WFI before the shortest sleep, the
residency and the latency are over. It is what `min_residency` is for, and
without it the alarm can lie behind the counter. None of the properties is
inductive. `IInv` (in `PmSystem`) adds: the counter, the argument and the time
left agree modulo the day (`ClockInv`); which state is being entered, and that a
handler can only have reset it to ACTIVE (`StateInv`); before the first WFI the
elapsed time is the running time and the alarm is the one for the state
(`PrologueInv`); at a WFI the alarm is ahead or its request is there
(`SleepInv`); a notifier owed an exit call is still listed and the call is still
to come (`NotifyInv`); locks (`LockInv`); without a resuming handler the post
operations are the caller's (`ResumeInv`). One lemma per conjunct, one step per
action.

**`KernelProofs`** — the kernel's modules, which share no state.
`BusyWaitInTime`, `ElapsedExact`, from `WaitInv`: before the end of the day the
counter is the start plus the time waited, after it a day less, and the loop
goes on only if the last poll found time left. That gives the bounds in cycles
(`WaitCycles`); the quotient's two inequalities turn them into microseconds, of
which less than one cycle is lost. The assumption `CyclesOf(MaxUsec) + MaxGap <
Day` is what makes the unsigned difference meaningful.

`ConversionsExact`, about `TimeUnits`: every conversion is the exact quotient,
rounded as asked. `UnitsAssumption` bounds the frequencies by the word;
`TimeoutAssumption` says that the longest timeout, 365 days by default
(kernel/Kconfig:60), times a frequency is below 2^64. The arithmetic is not
linear: the lemmas characterise a quotient by its two inequalities (`DivUnique`),
show that the fast formula does not overflow (`FastFits`) and that the split
one, the whole periods and the rest, is the full quotient (`SlowIsFull`).

`ReadyAfterInit` and `EnabledSourcesOn`, about `DeviceInit`, from `BootInv`:
entries still to come have not run (`OrderInv`), the status of a device is what
its function returned once `.bss` is cleared (`StatusInv`), and a caller of
`pm_device_wakeup_enable` that is about to swap the flags has the source on
(`CallInv`). `DeviceAssumption`: a device has one init entry.

`RegionsEnforced` (`AsAdded`) and `ValidationAgrees`, about `Pmp`, in three
layers. First one region: the address that `TO_PMP_NAPOT` makes has the trailing
ones from which the hardware and the validation read the size back
(`NapotSizeIs`, `ToNapotIs`), so that the entries of a region match its words
and no others, the last of them all (`RegionMatches`), and a buffer is found in
the last of them exactly if it lies in the region (`RegionValidates`). Then
several: where the entries lie one region after the other and the others are off
(`Placed`), the lowest entry that matches belongs to the first region that
contains the word (`PlacedAllows`). Last the invariant (`PmpInv`): the program
is above the dynamic entries, the stack in the first or nothing is, the entry
behind the stack's is always off (the search starts at `1 +
PMP_USED_ENTRY_DEFAULT`, core_pmp.c:655), and, as long as the regions of a
context fit, they are laid one after the other with free entries behind them
(`Laid`). Without `Laid` the first free entry need not be the one behind the
last region, and the order of priorities would not follow. `PmpAssumption`: at
least four entries, as many as a `pmpcfg` register has (core_pmp.h:35-42),
regions that do not hold the last word of memory (the end of a range is kept
modulo the word, so that one that reaches the top would match nothing), and in
the NAPOT build regions that are aligned powers of two. None of this is checked
by the code.

**`BufProofs`** — `StaysWithinStore`: data and saved state lie in the store, for
every store size, byte set and number of calls, from lemmas on the length of
what the put functions store. `ReadsDecoded`: a read returns the value of its
bytes; the lemma is that the byte order of the load and the swap cancel.
`BufIsDeque`: the refinement, one lemma per operation on what the operation does
to the view of the store as a sequence. `NoneAssumption`: "nothing saved" is no
saved state.

**`SlistProofs`** — `ListsAreSequences` and `TailAtLastNode`. A traversal of
linked, distinct nodes is their sequence (`WalkOfLinked`; distinct nodes are at
most `Cardinality(Node)`, so the cut-off is not reached). Then, for each
operation, what its stores do to the sequence (`PrependEffect` to
`RemoveEffect`, `MergeLists`), and that no other list notices
(`OneListChanges`). `ListsInv`, inductive: each list's pointers hold the
sequence that a traversal meets, and no node is in two lists. `NodeAssumption`:
the nodes are finitely many and `NULL` is none.

`CallbacksFiredOnce` and `CallbacksListed`, about `GpioCallbacks`.
`CallbacksInv`: at every instruction there is a sequence of distinct nodes that
the head and the next pointers link, which is what an interrupt meets
(`Reached`); each step of `gpio_manage_callback` knows how this sequence, the
registered callbacks and the tail differ (`Managing`): the callback is out of it
from the store that unlinks it to the one that makes it the head, and the tail
is behind for one step after either; and a handler in its walk has called every
callback that is due or still has it before it (`Interrupt`). The sequence is
what the properties do not say: a node in it twice, or a tail that is not its
last, would show up calls later. Both theorems have the hypothesis
`~HandlersAnytime`: handlers change the list between the thread's calls only.
Without it the run `gpio_lost_callback` shows that a callback is lost.

**`DlistProofs`** — `RingsAreSequences` and `RingsBothWays`. A ring is a
sequence of nodes with the list object before its first and behind its last
position (`OrEnd`, `Chained`), so that one lemma on putting a node between two
neighbours (`BetweenTurns`) serves append, prepend, insert and insert_at, and
one on taking it out (`RemoveTurns`) remove and get, the neighbours being one
object or not. `RingsInv`, inductive: each ring holds the sequence that a
traversal along `next` meets, no node is in two rings, and a node in none is not
linked; a traversal along `prev` then meets the sequence backwards
(`BackwardOf`). `DlistAssumption`: the nodes are finitely many, and no node is a
list or `NULL`.

**`DriverProofs`** — the drivers.
`NothingLostOut`, `ReadsInOrder` from `UartInv`: between the check and the write of
`poll_out` the handler can only have filled an empty FIFO (`RoomInv`), and what
was stored and what is in the FIFO follow each other (`InInv`). `UartAssumption`:
a fill is smaller than the FIFO.
`FormatKept` (`FormatWritten`), `RateIsNearest` from `ConfigInv`: LCR has the fields of
the last request whose format was written to the end, whether or not the flow
control then failed, and the divisor is its rounded quotient. Parity and stop bits
are also what `uart_config_get` reports, if it reports anything
(`ReadBackIsDecoded`); the number of data bits is not (section 6).
`SourceAssumption`:
clock sources that are whole MHz; `RequestAssumption`: the divisor fits 16 bits.
`EventsReported`, `TriggersAsAsked` from `PinInv`, with lemmas that pins of one
port have bits of their own although 22 and 23 move to 8 and 9
(`PinAssumption`: port B has no pins 8 and 9). `TriggersAsAsked` covers masked
writes at other pins: they keep enable, mode and high triggers, and turn around
exactly the low triggers in `swept`.
`WithinBuffer`, `SamplesWritten` from `AdcInv`: a call has set up what its step
says (`InCall`), a sampling goes to the place behind the samples taken
(`InSampling`), and a completed read has written all (`Written`), as long as no
two reads overlap. Of a read into which a measurement falls `SamplesWritten` says
nothing: the run `adc_overlap` shows that it is not filled. What the overlap left
in the driver does not harm the reads after it. Both theorems have the hypothesis
that the application does not calibrate, and `SamplesWritten` also
`SUPPORT_INTERRUPT`; section 6 has what happens without them.

**`PeripheralProofs`** — `TypeCorrect` (`TypeOK`, which no run checks: the lock
on SUSPEND_TO_RAM is taken at most once, buffers stay within their number);
`PollRunsForClient` assumes `MaxConn = 1`, the default (with more the property
is false, section 6), and needs `LinkInv`: the GAP events in flight are none,
the establishment of the one link, its termination, or both in this order, and
the next link cannot come up before the termination is handled. `LinksAccounted`
(`NoStrayLink`) is for any `MaxConn`, from `StrayInv`: where a link is up
although the end of an earlier link with its handle is still in the queue, its
own establishment is behind that end (`UpAgain`), so that handling the end
cannot make it a stray. `ReadsWhole` from `ReadInv`: what a read in parts has
got is a prefix of the value. `DisAssumption`: strings are bytes with their
terminator. `ScannerFindsElements` (`AdvertisedAsAsked`), about `AdvData`: the
library holds what the loop of `ble_adv_enable` writes for the lists asked for
last (`AdvInv`), and by induction over the elements the length bytes that a
scanner meets in it are those that were written (`ParsedIs`). `AdvAssumption`
bounds nothing but says that bytes are numbers.

Only model-checked: liveness (`SuspendReturns`, `ReadCompletes`, `MeasurementEnds`,
`FillEnds`, `PollStops`, `AdvertisesAgain`), because it needs fairness and `ENABLED`,
which the prover does not have.

## 6. What the documentation says and the code does not do

Besides the findings with a run, the modules state the following sentences of the
documentation. TLC finds a counterexample for each when it is the only property
of the configuration named, with the changes given there.

| Statement | Configuration | What the documentation says | What the code does |
|---|---|---|---|
| `ReturnDocumented` | `pm` | pm.h:166-168: "1: system entered idle", "2: system did not suspended" | a request below `PM_ACTIVE_USEC` makes the policy return ACTIVE, not NULL (policy.c:42-55); nothing is slept and the result is 1 (pm.c:117) |
| `LockedNotSlept` | `pm` | policy.h:65-66: "A power state will not be allowed on the first call of pm_policy_state_lock_get()" | the second wait of a deep sleep is in SUSPEND_TO_IDLE, locked or not (pm.c:114) |
| `WaitLongEnough` | `kernel` | kernel.h:232-233: 'a "do nothing" loop for usec_to_wait microseconds' | the cycles are rounded down (timeout.c:21): 1 to 30 µs are none |
| `TriggerKept` | `drivers` | gpio.h:657: "mask Mask indicating which pins will be modified" | a masked write copies input levels into the output register, which is the polarity of interrupts (gpio.c:89-102) |
| `SetIsSuccess` | `drivers` | uart.h:352: "If successful" the result is 0 | a configuration that took effect is answered with -ENOTSUP on UART1 to UART3, and on every UART without `CONFIG_WCH_UART_0`, which no Kconfig file defines (uart.c:216-237, 328) |
| `DataBitsReadBack` | `drivers` | uart.h:372: "Stores current UART configuration to *cfg" | 7 and 8 data bits are reported as 6 (uart.c:202-207) |
| `RxReadyHasChar` | `uart_container` | uart.h:732: 1 "If a received char is ready" | true whenever the receive interrupt is enabled (uart.c:431-436); a handler that came for the transmitter spins in `uart_fifo_read` until a character arrives |
| `NoOverrun` | `adc_overlap`, `Calibrate = {FALSE, TRUE}`, `BleTemp = FALSE` | adc.h:190-191: "The driver must ensure that samples are not written beyond the limit" | a calibration leaves the end of a conversion signalled (adc.c:138, ch58x_hal_adc.c:65-88); the handler goes on with the request of the read before, whose callback may repeat it into the next read and past its buffer |
| `AllSamplesWritten` | `adc_overlap`, `SUPPORT_INTERRUPT = FALSE`, `BleTemp = FALSE` | adc.h:178-179: "Samples from subsequent samplings are written sequentially in the buffer" | the polled driver starts no conversion and stores one sample (adc.c:201) |
| `AppliedInForce` (a PROPERTY) | `pmp_validate` | core_pmp.h:73, 88: "Write user access setup saved in this pmp structure"; regions may have `PMP_L` | an entry that one context has locked cannot be replaced by the next (core_pmp.c:610-627, 646) |

With `MaxConn = 2`, `BufNum = 0` and `MaxEvents = 3` in `peripheral`,
`PollFollowsClient`, `PollStops` and `AdvertisesAgain` fail: the second client's
configuration starts and stops the one timer, and an end that is reported while
another link is up is ignored (peripheral.c:237-265). No document promises more
for several connections.

Also met while modelling; each is in the code as modelled, but no statement is
about it:

* `pm_system_suspend` takes an RTC count (pm.c:89), the header calls it a
  duration (pm.h:155-156), and samples/subsys/pm/src/main.c:78-80 passes
  durations.
* Notifiers are told of ACTIVE too (pm.c:107); pm.h:41-42 speaks of sleep.
* A lock on ACTIVE is not without effect (policy.h:71-72): the policy answers NULL.
* A handler that calls `pm_system_resume` makes the call return as if it had not
  been in deep sleep (pm.c:112, pm.h:166-168).
* `sys_clock_elapsed` is always 0, because no SoC selects `TICKLESS_KERNEL`
  (rtc_timer.c:55).
* The temperature measurement restores a configuration whose gain was never filled
  in (adc.c:165-175), which the set-up refuses, so the temperature sensor's gain
  and input stay.
* Re-adding a registered GPIO callback removes it for an interrupt that comes
  in between; removing from an empty list returns 0.
* `sps_notify` allocates before it looks at the client's configuration and does
  not free (sps.c:404-429).
* A short write copies the characteristic's full length (sps.c:264).
* `GPIO_OUTPUT_INIT_LOW` sets the pin and `GPIO_OUTPUT_INIT_HIGH` clears it
  (gpio.c:149-153); gpio.h:115-119 says the opposite.
* `gpio_port_set_masked_raw` never clears a bit (gpio.c:89-102), nor do the calls
  made of it, `gpio_port_clear_bits` among them.
* `uart_wch_configure` passes the number of data bits as the flow control, and
  the flow control writes bits of MCR into IER: on UART0, 6 to 8 data bits enable
  the interrupt of the empty transmitter (uart.c:328, ch58x_hal_uart.h:254-292).
* `CONFIG_WCH_UART_0` and its siblings are defined in an Eclipse project file
  only; the CMake build compiles no UART device.
* `hal_clk_sys_get` divides by zero for the clock sources whose divider field is 0
  (ch58x_hal_clk.c:161, 165); `CLK_MODE_32K` is 0x11 and does not fit two bits.
* `pm_device_wakeup_source` turns a wake-up source on whatever `enable` says
  (power.c:24-37).
* `z_riscv_pmp_add_dynamic` keeps the next index in an unsigned char: -ENOSPC is
  never seen, a full table is reported as success, and a range with one free
  entry is cut (core_pmp.c:629-677).
* An analog pin falls through to -ENOTSUP (pinctrl.c:77-115).
* `hal_rtc_set_timestamp` truncates the ticks to 16 bits (ch58x_hal_rtc.c:98), and
  `hal_rtc_get_timestamp` does not add what it subtracts.
