# am335x_bsp: specifications, model checking and proofs

`am335x_bsp` is a bare-metal board support package for the TI AM335x: drivers
(EDMA3, UART, interrupt controller, timers, MMC/SD), a nested-interrupt runtime, a FreeRTOS
port, a logging frontend, and example programs. This directory holds TLA+ models of the parts of
it whose correctness depends on the order in which things happen: the CPU against its
interrupts, drivers against their hardware, tasks against each other. TLC checks every model
on small instances; TLAPS proves the safety properties, and two refinements, for every value of
the constants (section 6).

Paths below are relative to the repository, mostly under `src/`.

    tlc -workers 2 -config UartReceive.cfg UartReceive     # one run
    tlapm UartReceiveProofs.tla                            # one module's proofs

`PROJECT.json` lists the runs, the code lines every definition stands for, the hazards and the
theorems; for each checked property it also lists one mutation of the model, a plausible bug, that TLC
finds the property to reject.

## 1. Inventory

| Component | State | Operations | What is hard | What makes it correct |
|---|---|---|---|---|
| EDMA3 channel controller driver, `src/hal/EDMA/EDMA.cpp` | event, missed-event and interrupt registers, PaRAM sets | request/free channel, enable/disable transfer, interrupt enables, clear, re-evaluate | the controller runs on its own between any two register writes | the register that enabled a channel is the one that disables it |
| `DmaChannel.hpp`, `InterruptDispatcher.hpp`, `edma_interrupt_handlers.cpp` | object flags, handler table | init, configure, trigger, stop, free, wait; two service routines | interrupt between any two steps; stale completions; pulse interrupt line | success belongs to the latest trigger; nothing is called after free; every transfer ends |
| QDMA channel, `QdmaChannel.hpp` | as above, plus the trigger word | init, configure, trigger, wait, free | a trigger races with the transfer before it; errors routed by a PaRAM set the hardware rewrites | as `DmaChannel`; an error reaches the object it is about; every trigger is answered |
| UART, `UART.hpp`, `UART.cpp` | mode, interrupt mask, receive transaction; LCR and the registers behind it | init/deinit of three modes, read, write, interrupt | stores of `read()` interleave with the interrupt's; timeouts race late bytes; one address is three registers, by LCR | a successful read is a piece of the line; nothing is stored late; each access reaches its register |
| UART DMA backend, `EDMA/periph/UartBackend.hpp` | two `DmaChannel`s, configuration | init, stop, write, read | abort with a request in flight; requests of the other direction; chunk and tail | success means exact bytes, failure has a reason, calls return |
| Interrupt controller and bare-metal IRQ handler, `INTC.cpp`, `exceptionhandlers.s` | threshold, masks, active interrupt, IRQ stack | priorities, masks, `IRQHandler` | nesting, spurious interrupts, stack depth | nesting follows priority, each interrupt acknowledged once |
| FreeRTOS port, `examples/freertos/port` | nesting counts, mask, FPU flag, saved contexts | critical sections, SWI, IRQ, context switch, start | switch between a load and its store | counts, mask and FPU values stay each task's own |
| Logging, `src/log`, `examples/freertos/src/logging.cpp` | sink registry, mutex | format and dispatch, register, session lock | preemption inside a record, timeouts, handlers and aborts that log | records whole and ordered on all sinks, lock given back on every path |
| Hardware timers, `hwTimer.cpp` | timer registers, posted writes, saved context | start, stop, mode, prescaler, counter, reload, compare, trigger, interrupt, save and restore | a write is on its way when the next one is made; power lost in between | what was asked for is what the timer does |
| System tick, `sysTimer.hpp`; `delay_ms()`, `examples/bootloader/src/main.cpp` | 64-bit tick count | tick interrupt, `get_ms`, delay | overflow inside the handler, torn reads, mixed widths | no tick lost, no time invented, a delay is long enough and ends |
| Shell and line editor, `examples/uart_cli/src/shell` | buffer, cursor, history | keys, completion, recall | long key sequences, full buffer, echo without redraw | the screen shows the line, edits survive the history, each key does one thing |
| MMC/SD, `MMCSD.cpp` | controller registers | accessors, bounded polling | retry limits | a limit is a limit |
| MMU, caches, PERF, pins, boards, startup, register headers | registers | set-up sequences | order of writes, before any concurrency | – |
| Bootloader and DDR calibration, EDMA/UART examples, test protocol | – | single-threaded programs | – | – |
| FreeRTOS kernel, SEGGER RTT | vendored | – | – | external |

How they interact. `UartBackend` owns two `DmaChannel` objects and is owned by `uart` in its DMA
mode. `DmaChannel` calls EDMA.cpp and registers itself with the dispatcher; the two EDMA service
routines read the hardware and call back through it. All interrupts enter through `IRQHandler`
(bare metal) or `FreeRTOS_IRQ_Handler` (port), which share the INTC. The logging session takes
a FreeRTOS mutex and asks the port's CPSR; its UART sink calls `put_data_bounded`.

The hazards, at the lines where they bite and with the properties aimed at them, are in
`PROJECT.json`; those no property covers say why.

## 2. Modules

| Module | Extends | Models |
|---|---|---|
| `Edma3cc` | – | channel-controller registers, the driver's writes, the hardware's steps (external) |
| `DmaChannel` | `Edma3cc` | channel objects, dispatcher, both service routines |
| `QdmaChannel` | `DmaChannel` | QDMA objects beside DMA objects, QDMA branch of the error routine |
| `UartBackend` | `DmaChannel` | `write()` and `read()` in the DMA mode over two channels, FIFOs, request lines |
| `SerialRead` | – | abstract: what a caller of `uart::read()` may rely on |
| `UartReceive` | instantiates `SerialRead` | modes, receive interrupt, `read()`; implements `SerialRead` |
| `UartConfig` | – | every configuration method, register access by register access |
| `FreeRtosPort` | – | `port.c`, SWI and IRQ handlers, context switch |
| `IrqNesting` | – | INTC and the bare-metal nested handler |
| `Logger` | – | frontend, registry, two kinds of sinks, session lock |
| `HwTimer` | – | configuration of a timer, access by access, with posted writes |
| `SysTimer` | – | tick handler, `get_ms()`, `delay_ms()` |
| `EditableLine` | – | abstract: one line, a history, one effect per key |
| `LineEditor` | instantiates `EditableLine` | buffer, history, escape sequences, terminal; implements `EditableLine` |
| `EdmaProofs` | `QdmaChannel`, `UartBackend`, `TLAPS` | theorems about `DmaChannel`, `QdmaChannel`, `UartBackend` |
| `TimerProofs` | `HwTimer`, `SysTimer`, `TLAPS` | theorems about both |
| other `*Proofs` | the module, `TLAPS` | theorems |
| `MC*` | the module | priorities and other constants that a `.cfg` cannot write |

### Edma3cc and DmaChannel

Registers are sets of channels (`EER`, `ER`, `ESR`, `SER`, `EMR`, `IER`, `IPR`). An operator named after
a function of EDMA.cpp is that function's register write. A PaRAM set is the number of events it
still needs and whether it then links to a null or a dummy set. The hardware section
(`PeripheralEvent`, `TakeEvent`, `SubmitTransfer`, `CompleteTransfer`) is external and runs between any
two CPU steps. The interrupt line is a pulse, raised when the pending and enabled set becomes non-empty;
that is what makes `revaluateInterruptLine` necessary.

`DmaChannel` steps each method at every access an interrupt or the hardware could see: `pc` names the next access
of the method in progress, `cur` its channel. The service routines preempt the foreground
anywhere and are not preempted (priority 0). Ghosts (`currentFlight`, `currentIPR`,
`currentDone`) say which request, interrupt and flag stem from the latest `trigger()`.

Two constants describe the callers. `Disciplined` callers wait out a transfer, stop and reconfigure the channel
before reusing it, and give it up after an error. `PromptIrq`
says that a raised line is served before the next step of a method. `SuccessIsCurrent` needs both in the event
mode, where it is proved under both (section 6), and the reasons are worth knowing:

* Without `PromptIrq`, an event between the SECR/EMCR write and the EECR write of `stop()` sets
  EMR; its error interrupt may then fall between `trigger()`'s reset of `m_transfer_done` and of
  `m_transfer_error`, and the next wait reports success for a transfer that has not started.
* Without `Disciplined`, a completion that comes after a timeout, a `free()` or a new `init()` is credited to
  the next transfer; and a missed event ends a wait while the last request is in flight, with the same result.

The other properties of `DmaChannel` hold for any caller and any delay. `UartBackend` is the caller that is not disciplined:
its properties say, byte by byte, what a timeout costs.

### QdmaChannel

An object is named by its completion code, so that the flags, handlers and interrupt registers of `DmaChannel` serve both
kinds; `QEER`, `QER`, `QSER` and `QEMR` are the QDMA event registers. `set` is the mapped PaRAM set: static, single (null
after its transfer), linked (replaced by a static one, whose trigger word is the next event, as `makeQdmaLink` intends) or empty.
`named` says whether the set still has the object's completion code, which is how the error routine finds the owner. A
write to QSECR clears QER too, as the register description in `regs/EDMA.hpp` says.

Callers may trigger at any time, into a transfer in flight or a routine at work. One restriction is a constant: with `Rearm`
they configure anew before they trigger a set that changes. It is needed. Without it TLC finds a QDMA channel whose single set
is triggered twice: the set is all zeros by then, the error goes to the handler of completion code 0, it may fall between that
channel's reset of `m_transfer_done` and of `m_transfer_error`, and a DMA transfer that has not run is reported as a
success. A second trigger of a linked set would move its second half twice.

### UartBackend

`at` is the next call `write()` or `read()` makes; while one of `DmaChannel`'s methods runs below, its `pc` says where. The UART
has a transmitter that holds `TxFifo` bytes, a receive FIFO and two request lines, which rise at their trigger levels, stay until a chunk has been
moved, and exist only while SCR has a DMA mode. A chunk's data moves between its submission and its completion (`MoveChunk`,
`CompleteChunk`); a byte written is its position in the buffer, a byte read its position among those that left the FIFO
since the call began. SCR has one mode for both directions. So a `write()` lets the receive request rise too, and
its event stays in ER until a later `read()` enables the channel (section 5).

What the caller may rely on: `WriteIsExact` and `ReadIsExact`, with one exception each, `leftover`: a call that begins while a request
of a timed-out call is in flight, or while an event is latched whose FIFO no longer has what it promised. `FailureHasReason`
includes a consequence of linking a read to the null set: when the line has a further chunk ready, the surplus
request is an error, and a read whose bytes are all there fails.

The chunks are assumed no larger than the trigger levels; `valid()` does not check it and the defaults satisfy it. `PromptIrq` is needed here too: with late
interrupts TLC finds a write whose success is the completion of a timed-out call before it, still pending when `trigger()` resets `m_transfer_done`.
`init_dma()` enters the DMA mode before `m_dma.init()`: `InitTx` includes that.

### SerialRead and UartReceive

`SerialRead` has one atomic step per outcome of a read: it fails and promises nothing, or returns bytes
that followed one another on the line and that no earlier call returned. `UartReceive` steps the methods
store by store, with the interrupt stepping byte by byte and the line filling the FIFO meanwhile. Bytes are numbered as the
receiver accepts them; `data` holds numbers. `KeepsPromise` is `SerialRead!Spec` under the mapping
that shows a call's buffer once the call has returned.

### UartConfig

A method is the sequence of register states it goes through, computed from the state it begins in, because only the foreground
writes these registers; each state also says which register the access meant (`touched`). LCR has its numeric
value, since its windows overlap the frame format. `AccessTakesEffect` compares each access with the windows that the register map
(`regs/UART.hpp`) gives, and with what the register's write depends on: divisor in the disabled mode, FCR with the baud clock stopped.

Two assumptions about callers. `FIFO_clear()` leaves LCR in configuration mode A; the callers in the repository (`test_protocol.cpp`)
initialise the UART next, and the model's do too before they send or receive. And the peer is silent while it runs in the interrupt
mode: a byte in that moment brings the handler into a window where IIR is EFR and RHR a divisor latch.

### FreeRtosPort

`saved[t]` is the context of a task that does not run: nesting count, FPU flag and FPU values.
`threshold` is INTC THRESHOLD, `irqDisabled` is CPSR.I, `level` counts interrupt nesting. Every
`ulCriticalNesting++`/`--` is a load and a store.
`at[t]` and the handler's own program point name the next instruction that matters. The model has the
values the code writes: `portUNMASK_VALUE` is 0 and the masking value is 0xFF, which the INTC takes as
"threshold off". What comes of that is in section 5.

### IrqNesting

`frames` is the IRQ stack: the interrupt, the threshold found at entry and the program point of every
level. `IRQHandler` is one action per stretch of instructions between writes to THRESHOLD, CONTROL
and CPSR. A source masked or withdrawn after the INTC presented it is entered as spurious: the
flag arrives in THRESHOLD as bit 7 (`IRQ_PRIORITY`), and opens the handler to every priority. The properties hold in the presence of such
entries; `MaxSpurious` bounds them in the run, not in the proof.

### Logger

Callers are main() (before the scheduler starts), tasks, interrupt handlers and aborts. A call passes
`acquire`, `Take`, the filters, `Format` (where the timestamp is taken), the registry slots in order, the sink's
raw writes, and `release`. `wire[s]` is the last raw write a sink has seen, and `RecordsInOrder` compares it
with the next. Levels and excluded tags, formatting errors and a UART's timeout are
choices. Registry changes come from main() before the start only, which is what log.h and LOGGING.md
demand; `RttSink` objects share one registration and are counted.

### HwTimer

A method is a sequence of waits and accesses (`todo`); `pend` holds the posted writes on their way. A read may then give the old value or the new
one, and a second write discards the first (`regs/DMTIMER.hpp:212-214`). Calls come in any order and at any moment, with whatever the earlier ones have left on
its way, as in `sysTimer.hpp:85-86`, which loads TCRR right after a write to TCLR. One rule is taken from the comment of `enable()`: the bits of TCLR are not configured while the
timer is to run. Loss of power takes the writes on their way with it.

Nothing in the driver orders writes to two registers. Where that leaves a value open, the ghost `asked.known` drops its register, and `TakesEffect` promises every other one:
the counter, once the timer may count, or when a trigger and what it loads, or a load after it, are on their way together; TLDR, TMAR or the counter, when `context_save()` began with a
write to it (for the counter, a trigger) on its way and power was lost. A later call that sets the register closes the gap again. Each of these exceptions is needed: without any one of them TLC refutes
`TakesEffect`. Without posted writes the limits are always known. The two limits a late save loses are a disagreement of section 5 (`LimitsAreAsked`), as is `ModeIsAsked`.

### SysTimer

The handler is one step per access (`sys_timer_irqhandler` maps each to the next), and a 64-bit access is one step or two, low or high word first, because that
is the compiler's choice: `access` is constant in a behaviour. The thread runs between handlers; interrupts of higher
priority may read the clock inside one, which the second half of `TimeIsRead` is about. With LDRD, as this core and compiler use it, no
read is torn; the property says what a build without it would return, and `DelayWaits` that even then no delay is short. The one assumption about
timing is that the handler takes its first two steps, the second of which clears the flag, within a period of 1 ms of the overflow (`due`). The FreeRTOS port's handler makes the same accesses in the same order.

### EditableLine and LineEditor

`EditableLine` is what a user expects: typing inserts, erasing removes one character, completion extends the line as far as all matching words
agree, recall shows a line that was entered or the one put aside, entering remembers it. `LineEditor` has one action per received
character, the bytes of an escape sequence included; `command` is the array it is in the code, with its terminator. The terminal is part of the
model (`screen`, `column`), because cursor keys echo instead of redrawing. Of the codes with two spellings (Home, End) one each stands for both.
`edited` is a ghost: the line as the user last edited it. `EditIsKept` has two exceptions, and both are losses of the code. Delete is the one editing key that does not leave the
history, so what it does to a recalled line is lost with the next arrow key: the ghost does not count it. Tab leaves the history even when it only rings or lists (line_editor.cpp:98-99), so the line put
aside is out of reach afterwards and the next Up overwrites it: the ghost becomes `NUL`, and `EditSurvivesTab` (section 5) says that this never happens.

## 3. Runs

| Run | Instance | Checks | States |
|---|---|---|---|
| `dma_lifecycle` | 1 channel, count 2, both modes, any caller, late interrupts | `ReleasedIsQuiet`, `NoCallbackAfterRelease` | 1,454,090 |
| `qdma` | a manual DMA channel on code 0, a QDMA channel, prompt, `Rearm` | `SuccessIsCurrent`, `TransferEnds`, `MissReachesOwner`, `TriggerIsAnswered` | 248,022 |
| `uart_dma` | 2 channels, chunks of 2, transfers of 5 bytes, FIFOs of 3, 1 timeout | `WriteIsExact`, `ReadIsExact`, `FailureHasReason`, `CallReturns` | 380,661 |
| `uart_receive` | sizes 0..2, budget 0..1, FIFO of 2, line of 4 bytes | `InterruptHasOwner`, `NothingDropped`, `NoLateStore`, `KeepsPromise`, `ReadReturns`, `BytesServed` | 455,856 |
| `uart_config` | 2 baud rates (16x and 13x) | `AccessTakesEffect`, `HandlerSeesData`, `LineIsConfigured` | 4,278 |
| `rtos_port` | 2 tasks, tick and device, nesting 1, interrupt level 2 | `NestingIsOwn`, `SectionKeepsMask`, `HandlersAreSequential`, `YieldIsServed`, `FpuIsOwn`, `NoHandlerBeforeFirstTask`, `TickIsServed` | 395,258 |
| `rtos_port_mask` | as `rtos_port` | violates `CriticalSectionsMaskAll` | |
| `irq_nesting` | 4 sources on 3 priorities, 2 spurious entries | `NestingByPriority`, `AcknowledgesOwn`, `MostUrgentIsServed` | 77,260 |
| `logger` | 2 tasks, 2 UART sinks, 2 RTT objects, registry of 1, 2 records | `RegistryIsLive`, `RecordsInOrder`, `CallReturns` | 120,032 |
| `line_editor` | 2 characters, lines of 3, history of 2, 3 words, one too long | `ScreenShowsLine`, `EditIsKept`, `ImplementsLine` | 1,767,159 |
| `hw_timer` | posted and not, counter of 2 values, 4 calls | `TakesEffect` | 1,138,186 |
| `sys_timer` | words of 3 values, all three ways of access | `TicksCounted`, `TimeIsRead`, `DelayWaits`, `DelayReturns` | 195,090 |

The type invariants and some plain invariants (`SuccessIsExact`, `NoOverRead`, `NestingTellsTasks`, `ForegroundIsOpen`, `EventEnableKnown`, `StackBounded`,
`LockBalanced`, `BufferSound`) are not among the runs' properties: they are proved for every instance (section 6).

Why the bounds are enough:

* DMA. One channel suffices for the life cycle, since objects share only the service routines' loop; `qdma`, with two objects, is for
  that loop and for the error routine's second half. Two events per set separate a missed event from a last one. The safety properties
  of `qdma` also hold with late interrupts (`PromptIrq = FALSE`, 1,596,881 states).
* UART DMA. Two chunks and a tail have a first, a last and a surplus request, and a switch to the CPU; FIFOs of one byte more than a
  chunk can be short of a chunk, ready for one, and full. One timeout leaves one request over. The safety properties were also checked for transfers of 1 and 3
  bytes, smaller FIFOs and any number of timeouts (6.6 million states).
* UART. Two bytes are the least that can be split by a timeout, a FIFO overflow or a re-arm; a line of four is two
  full reads back to back. A budget of 1 has the first, last and expired poll.
* Port. Two tasks with a section each make every race on the shared words; a third adds no
  new pair. Level 2 is needed for a handler that could interrupt another. The safety properties were also checked with sections nested twice (1,911,946 states),
  which liveness puts out of reach; they are proved for any depth.
* IRQ. Three priorities with a tie give nesting of depth three, and starving by equals.
* Timers. Four calls make every pair of calls between two others, an enabled timer that is saved and restored, and any write left on its way. A word of three values has
  a lowest, a middle and a highest; two carries into the high word follow each other.
* UART configuration. Methods are sequential, so a state per access is all there is; the two rates take both divisor and operating modes,
  and every method follows every other.
* Line editor. A buffer of three characters has a first, a middle and a last; a history of two shifts; three words give no, one and two matches and one that is cut.
* Logger. Two tasks contend, and three sinks, one of them of two RTT objects, compete for one slot: a UART sink is rejected by RTT or the other UART, the first RTT object by a UART, and the
  second one is accepted by the full registry. Two slots, which two sinks need to be served one after the other or one sink to be entered twice, are out of liveness' reach: `RegistryIsLive` and
  `RecordsInOrder` were also checked with `MaxSinks` 2 (1,765,216 states), and both are proved for any registry.

## 4. Fairness

Liveness is stated under what the code and its scheduling justify, no more:

* `QdmaChannel`: the controller serves its queues, a raised line is taken
  (strong: it may be masked by the other routine in between), routines and methods run on. No fairness on callers.
* `UartBackend`: the same, and the line keeps receiving and the transmitter sending. Timeouts have no fairness: `CallReturns` shows that no call needs
  one while the line moves.
* `UartReceive`: a method in progress and a routine in progress continue, an asserted and unmasked
  interrupt is taken. The line need not deliver a single byte: `ReadReturns` rests on the budget.
* `FreeRtosPort`: the CPU executes; the tick is not overtaken for ever; tasks block now and then, as the
  example's do by `vTaskDelay()`. Without the last one `TickIsServed` is false: after a
  critical section the threshold holds every tick back until a context is restored.
* `IrqNesting`: the INTC sorts, an enabled interrupt is taken, the foreground does not keep interrupts off for ever.
  `MostUrgentIsServed` promises nothing to equals: one of two equal sources may starve the other.
* `SysTimer`: the timer counts, the handler runs on, and the thread gets the CPU again and again (strong: it is interrupted every period).
* `Logger`: exceptions return, critical sections and suspensions end, and every runnable task gets
  the CPU again and again, because tasks sleep and the mutex inherits priorities.

## 5. Disagreements between the code and its documentation

| Run | The repository says | The code does |
|---|---|---|
| `rtos_port_mask` | FreeRTOSConfig.h:61: "Mask all interrupts in critical sections" | 0xFF switches the threshold off, then CPSIE: handlers run inside |

Eight more are stated in the modules as formulas the code does not keep. TLC refutes each when it is put into a `.cfg` of the module:

* `DisableClearsEventRegister` (`DmaChannel`, one event channel, `Spec`): EDMA.cpp:1067-1069 promises that disabling an event channel clears the event
  register; `disable_transfer()` (1108-1126) leaves ER.
* `EnableClearsEventRegister` (`UartBackend`, constants of `UartDma.cfg` without the timeout): EDMA.cpp:985-987 says that enabling "clears the Event and Event Miss Register"; ER is left,
  and an event latched while the other direction had the DMA mode on is taken at once.
* `ModeIsAsked` (`HwTimer`, constants of `HwTimer.cfg`): in the posted mode `mode_configure()` writes AR and CE in a row (hwTimer.cpp:66-67) and the second write
  discards the first: auto-reload stays when one-shot is asked for (56). `prescaler_clk_enable()` loses the ratio the same way (98-99).
* `LimitsAreAsked` (`HwTimer`, constants of `HwTimer.cfg`): `context_save()` reads TLDR and TMAR without waiting for the writes on their way to them (hwTimer.cpp:461-462), although
  it waits for TCRR and TCLR (465, 468): after `reload_set()` or `compare_set()`, a save and a loss of power, the old limit comes back.
* `BusyIsEnabled` (`HwTimer`): `check_busy()` (hwTimer.hpp:84) returns `m_is_paused`; its comment (81) says "true - timer is enabled".
* `EditSurvivesTab` (`MCLineEditor`, constants of `LineEditor.cfg`): a Tab that finds nothing to complete on a line of the history (line_editor.cpp:98-99) makes the editor forget that the user's own line is
  put aside: type "ab", Up, Tab, Up, and "ab" is gone.
* `TasksAreInterruptible` (`MCFreeRtosPort`, constants of `RtosPortMask.cfg`): FreeRTOSConfig.h:59 calls 0 "Enable all interrupts"; written to
  THRESHOLD (port.c:64) it lets no priority through until the next context restore.
* `NeverBlocksMasked` (`Logger`, constants of `Logger.cfg`): logging.cpp:47 says "Never block while interrupts are masked."; the test is for CPSR.I, while a
  critical section masks by THRESHOLD, so a task that logs in one waits for the mutex there.

Met while reading and not run: `disable_transfer()` in the manual mode writes ECR only, against its comment (EDMA.cpp:1060-1062 and
1086-1098); `clear_error_bits()` writes 0 to CCERRCLR (EDMA.cpp:1170-1186); `free_channel()` neither disables an ongoing transfer nor clears
QCHMAP, as its comment (907-918) says.

## 6. Proofs

All theorems are `Spec => [](...)` or `Spec => [][...]_vars` for any values of the constants that satisfy the
modules' assumptions, or also the assumptions on callers (`Disciplined`, `PromptIrq`, `Rearm`) that the theorem names. Each follows from an inductive invariant, because none of the properties is inductive:

* `EdmaProofs`, DMA channels: `OwnershipInv`. `ReleasedIsQuiet` survives `free()` only if one knows, at each of its program points,
  which registers are already clear (`MethodInv`) and that an enabled event belongs to an object that remembers it was enabled as
  an event (`EventEnableKnown`).
  `SuccessIsCurrent` follows, for disciplined callers and prompt interrupts, from `CurrentInv`: a channel nobody waits for has nothing in flight or pending and
  its peripheral can start nothing (`IdleInv`); a waiting caller's channel has at most one of request, interrupt and flag, and that one is of
  its latest trigger (`TagInv`); a missed event always shows on the error line, so that prompt interrupts leave none behind (`LineInv`).
* `EdmaProofs`, QDMA channels: `OwnerInv` says that a set which has lost its completion code has neither an event nor an error left, and that one about to lose it carries a single
  event; with it `MissReachesOwner` needs nothing of the callers but `Rearm`. `QCurrentInv` is `CurrentInv` for both kinds of objects. Manual
  channels miss no events, so here `SuccessIsCurrent` holds with interrupts as late as they like.
* `EdmaProofs`, the UART backend: `BackendInv`, for a client that is not disciplined. `CpuInv` says which method runs below each call and that a channel is enabled only in the DMA
  part of its own call; `FlowInv` that every request in the controller is the present call's or an abandoned one; `IrqInv` is `LineInv` for
  both lines. On these rests `ExactInv`, by phases. `Armed`: before the channel is enabled nothing has moved, and an event already latched is one whose FIFO has its chunk. `Going`: a chunk is requested once and moved whole before the next
  one is, because a request line is up from the event to the last byte (`asked`), so the bytes moved are the chunks the PaRAM set no longer counts; done, error
  and a pending interrupt mean that all of them have moved, and error that the line had one more. `Tailing`: the CPU goes on where the chunks
  ended. The theorems assume `PromptIrq`, for the reason section 2 gives, and nothing of sizes, timeouts, the line or the callers.
* `UartReceiveProofs`: `ModeInv` ties the INTC mask, the UART's enable, instance and callback to the program point.
  `RxInv` describes the transaction at each store of arming, waiting and taking down: inert while half armed, and, while waiting, either
  active with the bytes so far or complete with all of them. From it `UartKeepsPromise` proves the refinement: every
  step of `read()` is a step of `SerialRead` or a stutter.
* `FreeRtosPortProofs`: `PortInv`. The shared count may differ from the task's depth in the middle of an increment, so
  `NestInv` says by how much at each point, for running and saved tasks alike; `MaskInv`, `FpuInv`, `HandlerInv` and
  `BootInv` do the same for the other words.
* `IrqNestingProofs`: `IInv` says which threshold each frame found and which the handler on top left, as long as genuine
  frames are above (`ThresholdInv`), and counts levels against priorities (`DepthInv`). It gives at most `MaxPriority + 1` genuine frames. A frame
  is 100 bytes and the IRQ stack 8192, so 64 priorities fit: 64 x 100 = 6400.
* `LoggerProofs`: `IInv` relates the token of each caller to the mutex (`TokenInv`), the registry to the objects (`SlotInv`, `UsersInv`)
  and what each sink has seen to where the writer stands (`OrderInv`); at most one caller is inside a record.
* `UartConfigProofs`: methods are sequences of register states. `Trace` says that each state of a sequence is good (`Good`: the access reaches its register and
  takes effect, and no interrupt can be taken in the wrong window) and that it ends as it must; one lemma per method gives its trace from any state it may be called
  in, and sequences compose. `ConfigInv` says that the present state and the accesses ahead are the rest of such a
  sequence that leaves a configured UART.
* `TimerProofs`: for the tick, `ClockInv` says, at each of the handler's steps, by how much `m_time` is behind the overflows and which of its words has been stored; `ReadInv` and
  `DelayInv` say what a torn read may hold and that the thread's start is never later than its call. The arithmetic of words is in lemmas of its own. For the
  configuration, `TimerInv` says, before each access of each method, what the registers will be once the writes on their way have landed, given the accesses still to come. For the registers in `asked.known` only it also says what they, and the saved context
  (`ContextOk`, which leaves out what was saved early), will hold; a register drops out when a call is made whose write may pass another's.
* `LineEditorProofs`: `BufferSound` is nearly inductive by itself, once split into line (`LineSound`) and history (`HistorySound`); the difficulty is arithmetic on
  array cells, stated once in lemmas on insertion, removal and copying. `EditorImplementsLine` proves the refinement: every character is a step of
  `EditableLine` or a stutter, for every alphabet, set of words, buffer and history size.

`PROJECT.json` lists the theorems by name.

Every safety property and action property the runs check is proved. Only model-checked are the liveness properties (`TransferEnds`, `TriggerIsAnswered`,
both `CallReturns`, `ReadReturns`, `BytesServed`, `TickIsServed`, `MostUrgentIsServed`, `DelayReturns`), since no prover here reasons about fairness and ENABLED, and the violations.

## 7. Not modelled

In components that are modelled otherwise:

* EDMA: queue numbers, CCERR, chaining and the context save and restore, which nobody calls. Cache maintenance around a transfer: the models take memory as coherent.
* UART: `put_data_bounded()` and its budget (the logger's raw writes are lost or not, as a choice); `sleep()`, `switch_reg_subconfig_mode()`, wake-up and
  idle modes; line-ending filters; overruns are lost bytes and no error.
* Port: abort and undefined-instruction vectors, `vPortEndScheduler()`. `exceptionhandlers.s:80` has the save of D16-D31 commented out: which registers a
  handler or a task compiled for NEON uses depends on the compiler, not on the order of steps.
* Timers: capture, raw interrupt status, software reset, change of the posted mode, emulation and the 1 ms correction registers (`set_1ms_block()` waits for TCLR, not for the registers it writes);
  clock gating. `enable()` zeroes `m_time` after it starts the timer (hwTimer.cpp:33): a restart would take time back, but no caller restarts the tick.
* Logger: unregistering a sink while tasks log, which log.h forbids (log.c:155 would call through a pointer loaded before); counters and the recursion guard.
* Shell: command dispatch and the commands.

Not modelled at all: the bootloader apart from `delay_ms()`, which keeps a 64-bit start in 32 bits (main.cpp:13), so that delays end at once from 2^32 ms on and `DelayWaits` says nothing of them;
MMC/SD, a set of register accessors no caller puts in a protocol yet; the UART test protocol, a test bench. Left out for good: register
tables, pins, MMU and caches, startup and the example programs (writes in a fixed order, before anything is
concurrent, or test benches); the FreeRTOS kernel and SEGGER RTT (vendored; what is needed of them is external).
INTC's software interrupts, FIQ routing and clock registers have no effect on the properties.

## 8. What could follow

In this order: a `SerialWrite` beside `SerialRead`, with `UartBackend` refining both;
`put_data_bounded()` over FIFO and shifter with its shared budget; the INTC's bring-up and tear-down (`register_handler`, `unregister_handler`) composed
with `IrqNesting`. More of the repository by lines would be its register descriptions, startup code and vendored kernel, which are four fifths of it and hold no
behaviour of its own; the lines `PROJECT.json` maps are the parts where order matters.
