---------------------------- MODULE FreeRtosPort -----------------------------
(***************************************************************************)
(* The FreeRTOS port of the BSP: critical sections, interrupt entry and    *)
(* exit, the context switch and the start of the first task.               *)
(*                                                                         *)
(* One CPU.  A task is at at[t] in a port function, with the word it has   *)
(* loaded in reg[t]; both are part of the context on its stack, so they    *)
(* stay put while it does not run.  frame[1..level] are the interrupt      *)
(* handlers in progress, innermost last; tasks run at level 0.  Code that  *)
(* runs with CPSR.I set is one step, elsewhere every access to a shared    *)
(* word is a step of its own.                                              *)
(*                                                                         *)
(* The kernel proper (tasks.c) is outside: it decides which task runs next *)
(* and whether a tick or a wake-up calls for a switch.                     *)
(***************************************************************************)
EXTENDS Integers

CONSTANTS Tasks,       \* tasks created before the scheduler starts
          Irqs, Tick,  \* interrupt sources, and the system timer among them
          Priority,    \* INTC priority of each source, 0 is the most urgent
          MaxNesting,  \* bound: depth of critical sections
          MaxLevel     \* bound: nested interrupt handlers

ASSUME TaskAssumption == Tasks # {}
ASSUME IrqAssumption == Tick \in Irqs
ASSUME PriorityAssumption == Priority \in [Irqs -> 1..126]
ASSUME BoundAssumption == MaxNesting \in Nat /\ MaxLevel \in Nat

VARIABLES
    threshold, intcReady, pending,   \* INTC: THRESHOLD, NEWIRQAGR, sources asserted
    irqDisabled,                     \* CPSR.I
    fpu,                             \* whose values D0-D7 and FPSCR hold
    ulCriticalNesting, ulPortYieldRequired, ulPortInterruptNesting, ulPortTaskHasFPUContext,
    pxCurrentTCB, saved,             \* the context on each task's stack
    at, reg,                         \* where a task is, what it has loaded
    level, frame,                    \* interrupt handlers in progress
    phase, timerOn,                  \* the start of the scheduler
    depth, usesFpu                   \* ghosts: sections entered, FPU set up

intcVars == <<threshold, intcReady, pending, irqDisabled>>
portVars == <<ulCriticalNesting, ulPortYieldRequired, ulPortInterruptNesting, ulPortTaskHasFPUContext>>
taskVars == <<pxCurrentTCB, saved, at, reg>>
irqVars  == <<level, frame>>
bootVars == <<phase, timerOn>>
ghosts   == <<depth, usesFpu>>
vars     == <<intcVars, fpu, portVars, taskVars, irqVars, bootVars, ghosts>>

\* FreeRTOSConfig.h; the INTC takes 0xFF as "no threshold".
portUNMASK_VALUE == 0
configMAX_API_CALL_INTERRUPT_PRIORITY == 255
NoThreshold == 255

Phases     == {"disable", "start", "tick", "restore", "running"}
EnterSteps == {"mask_read", "mask_write", "inc_load", "inc_store"}
ExitSteps  == {"exit_test", "dec_load", "dec_store", "zero_test", "clear_mask"}
TaskSteps  == {"restored", "run", "fpu_init"} \union EnterSteps \union ExitSteps
FrameSteps == {"none", "handler", "api_mask", "api", "api_unmask", "agree", "leave", "return"}

Frames   == [step : FrameSteps, irq : Irqs, old : Nat, masked : BOOLEAN]
NoFrame  == [step |-> "none", irq |-> Tick, old |-> 0, masked |-> FALSE]
NoOwner  == "nobody"
Contexts == [nesting : Nat, hasFpu : BOOLEAN, fpu : Tasks \union {NoOwner}]

TypeOK ==
    /\ threshold \in 0..255 /\ intcReady \in BOOLEAN /\ pending \in SUBSET Irqs
    /\ irqDisabled \in BOOLEAN
    /\ fpu \in Tasks \union {NoOwner}
    /\ ulCriticalNesting \in Nat /\ ulPortYieldRequired \in BOOLEAN
    /\ ulPortInterruptNesting \in Nat /\ ulPortTaskHasFPUContext \in BOOLEAN
    /\ pxCurrentTCB \in Tasks /\ saved \in [Tasks -> Contexts]
    /\ at \in [Tasks -> TaskSteps] /\ reg \in [Tasks -> Nat]
    /\ level \in 0..MaxLevel /\ frame \in [1..MaxLevel -> Frames]
    /\ phase \in Phases /\ timerOn \in BOOLEAN
    /\ depth \in [Tasks -> Nat] /\ usesFpu \in [Tasks -> BOOLEAN]

-----------------------------------------------------------------------------
(* The context a task is created with (pxPortInitialiseStack), and the     *)
(* state vTaskStartScheduler() is called in: creating tasks ended with a   *)
(* critical section, so nothing is nested and the threshold is 0.          *)
InitialContext == [nesting |-> 0, hasFpu |-> FALSE, fpu |-> NoOwner]

Init ==
    /\ threshold = portUNMASK_VALUE /\ intcReady = TRUE /\ pending = {}
    /\ irqDisabled = FALSE
    /\ fpu = NoOwner
    /\ ulCriticalNesting = 0 /\ ulPortYieldRequired = FALSE
    /\ ulPortInterruptNesting = 0 /\ ulPortTaskHasFPUContext = FALSE
    /\ pxCurrentTCB \in Tasks /\ saved = [t \in Tasks |-> InitialContext]
    /\ at = [t \in Tasks |-> "run"] /\ reg = [t \in Tasks |-> 0]
    /\ level = 0 /\ frame = [i \in 1..MaxLevel |-> NoFrame]
    /\ phase = "disable" /\ timerOn = FALSE
    /\ depth = [t \in Tasks |-> 0] /\ usesFpu = [t \in Tasks |-> FALSE]

(* The INTC presents a source more urgent than the threshold.              *)
Passes(irq) == threshold = NoThreshold \/ Priority[irq] < threshold

(* The tick runs from configSETUP_TICK_INTERRUPT() on; the drivers of the  *)
(* other sources are brought up by tasks.                                  *)
Raise(irq) ==
    /\ IF irq = Tick THEN timerOn ELSE phase = "running"
    /\ pending' = pending \union {irq}
    /\ UNCHANGED <<threshold, intcReady, irqDisabled, fpu, portVars, taskVars, irqVars, bootVars, ghosts>>

-----------------------------------------------------------------------------
portCLEAR_INTERRUPT_MASK_Dropped == UNCHANGED <<threshold, irqDisabled>>

(* Masks.  Both bracket the store with CPSID and CPSIE, whatever CPSR.I    *)
(* was before.                                                             *)
portCLEAR_INTERRUPT_MASK ==
    /\ threshold' = portUNMASK_VALUE
    /\ irqDisabled' = FALSE

WriteMask_AlwaysEnables(current_threshold) ==
    /\ threshold' = configMAX_API_CALL_INTERRUPT_PRIORITY
    /\ irqDisabled' = FALSE

\* The second half of ulPortSetInterruptMask(), after current_threshold is read.
WriteMask(current_threshold) ==
    IF current_threshold = configMAX_API_CALL_INTERRUPT_PRIORITY
    THEN UNCHANGED <<threshold, irqDisabled>>
    ELSE threshold' = configMAX_API_CALL_INTERRUPT_PRIORITY /\ irqDisabled' = FALSE

-----------------------------------------------------------------------------
(* The context switch.                                                     *)

SavedContext ==
    [nesting |-> ulCriticalNesting, hasFpu |-> ulPortTaskHasFPUContext,
     fpu |-> IF ulPortTaskHasFPUContext THEN fpu ELSE NoOwner]

RestoredThreshold_Unmask(nesting) ==
    IF nesting = 0 THEN portUNMASK_VALUE ELSE configMAX_API_CALL_INTERRUPT_PRIORITY

RestoredThreshold_Swapped(nesting) ==
    IF nesting = 0 THEN configMAX_API_CALL_INTERRUPT_PRIORITY ELSE portUNMASK_VALUE

RestoredThreshold(nesting) ==
    IF nesting = 0 THEN NoThreshold ELSE configMAX_API_CALL_INTERRUPT_PRIORITY

RestoredFpu_Dropped(c) == fpu

RestoredFpu(c) == IF c.hasFpu THEN c.fpu ELSE fpu

RestoreContext_KeepsNesting(c) ==
    /\ ulPortTaskHasFPUContext' = c.hasFpu
    /\ fpu' = RestoredFpu(c)
    /\ threshold' = RestoredThreshold(c.nesting)
    /\ UNCHANGED ulCriticalNesting

(* portRESTORE_CONTEXT, up to the store to THRESHOLD.                      *)
RestoreContext(c) ==
    /\ ulPortTaskHasFPUContext' = c.hasFpu
    /\ fpu' = RestoredFpu(c)
    /\ ulCriticalNesting' = c.nesting
    /\ threshold' = RestoredThreshold(c.nesting)

(* portSAVE_CONTEXT, vTaskSwitchContext(), portRESTORE_CONTEXT.  A task    *)
(* has CPSR.I clear when it is left, and so when RFEIA returns to it.      *)
SwitchTo(t) ==
    /\ saved' = [saved EXCEPT ![pxCurrentTCB] = SavedContext]
    /\ pxCurrentTCB' = t
    /\ RestoreContext(saved'[t])
    /\ irqDisabled' = FALSE

-----------------------------------------------------------------------------
(* The start: portDISABLE_INTERRUPTS() in vTaskStartScheduler(), then      *)
(* xPortStartScheduler().  Interrupts are enabled in the CPU again by the  *)
(* macro that clears the mask; the threshold alone holds the tick back.    *)
StartDisable ==
    /\ phase = "disable" /\ level = 0
    /\ WriteMask(threshold)
    /\ phase' = "start"
    /\ UNCHANGED <<intcReady, pending, fpu, portVars, taskVars, irqVars, timerOn, ghosts>>

StartUnmask ==
    /\ phase = "start" /\ level = 0
    /\ portCLEAR_INTERRUPT_MASK
    /\ phase' = "tick"
    /\ UNCHANGED <<intcReady, pending, fpu, portVars, taskVars, irqVars, timerOn, ghosts>>

StartTick ==
    /\ phase = "tick" /\ level = 0
    /\ timerOn' = TRUE
    /\ phase' = "restore"
    /\ UNCHANGED <<intcVars, fpu, portVars, taskVars, irqVars, ghosts>>

\* Interrupts are not masked in the CPU here, so the tick may come between
\* the store to THRESHOLD and the return to the task.
vPortRestoreTaskContext ==
    /\ phase = "restore" /\ level = 0
    /\ RestoreContext(saved[pxCurrentTCB])
    /\ at' = [at EXCEPT ![pxCurrentTCB] = "restored"]
    /\ phase' = "running"
    /\ UNCHANGED <<intcReady, pending, irqDisabled, ulPortYieldRequired, ulPortInterruptNesting,
                   pxCurrentTCB, saved, reg, irqVars, timerOn, ghosts>>

-----------------------------------------------------------------------------
(* What a task does.                                                       *)
TaskAt(step) == phase = "running" /\ level = 0 /\ at[pxCurrentTCB] = step

Goto(step) == at' = [at EXCEPT ![pxCurrentTCB] = step]

\* A word that has been used is 0 again: the code loads it anew.
Load(value) == reg' = [reg EXCEPT ![pxCurrentTCB] = value]

current == pxCurrentTCB

FirstTaskEntered ==
    /\ TaskAt("restored")
    /\ Goto("run")
    /\ UNCHANGED <<intcVars, fpu, portVars, pxCurrentTCB, saved, reg, irqVars, bootVars, ghosts>>

\* vPortEnterCritical
vPortEnterCritical ==
    /\ TaskAt("run") /\ depth[current] < MaxNesting
    /\ Goto("mask_read")
    /\ UNCHANGED <<intcVars, fpu, portVars, pxCurrentTCB, saved, reg, irqVars, bootVars, ghosts>>

MaskRead ==
    /\ TaskAt("mask_read")
    /\ Load(threshold) /\ Goto("mask_write")
    /\ UNCHANGED <<intcVars, fpu, portVars, pxCurrentTCB, saved, irqVars, bootVars, ghosts>>

MaskWrite ==
    /\ TaskAt("mask_write")
    /\ WriteMask(reg[current])
    /\ Load(0) /\ Goto("inc_load")
    /\ UNCHANGED <<intcReady, pending, fpu, portVars, pxCurrentTCB, saved, irqVars, bootVars, ghosts>>

IncrementLoad ==
    /\ TaskAt("inc_load")
    /\ Load(ulCriticalNesting) /\ Goto("inc_store")
    /\ UNCHANGED <<intcVars, fpu, portVars, pxCurrentTCB, saved, irqVars, bootVars, ghosts>>

IncrementStore ==
    /\ TaskAt("inc_store")
    /\ ulCriticalNesting' = reg[current] + 1
    /\ depth' = [depth EXCEPT ![current] = depth[current] + 1]
    /\ Load(0) /\ Goto("run")
    /\ UNCHANGED <<intcVars, fpu, ulPortYieldRequired, ulPortInterruptNesting, ulPortTaskHasFPUContext,
                   pxCurrentTCB, saved, irqVars, bootVars, usesFpu>>

\* vPortExitCritical, which the kernel pairs with vPortEnterCritical
vPortExitCritical ==
    /\ TaskAt("run") /\ depth[current] > 0
    /\ Goto("exit_test")
    /\ UNCHANGED <<intcVars, fpu, portVars, pxCurrentTCB, saved, reg, irqVars, bootVars, ghosts>>

ExitTest ==
    /\ TaskAt("exit_test")
    /\ Goto(IF ulCriticalNesting > 0 THEN "dec_load" ELSE "run")
    /\ UNCHANGED <<intcVars, fpu, portVars, pxCurrentTCB, saved, reg, irqVars, bootVars, ghosts>>

DecrementLoad ==
    /\ TaskAt("dec_load")
    /\ Load(ulCriticalNesting) /\ Goto("dec_store")
    /\ UNCHANGED <<intcVars, fpu, portVars, pxCurrentTCB, saved, irqVars, bootVars, ghosts>>

DecrementStore ==
    /\ TaskAt("dec_store")
    /\ ulCriticalNesting' = reg[current] - 1
    /\ depth' = [depth EXCEPT ![current] = depth[current] - 1]
    /\ Load(0) /\ Goto("zero_test")
    /\ UNCHANGED <<intcVars, fpu, ulPortYieldRequired, ulPortInterruptNesting, ulPortTaskHasFPUContext,
                   pxCurrentTCB, saved, irqVars, bootVars, usesFpu>>

ZeroTest ==
    /\ TaskAt("zero_test")
    /\ Goto(IF ulCriticalNesting = 0 THEN "clear_mask" ELSE "run")
    /\ UNCHANGED <<intcVars, fpu, portVars, pxCurrentTCB, saved, reg, irqVars, bootVars, ghosts>>

ClearMask ==
    /\ TaskAt("clear_mask")
    /\ portCLEAR_INTERRUPT_MASK
    /\ Goto("run")
    /\ UNCHANGED <<intcReady, pending, fpu, portVars, pxCurrentTCB, saved, reg, irqVars, bootVars, ghosts>>

\* vPortTaskUsesFPU: the flag, then FPSCR; from then on the task's own values.
vPortTaskUsesFPU ==
    /\ TaskAt("run") /\ ~usesFpu[current]
    /\ ulPortTaskHasFPUContext' = TRUE
    /\ Goto("fpu_init")
    /\ UNCHANGED <<intcVars, fpu, ulCriticalNesting, ulPortYieldRequired, ulPortInterruptNesting,
                   pxCurrentTCB, saved, reg, irqVars, bootVars, ghosts>>

FpuInit ==
    /\ TaskAt("fpu_init")
    /\ fpu' = current
    /\ usesFpu' = [usesFpu EXCEPT ![current] = TRUE]
    /\ Goto("run")
    /\ UNCHANGED <<intcVars, portVars, pxCurrentTCB, saved, reg, irqVars, bootVars, depth>>

\* portYIELD: SWI 0 enters FreeRTOS_SWI_Handler with CPSR.I set.
FreeRTOS_SWI_Handler ==
    /\ TaskAt("run")
    /\ \E t \in Tasks : SwitchTo(t)
    /\ UNCHANGED <<intcReady, pending, ulPortYieldRequired, ulPortInterruptNesting,
                   at, reg, irqVars, bootVars, ghosts>>

-----------------------------------------------------------------------------
(* Interrupts: FreeRTOS_IRQ_Handler around vApplicationIRQHandler().       *)
IrqEntry(irq) ==
    /\ irq \in pending /\ Passes(irq) /\ intcReady /\ ~irqDisabled
    /\ level < MaxLevel
    /\ intcReady' = FALSE /\ irqDisabled' = TRUE
    /\ level' = level + 1
    /\ frame' = [frame EXCEPT ![level + 1] =
                    [step |-> "handler", irq |-> irq, old |-> ulPortInterruptNesting, masked |-> FALSE]]
    /\ ulPortInterruptNesting' = ulPortInterruptNesting + 1
    /\ UNCHANGED <<threshold, pending, fpu, ulCriticalNesting, ulPortYieldRequired, ulPortTaskHasFPUContext,
                   taskVars, bootVars, ghosts>>

HandlerAt(step) == level > 0 /\ frame[level].step = step

NextStep(step) == frame' = [frame EXCEPT ![level] = [@ EXCEPT !.step = step]]

\* The timer's source is cleared, the tick counted, and its overflow
\* interrupt enabled again.
FreeRTOS_Tick_Handler ==
    /\ HandlerAt("handler") /\ frame[level].irq = Tick
    /\ pending' = pending \ {Tick}
    /\ \E xTaskIncrementTick \in BOOLEAN :
          ulPortYieldRequired' = (ulPortYieldRequired \/ xTaskIncrementTick)
    /\ NextStep("agree")
    /\ UNCHANGED <<threshold, intcReady, irqDisabled, fpu, ulCriticalNesting, ulPortInterruptNesting,
                   ulPortTaskHasFPUContext, taskVars, level, bootVars, ghosts>>

\* Any other handler clears its source; it may call a FromISR function of
\* the kernel, which masks, works, may ask for a switch, and unmasks.
DeviceHandler ==
    /\ HandlerAt("handler") /\ frame[level].irq # Tick
    /\ pending' = pending \ {frame[level].irq}
    /\ \/ NextStep("agree")
       \/ NextStep("api_mask")
    /\ UNCHANGED <<threshold, intcReady, irqDisabled, fpu, portVars, taskVars, level, bootVars, ghosts>>

ApiMask ==
    /\ HandlerAt("api_mask")
    /\ WriteMask(threshold)
    /\ frame' = [frame EXCEPT ![level] =
                    [step |-> "api", irq |-> @.irq, old |-> @.old,
                     masked |-> threshold = configMAX_API_CALL_INTERRUPT_PRIORITY]]
    /\ UNCHANGED <<intcReady, pending, fpu, portVars, taskVars, level, bootVars, ghosts>>

ApiWork ==
    /\ HandlerAt("api")
    /\ \E xHigherPriorityTaskWoken \in BOOLEAN :
          ulPortYieldRequired' = (ulPortYieldRequired \/ xHigherPriorityTaskWoken)
    /\ NextStep("api_unmask")
    /\ UNCHANGED <<intcVars, fpu, ulCriticalNesting, ulPortInterruptNesting, ulPortTaskHasFPUContext,
                   taskVars, level, bootVars, ghosts>>

vPortClearInterruptMask ==
    /\ HandlerAt("api_unmask")
    /\ IF ~frame[level].masked /\ ulPortInterruptNesting = 0
       THEN portCLEAR_INTERRUPT_MASK
       ELSE UNCHANGED <<threshold, irqDisabled>>
    /\ NextStep("agree")
    /\ UNCHANGED <<intcReady, pending, fpu, portVars, taskVars, level, bootVars, ghosts>>

\* The end of vApplicationIRQHandler(): NEWIRQAGR, with the CPU's mask as it is.
Agree ==
    /\ HandlerAt("agree")
    /\ intcReady' = TRUE
    /\ NextStep("leave")
    /\ UNCHANGED <<threshold, pending, irqDisabled, fpu, portVars, taskVars, level, bootVars, ghosts>>

Leave ==
    /\ HandlerAt("leave")
    /\ irqDisabled' = TRUE
    /\ NextStep("return")
    /\ UNCHANGED <<threshold, intcReady, pending, fpu, portVars, taskVars, level, bootVars, ghosts>>

Pop == level' = level - 1 /\ frame' = [frame EXCEPT ![level] = NoFrame]

ExitWithoutSwitch_Ignores ==
    /\ HandlerAt("return")
    /\ intcReady' = TRUE
    /\ ulPortInterruptNesting' = frame[level].old
    /\ irqDisabled' = FALSE
    /\ Pop
    /\ UNCHANGED <<threshold, pending, fpu, ulCriticalNesting, ulPortYieldRequired, ulPortTaskHasFPUContext,
                   taskVars, bootVars, ghosts>>

\* NEWIRQAGR again, the old nesting count, then a plain return ...
ExitWithoutSwitch ==
    /\ HandlerAt("return")
    /\ frame[level].old # 0 \/ ~ulPortYieldRequired
    /\ intcReady' = TRUE
    /\ ulPortInterruptNesting' = frame[level].old
    /\ irqDisabled' = FALSE
    /\ Pop
    /\ UNCHANGED <<threshold, pending, fpu, ulCriticalNesting, ulPortYieldRequired, ulPortTaskHasFPUContext,
                   taskVars, bootVars, ghosts>>

\* ... or, in the outermost handler, the switch it asked for.
SwitchBeforeExit ==
    /\ HandlerAt("return")
    /\ frame[level].old = 0 /\ ulPortYieldRequired
    /\ intcReady' = TRUE
    /\ ulPortInterruptNesting' = frame[level].old
    /\ ulPortYieldRequired' = FALSE
    /\ Pop
    /\ \E t \in Tasks : SwitchTo(t)
    /\ UNCHANGED <<pending, at, reg, bootVars, ghosts>>

-----------------------------------------------------------------------------
Start == StartDisable \/ StartUnmask \/ StartTick \/ vPortRestoreTaskContext

TaskStep ==
    \/ FirstTaskEntered
    \/ MaskRead \/ MaskWrite \/ IncrementLoad \/ IncrementStore
    \/ ExitTest \/ DecrementLoad \/ DecrementStore \/ ZeroTest \/ ClearMask
    \/ FpuInit

TaskCall == vPortEnterCritical \/ vPortExitCritical \/ vPortTaskUsesFPU

HandlerStep ==
    \/ FreeRTOS_Tick_Handler \/ DeviceHandler \/ ApiMask \/ ApiWork \/ vPortClearInterruptMask
    \/ Agree \/ Leave \/ ExitWithoutSwitch \/ SwitchBeforeExit

Next ==
    \/ \E irq \in Irqs : Raise(irq)
    \/ Start
    \/ TaskStep \/ TaskCall \/ FreeRTOS_SWI_Handler
    \/ \E irq \in Irqs : IrqEntry(irq)
    \/ HandlerStep

Spec == Init /\ [][Next]_vars

(* The CPU executes; the tick is not overtaken by other sources for ever;  *)
(* and the running task, whichever it is, blocks now and then: the         *)
(* application's tasks call vTaskDelay() in every round.                   *)
Fairness ==
    /\ WF_vars(Start) /\ WF_vars(TaskStep) /\ WF_vars(HandlerStep)
    /\ SF_vars(IrqEntry(Tick))
    /\ SF_vars(FreeRTOS_SWI_Handler)

FairSpec == Spec /\ Fairness

-----------------------------------------------------------------------------
(* Properties.                                                             *)

InTask == phase = "running" /\ level = 0

(* ulCriticalNesting is the depth of the task that runs and the saved word *)
(* that of each other one.  The counter is shared by all tasks, loaded and *)
(* stored without protection, and interrupts that switch tasks come        *)
(* between the two.                                                        *)
NestingIsOwn ==
    phase = "running" =>
        /\ ulCriticalNesting = depth[pxCurrentTCB]
        /\ \A t \in Tasks \ {pxCurrentTCB} : saved[t].nesting = depth[t]

(* Inside a critical section the mask register holds the value the port    *)
(* takes for masked, whoever switched tasks meanwhile.                     *)
SectionKeepsMask ==
    phase = "running" /\ depth[pxCurrentTCB] > 0 => threshold = configMAX_API_CALL_INTERRUPT_PRIORITY

(* Handlers run one after another: none interrupts another one, although   *)
(* vApplicationIRQHandler() lets the INTC present the next interrupt while *)
(* it is still running and the mask functions execute CPSIE.               *)
HandlersAreSequential == level <= 1

(* The count of nested handlers, which logging and the kernel's assertions *)
(* use to tell a task from a handler, is right wherever a task runs.       *)
NestingTellsTasks == (ulPortInterruptNesting = 0) = (level = 0)

(* A switch asked for in a handler has been made when a task runs again.   *)
YieldIsServed == level = 0 => ~ulPortYieldRequired

(* A task that has declared that it uses the FPU finds its own values      *)
(* there, or they are in its saved context.                                *)
FpuIsOwn ==
    \A t \in Tasks : usesFpu[t] =>
        IF t = pxCurrentTCB THEN ulPortTaskHasFPUContext /\ fpu = t
        ELSE saved[t].hasFpu /\ saved[t].fpu = t

(* No handler runs before the first task's context is loaded: a switch     *)
(* from there would save the start-up code as that task.                   *)
NoHandlerBeforeFirstTask == level > 0 => phase = "running"

(* Every tick is served, though the threshold stays 0 from the end of a    *)
(* critical section until the task next gives up the CPU.                  *)
TickIsServed == (Tick \in pending) ~> (Tick \notin pending)

(* FreeRTOSConfig.h on configMAX_API_CALL_INTERRUPT_PRIORITY: "Mask all    *)
(* interrupts in critical sections".                                       *)
CriticalSectionsMaskAll == phase = "running" /\ depth[pxCurrentTCB] > 0 => level = 0

(* FreeRTOSConfig.h on portUNMASK_VALUE: "Enable all interrupts".          *)
TasksAreInterruptible ==
    InTask /\ at[pxCurrentTCB] = "run" /\ depth[pxCurrentTCB] = 0 => \A irq \in Irqs : Passes(irq)
=============================================================================
