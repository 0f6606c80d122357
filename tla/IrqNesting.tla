----------------------------- MODULE IrqNesting ------------------------------
(***************************************************************************)
(* The bare-metal interrupt path: the INTC as HAL::INTC sets it up, and    *)
(* IRQHandler, which lets more urgent interrupts in while a handler runs.  *)
(*                                                                         *)
(* The INTC picks the most urgent source that is asserted, unmasked and    *)
(* passes the threshold, and holds it in SIR_IRQ and IRQ_PRIORITY until    *)
(* NEWIRQAGR is written.  When that source is masked or taken down before  *)
(* the CPU looks, IRQ_PRIORITY carries the spurious flag; the handler does *)
(* not test it and writes the word to THRESHOLD, whose eight bits keep the *)
(* flag's lowest one: such a threshold holds nothing back.                 *)
(***************************************************************************)
EXTENDS Integers, Sequences

CONSTANTS Irqs,         \* the sources in use
          Priority,     \* their ILR.Priority, 0 the most urgent
          MaxPriority,  \* the least urgent level, 63 for six bits
          MaxSpurious   \* bound: spurious entries nested in one another

ASSUME PriorityAssumption == MaxPriority \in 0..127 /\ Priority \in [Irqs -> 0..MaxPriority]
ASSUME SpuriousAssumption == MaxSpurious \in Nat

VARIABLES
    asserted,       \* sources that assert their line
    masked,         \* MIR
    threshold,      \* THRESHOLD
    active,         \* SIR_IRQ, held until NEWIRQAGR; NoIrq when free to sort
    irqDisabled,    \* CPSR.I
    frames          \* what IRQHandler has on the stack, the innermost last

intcVars == <<masked, threshold>>
vars == <<asserted, intcVars, active, irqDisabled, frames>>

NoIrq == "none"
ASSUME NoIrqAssumption == NoIrq \notin Irqs

PRIORITY_THRESHOLD == 255
SpuriousFlag == 128     \* the one bit of the flag that THRESHOLD keeps

Steps  == {"entered", "agreed", "isr", "served", "exit", "acknowledged"}
Frames == [irq : Irqs, priority : 0..255, saved : 0..255, step : Steps]

TypeOK ==
    /\ asserted \in SUBSET Irqs /\ masked \in SUBSET Irqs
    /\ threshold \in 0..255 /\ active \in Irqs \union {NoIrq}
    /\ irqDisabled \in BOOLEAN
    /\ frames \in Seq(Frames)

top == frames[Len(frames)]
InForeground == frames = <<>>
TopAt(step) == frames # <<>> /\ top.step = step
StepTo(step) == frames' = [frames EXCEPT ![Len(frames)].step = step]

\* An interrupt whose source was still there when the handler read IRQ_PRIORITY.
IsGenuine(f) == f.priority < SpuriousFlag

\* HAL::INTC::init(), and every source masked as after the reset.
Init ==
    /\ asserted = {} /\ masked = Irqs
    /\ threshold = PRIORITY_THRESHOLD /\ active = NoIrq
    /\ irqDisabled = TRUE
    /\ frames = <<>>

-----------------------------------------------------------------------------
(* The sources and the INTC. *)

\* External.  Bound: a spurious handler's own source does not come back often
\* enough to nest it more than MaxSpurious deep.
Raise(irq) ==
    /\ Len(SelectSeq(frames, LAMBDA f : ~IsGenuine(f))) >= MaxSpurious
          => \A k \in 1..Len(frames) : frames[k].irq # irq \/ IsGenuine(frames[k])
    /\ asserted' = asserted \union {irq}
    /\ UNCHANGED <<intcVars, active, irqDisabled, frames>>

Passes(irq) == irq \in asserted \ masked /\ Priority[irq] < threshold

\* External: the sorting.
Sort ==
    /\ active = NoIrq
    /\ \E irq \in Irqs :
          /\ Passes(irq)
          /\ \A other \in Irqs : Passes(other) => Priority[irq] <= Priority[other]
          /\ active' = irq
    /\ UNCHANGED <<asserted, intcVars, irqDisabled, frames>>

-----------------------------------------------------------------------------
(* The foreground: a driver masks, unmasks or takes down its source at any *)
(* time, also when the INTC has just presented it.                         *)
master_IRQ_enable ==
    /\ InForeground
    /\ irqDisabled' = FALSE
    /\ UNCHANGED <<asserted, intcVars, active, frames>>

master_IRQ_disable ==
    /\ InForeground
    /\ irqDisabled' = TRUE
    /\ UNCHANGED <<asserted, intcVars, active, frames>>

unmask_interrupt(irq) ==
    /\ InForeground
    /\ masked' = masked \ {irq}
    /\ UNCHANGED <<asserted, threshold, active, irqDisabled, frames>>

mask_interrupt(irq) ==
    /\ InForeground
    /\ masked' = masked \union {irq}
    /\ UNCHANGED <<asserted, threshold, active, irqDisabled, frames>>

Withdraw(irq) ==
    /\ InForeground
    /\ asserted' = asserted \ {irq}
    /\ UNCHANGED <<intcVars, active, irqDisabled, frames>>

-----------------------------------------------------------------------------
(* IRQHandler. *)

\* IRQ_PRIORITY, as far as THRESHOLD keeps it.
IRQ_PRIORITY ==
    IF active \in asserted \ masked THEN Priority[active] ELSE Priority[active] + SpuriousFlag

\* Mutant: the priority is not made the threshold.
Enter_KeepsThreshold ==
    /\ active # NoIrq /\ ~irqDisabled
    /\ frames' = Append(frames, [irq |-> active, priority |-> IRQ_PRIORITY,
                                 saved |-> threshold, step |-> "entered"])
    /\ UNCHANGED threshold
    /\ irqDisabled' = TRUE
    /\ UNCHANGED <<asserted, masked, active>>

\* The CPU takes the interrupt; up to the read of SIR_IRQ nothing the handler
\* reads can change under it.
Enter ==
    /\ active # NoIrq /\ ~irqDisabled
    /\ frames' = Append(frames, [irq |-> active, priority |-> IRQ_PRIORITY,
                                 saved |-> threshold, step |-> "entered"])
    /\ threshold' = IRQ_PRIORITY
    /\ irqDisabled' = TRUE
    /\ UNCHANGED <<asserted, masked, active>>

\* STRNE to CONTROL: unless the priority is 0.
Agree ==
    /\ TopAt("entered")
    /\ active' = IF top.priority = 0 THEN active ELSE NoIrq
    /\ StepTo("agreed")
    /\ UNCHANGED <<asserted, intcVars, irqDisabled>>

\* BICNE, MSR: interrupts are let in unless the priority is 0.
ToSystemMode ==
    /\ TopAt("agreed")
    /\ irqDisabled' = (top.priority = 0)
    /\ StepTo("isr")
    /\ UNCHANGED <<asserted, intcVars, active>>

\* External: the registered routine takes its source down.
Serve ==
    /\ TopAt("isr")
    /\ asserted' = asserted \ {top.irq}
    /\ StepTo("served")
    /\ UNCHANGED <<intcVars, active, irqDisabled>>

\* CPSID i, #MODE_IRQ.
ToIrqMode ==
    /\ TopAt("served")
    /\ irqDisabled' = TRUE
    /\ StepTo("exit")
    /\ UNCHANGED <<asserted, intcVars, active>>

\* Mutant: acknowledges whatever the priority.
AgreeAtExit_Always ==
    /\ TopAt("exit")
    /\ active' = NoIrq
    /\ StepTo("acknowledged")
    /\ UNCHANGED <<asserted, intcVars, irqDisabled>>

\* STREQ to CONTROL: the handler asks THRESHOLD whether its priority was 0.
AgreeAtExit ==
    /\ TopAt("exit")
    /\ active' = IF threshold = 0 THEN NoIrq ELSE active
    /\ StepTo("acknowledged")
    /\ UNCHANGED <<asserted, intcVars, irqDisabled>>

\* Mutant: the saved threshold is not restored.
Return_DropsSaved ==
    /\ TopAt("acknowledged")
    /\ threshold' = top.priority
    /\ frames' = SubSeq(frames, 1, Len(frames) - 1)
    /\ irqDisabled' = FALSE
    /\ UNCHANGED <<asserted, masked, active>>

\* The saved threshold goes back and LDM^ returns: IRQs were enabled when the
\* interrupt was taken.
Return ==
    /\ TopAt("acknowledged")
    /\ threshold' = top.saved
    /\ frames' = SubSeq(frames, 1, Len(frames) - 1)
    /\ irqDisabled' = FALSE
    /\ UNCHANGED <<asserted, masked, active>>

-----------------------------------------------------------------------------
Foreground ==
    \/ master_IRQ_enable \/ master_IRQ_disable
    \/ \E irq \in Irqs : unmask_interrupt(irq) \/ mask_interrupt(irq) \/ Withdraw(irq)

HandlerStep == Agree \/ ToSystemMode \/ Serve \/ ToIrqMode \/ AgreeAtExit \/ Return

Next ==
    \/ \E irq \in Irqs : Raise(irq)
    \/ Sort \/ Foreground \/ Enter \/ HandlerStep

Spec == Init /\ [][Next]_vars

\* The INTC sorts, the CPU takes an interrupt whenever it finds one enabled
\* and does not keep interrupts off for ever, and routines end.
FairSpec ==
    /\ Spec
    /\ WF_vars(Sort) /\ SF_vars(Enter) /\ WF_vars(HandlerStep) /\ WF_vars(master_IRQ_enable)

-----------------------------------------------------------------------------
(* Properties. *)

\* A handler entered for a source that was there is interrupted only by more
\* urgent ones that are there too, however many levels and foreground races
\* lie below it (THRESHOLD and CPSR.I in IRQHandler).
NestingByPriority ==
    \A j \in 1..Len(frames) : \A k \in j+1..Len(frames) :
        IsGenuine(frames[j]) => IsGenuine(frames[k]) /\ frames[k].priority < frames[j].priority

\* The IRQ stack holds at most one frame of every priority over the spurious
\* ones (IRQ_STACK_SIZE: 8 KiB, 100 bytes a frame).
StackBounded ==
    \A k \in 1..Len(frames) :
        \/ \A j \in 1..k : ~IsGenuine(frames[j])
        \/ \E s \in 0..k-1 : /\ \A j \in 1..k : j <= s <=> ~IsGenuine(frames[j])
                             /\ k - s <= MaxPriority + 1

\* The foreground always runs with the threshold off, whatever was nested,
\* so no interrupt leaves the others shut out (the THRESHOLD on the stack).
ForegroundIsOpen == InForeground => threshold = PRIORITY_THRESHOLD

\* NEWIRQAGR releases the interrupt the handler was entered for, once, and
\* never one the INTC has presented since and nobody has taken.
AcknowledgesOwn ==
    [][active # NoIrq /\ active' = NoIrq
          => frames # <<>> /\ active = top.irq
             /\ top.step = (IF top.priority = 0 THEN "exit" ELSE "entered")]_vars

\* Whatever nested before, no path through IRQHandler leaves a threshold or an
\* unacknowledged interrupt that keeps out a source of the most urgent level:
\* it is served, or masked or taken down by its driver, unless another of its
\* level is served before it (the INTC does not take turns).
MostUrgentIsServed ==
    \A irq \in Irqs :
        (\A other \in Irqs : Priority[irq] <= Priority[other]) =>
            (irq \in asserted \ masked ~>
                \/ irq \notin asserted \ masked
                \/ TopAt("served") /\ Priority[top.irq] = Priority[irq])
=============================================================================
