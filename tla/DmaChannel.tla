----------------------------- MODULE DmaChannel -----------------------------
(***************************************************************************)
(* HAL::EDMA::DmaChannel objects over the EDMA3 channel controller, with   *)
(* the interrupt dispatcher and the two interrupt service routines.        *)
(*                                                                         *)
(* There is one object per channel.  One foreground thread runs the        *)
(* methods; each method is split where an interrupt or the hardware can    *)
(* observe it half done, so pc names the next register or field access of  *)
(* the method in progress on channel cur.  The service routines preempt    *)
(* the foreground between any two of its steps and are not themselves      *)
(* preempted (INTC priority 0); the hardware is never stopped by either.   *)
(*                                                                         *)
(* Ghost variables: current* tag the request, interrupt and flag that stem *)
(* from the latest trigger(), and running is the set of channels whose     *)
(* caller has triggered and not yet come back from wait_completion().      *)
(***************************************************************************)
EXTENDS Edma3cc

CONSTANTS TriggerModes,  \* subset of {"MANUAL", "EVENT"} the callers use
          Disciplined,   \* callers wait out a transfer and stop() before reuse
          PromptIrq      \* a raised line is served before the next method step

ASSUME TriggerModesAssumption == TriggerModes \subseteq {"MANUAL", "EVENT"}
ASSUME ClientAssumption == Disciplined \in BOOLEAN /\ PromptIrq \in BOOLEAN

VARIABLES
    is_allocated, is_configured, m_trigger_mode, m_transfer_enabled,
    m_transfer_done, m_transfer_error,        \* the objects' fields
    handlers,                                 \* InterruptDispatcher::handlers
    pc, cur, arg, continue,                   \* the method in progress
    isr, todo,                                \* the service routine in progress
    running, currentFlight, currentIPR, currentDone      \* ghosts

objVars   == <<is_allocated, is_configured, m_trigger_mode, m_transfer_enabled>>
flagVars  == <<m_transfer_done, m_transfer_error>>
fgVars    == <<pc, cur, arg, continue>>
isrVars   == <<isr, todo>>
tagVars   == <<currentFlight, currentIPR, currentDone>>
ghostVars == <<running, tagVars>>
vars == <<ccVars, objVars, flagVars, handlers, fgVars, isrVars, ghostVars>>

Fields == {"onComplete", "onError", "context"}
Modes  == {"MANUAL", "EVENT"}
Steps  == {"idle",
           "reg_complete", "reg_error", "reg_context",
           "disable", "eecr",
           "reset_done", "reset_error", "enable", "eesr",
           "iecr", "icr", "unregister"}

TypeOK ==
    /\ ccTypeOK
    /\ is_allocated \subseteq Channels
    /\ is_configured \subseteq Channels
    /\ m_trigger_mode \in [Channels -> Modes]
    /\ m_transfer_enabled \subseteq Channels
    /\ m_transfer_done \subseteq Channels
    /\ m_transfer_error \subseteq Channels
    /\ handlers \in [Channels -> SUBSET Fields]
    /\ pc \in Steps
    /\ pc # "idle" => cur \in Channels
    /\ arg \in Modes
    /\ continue \in {"stop", "trigger", "free"}
    /\ isr \in {"none"} \union Pulses
    /\ todo \subseteq Channels
    /\ running \subseteq Channels
    /\ currentFlight \subseteq Channels
    /\ currentIPR \subseteq Channels
    /\ currentDone \subseteq Channels

Init ==
    /\ ccInit
    /\ is_allocated = {} /\ is_configured = {} /\ m_transfer_enabled = {}
    /\ m_trigger_mode = [c \in Channels |-> "MANUAL"]
    /\ m_transfer_done = {} /\ m_transfer_error = {}
    /\ handlers = [c \in Channels |-> {}]
    /\ pc = "idle" /\ cur \in Channels /\ arg = "MANUAL" /\ continue = "stop"
    /\ isr = "none" /\ todo = {}
    /\ running = {}
    /\ currentFlight = {} /\ currentIPR = {} /\ currentDone = {}

-----------------------------------------------------------------------------
(* Foreground methods. *)

\* The foreground runs while no service routine does.
Foreground == isr = "none" /\ (PromptIrq => irq = {})

\* A disciplined caller comes back to a channel only when no transfer of it is
\* outstanding, re-arms it only after stop(), configures it every time, and
\* gives the channel up after an error.
MayReuse(c) == Disciplined => c \notin running
MayRearm(c) == Disciplined => c \notin running \union m_transfer_enabled \union m_transfer_error

Call(c) == Foreground /\ pc = "idle" /\ cur' = c
Step(s) == Foreground /\ pc = s /\ UNCHANGED <<cur, arg>>

\* init(): request_channel() enables the completion interrupt first ...
InitChannel(c) ==
    /\ Call(c)
    /\ MayReuse(c)
    /\ enable_evt_intr(c)
    /\ is_allocated' = is_allocated \union {c}
    /\ pc' = "reg_complete"
    /\ UNCHANGED <<eventVars, paramVars, inflight, is_configured, m_trigger_mode,
                   m_transfer_enabled, flagVars, handlers, arg, continue, isrVars, ghostVars>>

\* ... and registerHandler() then stores the three fields one by one.
RegisterHandler(s, field, next) ==
    /\ Step(s)
    /\ handlers' = [handlers EXCEPT ![cur] = @ \union {field}]
    /\ pc' = next
    /\ is_configured' = IF next = "idle" THEN is_configured \ {cur} ELSE is_configured
    /\ UNCHANGED <<ccVars, is_allocated, m_trigger_mode, m_transfer_enabled, flagVars,
                   continue, isrVars, ghostVars>>

RegisterComplete == RegisterHandler("reg_complete", "onComplete", "reg_error")
RegisterError    == RegisterHandler("reg_error", "onError", "reg_context")
RegisterContext  == RegisterHandler("reg_context", "context", "idle")

\* configure(): no other context reads is_configured while it is cleared.
Configure(c, n, l) ==
    /\ Call(c)
    /\ MayRearm(c)
    /\ c \in is_allocated
    /\ set_paRAM(c, n, l)
    /\ is_configured' = is_configured \union {c}
    /\ UNCHANGED <<eventVars, intrVars, inflight, irq, is_allocated, m_trigger_mode,
                   m_transfer_enabled, flagVars, handlers, pc, arg, continue, isrVars, ghostVars>>

\* configure() with a list that lacks the channel's own set, or names a set
\* that does not exist, leaves the channel unconfigured.
ConfigureRejected(c) ==
    /\ Call(c)
    /\ c \in is_allocated
    /\ is_configured' = is_configured \ {c}
    /\ UNCHANGED <<ccVars, is_allocated, m_trigger_mode, m_transfer_enabled, flagVars,
                   handlers, pc, arg, continue, isrVars, ghostVars>>

\* trigger(): a change of mode stops the transfer of the old mode first.
Trigger(c, m) ==
    /\ Call(c)
    /\ MayRearm(c)
    /\ Disciplined => paRAM[c] > 0
    /\ c \in is_allocated \intersect is_configured
    /\ arg' = m
    /\ continue' = "trigger"
    /\ pc' = IF c \in m_transfer_enabled /\ m # m_trigger_mode[c]
             THEN "disable" ELSE "reset_done"
    /\ UNCHANGED <<ccVars, objVars, flagVars, handlers, isrVars, ghostVars>>

\* stop(): returns at once on a channel that was not started.
Stop(c) ==
    /\ Call(c)
    /\ MayReuse(c)
    /\ c \in is_allocated \intersect m_transfer_enabled
    /\ continue' = "stop"
    /\ pc' = "disable"
    /\ UNCHANGED <<ccVars, objVars, flagVars, handlers, arg, isrVars, ghostVars>>

Free(c) ==
    /\ Call(c)
    /\ MayReuse(c)
    /\ c \in is_allocated
    /\ continue' = "free"
    /\ pc' = "disable"
    /\ UNCHANGED <<ccVars, objVars, flagVars, handlers, arg, isrVars, ghostVars>>

\* What the caller of disable_transfer() does next: free_channel() masks the
\* completion interrupt, stop() clears m_transfer_enabled and returns.
Disabled ==
    /\ pc' = [stop |-> "idle", trigger |-> "reset_done", free |-> "iecr"][continue]
    /\ m_transfer_enabled' = IF continue = "free" THEN m_transfer_enabled
                             ELSE m_transfer_enabled \ {cur}
    /\ running' = IF continue = "stop" THEN running \ {cur} ELSE running

\* disable_transfer(): ECR for a manual channel; SECR, EMCR and then EECR for
\* an event channel.  The peripheral's latched event is left in ER.
DisableManual ==
    /\ Step("disable")
    /\ m_trigger_mode[cur] = "MANUAL"
    /\ clr_event(cur)
    /\ Disabled
    /\ UNCHANGED <<EER, ESR, SER, EMR, intrVars, paramVars, inflight, irq, is_allocated,
                   is_configured, m_trigger_mode, flagVars, handlers, continue, isrVars, tagVars>>

DisableEvent ==
    /\ Step("disable")
    /\ m_trigger_mode[cur] = "EVENT"
    /\ clr_miss_evt(cur)
    /\ pc' = "eecr"
    /\ UNCHANGED <<EER, ER, ESR, intrVars, paramVars, inflight, irq, objVars, flagVars,
                   handlers, continue, isrVars, ghostVars>>

DisableEventEnable ==
    /\ Step("eecr")
    /\ disable_DMA_event(cur)
    /\ Disabled
    /\ UNCHANGED <<ER, ESR, SER, EMR, intrVars, paramVars, inflight, irq, is_allocated,
                   is_configured, m_trigger_mode, flagVars, handlers, continue, isrVars, tagVars>>

\* Mutant: m_transfer_done is not reset.
ResetDone_Dropped ==
    /\ Step("reset_done")
    /\ currentDone' = currentDone \ {cur}
    /\ currentIPR' = currentIPR \ {cur}
    /\ currentFlight' = currentFlight \ {cur}
    /\ running' = running \ {cur}
    /\ pc' = "reset_error"
    /\ UNCHANGED <<ccVars, objVars, flagVars, handlers, continue, isrVars>>

\* trigger(), continued: the two flags are reset one after the other ...
ResetDone ==
    /\ Step("reset_done")
    /\ m_transfer_done' = m_transfer_done \ {cur}
    /\ currentDone' = currentDone \ {cur}
    /\ currentIPR' = currentIPR \ {cur}
    /\ currentFlight' = currentFlight \ {cur}
    /\ running' = running \ {cur}
    /\ pc' = "reset_error"
    /\ UNCHANGED <<ccVars, objVars, m_transfer_error, handlers, continue, isrVars>>

ResetError ==
    /\ Step("reset_error")
    /\ m_transfer_error' = m_transfer_error \ {cur}
    /\ pc' = "enable"
    /\ UNCHANGED <<ccVars, objVars, m_transfer_done, handlers, continue, isrVars, ghostVars>>

\* The last steps of trigger() record the mode.
Started ==
    /\ m_trigger_mode' = [m_trigger_mode EXCEPT ![cur] = arg]
    /\ m_transfer_enabled' = m_transfer_enabled \union {cur}
    /\ running' = running \union {cur}
    /\ pc' = "idle"

\* ... and enable_transfer() writes ESR, or SECR, EMCR and then EESR.
EnableManual ==
    /\ Step("enable")
    /\ arg = "MANUAL"
    /\ set_event(cur)
    /\ Started
    /\ UNCHANGED <<EER, ER, SER, EMR, intrVars, paramVars, inflight, irq, is_allocated,
                   is_configured, flagVars, handlers, continue, isrVars, tagVars>>

EnableEvent ==
    /\ Step("enable")
    /\ arg = "EVENT"
    /\ clr_miss_evt(cur)
    /\ pc' = "eesr"
    /\ UNCHANGED <<EER, ER, ESR, intrVars, paramVars, inflight, irq, objVars, flagVars,
                   handlers, continue, isrVars, ghostVars>>

EnableEventEnable ==
    /\ Step("eesr")
    /\ enable_DMA_event(cur)
    /\ Started
    /\ UNCHANGED <<ER, ESR, SER, EMR, intrVars, paramVars, inflight, irq, is_allocated,
                   is_configured, flagVars, handlers, continue, isrVars, tagVars>>

\* free(), continued: free_channel() masks and clears the completion interrupt,
FreeMaskInterrupt ==
    /\ Step("iecr")
    /\ disable_evt_intr(cur)
    /\ pc' = "icr"
    /\ UNCHANGED <<eventVars, IPR, paramVars, inflight, irq, objVars, flagVars, handlers,
                   continue, isrVars, ghostVars>>

FreeClearInterrupt ==
    /\ Step("icr")
    /\ clr_intr(cur)
    /\ currentIPR' = currentIPR \ {cur}
    /\ pc' = "unregister"
    /\ UNCHANGED <<eventVars, IER, paramVars, inflight, irq, objVars, flagVars, handlers,
                   continue, isrVars, running, currentFlight, currentDone>>

\* Mutant: free() forgets to unregister the handler.
UnregisterField_Dropped(field) ==
    /\ Step("unregister")
    /\ field \in handlers[cur]
    /\ is_allocated' = is_allocated \ {cur}
    /\ is_configured' = is_configured \ {cur}
    /\ m_transfer_enabled' = m_transfer_enabled \ {cur}
    /\ running' = running \ {cur}
    /\ pc' = "idle"
    /\ UNCHANGED <<ccVars, m_trigger_mode, flagVars, handlers, continue, isrVars, tagVars>>

\* unregisterHandler() assigns an empty handler; the compiler may store its
\* fields in any order.  The object is released with the last of them.
UnregisterField(field) ==
    /\ Step("unregister")
    /\ field \in handlers[cur]
    /\ handlers' = [handlers EXCEPT ![cur] = @ \ {field}]
    /\ IF handlers'[cur] = {}
       THEN /\ is_allocated' = is_allocated \ {cur}
            /\ is_configured' = is_configured \ {cur}
            /\ m_transfer_enabled' = m_transfer_enabled \ {cur}
            /\ running' = running \ {cur}
            /\ pc' = "idle"
       ELSE UNCHANGED <<is_allocated, is_configured, m_transfer_enabled, running, pc>>
    /\ UNCHANGED <<ccVars, m_trigger_mode, flagVars, continue, isrVars, tagVars>>

\* wait_completion() polls done and error; it also gives up after its timeout,
\* which a disciplined caller chooses longer than any transfer.
WaitReturns(c) ==
    /\ Call(c)
    /\ c \in running
    /\ Disciplined => c \in m_transfer_done \union m_transfer_error
    /\ running' = running \ {c}
    /\ UNCHANGED <<ccVars, objVars, flagVars, handlers, pc, arg, continue, isrVars, tagVars>>

-----------------------------------------------------------------------------
(* Service routines. *)

\* dispatchCompletion(): m_on_complete ignores a null context.
dispatchCompletion(c) ==
    IF {"onComplete", "context"} \subseteq handlers[c]
    THEN /\ m_transfer_done' = m_transfer_done \union {c}
         /\ currentDone' = IF c \in currentIPR THEN currentDone \union {c} ELSE currentDone
    ELSE UNCHANGED <<m_transfer_done, currentDone>>

dispatchError(c) ==
    IF {"onError", "context"} \subseteq handlers[c]
    THEN /\ m_transfer_error' = m_transfer_error \union {c}
         /\ m_transfer_done' = m_transfer_done \union {c}
    ELSE UNCHANGED flagVars

\* A line is taken: EDMA_Completion_ISR reads IPR, enabled or not,
\* EDMA_Error_ISR reads EMR.
IsrEnter(p) ==
    /\ isr = "none"
    /\ p \in irq
    /\ irq' = irq \ {p}
    /\ isr' = p
    /\ todo' = IF p = "completion" THEN IPR ELSE EMR
    /\ UNCHANGED <<eventVars, intrVars, paramVars, inflight, objVars, flagVars, handlers,
                   fgVars, ghostVars>>

\* One bit of the snapshot.  The code goes from the lowest bit up; the order
\* is not relied on anywhere.
CompletionIsr(c) ==
    /\ isr = "completion"
    /\ c \in todo
    /\ todo' = todo \ {c}
    /\ clr_intr(c)
    /\ dispatchCompletion(c)
    /\ currentIPR' = currentIPR \ {c}
    /\ UNCHANGED <<eventVars, IER, paramVars, inflight, irq, objVars, m_transfer_error,
                   handlers, fgVars, isr, running, currentFlight>>

CompletionIsrExit ==
    /\ isr = "completion"
    /\ todo = {}
    /\ revaluateInterruptLine
    /\ isr' = "none"
    /\ UNCHANGED <<eventVars, intrVars, paramVars, inflight, objVars, flagVars, handlers,
                   fgVars, todo, ghostVars>>

ErrorIsr(c) ==
    /\ isr = "error"
    /\ c \in todo
    /\ todo' = todo \ {c}
    /\ clr_miss_evt(c)
    /\ dispatchError(c)
    /\ UNCHANGED <<EER, ER, ESR, intrVars, paramVars, inflight, irq, objVars, handlers,
                   fgVars, isr, ghostVars>>

ErrorIsrExit ==
    /\ isr = "error"
    /\ todo = {}
    /\ CC_Err_evaluate
    /\ isr' = "none"
    /\ UNCHANGED <<eventVars, intrVars, paramVars, inflight, objVars, flagVars, handlers,
                   fgVars, todo, ghostVars>>

-----------------------------------------------------------------------------
(* The hardware, with the ghost tags it carries. *)

softVars == <<objVars, flagVars, handlers, fgVars, isrVars>>

Event(c) == PeripheralEvent(c) /\ UNCHANGED <<softVars, ghostVars>>

Submit(c) ==
    /\ SubmitTransfer(c)
    /\ currentFlight' = IF c \in inflight' /\ c \in running
                        THEN currentFlight \union {c} ELSE currentFlight
    /\ UNCHANGED <<softVars, running, currentIPR, currentDone>>

Exhausted(c) == ExhaustedSet(c) /\ UNCHANGED <<softVars, ghostVars>>

Complete(c) ==
    /\ CompleteTransfer(c)
    /\ currentFlight' = currentFlight \ {c}
    /\ currentIPR' = IF c \in currentFlight THEN currentIPR \union {c} ELSE currentIPR
    /\ UNCHANGED <<softVars, running, currentDone>>

-----------------------------------------------------------------------------
MethodCall(c) ==
    \/ InitChannel(c) \/ ConfigureRejected(c) \/ Stop(c) \/ Free(c) \/ WaitReturns(c)
    \/ \E n \in 1..MaxCount, l \in Links : Configure(c, n, l)
    \/ \E m \in TriggerModes : Trigger(c, m)

MethodStep ==
    \/ RegisterComplete \/ RegisterError \/ RegisterContext
    \/ DisableManual \/ DisableEvent \/ DisableEventEnable
    \/ ResetDone \/ ResetError
    \/ EnableManual \/ EnableEvent \/ EnableEventEnable
    \/ FreeMaskInterrupt \/ FreeClearInterrupt
    \/ \E f \in Fields : UnregisterField(f)

Isr ==
    \/ \E p \in Pulses : IsrEnter(p)
    \/ \E c \in Channels : CompletionIsr(c) \/ ErrorIsr(c)
    \/ CompletionIsrExit \/ ErrorIsrExit

Hardware(c) == Event(c) \/ Submit(c) \/ Exhausted(c) \/ Complete(c)

Next ==
    \/ \E c \in Channels : MethodCall(c) \/ Hardware(c)
    \/ MethodStep
    \/ Isr

Spec == Init /\ [][Next]_vars

-----------------------------------------------------------------------------
(* Properties. *)

\* A channel nobody owns takes no peripheral events, raises no completion
\* interrupt and has no handler: free(), whatever mode the channel was last
\* triggered in and whatever preceded it, takes back all that init() and
\* trigger() gave.
ReleasedIsQuiet ==
    \A c \in Channels \ is_allocated :
        c \notin EER \union IER /\ handlers[c] = {}

\* Peripheral events are enabled only on a channel whose object knows that it
\* must be disabled with EECR: m_trigger_mode and m_transfer_enabled never
\* disagree with the controller.
EventEnableKnown ==
    \A c \in EER : c \in m_transfer_enabled /\ m_trigger_mode[c] = "EVENT"

\* A service routine never writes into an object that free() has released (the
\* destructor calls free(), so the memory may already be someone else's).
NoCallbackAfterRelease ==
    [][\A c \in Channels \ is_allocated :
          isr # "none" =>
              /\ c \in m_transfer_done' <=> c \in m_transfer_done
              /\ c \in m_transfer_error' <=> c \in m_transfer_error]_vars

\* When wait_completion() is about to report success, it is this trigger's
\* transfer that completed, not an earlier one's late interrupt.
SuccessIsCurrent ==
    \A c \in running \ m_transfer_error :
        c \in m_transfer_done => c \in currentDone

\* A transfer that was started ends: its completion (or error) interrupt is
\* not lost, however it falls against the service of another channel's.
TransferEnds ==
    \A c \in Channels : (c \in running) ~> (c \in m_transfer_done \/ c \notin running)

\* The comment on disable_transfer: in event mode "this API clears the Event
\* Enable Register, Event Register, Secondary Event Register and Event Miss
\* Register, if set".
DisableClearsEventRegister ==
    [][\A c \in Channels :
          (c \in EER /\ c \notin EER') => c \notin ER']_vars
=============================================================================
