----------------------------- MODULE QdmaChannel -----------------------------
(***************************************************************************)
(* HAL::EDMA::QdmaChannel objects beside DmaChannel objects: transfers     *)
(* started by writing the trigger word of a PaRAM set, and the QDMA branch *)
(* of the error service routine.                                           *)
(*                                                                         *)
(* An object is named by its transfer-completion code: for c in Qdma the   *)
(* variables of DmaChannel indexed by completion code (IER, IPR, handlers, *)
(* the flags, inflight) belong to the QdmaChannel registered under c, the  *)
(* others are DmaChannel objects on the channel of that number.  Zero is   *)
(* completion code 0, the one a PaRAM set of all zeros names.              *)
(*                                                                         *)
(* Callers of a QdmaChannel need not wait, stop or check anything.         *)
(***************************************************************************)
EXTENDS DmaChannel

CONSTANTS Qdma,     \* completion codes of the QdmaChannel objects
          Zero,
          Rearm     \* callers configure() again before they trigger() a set that changes

ASSUME QdmaAssumption == Qdma \subseteq Channels \ {Zero} /\ Zero \in Channels /\ Rearm \in BOOLEAN

VARIABLES
    QEER, QER, QSER, QEMR,    \* the QDMA event registers
    set,                      \* the mapped PaRAM set
    named,                    \* channels whose mapped set has their completion code in OPT
    qtodo,                    \* EDMA_Error_ISR's snapshot of QEMR
    want,                     \* the set configure() is writing
    armed,                    \* ghost: the set is the one its caller configured
    clean,                    \* ghost: nothing of an earlier transfer is left at this trigger()
    triggered                 \* ghost: an armed set was triggered, the caller waits

queueVars == <<QEER, QER, QSER, QEMR>>
setVars   == <<set, named>>
qghosts   == <<armed, clean, triggered>>
qvars     == <<queueVars, setVars, qtodo, want, qghosts>>
edmaVars  == <<vars, qvars>>

\* A set that stays (STATIC), one that is null after its transfer, one that
\* links to a static one, and one that asks for nothing.
Sets == {"static", "single", "linked", "empty"}

QInit ==
    /\ Init
    /\ QEER = {} /\ QER = {} /\ QSER = {} /\ QEMR = {}
    /\ set = [c \in Qdma |-> "empty"] /\ named = {}
    /\ qtodo = {} /\ want = "empty"
    /\ armed = {} /\ clean = FALSE /\ triggered = {}

\* The error line is one for both kinds of channel.
QdmaErrorPulse ==
    irq' = IF EMR \union QEMR = {} /\ QEMR' # {} THEN irq \union {"error"} ELSE irq

\* Mutant: the secondary event is not cleared.
QDMA_clr_miss_evt_KeepsSecondary(c) == QEMR' = QEMR \ {c} /\ UNCHANGED <<QSER, QER>>

\* QSECR clears QER as well.
QDMA_clr_miss_evt(c) ==
    /\ QSER' = QSER \ {c} /\ QER' = QER \ {c}
    /\ QEMR' = QEMR \ {c}

-----------------------------------------------------------------------------
(* Methods. *)

sameSoft == UNCHANGED <<flagVars, handlers, isrVars, tagVars, qtodo>>

\* request_channel() enables the completion interrupt and writes the code into
\* OPT; the handler is registered as a DmaChannel's is.
QdmaInit(c) ==
    /\ Call(c)
    /\ c \notin is_allocated
    /\ enable_evt_intr(c)
    /\ named' = named \union {c}
    /\ is_allocated' = is_allocated \union {c}
    /\ pc' = "reg_complete"
    /\ UNCHANGED <<eventVars, paramVars, inflight, is_configured, m_trigger_mode,
                   m_transfer_enabled, arg, continue, running, queueVars, set, want, qghosts>>
    /\ sameSoft

\* configure(): the events are disabled first ...
QdmaConfigure(c, s) ==
    /\ Call(c)
    /\ c \in is_allocated
    /\ is_configured' = is_configured \ {c}
    /\ QEER' = QEER \ {c}
    /\ want' = s
    /\ pc' = "q_clear"
    /\ armed' = armed \ {c} /\ triggered' = triggered \ {c} /\ running' = running \ {c}
    /\ UNCHANGED <<ccVars, is_allocated, m_trigger_mode, m_transfer_enabled, arg, continue,
                   QER, QSER, QEMR, setVars, clean>>
    /\ sameSoft

QdmaConfigureRejected(c) ==
    /\ Call(c)
    /\ c \in is_allocated
    /\ is_configured' = is_configured \ {c}
    /\ armed' = armed \ {c}
    /\ UNCHANGED <<ccVars, is_allocated, m_trigger_mode, m_transfer_enabled, pc, arg, continue,
                   running, queueVars, setVars, want, clean, triggered>>
    /\ sameSoft

QdmaConfigureClear ==
    /\ Step("q_clear")
    /\ QDMA_clr_miss_evt(cur)
    /\ pc' = "q_write"
    /\ UNCHANGED <<ccVars, objVars, continue, running, QEER, setVars, want, qghosts>>
    /\ sameSoft

\* ... the sets are written, the trigger word of the mapped one last, and the
\* events enabled.  No event can reach a half-written set.
QdmaConfigureWrite ==
    /\ Step("q_write")
    /\ set' = [set EXCEPT ![cur] = want]
    /\ named' = named \union {cur}
    /\ QEER' = QEER \union {cur}
    /\ is_configured' = is_configured \union {cur}
    /\ armed' = armed \union {cur}
    /\ pc' = "idle" /\ want' = "empty"
    /\ UNCHANGED <<ccVars, is_allocated, m_trigger_mode, m_transfer_enabled, continue, running,
                   QER, QSER, QEMR, clean, triggered>>
    /\ sameSoft

\* trigger(): the flags are reset as a DmaChannel's are, and the trigger word
\* is written.  Nothing asks whether a transfer is under way.
QdmaTrigger(c) ==
    /\ Call(c)
    /\ c \in is_allocated \intersect is_configured \intersect QEER
    /\ Rearm => c \in armed
    /\ clean' = (c \in armed \ (inflight \union QER \union QSER \union QEMR \union IPR))
    /\ triggered' = triggered \ {c}
    /\ arg' = "QDMA"
    /\ pc' = "reset_done"
    /\ UNCHANGED <<ccVars, objVars, continue, running, queueVars, setVars, want, armed>>
    /\ sameSoft

QdmaWriteTrigger ==
    /\ Foreground /\ pc = "enable" /\ arg = "QDMA"
    /\ IF cur \in QER THEN QEMR' = QEMR \union {cur} /\ UNCHANGED QER
       ELSE QER' = QER \union {cur} /\ UNCHANGED QEMR
    /\ QdmaErrorPulse
    /\ running' = IF clean THEN running \union {cur} ELSE running
    /\ triggered' = IF cur \in armed THEN triggered \union {cur} ELSE triggered
    /\ armed' = IF set[cur] = "static" THEN armed ELSE armed \ {cur}
    /\ pc' = "idle" /\ arg' = "MANUAL" /\ clean' = FALSE
    /\ UNCHANGED <<eventVars, intrVars, paramVars, inflight, objVars, cur, continue,
                   QEER, QSER, setVars, want>>
    /\ sameSoft

\* wait_completion() returns with an answer or gives up.
QdmaWaitReturns(c) ==
    /\ Call(c)
    /\ c \in triggered \union running
    /\ triggered' = triggered \ {c} /\ running' = running \ {c}
    /\ UNCHANGED <<ccVars, objVars, pc, arg, continue, queueVars, setVars, want, armed, clean>>
    /\ sameSoft

\* free(): QEECR; the completion interrupt and the handler go as a DmaChannel's do.
QdmaFree(c) ==
    /\ Call(c)
    /\ c \in is_allocated
    /\ QEER' = QEER \ {c}
    /\ armed' = armed \ {c} /\ triggered' = triggered \ {c} /\ running' = running \ {c}
    /\ continue' = "free"
    /\ pc' = "iecr"
    /\ UNCHANGED <<ccVars, objVars, arg, QER, QSER, QEMR, setVars, want, clean>>
    /\ sameSoft

-----------------------------------------------------------------------------
(* EDMA_Error_ISR, behind its DMA part. *)

QdmaErrorRead ==
    /\ isr = "error" /\ todo = {}
    /\ isr' = "qdma_error" /\ qtodo' = QEMR
    /\ UNCHANGED <<ccVars, objVars, flagVars, handlers, fgVars, todo, ghostVars,
                   queueVars, setVars, want, qghosts>>

\* Mutant: the number of the channel, here 0, is taken for the completion code.
TccOf_Number(c) == Zero

\* OPT.TCC of the set QCHMAP names.
TccOf(c) == IF c \in named THEN c ELSE Zero

QdmaErrorIsr(c) ==
    /\ isr = "qdma_error"
    /\ c \in qtodo
    /\ qtodo' = qtodo \ {c}
    /\ QDMA_clr_miss_evt(c)
    /\ dispatchError(TccOf(c))
    /\ UNCHANGED <<ccVars, objVars, handlers, fgVars, isrVars, ghostVars,
                   QEER, setVars, want, qghosts>>

QdmaErrorIsrExit ==
    /\ isr = "qdma_error" /\ qtodo = {}
    /\ irq' = IF EMR \union QEMR # {} THEN irq \union {"error"} ELSE irq
    /\ isr' = "none"
    /\ UNCHANGED <<eventVars, intrVars, paramVars, inflight, objVars, flagVars, handlers, fgVars,
                   todo, ghostVars, qvars>>

-----------------------------------------------------------------------------
(* The controller. *)

hardSame == UNCHANGED <<softVars, qtodo, want, qghosts, eventVars, intrVars, paramVars, QEER>>

\* The event becomes a transfer request.  A linked set is replaced by the one
\* it links to, and that write of the trigger word is the next event.
QdmaSubmit(c) ==
    /\ c \in QER \ (QSER \union inflight)
    /\ set[c] \in {"static", "single", "linked"}
    /\ IF set[c] = "linked"
       THEN /\ QER' = IF c \in QEER THEN QER ELSE QER \ {c}
            /\ UNCHANGED <<inflight, currentFlight>>
       ELSE /\ QER' = QER \ {c}
            /\ inflight' = inflight \union {c}
            /\ currentFlight' = IF c \in running THEN currentFlight \union {c} ELSE currentFlight
    /\ set' = [set EXCEPT ![c] = IF @ = "single" THEN "empty" ELSE "static"]
    /\ named' = IF set[c] = "single" THEN named \ {c} ELSE named
    /\ UNCHANGED <<irq, QSER, QEMR, running, currentIPR, currentDone>>
    /\ hardSame

\* An event on an empty set is an error.
QdmaNull(c) ==
    /\ c \in QER \ (QSER \union inflight)
    /\ set[c] = "empty"
    /\ QER' = QER \ {c} /\ QSER' = QSER \union {c} /\ QEMR' = QEMR \union {c}
    /\ QdmaErrorPulse
    /\ UNCHANGED <<inflight, setVars, ghostVars>>
    /\ hardSame

-----------------------------------------------------------------------------
QdmaCall(c) ==
    \/ QdmaInit(c) \/ QdmaConfigureRejected(c) \/ QdmaTrigger(c)
    \/ QdmaWaitReturns(c) \/ QdmaFree(c)
    \/ \E s \in Sets : QdmaConfigure(c, s)

QdmaStep == QdmaConfigureClear \/ QdmaConfigureWrite \/ QdmaWriteTrigger

QdmaIsr == QdmaErrorRead \/ (\E c \in Qdma : QdmaErrorIsr(c)) \/ QdmaErrorIsrExit

\* The DmaChannel objects are triggered by the CPU and waited for: neither
\* their peripherals nor what their sets link to matters.
DmaCall(c) ==
    \/ InitChannel(c) \/ Stop(c) \/ Free(c) \/ WaitReturns(c) \/ Trigger(c, "MANUAL")
    \/ \E n \in 1..MaxCount : Configure(c, n, "null")

DmaIsr ==
    \/ \E p \in Pulses : IsrEnter(p)
    \/ \E c \in Channels : CompletionIsr(c) \/ ErrorIsr(c)
    \/ CompletionIsrExit

DmaNext ==
    /\ \/ \E c \in Channels \ Qdma : DmaCall(c) \/ Submit(c) \/ Exhausted(c)
       \/ \E c \in Channels : Complete(c)
       \/ MethodStep \/ DmaIsr
    /\ UNCHANGED qvars

QdmaNext ==
    \/ DmaNext
    \/ \E c \in Qdma : QdmaCall(c) \/ QdmaSubmit(c) \/ QdmaNull(c)
    \/ QdmaStep \/ QdmaIsr

QdmaSpec == QInit /\ [][QdmaNext]_edmaVars

\* The controller serves its queues, a raised line is taken (the interrupt
\* controller lets neither starve the other), a service routine runs to its end
\* and a method that was called returns.
QdmaFairness ==
    /\ \A c \in Channels \ Qdma : WF_edmaVars(Submit(c) /\ UNCHANGED qvars)
    /\ \A c \in Qdma : WF_edmaVars(QdmaSubmit(c) \/ QdmaNull(c))
    /\ \A c \in Channels : WF_edmaVars(Complete(c) /\ UNCHANGED qvars)
    /\ \A p \in Pulses : SF_edmaVars(IsrEnter(p) /\ UNCHANGED qvars)
    /\ WF_edmaVars((\E c \in Channels : CompletionIsr(c) \/ ErrorIsr(c)) /\ UNCHANGED qvars)
    /\ WF_edmaVars(CompletionIsrExit /\ UNCHANGED qvars)
    /\ WF_edmaVars(QdmaIsr)
    /\ WF_edmaVars((MethodStep /\ UNCHANGED qvars) \/ QdmaStep)

FairQdmaSpec == QdmaSpec /\ QdmaFairness

-----------------------------------------------------------------------------
(* Properties. *)

\* A missed or rejected QDMA event is reported to the object whose event it
\* was, and to no other: the set still names it although the hardware rewrites
\* sets when it links.
MissReachesOwner ==
    [][\A c \in Qdma :
          c \in qtodo \ qtodo' =>
              /\ handlers[c] = Fields => c \in m_transfer_error'
              /\ \A d \in Channels \ {c} :
                    d \in m_transfer_done' \union m_transfer_error'
                        => d \in m_transfer_done \union m_transfer_error]_edmaVars

\* A trigger() is answered with a completion or an error, also when it runs
\* into the transfer before it, whose event the controller or the error
\* routine may drop with its own.
TriggerIsAnswered ==
    \A c \in Qdma : (c \in triggered) ~> (c \in m_transfer_done \/ c \notin triggered)
=============================================================================
