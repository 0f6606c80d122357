------------------------------- MODULE Edma3cc -------------------------------
(***************************************************************************)
(* The EDMA3 channel controller as src/hal/EDMA/EDMA.cpp drives it.        *)
(*                                                                         *)
(* Every event, error and interrupt register is a bit set over the DMA     *)
(* channels; transfer-completion code and channel number coincide because  *)
(* DmaChannel always uses tcc_num = ch_num.  The operators named after     *)
(* functions of EDMA.cpp are their register writes; the hardware section   *)
(* is external: it is what the controller does with those registers on its *)
(* own, between any two steps of the CPU.                                  *)
(*                                                                         *)
(* A PaRAM set is reduced to the number of synchronisation events it still *)
(* needs before its final transfer request, and to what it links to then:  *)
(* a null set (the next event is an error) or a dummy set (it is ignored). *)
(***************************************************************************)
EXTENDS Naturals, FiniteSets

CONSTANTS Channels,     \* DMA channels in use
          MaxCount      \* bound: synchronisation events one PaRAM set may ask for

ASSUME ChannelsAssumption == IsFiniteSet(Channels)
ASSUME MaxCountAssumption == MaxCount \in Nat \ {0}

VARIABLES
    EER,        \* event enable register
    ER,         \* events of the peripherals, latched whether enabled or not
    ESR,        \* events set by software
    SER,        \* secondary event register: channel blocked by a null-set error
    EMR,        \* event missed register
    IER,        \* completion interrupts enabled
    IPR,        \* completion interrupts pending
    paRAM,      \* events left before the final transfer request of each set
    link,       \* what the set becomes after it: "null" or "dummy"
    inflight,   \* final transfer requests the transfer controller still executes
    irq         \* pulses latched by the interrupt controller

eventVars == <<EER, ER, ESR, SER, EMR>>
intrVars  == <<IER, IPR>>
paramVars == <<paRAM, link>>
ccVars    == <<eventVars, intrVars, paramVars, inflight, irq>>

Links  == {"null", "dummy"}
Pulses == {"completion", "error"}

ccTypeOK ==
    /\ EER \subseteq Channels
    /\ ER \subseteq Channels
    /\ ESR \subseteq Channels
    /\ SER \subseteq Channels
    /\ EMR \subseteq Channels
    /\ IER \subseteq Channels
    /\ IPR \subseteq Channels
    /\ paRAM \in [Channels -> 0..MaxCount]
    /\ link \in [Channels -> Links]
    /\ inflight \subseteq Channels
    /\ irq \subseteq Pulses

\* Registers after reset and HAL::EDMA::init: EMCR and CCERRCLR have been
\* written, every channel is in the shadow region, no PaRAM set is armed.
ccInit ==
    /\ EER = {} /\ ER = {} /\ ESR = {} /\ SER = {} /\ EMR = {}
    /\ IER = {} /\ IPR = {}
    /\ paRAM = [c \in Channels |-> 0]
    /\ link = [c \in Channels |-> "null"]
    /\ inflight = {}
    /\ irq = {}

-----------------------------------------------------------------------------
(* Register writes of EDMA.cpp. *)

\* ECR
clr_event(c) == ER' = ER \ {c}

\* ESR
set_event(c) == ESR' = ESR \union {c}

\* SECR and EMCR
clr_miss_evt(c) ==
    /\ SER' = SER \ {c}
    /\ EMR' = EMR \ {c}

\* EESR
enable_DMA_event(c) == EER' = EER \union {c}

\* EECR
disable_DMA_event(c) == EER' = EER \ {c}

\* The completion line is a pulse: it is raised when the set of pending and
\* enabled interrupts stops being empty, and not again before it is empty or
\* re-evaluated.
CompletionPulse ==
    irq' = IF IER \intersect IPR = {} /\ IER' \intersect IPR' # {}
           THEN irq \union {"completion"} ELSE irq

ErrorPulse ==
    irq' = IF EMR = {} /\ EMR' # {} THEN irq \union {"error"} ELSE irq

\* IESR: a bit already pending raises the line
enable_evt_intr(c) ==
    /\ IER' = IER \union {c}
    /\ UNCHANGED IPR
    /\ CompletionPulse

\* Mutant: the completion interrupt stays enabled.
disable_evt_intr_Dropped(c) == IER' = IER \union {c}

\* IECR
disable_evt_intr(c) == IER' = IER \ {c}

\* ICR
clr_intr(c) == IPR' = IPR \ {c}

\* Mutant: the line is not re-evaluated.
revaluateInterruptLine_Dropped == irq' = irq

\* IEVAL
revaluateInterruptLine ==
    irq' = IF IER \intersect IPR # {} THEN irq \union {"completion"} ELSE irq

\* EEVAL
CC_Err_evaluate ==
    irq' = IF EMR # {} THEN irq \union {"error"} ELSE irq

\* The CPU writes a whole PaRAM set.
set_paRAM(c, n, l) ==
    /\ paRAM' = [paRAM EXCEPT ![c] = n]
    /\ link' = [link EXCEPT ![c] = l]

-----------------------------------------------------------------------------
(* The hardware. *)

\* A peripheral raises its event line.  An event that finds the previous one
\* still latched is recorded as missed, provided the channel is enabled.
PeripheralEvent(c) ==
    /\ \/ /\ c \notin ER
          /\ ER' = ER \union {c}
          /\ UNCHANGED <<EMR, irq>>
       \/ /\ c \in ER \intersect EER
          /\ EMR' = EMR \union {c}
          /\ ErrorPulse
          /\ UNCHANGED ER
    /\ UNCHANGED <<EER, ESR, SER, intrVars, paramVars, inflight>>

\* An enabled peripheral event, or a software event whatever EER says, is
\* taken from its register.
TakeEvent(c) ==
    \/ /\ c \in ER \intersect EER
       /\ ER' = ER \ {c}
       /\ UNCHANGED ESR
    \/ /\ c \in ESR
       /\ ESR' = ESR \ {c}
       /\ UNCHANGED ER

\* An event on a set with events left becomes a transfer request.  Requests of
\* a channel go through one queue, so the next waits for the one in flight.
SubmitTransfer(c) ==
    /\ c \notin SER \union inflight
    /\ TakeEvent(c)
    /\ paRAM[c] > 0
    /\ paRAM' = [paRAM EXCEPT ![c] = @ - 1]
    /\ inflight' = IF paRAM[c] = 1 THEN inflight \union {c} ELSE inflight
    /\ UNCHANGED <<EER, SER, EMR, intrVars, link, irq>>

\* An event on an exhausted set: an error on a null set, nothing on a dummy.
ExhaustedSet(c) ==
    /\ c \notin SER \union inflight
    /\ TakeEvent(c)
    /\ paRAM[c] = 0
    /\ IF link[c] = "null"
       THEN /\ SER' = SER \union {c}
            /\ EMR' = EMR \union {c}
            /\ ErrorPulse
       ELSE UNCHANGED <<SER, EMR, irq>>
    /\ UNCHANGED <<EER, intrVars, paramVars, inflight>>

\* The transfer controller finishes the final request (TCINTEN is set).
CompleteTransfer(c) ==
    /\ c \in inflight
    /\ inflight' = inflight \ {c}
    /\ IPR' = IPR \union {c}
    /\ UNCHANGED IER
    /\ CompletionPulse
    /\ UNCHANGED <<eventVars, paramVars>>
=============================================================================
