----------------------------- MODULE EdmaProofs -----------------------------
(***************************************************************************)
(* Proofs about DmaChannel, QdmaChannel and UartBackend: any objects of    *)
(* both kinds, any PaRAM bound, any trigger modes.  The callers of         *)
(* DmaChannel objects are disciplined, and interrupts prompt, only where a *)
(* theorem says so; those of QdmaChannel objects configure() before they   *)
(* trigger() a set that changes (Rearm).                                   *)
(*                                                                         *)
(* UartBackend is a client that is not disciplined: it gives up a transfer *)
(* and starts the next one with requests still in the controller.  Its     *)
(* exactness is proved for any chunk, FIFO and transfer sizes.             *)
(***************************************************************************)
EXTENDS QdmaChannel, UartBackend, TLAPS

-----------------------------------------------------------------------------
(* Type correctness. *)

LEMMA InitTypeOK == Init => TypeOK
  BY MaxCountAssumption, SMT
     DEF Init, ccInit, TypeOK, ccTypeOK, Modes, Steps, Fields, Links, Pulses

\* The register and field writes of the methods keep every variable in its set.
LEMMA MethodCallTypeOK ==
  ASSUME TypeOK, NEW c \in Channels, MethodCall(c)
  PROVE  TypeOK'
  <1> USE MaxCountAssumption, TriggerModesAssumption
          DEF TypeOK, ccTypeOK, Modes, Steps, Fields, Links, Pulses, Call, ccVars, eventVars,
              intrVars, paramVars, objVars, flagVars, isrVars, ghostVars, tagVars
  <1>1. CASE InitChannel(c)
    BY <1>1 DEF InitChannel, enable_evt_intr, CompletionPulse
  <1>2. CASE ConfigureRejected(c)
    BY <1>2 DEF ConfigureRejected
  <1>3. CASE Stop(c)
    BY <1>3 DEF Stop
  <1>4. CASE Free(c)
    BY <1>4 DEF Free
  <1>5. CASE WaitReturns(c)
    BY <1>5 DEF WaitReturns
  <1>6. ASSUME NEW n \in 1..MaxCount, NEW l \in Links, Configure(c, n, l)
        PROVE  TypeOK'
    <2>1. n \in 0..MaxCount
      OBVIOUS
    <2>2. /\ paRAM' \in [Channels -> 0..MaxCount]
          /\ link' \in [Channels -> Links]
      BY <1>6, <2>1 DEF Configure, set_paRAM
    <2>3. QED
      BY <1>6, <2>2 DEF Configure
  <1>7. ASSUME NEW m \in TriggerModes, Trigger(c, m)
        PROVE  TypeOK'
    BY <1>7 DEF Trigger
  <1>8. QED
    BY <1>1, <1>2, <1>3, <1>4, <1>5, <1>6, <1>7 DEF MethodCall

LEMMA MethodStepTypeOK ==
  ASSUME TypeOK, MethodStep
  PROVE  TypeOK'
  <1> USE DEF TypeOK, ccTypeOK, Modes, Steps, Fields, Links, Pulses, Step, ccVars, eventVars,
              intrVars, paramVars, objVars, flagVars, isrVars, ghostVars, tagVars
  <1>1. ASSUME NEW s \in Steps \ {"idle"}, NEW f \in Fields, NEW then \in Steps,
               RegisterHandler(s, f, then)
        PROVE  TypeOK'
    BY <1>1 DEF RegisterHandler
  <1>2. CASE RegisterComplete \/ RegisterError \/ RegisterContext
    BY <1>1, <1>2 DEF RegisterComplete, RegisterError, RegisterContext
  <1>3. CASE DisableManual
    BY <1>3 DEF DisableManual, Disabled, clr_event
  <1>4. CASE DisableEvent
    BY <1>4 DEF DisableEvent, clr_miss_evt
  <1>5. CASE DisableEventEnable
    BY <1>5 DEF DisableEventEnable, Disabled, disable_DMA_event
  <1>6. CASE ResetDone \/ ResetError
    BY <1>6 DEF ResetDone, ResetError
  <1>7. CASE EnableManual
    BY <1>7 DEF EnableManual, Started, set_event
  <1>8. CASE EnableEvent
    BY <1>8 DEF EnableEvent, clr_miss_evt
  <1>9. CASE EnableEventEnable
    BY <1>9 DEF EnableEventEnable, Started, enable_DMA_event
  <1>10. CASE FreeMaskInterrupt \/ FreeClearInterrupt
    BY <1>10 DEF FreeMaskInterrupt, FreeClearInterrupt, disable_evt_intr, clr_intr
  <1>11. ASSUME NEW f \in Fields, UnregisterField(f)
         PROVE  TypeOK'
    BY <1>11 DEF UnregisterField
  <1>12. QED
    BY <1>2, <1>3, <1>4, <1>5, <1>6, <1>7, <1>8, <1>9, <1>10, <1>11 DEF MethodStep

LEMMA IsrTypeOK ==
  ASSUME TypeOK, Isr
  PROVE  TypeOK'
  <1> USE DEF TypeOK, ccTypeOK, Modes, Steps, Fields, Links, Pulses, eventVars, intrVars,
              paramVars, objVars, flagVars, fgVars, ghostVars, tagVars
  <1>1. ASSUME NEW p \in Pulses, IsrEnter(p)
        PROVE  TypeOK'
    BY <1>1 DEF IsrEnter
  <1>2. ASSUME NEW c \in Channels, CompletionIsr(c)
        PROVE  TypeOK'
    BY <1>2 DEF CompletionIsr, clr_intr, dispatchCompletion
  <1>3. ASSUME NEW c \in Channels, ErrorIsr(c)
        PROVE  TypeOK'
    BY <1>3 DEF ErrorIsr, clr_miss_evt, dispatchError
  <1>4. CASE CompletionIsrExit
    BY <1>4 DEF CompletionIsrExit, revaluateInterruptLine
  <1>5. CASE ErrorIsrExit
    BY <1>5 DEF ErrorIsrExit, CC_Err_evaluate
  <1>6. QED
    BY <1>1, <1>2, <1>3, <1>4, <1>5 DEF Isr

LEMMA HardwareTypeOK ==
  ASSUME TypeOK, NEW c \in Channels, Hardware(c)
  PROVE  TypeOK'
  <1> USE MaxCountAssumption
          DEF TypeOK, ccTypeOK, Modes, Steps, Fields, Links, Pulses, eventVars, intrVars,
              paramVars, softVars, objVars, flagVars, fgVars, isrVars, ghostVars, tagVars
  <1>1. CASE Event(c)
    BY <1>1 DEF Event, PeripheralEvent, ErrorPulse
  <1>2. CASE Submit(c)
    <2>1. paRAM[c] - 1 \in 0..MaxCount
      BY <1>2 DEF Submit, SubmitTransfer
    <2>2. paRAM' \in [Channels -> 0..MaxCount]
      BY <1>2, <2>1 DEF Submit, SubmitTransfer
    <2>3. ER' \subseteq Channels /\ ESR' \subseteq Channels /\ inflight' \subseteq Channels
      BY <1>2 DEF Submit, SubmitTransfer, TakeEvent
    <2>4. QED
      BY <1>2, <2>2, <2>3 DEF Submit, SubmitTransfer
  <1>3. CASE Exhausted(c)
    BY <1>3 DEF Exhausted, ExhaustedSet, TakeEvent, ErrorPulse
  <1>4. CASE Complete(c)
    BY <1>4 DEF Complete, CompleteTransfer, CompletionPulse
  <1>5. QED
    BY <1>1, <1>2, <1>3, <1>4 DEF Hardware

LEMMA StutterTypeOK ==
  ASSUME TypeOK, UNCHANGED vars
  PROVE  TypeOK'
  BY DEF TypeOK, ccTypeOK, vars, ccVars, eventVars, intrVars, paramVars, objVars, flagVars,
         fgVars, isrVars, ghostVars, tagVars

\* Every register, field and program point stays in its set, in any behaviour.
THEOREM DmaTypeOK == Spec => []TypeOK
  <1>1. TypeOK /\ [Next]_vars => TypeOK'
    BY MethodCallTypeOK, MethodStepTypeOK, IsrTypeOK, HardwareTypeOK, StutterTypeOK DEF Next
  <1>2. QED
    BY InitTypeOK, <1>1, PTL DEF Spec

-----------------------------------------------------------------------------
(* Ownership of the hardware.  ReleasedIsQuiet and EventEnableKnown are not  *)
(* inductive by themselves: they need to know what the method in progress   *)
(* has already done to the registers of its channel.                        *)

\* A method in progress works on an allocated channel; free() has disabled
\* peripheral events before it masks the interrupt, and has masked it before
\* it unregisters; trigger() in manual mode never finds them enabled.
MethodInv ==
    /\ pc # "idle" => cur \in is_allocated
    /\ pc \in {"iecr", "icr", "unregister"} => cur \notin EER
    /\ pc \in {"icr", "unregister"} => cur \notin IER
    /\ pc \in {"reset_done", "reset_error", "enable", "eesr"} =>
          (cur \in EER => arg = "EVENT")
    /\ pc = "eesr" => arg = "EVENT"
    /\ pc = "eecr" => m_trigger_mode[cur] = "EVENT"

OwnershipInv ==
    /\ TypeOK
    /\ EventEnableKnown
    /\ m_transfer_enabled \subseteq is_allocated
    /\ \A c \in Channels \ is_allocated : c \notin IER /\ handlers[c] = {}
    /\ MethodInv

LEMMA InitOwnership == Init => OwnershipInv
  BY InitTypeOK DEF Init, ccInit, OwnershipInv, EventEnableKnown, MethodInv

LEMMA MethodCallOwnership ==
  ASSUME OwnershipInv, NEW c \in Channels, MethodCall(c)
  PROVE  OwnershipInv'
  <1>1. TypeOK'
    BY MethodCallTypeOK DEF OwnershipInv
  <1> USE <1>1 DEF OwnershipInv, EventEnableKnown, MethodInv, TypeOK, ccTypeOK, Call, ccVars,
              eventVars, intrVars, paramVars, objVars, isrVars, ghostVars
  <1>2. CASE InitChannel(c)
    BY <1>2 DEF InitChannel, enable_evt_intr
  <1>3. CASE ConfigureRejected(c) \/ Stop(c) \/ Free(c) \/ WaitReturns(c)
    BY <1>3 DEF ConfigureRejected, Stop, Free, WaitReturns
  <1>4. ASSUME NEW n \in 1..MaxCount, NEW l \in Links, Configure(c, n, l)
        PROVE  OwnershipInv'
    BY <1>4 DEF Configure
  <1>5. ASSUME NEW m \in TriggerModes, Trigger(c, m)
        PROVE  OwnershipInv'
    BY <1>5 DEF Trigger
  <1>6. QED
    BY <1>2, <1>3, <1>4, <1>5 DEF MethodCall

LEMMA MethodStepOwnership ==
  ASSUME OwnershipInv, MethodStep
  PROVE  OwnershipInv'
  <1>1. TypeOK'
    BY MethodStepTypeOK DEF OwnershipInv
  <1> USE <1>1 DEF OwnershipInv, EventEnableKnown, MethodInv, TypeOK, ccTypeOK, Step, ccVars,
              eventVars, intrVars, paramVars, objVars, isrVars, ghostVars
  <1>2. CASE RegisterComplete \/ RegisterError \/ RegisterContext
    BY <1>2 DEF RegisterComplete, RegisterError, RegisterContext, RegisterHandler
  <1>3. CASE DisableManual
    BY <1>3 DEF DisableManual, Disabled
  <1>4. CASE DisableEvent
    BY <1>4 DEF DisableEvent, Modes
  <1>5. CASE DisableEventEnable
    BY <1>5 DEF DisableEventEnable, Disabled, disable_DMA_event
  <1>6. CASE ResetDone \/ ResetError
    BY <1>6 DEF ResetDone, ResetError
  <1>7. CASE EnableManual
    BY <1>7 DEF EnableManual, Started
  <1>8. CASE EnableEvent
    BY <1>8 DEF EnableEvent
  <1>9. CASE EnableEventEnable
    BY <1>9 DEF EnableEventEnable, Started, enable_DMA_event
  <1>10. CASE FreeMaskInterrupt \/ FreeClearInterrupt
    BY <1>10 DEF FreeMaskInterrupt, FreeClearInterrupt, disable_evt_intr, clr_intr
  <1>11. ASSUME NEW f \in Fields, UnregisterField(f)
         PROVE  OwnershipInv'
    BY <1>11 DEF UnregisterField
  <1>12. QED
    BY <1>2, <1>3, <1>4, <1>5, <1>6, <1>7, <1>8, <1>9, <1>10, <1>11 DEF MethodStep

\* Service routines and hardware touch neither the ownership of a channel nor
\* its enables, so they cannot disturb the invariant.
LEMMA OthersOwnership ==
  ASSUME OwnershipInv, TypeOK',
         UNCHANGED <<EER, IER, is_allocated, m_trigger_mode, m_transfer_enabled, handlers, fgVars>>
  PROVE  OwnershipInv'
  BY DEF OwnershipInv, EventEnableKnown, MethodInv, fgVars

LEMMA OwnershipStep == OwnershipInv /\ [Next]_vars => OwnershipInv'
  <1> SUFFICES ASSUME OwnershipInv, [Next]_vars
               PROVE  OwnershipInv'
    OBVIOUS
  <1>1. ASSUME NEW c \in Channels, MethodCall(c)
        PROVE  OwnershipInv'
    BY <1>1, MethodCallOwnership
  <1>2. CASE MethodStep
    BY <1>2, MethodStepOwnership
  <1>3. CASE Isr
    <2>1. TypeOK'
      BY <1>3, IsrTypeOK DEF OwnershipInv
    <2>2. UNCHANGED <<EER, IER, is_allocated, m_trigger_mode, m_transfer_enabled, handlers, fgVars>>
      BY <1>3 DEF Isr, IsrEnter, CompletionIsr, CompletionIsrExit, ErrorIsr, ErrorIsrExit,
                  eventVars, intrVars, objVars
    <2>3. QED
      BY <2>1, <2>2, OthersOwnership
  <1>4. ASSUME NEW c \in Channels, Hardware(c)
        PROVE  OwnershipInv'
    <2>1. TypeOK'
      BY <1>4, HardwareTypeOK DEF OwnershipInv
    <2>2. UNCHANGED <<EER, IER, is_allocated, m_trigger_mode, m_transfer_enabled, handlers, fgVars>>
      BY <1>4 DEF Hardware, Event, PeripheralEvent, Submit, SubmitTransfer, Exhausted,
                  ExhaustedSet, Complete, CompleteTransfer, softVars, eventVars, intrVars, objVars
    <2>3. QED
      BY <2>1, <2>2, OthersOwnership
  <1>5. CASE UNCHANGED vars
    <2>1. TypeOK'
      BY <1>5, StutterTypeOK DEF OwnershipInv
    <2>2. UNCHANGED <<EER, IER, is_allocated, m_trigger_mode, m_transfer_enabled, handlers, fgVars>>
      BY <1>5 DEF vars, ccVars, eventVars, intrVars, objVars
    <2>3. QED
      BY <2>1, <2>2, OthersOwnership
  <1>6. QED
    BY <1>1, <1>2, <1>3, <1>4, <1>5 DEF Next

LEMMA OwnershipAlways == Spec => []OwnershipInv
  BY InitOwnership, OwnershipStep, PTL DEF Spec

\* A channel no object owns is disabled, masked and without a handler, however
\* its owner used it before free().
THEOREM DmaReleasedIsQuiet == Spec => []ReleasedIsQuiet
  <1>1. OwnershipInv => ReleasedIsQuiet
    BY DEF OwnershipInv, EventEnableKnown, ReleasedIsQuiet, TypeOK, ccTypeOK
  <1>2. QED
    BY OwnershipAlways, <1>1, PTL

\* An enabled peripheral event always has an owner that will disable it with
\* the right register.
THEOREM DmaEventEnableKnown == Spec => []EventEnableKnown
  <1>1. OwnershipInv => EventEnableKnown
    BY DEF OwnershipInv
  <1>2. QED
    BY OwnershipAlways, <1>1, PTL

\* No service routine writes into a released object.
THEOREM DmaNoCallbackAfterRelease == Spec => NoCallbackAfterRelease
  <1> DEFINE Safe(c) == /\ c \in m_transfer_done' <=> c \in m_transfer_done
                        /\ c \in m_transfer_error' <=> c \in m_transfer_error
             Quiet == \A c \in Channels \ is_allocated : isr # "none" => Safe(c)
  <1>1. OwnershipInv /\ [Next]_vars => Quiet
    <2> SUFFICES ASSUME OwnershipInv, [Next]_vars,
                        NEW c \in Channels \ is_allocated, isr # "none"
                 PROVE  Safe(c)
      OBVIOUS
    <2>0. handlers[c] = {}
      BY DEF OwnershipInv
    <2>1. ASSUME NEW d \in Channels, MethodCall(d)
          PROVE  Safe(c)
      BY <2>1 DEF MethodCall, InitChannel, ConfigureRejected, Stop, Free, WaitReturns,
                  Configure, Trigger, Call, Foreground
    <2>2. CASE MethodStep
      BY <2>2 DEF MethodStep, RegisterComplete, RegisterError, RegisterContext, RegisterHandler,
                  DisableManual, DisableEvent, DisableEventEnable, ResetDone, ResetError,
                  EnableManual, EnableEvent, EnableEventEnable, FreeMaskInterrupt,
                  FreeClearInterrupt, UnregisterField, Step, Foreground
    <2>3. ASSUME NEW d \in Channels, CompletionIsr(d)
          PROVE  Safe(c)
      BY <2>0, <2>3 DEF CompletionIsr, dispatchCompletion
    <2>4. ASSUME NEW d \in Channels, ErrorIsr(d)
          PROVE  Safe(c)
      BY <2>0, <2>4 DEF ErrorIsr, dispatchError, flagVars
    <2>5. CASE (\E p \in Pulses : IsrEnter(p)) \/ CompletionIsrExit \/ ErrorIsrExit
      BY <2>5 DEF IsrEnter, CompletionIsrExit, ErrorIsrExit, flagVars
    <2>6. ASSUME NEW d \in Channels, Hardware(d)
          PROVE  Safe(c)
      BY <2>6 DEF Hardware, Event, Submit, Exhausted, Complete, softVars, flagVars
    <2>7. CASE UNCHANGED vars
      BY <2>7 DEF vars, flagVars
    <2>8. QED
      BY <2>1, <2>2, <2>3, <2>4, <2>5, <2>6, <2>7 DEF Next, Isr
  <1>2. OwnershipInv /\ [Next]_vars => [Quiet]_vars
    BY <1>1
  <1>3. QED
    BY OwnershipAlways, <1>2, PTL DEF Spec, NoCallbackAfterRelease

-----------------------------------------------------------------------------
(* Success is current.  A disciplined caller with prompt interrupts never    *)
(* meets the completion of an earlier trigger(): whatever a stopped or ended *)
(* transfer left behind is gone before the channel can be started again.     *)

\* A method never works on a channel whose caller waits; trigger() finds its
\* channel stopped and armed, and its flags stay reset once it has reset them.
CallInv ==
    /\ pc # "idle" => cur \notin running
    /\ pc \in {"disable", "eecr"} => continue # "trigger"
    /\ pc \in {"reset_done", "reset_error", "enable", "eesr"} =>
          (cur \notin m_transfer_enabled \union m_transfer_error /\ paRAM[cur] > 0)
    /\ pc \in {"reset_error", "enable", "eesr"} => cur \notin m_transfer_done

\* A software event not yet taken is the only trace of its transfer.
SoftInv ==
    \A c \in ESR :
        /\ c \in running
        /\ paRAM[c] > 0
        /\ c \notin m_transfer_error \union m_transfer_done \union EER \union inflight \union IPR

\* A missed event is one of an enabled channel, and the error line tells of it;
\* a service routine only visits bits that were set when it was entered.
LineInv ==
    /\ EMR \subseteq EER
    /\ (EMR # {}) => ("error" \in irq \/ isr = "error")
    /\ (isr = "error") => (todo \subseteq EER)
    /\ (isr = "completion") => (todo \subseteq IPR)

\* Nothing of a channel without a waiting caller is under way, and its
\* peripheral can start nothing.
IdleInv ==
    \A c \in Channels \ (running \union m_transfer_error) :
        /\ c \notin inflight \union IPR
        /\ c \in EER => paRAM[c] = 0

\* The request, interrupt and flag of a waiting caller's channel are those of
\* its latest trigger(), at most one of the three exists, and the set is
\* exhausted once one of them does.
TagInv ==
    \A c \in running \ m_transfer_error :
        /\ c \in inflight => (c \in currentFlight /\ c \notin IPR)
        /\ c \in IPR => c \in currentIPR
        /\ c \in m_transfer_done => (c \in currentDone /\ c \notin inflight \union IPR)
        /\ c \in inflight \union IPR \union m_transfer_done => paRAM[c] = 0

CurrentInv == OwnershipInv /\ CallInv /\ SoftInv /\ LineInv /\ IdleInv /\ TagInv

LEMMA InitCurrent == Init => CurrentInv
  BY InitOwnership
     DEF Init, ccInit, CurrentInv, CallInv, SoftInv, LineInv, IdleInv, TagInv

LEMMA MethodCallCurrent ==
  ASSUME CurrentInv, Disciplined, PromptIrq, NEW c \in Channels, MethodCall(c)
  PROVE  CurrentInv'
  <1>1. OwnershipInv'
    BY MethodCallOwnership DEF CurrentInv
  <1> USE <1>1 DEF CurrentInv, OwnershipInv, TypeOK, ccTypeOK, EventEnableKnown, CallInv, SoftInv,
              LineInv, IdleInv, TagInv, Call, Foreground, MayReuse, MayRearm, ccVars, eventVars,
              intrVars, paramVars, objVars, flagVars, isrVars, ghostVars, tagVars
  <1>2. CASE InitChannel(c)
    BY <1>2 DEF InitChannel, enable_evt_intr, CompletionPulse
  <1>3. CASE ConfigureRejected(c) \/ Stop(c) \/ Free(c)
    BY <1>3 DEF ConfigureRejected, Stop, Free
  <1>4. CASE WaitReturns(c)
    BY <1>4 DEF WaitReturns
  <1>5. ASSUME NEW n \in 1..MaxCount, NEW l \in Links, Configure(c, n, l)
        PROVE  CurrentInv'
    BY <1>5, MaxCountAssumption DEF Configure, set_paRAM
  <1>6. ASSUME NEW m \in TriggerModes, Trigger(c, m)
        PROVE  CurrentInv'
    BY <1>6 DEF Trigger
  <1>7. QED
    BY <1>2, <1>3, <1>4, <1>5, <1>6 DEF MethodCall

LEMMA MethodStepCurrent ==
  ASSUME CurrentInv, Disciplined, PromptIrq, MethodStep
  PROVE  CurrentInv'
  <1>1. OwnershipInv'
    BY MethodStepOwnership DEF CurrentInv
  <1> USE <1>1 DEF CurrentInv, OwnershipInv, MethodInv, TypeOK, ccTypeOK, EventEnableKnown, CallInv,
              SoftInv, LineInv, IdleInv, TagInv, Step, Foreground, ccVars, eventVars,
              intrVars, paramVars, objVars, flagVars, isrVars, ghostVars, tagVars
  <1>2. CASE RegisterComplete \/ RegisterError \/ RegisterContext
    BY <1>2 DEF RegisterComplete, RegisterError, RegisterContext, RegisterHandler
  <1>3. CASE DisableManual
    BY <1>3 DEF DisableManual, Disabled, clr_event
  <1>4. CASE DisableEvent
    BY <1>4 DEF DisableEvent, clr_miss_evt
  <1>5. CASE DisableEventEnable
    BY <1>5 DEF DisableEventEnable, Disabled, disable_DMA_event
  <1>6. CASE ResetDone
    BY <1>6 DEF ResetDone
  <1>7. CASE ResetError
    BY <1>7 DEF ResetError
  <1>8. CASE EnableManual
    BY <1>8 DEF EnableManual, Started, set_event
  <1>9. CASE EnableEvent
    BY <1>9 DEF EnableEvent, clr_miss_evt
  <1>10. CASE EnableEventEnable
    BY <1>10 DEF EnableEventEnable, Started, enable_DMA_event
  <1>11. CASE FreeMaskInterrupt
    BY <1>11 DEF FreeMaskInterrupt, disable_evt_intr
  <1>12. CASE FreeClearInterrupt
    BY <1>12 DEF FreeClearInterrupt, clr_intr
  <1>13. ASSUME NEW f \in Fields, UnregisterField(f)
         PROVE  CurrentInv'
    BY <1>13 DEF UnregisterField
  <1>14. QED
    BY <1>2, <1>3, <1>4, <1>5, <1>6, <1>7, <1>8, <1>9, <1>10, <1>11, <1>12, <1>13 DEF MethodStep

LEMMA IsrCurrent ==
  ASSUME CurrentInv, OwnershipInv', Isr
  PROVE  CurrentInv'
  <1> USE DEF CurrentInv, OwnershipInv, TypeOK, ccTypeOK, EventEnableKnown, CallInv,
              SoftInv, LineInv, IdleInv, TagInv, Pulses, eventVars, intrVars, paramVars, objVars,
              flagVars, fgVars, ghostVars, tagVars
  <1>1. ASSUME NEW p \in Pulses, IsrEnter(p)
        PROVE  CurrentInv'
    BY <1>1 DEF IsrEnter
  <1>2. ASSUME NEW c \in Channels, CompletionIsr(c)
        PROVE  CurrentInv'
    BY <1>2 DEF CompletionIsr, clr_intr, dispatchCompletion
  <1>3. ASSUME NEW c \in Channels, ErrorIsr(c)
        PROVE  CurrentInv'
    BY <1>3 DEF ErrorIsr, clr_miss_evt, dispatchError
  <1>4. CASE CompletionIsrExit
    BY <1>4 DEF CompletionIsrExit, revaluateInterruptLine
  <1>5. CASE ErrorIsrExit
    BY <1>5 DEF ErrorIsrExit, CC_Err_evaluate
  <1>6. QED
    BY <1>1, <1>2, <1>3, <1>4, <1>5 DEF Isr

LEMMA HardwareCurrent ==
  ASSUME CurrentInv, OwnershipInv', NEW c \in Channels, Hardware(c)
  PROVE  CurrentInv'
  <1> USE DEF CurrentInv, OwnershipInv, TypeOK, ccTypeOK, EventEnableKnown, CallInv,
              SoftInv, LineInv, IdleInv, TagInv, eventVars, intrVars, paramVars, softVars, objVars,
              flagVars, fgVars, isrVars, ghostVars, tagVars
  <1>1. CASE Event(c)
    BY <1>1 DEF Event, PeripheralEvent, ErrorPulse
  <1>2. CASE Submit(c)
    BY <1>2 DEF Submit, SubmitTransfer, TakeEvent
  <1>3. CASE Exhausted(c)
    BY <1>3 DEF Exhausted, ExhaustedSet, TakeEvent, ErrorPulse
  <1>4. CASE Complete(c)
    BY <1>4 DEF Complete, CompleteTransfer, CompletionPulse
  <1>5. QED
    BY <1>1, <1>2, <1>3, <1>4 DEF Hardware

LEMMA StutterCurrent ==
  ASSUME CurrentInv, UNCHANGED vars
  PROVE  CurrentInv'
  <1>1. OwnershipInv'
    BY OwnershipStep DEF CurrentInv
  <1>2. QED
    BY <1>1 DEF CurrentInv, CallInv, SoftInv, LineInv, IdleInv, TagInv, vars, ccVars, eventVars,
                intrVars, paramVars, objVars, flagVars, fgVars, isrVars, ghostVars, tagVars

LEMMA CurrentStep ==
  ASSUME Disciplined, PromptIrq
  PROVE  CurrentInv /\ [Next]_vars => CurrentInv'
  <1> SUFFICES ASSUME CurrentInv, [Next]_vars
               PROVE  CurrentInv'
    OBVIOUS
  <1>0. OwnershipInv'
    BY OwnershipStep DEF CurrentInv
  <1>1. ASSUME NEW c \in Channels, MethodCall(c)
        PROVE  CurrentInv'
    BY <1>1, MethodCallCurrent
  <1>2. CASE MethodStep
    BY <1>2, MethodStepCurrent
  <1>3. CASE Isr
    BY <1>0, <1>3, IsrCurrent
  <1>4. ASSUME NEW c \in Channels, Hardware(c)
        PROVE  CurrentInv'
    BY <1>0, <1>4, HardwareCurrent
  <1>5. CASE UNCHANGED vars
    BY <1>5, StutterCurrent
  <1>6. QED
    BY <1>1, <1>2, <1>3, <1>4, <1>5 DEF Next

\* The success wait_completion() reports to a disciplined caller, whose
\* interrupts are served before its next method step, is that of the transfer
\* it triggered last.
THEOREM DmaSuccessIsCurrent ==
  ASSUME Disciplined, PromptIrq
  PROVE  Spec => []SuccessIsCurrent
  <1>1. Init => CurrentInv
    BY InitCurrent
  <1>2. CurrentInv /\ [Next]_vars => CurrentInv'
    BY CurrentStep
  <1>3. CurrentInv => SuccessIsCurrent
    BY DEF CurrentInv, TagInv, SuccessIsCurrent, OwnershipInv, TypeOK
  <1>4. QED
    BY <1>1, <1>2, <1>3, PTL DEF Spec

-----------------------------------------------------------------------------
(* QDMA channels. *)

Triggering == {"reset_done", "reset_error", "enable"}

-----------------------------------------------------------------------------
(* Errors and their owners. *)

\* What the next invariants need to know of the ranges, and which kind of
\* object a method works on.
RangeInv ==
    /\ handlers \in [Channels -> SUBSET Fields]
    /\ set \in [Qdma -> Sets]
    /\ want \in Sets
    /\ QER \subseteq Qdma /\ QEMR \subseteq Qdma /\ qtodo \subseteq Qdma
    /\ named \subseteq Qdma /\ armed \subseteq Qdma
    /\ arg \in {"MANUAL", "QDMA"}
    /\ isr \in {"none", "qdma_error"} \union Pulses
    /\ pc # "idle" => cur \in Channels
    /\ continue \in {"stop", "trigger", "free"}
    /\ pc \in {"q_clear", "q_write"} => cur \in Qdma
    /\ pc \in {"disable", "eecr"} => cur \notin Qdma
    /\ arg = "QDMA" => cur \in Qdma /\ pc \in Triggering
    /\ arg = "MANUAL" /\ pc \in Triggering => cur \notin Qdma

\* A set that has lost its code has nothing under way and is not triggered
\* again before it is configured; one that will lose it carries one event.
SetInv ==
    /\ \A c \in Qdma :
          /\ c \notin named => c \notin QER \union QEMR \union armed
          /\ set[c] = "single" => c \notin QEMR /\ (c \in armed => c \notin QER)
    /\ pc = "q_write" => cur \notin QER \union QEMR
    /\ arg = "QDMA" => cur \in armed

\* The snapshot of QEMR is taken while the routine runs, and nobody else
\* clears a bit of QEMR meanwhile.
SnapshotInv ==
    /\ qtodo \subseteq QEMR
    /\ isr # "qdma_error" => qtodo = {}

OwnerInv == RangeInv /\ SetInv /\ SnapshotInv

LEMMA InitOwner == QInit => OwnerInv
  BY DEF QInit, Init, ccInit, OwnerInv, RangeInv, SetInv, SnapshotInv, Triggering, Fields, Sets,
             Pulses

LEMMA QdmaCallOwner ==
  ASSUME OwnerInv, Rearm, NEW c \in Qdma, QdmaCall(c)
  PROVE  OwnerInv'
  <1> USE QdmaAssumption
          DEF OwnerInv, RangeInv, SetInv, SnapshotInv, Triggering, Call, Foreground, sameSoft,
              ccVars, objVars, flagVars, isrVars, tagVars, queueVars, setVars, qghosts
  <1>1. CASE QdmaInit(c)
    BY <1>1 DEF QdmaInit
  <1>2. CASE QdmaConfigureRejected(c)
    BY <1>2 DEF QdmaConfigureRejected
  <1>3. CASE QdmaTrigger(c)
    BY <1>3 DEF QdmaTrigger
  <1>4. CASE QdmaWaitReturns(c)
    BY <1>4 DEF QdmaWaitReturns
  <1>5. CASE QdmaFree(c)
    BY <1>5 DEF QdmaFree
  <1>6. ASSUME NEW s \in Sets, QdmaConfigure(c, s)
        PROVE  OwnerInv'
    BY <1>6 DEF QdmaConfigure
  <1>7. QED
    BY <1>1, <1>2, <1>3, <1>4, <1>5, <1>6 DEF QdmaCall

LEMMA QdmaStepOwner ==
  ASSUME OwnerInv, QdmaStep \/ QdmaIsr
  PROVE  OwnerInv'
  <1> USE QdmaAssumption
          DEF OwnerInv, RangeInv, SetInv, SnapshotInv, Triggering, Step, Foreground, sameSoft,
              ccVars, objVars, flagVars, fgVars, isrVars, tagVars, ghostVars, queueVars, setVars,
              qghosts, qvars, Pulses
  <1>1. CASE QdmaConfigureClear
    BY <1>1 DEF QdmaConfigureClear, QDMA_clr_miss_evt
  <1>2. CASE QdmaConfigureWrite
    BY <1>2 DEF QdmaConfigureWrite, Sets
  <1>3. CASE QdmaWriteTrigger
    BY <1>3 DEF QdmaWriteTrigger
  <1>4. CASE QdmaErrorRead
    BY <1>4 DEF QdmaErrorRead
  <1>5. ASSUME NEW c \in Qdma, QdmaErrorIsr(c)
        PROVE  OwnerInv'
    BY <1>5 DEF QdmaErrorIsr, QDMA_clr_miss_evt
  <1>6. CASE QdmaErrorIsrExit
    BY <1>6 DEF QdmaErrorIsrExit
  <1>7. QED
    BY <1>1, <1>2, <1>3, <1>4, <1>5, <1>6 DEF QdmaStep, QdmaIsr

LEMMA QdmaHardwareOwner ==
  ASSUME OwnerInv, NEW c \in Qdma, QdmaSubmit(c) \/ QdmaNull(c)
  PROVE  OwnerInv'
  <1> USE DEF OwnerInv, RangeInv, SetInv, SnapshotInv, hardSame, softVars, eventVars, fgVars,
              isrVars, setVars, qghosts, Sets
  <1>1. CASE QdmaSubmit(c)
    BY <1>1 DEF QdmaSubmit
  <1>2. CASE QdmaNull(c)
    BY <1>2 DEF QdmaNull
  <1>3. QED
    BY <1>1, <1>2

\* The DmaChannel objects share the foreground and the service routines.
LEMMA DmaOwner ==
  ASSUME OwnerInv, DmaNext
  PROVE  OwnerInv'
  <1> USE QdmaAssumption
          DEF OwnerInv, RangeInv, SetInv, SnapshotInv, Triggering, ccVars, objVars, flagVars,
              fgVars, isrVars, ghostVars, tagVars, softVars, queueVars, setVars, qghosts, qvars
  <1>0. UNCHANGED qvars
    BY DEF DmaNext
  <1>1. ASSUME NEW c \in Channels \ Qdma, DmaCall(c)
        PROVE  OwnerInv'
    <2> USE DEF Call, Foreground
    <2>1. CASE InitChannel(c) \/ Stop(c) \/ Free(c) \/ WaitReturns(c)
      BY <1>0, <2>1 DEF InitChannel, Stop, Free, WaitReturns
    <2>2. CASE Trigger(c, "MANUAL")
      BY <1>0, <1>1, <2>2 DEF Trigger
    <2>3. CASE \E n \in 1..MaxCount : Configure(c, n, "null")
      BY <1>0, <2>3 DEF Configure
    <2>4. QED
      BY <1>1, <2>1, <2>2, <2>3 DEF DmaCall
  <1>2. CASE MethodStep
    <2> USE DEF Step, Foreground
    <2>1. CASE RegisterComplete \/ RegisterError \/ RegisterContext
      BY <1>0, <2>1 DEF RegisterComplete, RegisterError, RegisterContext, RegisterHandler, Fields
    <2>2. CASE DisableManual \/ DisableEvent \/ DisableEventEnable
      BY <1>0, <2>2 DEF DisableManual, DisableEvent, DisableEventEnable, Disabled
    <2>3. CASE ResetDone \/ ResetError
      BY <1>0, <2>3 DEF ResetDone, ResetError
    <2>4. CASE EnableManual \/ EnableEvent \/ EnableEventEnable
      BY <1>0, <2>4 DEF EnableManual, EnableEvent, EnableEventEnable, Started
    <2>5. CASE FreeMaskInterrupt \/ FreeClearInterrupt
      BY <1>0, <2>5 DEF FreeMaskInterrupt, FreeClearInterrupt
    <2>6. ASSUME NEW f \in Fields, UnregisterField(f)
          PROVE  OwnerInv'
      BY <1>0, <2>6 DEF UnregisterField
    <2>7. QED
      BY <1>2, <2>1, <2>2, <2>3, <2>4, <2>5, <2>6 DEF MethodStep
  <1>3. CASE DmaIsr
    BY <1>0, <1>3 DEF DmaIsr, IsrEnter, CompletionIsr, ErrorIsr, CompletionIsrExit, Pulses
  <1>4. ASSUME NEW c \in Channels, Submit(c) \/ Exhausted(c) \/ Complete(c)
        PROVE  OwnerInv'
    BY <1>0, <1>4 DEF Submit, Exhausted, Complete
  <1>5. QED
    BY <1>1, <1>2, <1>3, <1>4 DEF DmaNext

LEMMA OwnerStep ==
  ASSUME Rearm
  PROVE  OwnerInv /\ [QdmaNext]_edmaVars => OwnerInv'
  <1> SUFFICES ASSUME OwnerInv, [QdmaNext]_edmaVars
               PROVE  OwnerInv'
    OBVIOUS
  <1>1. CASE UNCHANGED edmaVars
    BY <1>1 DEF edmaVars, vars, fgVars, isrVars, qvars, queueVars, setVars, qghosts, OwnerInv,
                RangeInv, SetInv, SnapshotInv
  <1>2. QED
    BY <1>1, QdmaCallOwner, QdmaStepOwner, QdmaHardwareOwner, DmaOwner DEF QdmaNext

\* A missed QDMA event is reported to the object it belongs to and to nobody
\* else, whatever sets the callers configure and however often they trigger.
THEOREM QdmaMissReachesOwner ==
  ASSUME Rearm
  PROVE  QdmaSpec => MissReachesOwner
  <1> DEFINE Reported(c) ==
               /\ handlers[c] = Fields => c \in m_transfer_error'
               /\ \A d \in Channels \ {c} :
                     d \in m_transfer_done' \union m_transfer_error'
                         => d \in m_transfer_done \union m_transfer_error
             Reports == \A c \in Qdma : c \in qtodo \ qtodo' => Reported(c)
  <1>1. OwnerInv /\ [QdmaNext]_edmaVars => Reports
    <2> SUFFICES ASSUME OwnerInv, [QdmaNext]_edmaVars, NEW c \in Qdma, c \in qtodo, c \notin qtodo'
                 PROVE  Reported(c)
      BY DEF Reports
    <2>1. QdmaErrorIsr(c)
      BY DEF OwnerInv, SnapshotInv, QdmaNext, DmaNext, QdmaCall, QdmaInit, QdmaConfigureRejected,
             QdmaTrigger, QdmaWaitReturns, QdmaFree, QdmaConfigure, sameSoft, QdmaSubmit, QdmaNull,
             hardSame, QdmaStep, QdmaConfigureClear, QdmaConfigureWrite, QdmaWriteTrigger,
             QdmaIsr, QdmaErrorRead, QdmaErrorIsr, QdmaErrorIsrExit, qvars, edmaVars
    <2>2. c \in named
      BY DEF OwnerInv, SnapshotInv, SetInv
    <2>3. dispatchError(c)
      BY <2>1, <2>2 DEF QdmaErrorIsr, TccOf
    <2>4. QED
      BY <2>3 DEF dispatchError, Fields, flagVars
  <1>2. OwnerInv /\ [QdmaNext]_edmaVars => [Reports]_edmaVars
    BY <1>1
  <1>3. QED
    BY InitOwner, OwnerStep, <1>2, PTL DEF QdmaSpec, MissReachesOwner

-----------------------------------------------------------------------------
(* Success is current. *)

\* A method on a DmaChannel object finds nobody waiting for it; trigger() has
\* reset what it has reset; a clean trigger() meets nothing of an earlier one.
QCallInv ==
    /\ pc # "idle" /\ cur \notin Qdma => cur \notin running
    /\ pc = "disable" => continue # "trigger"
    /\ pc \in Triggering /\ arg = "MANUAL" =>
          cur \notin m_transfer_enabled \union m_transfer_error /\ paRAM[cur] > 0
    /\ pc \in {"reset_error", "enable"} => cur \notin running
    /\ pc \in {"reset_error", "enable"} /\ (arg = "MANUAL" \/ clean) => cur \notin m_transfer_done
    /\ clean => arg = "QDMA" /\ cur \notin inflight \union QER \union QSER \union QEMR \union IPR
    /\ pc \notin {"eecr", "eesr"}

QRangeInv ==
    /\ EER = {} /\ EMR = {}
    /\ ESR \subseteq Channels \ Qdma
    /\ paRAM \in [Channels -> 0..MaxCount]
    /\ m_trigger_mode \in [Channels -> {"MANUAL"}]
    /\ inflight \subseteq Channels /\ IPR \subseteq Channels /\ running \subseteq Channels
    /\ m_transfer_done \subseteq Channels

QSoftInv ==
    \A c \in ESR :
        /\ c \in running
        /\ paRAM[c] > 0
        /\ c \notin m_transfer_error \union m_transfer_done \union inflight \union IPR

QLineInv ==
    /\ isr = "error" => todo = {}
    /\ isr = "completion" => todo \subseteq IPR

QIdleInv ==
    \A c \in Channels \ (Qdma \union running \union m_transfer_error) : c \notin inflight \union IPR

QTagInv ==
    \A c \in running \ m_transfer_error :
        /\ c \in inflight => c \in currentFlight /\ c \notin IPR
        /\ c \in IPR => c \in currentIPR
        /\ c \in m_transfer_done => c \in currentDone /\ c \notin inflight \union IPR
        /\ c \in inflight \union IPR \union m_transfer_done =>
              IF c \in Qdma THEN c \notin QER ELSE paRAM[c] = 0

QCurrentInv == OwnerInv /\ QRangeInv /\ QCallInv /\ QSoftInv /\ QLineInv /\ QIdleInv /\ QTagInv

LEMMA InitQCurrent == QInit => QCurrentInv
  BY InitOwner, MaxCountAssumption
     DEF QInit, Init, ccInit, QCurrentInv, QRangeInv, QCallInv, QSoftInv, QLineInv, QIdleInv,
         QTagInv, Triggering

LEMMA QdmaCallCurrent ==
  ASSUME QCurrentInv, Rearm, NEW c \in Qdma, QdmaCall(c)
  PROVE  QCurrentInv'
  <1>0. OwnerInv'
    BY QdmaCallOwner DEF QCurrentInv
  <1> USE <1>0, QdmaAssumption
          DEF QCurrentInv, OwnerInv, RangeInv, SnapshotInv, QRangeInv, QCallInv, QSoftInv, QLineInv,
              QIdleInv, QTagInv, Triggering, Call, Foreground, sameSoft, ccVars, eventVars, intrVars,
              paramVars, objVars, flagVars, isrVars, tagVars, queueVars, setVars, qghosts
  <1>1. CASE QdmaInit(c)
    BY <1>1 DEF QdmaInit, enable_evt_intr
  <1>2. CASE QdmaConfigureRejected(c)
    BY <1>2 DEF QdmaConfigureRejected
  <1>3. CASE QdmaTrigger(c)
    BY <1>3 DEF QdmaTrigger
  <1>4. CASE QdmaWaitReturns(c)
    BY <1>4 DEF QdmaWaitReturns
  <1>5. CASE QdmaFree(c)
    BY <1>5 DEF QdmaFree
  <1>6. ASSUME NEW s \in Sets, QdmaConfigure(c, s)
        PROVE  QCurrentInv'
    BY <1>6 DEF QdmaConfigure
  <1>7. QED
    BY <1>1, <1>2, <1>3, <1>4, <1>5, <1>6 DEF QdmaCall

LEMMA QdmaStepCurrent ==
  ASSUME QCurrentInv, QdmaStep \/ QdmaIsr
  PROVE  QCurrentInv'
  <1>0. OwnerInv'
    BY QdmaStepOwner DEF QCurrentInv
  <1> USE <1>0, QdmaAssumption
          DEF QCurrentInv, OwnerInv, RangeInv, SetInv, SnapshotInv, QRangeInv, QCallInv, QSoftInv,
              QLineInv, QIdleInv, QTagInv, Triggering, Step, Foreground, sameSoft, ccVars, eventVars,
              intrVars, paramVars, objVars, flagVars, fgVars, isrVars, ghostVars, tagVars,
              queueVars, setVars, qghosts, qvars
  <1>1. CASE QdmaConfigureClear
    BY <1>1 DEF QdmaConfigureClear, QDMA_clr_miss_evt
  <1>2. CASE QdmaConfigureWrite
    BY <1>2 DEF QdmaConfigureWrite
  <1>3. CASE QdmaWriteTrigger
    BY <1>3 DEF QdmaWriteTrigger
  <1>4. CASE QdmaErrorRead
    BY <1>4 DEF QdmaErrorRead
  <1>5. ASSUME NEW c \in Qdma, QdmaErrorIsr(c)
        PROVE  QCurrentInv'
    <2>1. dispatchError(c)
      BY <1>5 DEF QdmaErrorIsr, TccOf
    <2>2. QED
      BY <1>5, <2>1 DEF QdmaErrorIsr, QDMA_clr_miss_evt, dispatchError
  <1>6. CASE QdmaErrorIsrExit
    BY <1>6 DEF QdmaErrorIsrExit
  <1>7. QED
    BY <1>1, <1>2, <1>3, <1>4, <1>5, <1>6 DEF QdmaStep, QdmaIsr

LEMMA QdmaHardwareCurrent ==
  ASSUME QCurrentInv, NEW c \in Qdma, QdmaSubmit(c) \/ QdmaNull(c)
  PROVE  QCurrentInv'
  <1>0. OwnerInv'
    BY QdmaHardwareOwner DEF QCurrentInv
  <1> USE <1>0, QdmaAssumption
          DEF QCurrentInv, OwnerInv, RangeInv, QRangeInv, QCallInv, QSoftInv, QLineInv, QIdleInv,
              QTagInv, Triggering, hardSame, softVars, eventVars, intrVars, paramVars, objVars,
              flagVars, fgVars, isrVars, ghostVars, tagVars, setVars, qghosts
  <1>1. CASE QdmaSubmit(c)
    BY <1>1 DEF QdmaSubmit
  <1>2. CASE QdmaNull(c)
    BY <1>2 DEF QdmaNull
  <1>3. QED
    BY <1>1, <1>2

LEMMA DmaCurrent ==
  ASSUME QCurrentInv, Disciplined, DmaNext
  PROVE  QCurrentInv'
  <1>0. OwnerInv' /\ UNCHANGED qvars
    BY DmaOwner DEF QCurrentInv, DmaNext
  <1> USE <1>0, QdmaAssumption, MaxCountAssumption
          DEF QCurrentInv, OwnerInv, RangeInv, QRangeInv, QCallInv, QSoftInv, QLineInv, QIdleInv,
              QTagInv, Triggering, ccVars, eventVars, intrVars, paramVars, objVars, flagVars,
              fgVars, isrVars, ghostVars, tagVars, softVars, queueVars, setVars, qghosts, qvars
  <1>1. ASSUME NEW c \in Channels \ Qdma, DmaCall(c)
        PROVE  QCurrentInv'
    <2> USE DEF Call, Foreground, MayReuse, MayRearm
    <2>1. CASE InitChannel(c)
      BY <1>1, <2>1 DEF InitChannel, enable_evt_intr
    <2>2. CASE Stop(c) \/ Free(c)
      BY <1>1, <2>2 DEF Stop, Free
    <2>3. CASE WaitReturns(c)
      BY <1>1, <2>3 DEF WaitReturns
    <2>4. CASE Trigger(c, "MANUAL")
      BY <1>1, <2>4 DEF Trigger
    <2>5. ASSUME NEW n \in 1..MaxCount, Configure(c, n, "null")
          PROVE  QCurrentInv'
      BY <1>1, <2>5 DEF Configure, set_paRAM
    <2>6. QED
      BY <1>1, <2>1, <2>2, <2>3, <2>4, <2>5 DEF DmaCall
  <1>2. CASE MethodStep
    <2> USE DEF Step, Foreground
    <2>1. CASE RegisterComplete \/ RegisterError \/ RegisterContext
      BY <2>1 DEF RegisterComplete, RegisterError, RegisterContext, RegisterHandler
    <2>2. CASE DisableManual
      BY <2>2 DEF DisableManual, Disabled, clr_event
    <2>3. CASE DisableEvent \/ DisableEventEnable
      BY <2>3 DEF DisableEvent, DisableEventEnable
    <2>4. CASE ResetDone
      BY <2>4 DEF ResetDone
    <2>5. CASE ResetError
      BY <2>5 DEF ResetError
    <2>6. CASE EnableManual
      BY <2>6 DEF EnableManual, Started, set_event
    <2>7. CASE EnableEvent \/ EnableEventEnable
      BY <2>7 DEF EnableEvent, EnableEventEnable
    <2>8. CASE FreeMaskInterrupt
      BY <2>8 DEF FreeMaskInterrupt, disable_evt_intr
    <2>9. CASE FreeClearInterrupt
      BY <2>9 DEF FreeClearInterrupt, clr_intr
    <2>10. ASSUME NEW f \in Fields, UnregisterField(f)
           PROVE  QCurrentInv'
      BY <2>10 DEF UnregisterField
    <2>11. QED
      BY <1>2, <2>1, <2>2, <2>3, <2>4, <2>5, <2>6, <2>7, <2>8, <2>9, <2>10 DEF MethodStep
  <1>3. ASSUME NEW p \in Pulses, IsrEnter(p)
        PROVE  QCurrentInv'
    BY <1>3 DEF IsrEnter, Pulses
  <1>4. ASSUME NEW c \in Channels, CompletionIsr(c)
        PROVE  QCurrentInv'
    BY <1>4 DEF CompletionIsr, clr_intr, dispatchCompletion
  <1>5. ASSUME NEW c \in Channels, ErrorIsr(c)
        PROVE  QCurrentInv'
    BY <1>5 DEF ErrorIsr
  <1>6. CASE CompletionIsrExit
    BY <1>6 DEF CompletionIsrExit
  <1>7. ASSUME NEW c \in Channels \ Qdma, Submit(c)
        PROVE  QCurrentInv'
    BY <1>7 DEF Submit, SubmitTransfer, TakeEvent
  <1>8. ASSUME NEW c \in Channels \ Qdma, Exhausted(c)
        PROVE  QCurrentInv'
    BY <1>8 DEF Exhausted, ExhaustedSet, TakeEvent
  <1>9. ASSUME NEW c \in Channels, Complete(c)
        PROVE  QCurrentInv'
    BY <1>9 DEF Complete, CompleteTransfer
  <1>10. QED
    BY <1>1, <1>2, <1>3, <1>4, <1>5, <1>6, <1>7, <1>8, <1>9 DEF DmaNext, DmaIsr

LEMMA QCurrentStep ==
  ASSUME Rearm, Disciplined
  PROVE  QCurrentInv /\ [QdmaNext]_edmaVars => QCurrentInv'
  <1> SUFFICES ASSUME QCurrentInv, [QdmaNext]_edmaVars
               PROVE  QCurrentInv'
    OBVIOUS
  <1>1. CASE UNCHANGED edmaVars
    <2>1. OwnerInv'
      BY OwnerStep DEF QCurrentInv
    <2>2. QED
      BY <1>1, <2>1 DEF edmaVars, vars, ccVars, eventVars, intrVars, paramVars, objVars, flagVars,
                  fgVars, isrVars, ghostVars, tagVars, qvars, queueVars, qghosts, QCurrentInv,
                  QRangeInv, QCallInv, QSoftInv, QLineInv, QIdleInv, QTagInv
  <1>2. QED
    BY <1>1, QdmaCallCurrent, QdmaStepCurrent, QdmaHardwareCurrent, DmaCurrent DEF QdmaNext

\* With objects of both kinds, interrupts however late, and QDMA callers who
\* trigger into transfers under way, a success that is reported is that of the
\* latest trigger(), provided nothing of an earlier one was left at it.
THEOREM QdmaSuccessIsCurrent ==
  ASSUME Rearm, Disciplined
  PROVE  QdmaSpec => []SuccessIsCurrent
  <1>1. QCurrentInv => SuccessIsCurrent
    BY DEF QCurrentInv, QTagInv, SuccessIsCurrent
  <1>2. QED
    BY InitQCurrent, QCurrentStep, <1>1, PTL DEF QdmaSpec

-----------------------------------------------------------------------------
(* The UART backend: where a call is. *)

Outside == {"idle", "init_rx", "free_tx", "free_rx"}
Freeing == {"disable", "eecr", "iecr", "icr", "unregister"}
Arming  == {"reset_done", "reset_error", "enable", "eesr"}

\* The DMA part of a call is triggered and not yet given up.
Underway == at \in {"disable", "halt", "halted"} \/ (at = "wait" /\ pc = "idle")

\* Its channel takes events.
Taking == Underway /\ (at = "halted" => pc # "idle")

\* A chunk-sized part is about to be triggered.
Before == at \in {"enable", "trigger"} \/ (at = "wait" /\ pc # "idle")

-----------------------------------------------------------------------------
(* The invariant. *)

BackendTypes ==
    /\ TypeOK
    /\ at \in Outside \union {"enable", "trigger", "wait", "disable", "halt", "halted", "tail"}
    /\ op \in {"none", "write", "read"}
    /\ {size, next} \subseteq Nat
    /\ m_initialized \in BOOLEAN /\ ok \in BOOLEAN /\ timedOut \in BOOLEAN
    /\ leftover \in BOOLEAN /\ dmaMode \in BOOLEAN
    /\ txPending \in 0..TxFifo /\ level \in 0..RxFifo
    /\ asked \subseteq Channels /\ moving \subseteq Channels /\ stale \subseteq Channels

\* Which method runs below each call, and what the calls before it have done to
\* the registers only the CPU writes.
CpuInv ==
    /\ at \in Outside <=> op = "none"
    /\ op # "none" => m_initialized /\ size \in Sizes
    /\ at = "init_rx" => Tx \in IER
    /\ m_initialized /\ at # "free_rx" => Channels \subseteq IER
    /\ at \in Outside =>
          /\ pc \in {"idle", "reg_complete", "reg_error", "reg_context"} \union Freeing
          /\ pc \in Freeing => at = "free_rx" \/ (at = "idle" /\ ~m_initialized)
          /\ pc \in {"disable", "eecr"} => continue = "free"
    /\ at \in {"enable", "trigger", "disable", "halt", "tail"} => pc = "idle"
    /\ at = "wait" /\ pc # "idle" => pc \in Arming /\ cur = chan /\ arg = "EVENT"
    /\ at = "halted" /\ pc # "idle" => pc \in {"disable", "eecr"} /\ cur = chan /\ continue = "stop"
    /\ at = "wait" => pc \in Arming \union {"idle"}
    /\ at = "halted" => pc \in {"disable", "eecr", "idle"}
    /\ EER = IF Taking THEN {chan} ELSE {}
    /\ m_transfer_enabled = EER
    /\ Taking => m_trigger_mode[chan] = "EVENT"
    /\ at \in {"trigger", "wait", "disable"} => dmaMode
    /\ at \in {"halt", "halted"} => ~dmaMode
    /\ ESR = {}

\* An error or an enabled completion always shows on its line, so that with
\* prompt interrupts none is left at a step of the CPU.
IrqInv ==
    /\ EMR \subseteq EER
    /\ EMR # {} => "error" \in irq \/ isr = "error"
    /\ IER \intersect IPR # {} => "completion" \in irq \/ isr = "completion"
    /\ isr = "error" => todo \subseteq EMR
    /\ isr = "completion" => todo \subseteq IPR

\* The requests in the controller are those of the call in progress, and those
\* abandoned by earlier ones.
FlowInv ==
    /\ stale \subseteq moving \union inflight
    /\ moving \intersect inflight = {}
    /\ moving \union inflight \subseteq stale \union (IF Underway THEN {chan} ELSE {})
    /\ op # "none" /\ ~leftover => chan \notin stale

\* The DMA part has moved all its chunks.
Finished == paRAM[chan] = 0 /\ chan \notin moving \union inflight

\* The FIFO has what a request promises.
Fits == IF chan = Tx THEN TxFifo - txPending >= Chunk ELSE level >= Level

\* The first n bytes, and no others, are where they belong.
Contents(n) == IF op = "write" THEN out = [i \in 1..n |-> i]
               ELSE got = n /\ data = [i \in 1..size |-> IF i <= n THEN i ELSE 0]

\* How many chunks have been moved.
chunks == size \div Chunk - paRAM[chan] - (IF chan \in moving \union inflight THEN 1 ELSE 0)

\* Nothing has moved, and nothing of an earlier call will be taken for a byte,
\* a completion or an error of this one.
Armed ==
    /\ paRAM[chan] = size \div Chunk
    /\ Contents(0)
    /\ chan \in ER => chan \in Supplied
    /\ op = "write" => link[chan] = "dummy"
    /\ pc \in {"reset_error", "enable", "eesr"} => chan \notin m_transfer_done \union IPR
    /\ pc \in {"enable", "eesr"} => chan \notin m_transfer_error

\* A chunk is requested once and moved whole, before the next one is requested;
\* done and error mean that all have been moved, and a further one asked for.
Going ==
    /\ chunks >= 0 /\ Contents(chunks * Chunk)
    /\ chan \in moving => paRAM[chan] > 0
    /\ chan \in inflight => paRAM[chan] = 0
    /\ chan \in ER => chan \notin moving \union inflight
    /\ chan \in ER \union moving \union inflight => Fits /\ (dmaMode => chan \in asked)
    /\ chan \in IPR \union (m_transfer_done \ m_transfer_error) => Finished
    /\ op = "write" => link[chan] = "dummy" /\ chan \notin EMR \union m_transfer_error
    /\ chan \in EMR \union m_transfer_error => Finished /\ level >= Level
    /\ at # "wait" => /\ ok => Finished
                      /\ ~ok => timedOut \/ (op = "read" /\ level >= Level /\ Finished)

Tailing == next <= size /\ Contents(next)

ExactInv ==
    /\ op = "none" => out = <<>> /\ got = 0
    /\ op # "none" /\ ~leftover =>
          /\ at # "tail" => next = dma_size(size)
          /\ Before => Armed
          /\ Underway => Going
          /\ at = "tail" => Tailing

BackendInv == BackendTypes /\ CpuInv /\ IrqInv /\ FlowInv /\ ExactInv

-----------------------------------------------------------------------------
(* Arithmetic. *)

LEMMA ProductIsNat == \A a, b \in Nat : a * b \in Nat
  BY SMT

LEMMA NextProduct == \A a, b \in Nat : (a + 1) * b = a * b + b
  BY SMT

\* The whole chunks of a transfer, and what they leave to the CPU.
LEMMA DivMod ==
  ASSUME NEW n \in Nat, NEW d \in Nat, d > 0
  PROVE  /\ n \div d \in Nat
         /\ n % d \in 0..(d - 1)
         /\ n - (n % d) = (n \div d) * d
         /\ n < d => n % d = n
         /\ n >= d => n \div d >= 1
  <1>1. n \div d \in Nat /\ n % d \in 0..(d - 1)
    BY SMT
  <1>2. n - (n % d) = (n \div d) * d
    BY SMT
  <1>3. n < d => n % d = n
    BY SMT
  <1>4. n >= d => n \div d >= 1
    BY SMT
  <1>5. QED
    BY <1>1, <1>2, <1>3, <1>4

LEMMA WholeChunks ==
  ASSUME NEW n \in Nat
  PROVE  /\ n \div Chunk \in Nat
         /\ dma_size(n) = (n \div Chunk) * Chunk
         /\ dma_size(n) \in 0..n
         /\ n < Chunk => dma_size(n) = 0
         /\ n >= Chunk => n \div Chunk >= 1
  <1>1. Chunk \in Nat /\ Chunk > 0
    BY BackendAssumption
  <1>2. /\ n \div Chunk \in Nat
        /\ n % Chunk \in 0..(Chunk - 1)
        /\ n - (n % Chunk) = (n \div Chunk) * Chunk
        /\ n < Chunk => n % Chunk = n
        /\ n >= Chunk => n \div Chunk >= 1
    BY <1>1, DivMod
  <1>3. (n \div Chunk) * Chunk \in Nat
    BY <1>1, <1>2, ProductIsNat
  <1>4. QED
    BY <1>1, <1>2, <1>3 DEF dma_size

LEMMA Numbers ==
  /\ Chunk \in Nat \ {0} /\ TxFifo \in Nat \ {0} /\ RxFifo \in Nat \ {0}
  /\ Level \in Nat \ {0} /\ Space \in Nat \ {0}
  /\ Chunk <= Space /\ Space <= TxFifo /\ Chunk <= Level /\ Level <= RxFifo
  /\ Sizes \subseteq Nat \ {0}
  /\ Tx \in Channels /\ Rx \in Channels /\ Channels = {Tx, Rx} /\ Tx # Rx
  BY BackendAssumption

-----------------------------------------------------------------------------
(* Types. *)

LEMMA BackendInitTypes == Init_ => BackendTypes
  <1> SUFFICES ASSUME Init_
               PROVE  BackendTypes
    OBVIOUS
  <1>1. /\ m_initialized \in BOOLEAN /\ ok \in BOOLEAN /\ timedOut \in BOOLEAN
        /\ leftover \in BOOLEAN /\ dmaMode \in BOOLEAN
    BY DEF Init_
  <1>2. TypeOK
    BY InitTypeOK DEF Init_
  <1>3. QED
    BY <1>1, <1>2, Numbers DEF Init_, BackendTypes, Outside

LEMMA OverTypes ==
  ASSUME BackendTypes, Over, UNCHANGED <<vars, dmaMode, asked, txPending, moving>>,
         stale' \subseteq Channels, level' \in 0..RxFifo
  PROVE  BackendTypes'
  <1>1. /\ m_initialized' \in BOOLEAN /\ ok' \in BOOLEAN /\ timedOut' \in BOOLEAN
        /\ leftover' \in BOOLEAN /\ dmaMode' \in BOOLEAN
    BY DEF Over, BackendTypes
  <1>2. TypeOK'
    BY StutterTypeOK DEF BackendTypes
  <1>3. QED
    BY <1>1, <1>2 DEF Over, BackendTypes, Outside

\* What the calls of DmaChannel's methods do to its variables.
LEMMA CallTypes ==
  ASSUME TypeOK, NEW c \in Channels,
         \/ InitChannel(c) \/ Stop(c) \/ Free(c) \/ WaitReturns(c) \/ Trigger(c, "EVENT")
         \/ \E n \in 1..MaxCount, l \in Links : Configure(c, n, l)
  PROVE  TypeOK'
  <1>1. CASE Trigger(c, "EVENT")
    BY <1>1 DEF Trigger, Call, TypeOK, ccTypeOK, Modes, Steps, Fields, Links, Pulses, ccVars, eventVars,
                intrVars, paramVars, objVars, flagVars, isrVars, ghostVars, tagVars
  <1>2. CASE \/ InitChannel(c) \/ Stop(c) \/ Free(c) \/ WaitReturns(c)
             \/ \E n \in 1..MaxCount, l \in Links : Configure(c, n, l)
    BY <1>2, MethodCallTypeOK DEF MethodCall
  <1>3. QED
    BY <1>1, <1>2

LEMMA BeginTypes ==
  ASSUME BackendTypes, NEW o \in {"write", "read"}, NEW n \in Sizes, Begin(o, n)
  PROVE  BackendTypes'
  <1>1. n \in Nat /\ dma_size(n) \in Nat
    BY WholeChunks, Numbers
  <1>2. chan' \in Channels
    BY Numbers DEF chan
  <1>3. TypeOK'
    <2>1. CASE n >= Chunk
      <3>1. n \div Chunk \in 1..MaxCount
        BY <1>1, <2>1, WholeChunks, BackendAssumption, MaxCountAssumption
      <3>2. (IF o = "write" THEN "dummy" ELSE "null") \in Links
        BY DEF Links
      <3>3. Configure(chan', n \div Chunk, IF o = "write" THEN "dummy" ELSE "null")
        BY <2>1 DEF Begin
      <3>4. QED
        BY <1>2, <3>1, <3>2, <3>3, CallTypes DEF BackendTypes
    <2>2. CASE ~(n >= Chunk)
      BY <2>2, StutterTypeOK DEF Begin, BackendTypes
    <2>3. QED
      BY <2>1, <2>2
  <1>4. leftover' \in BOOLEAN
    BY DEF Begin
  <1>5. at' \in {"enable", "tail"}
    BY DEF Begin
  <1>6. QED
    BY <1>1, <1>3, <1>4, <1>5 DEF Begin, BackendTypes

LEMMA CpuTypes ==
  ASSUME BackendTypes,
         \/ InitTx \/ InitRx \/ StopBackend
         \/ FreeChannel("free_tx", Tx, "free_rx") \/ FreeChannel("free_rx", Rx, "idle")
         \/ DMA_enable \/ StartDma \/ Wait \/ DMA_disable \/ HaltDma \/ Halted
         \/ PutTail \/ GetTail \/ TailTimeout \/ Return
  PROVE  BackendTypes'
  <1> USE Numbers DEF BackendTypes, Outside, uartVars, flowVars
  <1>1. chan \in Channels
    BY DEF chan
  <1>2. CASE InitTx
    <2>1. TypeOK'
      BY <1>2, CallTypes DEF InitTx
    <2>2. QED
      BY <1>2, <2>1 DEF InitTx
  <1>3. CASE InitRx
    <2>1. TypeOK'
      BY <1>3, CallTypes DEF InitRx
    <2>2. QED
      BY <1>3, <2>1 DEF InitRx
  <1>4. CASE StopBackend
    BY <1>4, StutterTypeOK DEF StopBackend
  <1>5. ASSUME NEW s \in {"free_tx", "free_rx"}, NEW c \in Channels, NEW then \in {"free_rx", "idle"},
               FreeChannel(s, c, then)
        PROVE  BackendTypes'
    <2>1. TypeOK'
      BY <1>5, CallTypes DEF FreeChannel
    <2>2. QED
      BY <1>5, <2>1 DEF FreeChannel
  <1>6. ASSUME NEW s \in {"enable", "disable"}, NEW on \in BOOLEAN, NEW then \in {"trigger", "halt"},
               DmaMode(s, on, then)
        PROVE  BackendTypes'
    BY <1>6, StutterTypeOK DEF DmaMode
  <1>7. CASE DMA_enable \/ DMA_disable
    BY <1>6, <1>7, TRUE \in BOOLEAN, FALSE \in BOOLEAN DEF DMA_enable, DMA_disable
  <1>8. CASE StartDma
    <2>1. TypeOK'
      BY <1>1, <1>8, CallTypes DEF StartDma
    <2>2. QED
      BY <1>8, <2>1 DEF StartDma
  <1>9. CASE Wait
    <2>1. TypeOK'
      BY <1>1, <1>9, CallTypes DEF Wait
    <2>2. ok' \in BOOLEAN /\ timedOut' \in BOOLEAN
      BY <1>9 DEF Wait
    <2>3. QED
      BY <1>9, <2>1, <2>2 DEF Wait
  <1>10. CASE HaltDma
    <2>1. TypeOK'
      BY <1>1, <1>10, CallTypes DEF HaltDma
    <2>2. QED
      BY <1>10, <2>1 DEF HaltDma
  <1>11. CASE Halted
    <2>1. stale' \subseteq Channels
      BY <1>1, <1>11 DEF Halted
    <2>2. TypeOK' /\ moving' = moving
      BY <1>11, StutterTypeOK DEF Halted
    <2>3. CASE ok
      BY <1>11, <2>1, <2>2, <2>3 DEF Halted
    <2>4. CASE ~ok
      BY <1>11, <2>1, <2>4, OverTypes DEF Halted
    <2>5. QED
      BY <2>3, <2>4
  <1>12. CASE PutTail
    BY <1>12, StutterTypeOK DEF PutTail, Now
  <1>13. CASE GetTail
    BY <1>13, StutterTypeOK DEF GetTail, Now
  <1>14. CASE TailTimeout \/ Return
    BY <1>14, OverTypes DEF TailTimeout, Return
  <1>15. QED
    BY <1>2, <1>3, <1>4, <1>5, <1>7, <1>8, <1>9, <1>10, <1>11, <1>12, <1>13, <1>14

LEMMA OtherTypes ==
  ASSUME BackendTypes,
         \/ DmaMethodStep \/ Service \/ LineByte \/ ShiftByte
         \/ \E c \in Channels : Request(c) \/ SubmitChunk(c) \/ IgnoreOrMiss(c)
  PROVE  BackendTypes'
  <1> USE Numbers DEF BackendTypes, callVars, uartVars, flowVars
  <1>1. CASE DmaMethodStep
    BY <1>1, MethodStepTypeOK DEF DmaMethodStep
  <1>2. CASE Service
    BY <1>2, IsrTypeOK DEF Service
  <1>3. CASE LineByte
    BY <1>3, StutterTypeOK DEF LineByte, lineSame
  <1>4. CASE ShiftByte
    BY <1>4, StutterTypeOK DEF ShiftByte, lineSame
  <1>5. ASSUME NEW c \in Channels, Request(c)
        PROVE  BackendTypes'
    <2>1. TypeOK'
      BY <1>5, StutterTypeOK, HardwareTypeOK DEF Request, Hardware
    <2>2. QED
      BY <1>5, <2>1 DEF Request
  <1>6. ASSUME NEW c \in Channels, SubmitChunk(c)
        PROVE  BackendTypes'
    <2>1. TypeOK'
      BY <1>6, HardwareTypeOK DEF SubmitChunk, Hardware
    <2>2. QED
      BY <1>6, <2>1 DEF SubmitChunk
  <1>7. ASSUME NEW c \in Channels, IgnoreOrMiss(c)
        PROVE  BackendTypes'
    BY <1>7, HardwareTypeOK DEF IgnoreOrMiss, Hardware
  <1>8. QED
    BY <1>1, <1>2, <1>3, <1>4, <1>5, <1>6, <1>7

LEMMA MoveTypes ==
  ASSUME BackendTypes, NEW c \in Channels, MoveChunk(c) \/ CompleteChunk(c)
  PROVE  BackendTypes'
  <1> USE Numbers
  <1>1. TypeOK' /\ moving' \subseteq Channels
    BY StutterTypeOK, HardwareTypeOK DEF MoveChunk, CompleteChunk, Hardware, BackendTypes
  <1>2. MoveBytes(c)
    BY DEF MoveChunk, CompleteChunk
  <1>3. txPending' \in 0..TxFifo /\ level' \in 0..RxFifo
    BY <1>2 DEF MoveBytes, BackendTypes
  <1>4. QED
    BY <1>1, <1>2, <1>3 DEF MoveBytes, BackendTypes, callVars

-----------------------------------------------------------------------------
(* CpuInv: methods and calls. *)

LEMMA CpuInvInit == Init_ => CpuInv
  BY DEF Init_, Init, ccInit, CpuInv, Outside, Taking, Underway, Freeing

\* Nothing but the CPU's own steps disturbs it.
LEMMA CpuInvFrame ==
  ASSUME BackendTypes, CpuInv,
         UNCHANGED <<at, op, size, m_initialized, dmaMode, IER, EER, m_transfer_enabled, m_trigger_mode, fgVars>>,
         ESR' \subseteq ESR
  PROVE  CpuInv'
  BY DEF CpuInv, Taking, Underway, chan, fgVars

LEMMA CpuInvOthers ==
  ASSUME BackendTypes, CpuInv,
         \/ Service \/ LineByte \/ ShiftByte \/ UNCHANGED allVars
         \/ \E c \in Channels : Controller(c)
  PROVE  CpuInv'
  <1> USE DEF callVars, uartVars, flowVars, vars, ccVars, eventVars, intrVars, paramVars, objVars, softVars
  <1>1. UNCHANGED <<at, op, size, m_initialized, dmaMode>>
    BY DEF Service, LineByte, ShiftByte, lineSame, Controller, Request, SubmitChunk, IgnoreOrMiss, MoveChunk,
           CompleteChunk, MoveBytes, allVars
  <1>2. CASE Service
    <2>1. UNCHANGED <<IER, EER, m_transfer_enabled, m_trigger_mode, fgVars, ESR>>
      BY <1>2 DEF Service, Isr, IsrEnter, CompletionIsr, CompletionIsrExit, ErrorIsr, ErrorIsrExit
    <2>2. QED
      BY <1>1, <2>1, CpuInvFrame
  <1>3. CASE UNCHANGED vars
    BY <1>1, <1>3, CpuInvFrame
  <1>4. ASSUME NEW c \in Channels, Hardware(c)
        PROVE  CpuInv'
    <2>1. UNCHANGED <<IER, EER, m_transfer_enabled, m_trigger_mode, fgVars>> /\ ESR' \subseteq ESR
      BY <1>4 DEF Hardware, Event, PeripheralEvent, Submit, SubmitTransfer, Exhausted, ExhaustedSet, Complete,
                  CompleteTransfer, TakeEvent
    <2>2. QED
      BY <1>1, <2>1, CpuInvFrame
  <1>5. Service \/ UNCHANGED vars \/ \E c \in Channels : Hardware(c)
    BY DEF LineByte, ShiftByte, lineSame, Controller, Request, SubmitChunk, IgnoreOrMiss, MoveChunk,
           CompleteChunk, Hardware, allVars
  <1>6. QED
    BY <1>2, <1>3, <1>4, <1>5

LEMMA CpuInvSetup ==
  ASSUME BackendTypes, CpuInv,
         \/ InitTx \/ InitRx \/ StopBackend
         \/ FreeChannel("free_tx", Tx, "free_rx") \/ FreeChannel("free_rx", Rx, "idle")
  PROVE  CpuInv'
  <1> USE Numbers DEF CpuInv, BackendTypes, TypeOK, Outside, Freeing, Taking, Underway, chan, Now, CpuTurn, Call,
              ccVars, eventVars, intrVars, paramVars, objVars, uartVars
  <1>1. CASE InitTx
    BY <1>1 DEF InitTx, InitChannel, enable_evt_intr
  <1>2. CASE InitRx
    BY <1>2 DEF InitRx, InitChannel, enable_evt_intr
  <1>3. CASE StopBackend
    BY <1>3 DEF StopBackend, vars, fgVars
  <1>4. CASE FreeChannel("free_tx", Tx, "free_rx")
    BY <1>4 DEF FreeChannel, Free
  <1>5. CASE FreeChannel("free_rx", Rx, "idle")
    BY <1>5 DEF FreeChannel, Free
  <1>6. QED
    BY <1>1, <1>2, <1>3, <1>4, <1>5

LEMMA CpuInvCalls ==
  ASSUME BackendTypes, CpuInv,
         \/ \E o \in {"write", "read"}, n \in Sizes : Begin(o, n)
         \/ DMA_enable \/ StartDma \/ Wait \/ DMA_disable \/ HaltDma \/ Halted
         \/ PutTail \/ GetTail \/ TailTimeout \/ Return
  PROVE  CpuInv'
  <1> USE DEF CpuInv, Outside, Freeing, Arming, Taking, Underway, Now, CpuTurn, Call, ccVars, eventVars,
              intrVars, paramVars, objVars, uartVars, fgVars
  <1>1. ASSUME NEW o \in {"write", "read"}, NEW n \in Sizes, Begin(o, n)
        PROVE  CpuInv'
    <2>1. UNCHANGED <<IER, EER, ESR, m_transfer_enabled, m_trigger_mode, pc, m_initialized>> /\ pc = "idle" /\ at = "idle"
      BY <1>1 DEF Begin, Configure, vars
    <2>2. at' \in {"enable", "tail"} /\ op' = o /\ size' = n /\ m_initialized
      BY <1>1 DEF Begin
    <2>3. QED
      BY <1>1, <2>1, <2>2
  <1>2. CASE DMA_enable
    BY <1>2 DEF DMA_enable, DmaMode, vars, chan
  <1>3. CASE DMA_disable
    BY <1>3 DEF DMA_disable, DmaMode, vars, chan
  <1>4. CASE StartDma
    BY <1>4 DEF StartDma, Trigger, chan
  <1>5. CASE Wait
    BY <1>5 DEF Wait, WaitReturns, chan, flowVars
  <1>6. CASE HaltDma
    BY <1>6 DEF HaltDma, Stop, chan
  <1>7. CASE Halted
    BY <1>7 DEF Halted, Over, vars, chan
  <1>8. CASE PutTail \/ GetTail
    BY <1>8 DEF PutTail, GetTail, vars, chan
  <1>9. CASE TailTimeout \/ Return
    BY <1>9 DEF TailTimeout, Return, Over, vars
  <1>10. QED
    BY <1>1, <1>2, <1>3, <1>4, <1>5, <1>6, <1>7, <1>8, <1>9

LEMMA CpuInvMethods ==
  ASSUME BackendTypes, CpuInv, DmaMethodStep
  PROVE  CpuInv'
  <1> USE DEF CpuInv, BackendTypes, TypeOK, Outside, Freeing, Arming, Taking, Underway, chan, Step, ccVars, eventVars,
              intrVars, paramVars, objVars, DmaMethodStep, callVars, uartVars
  <1>0. UNCHANGED <<at, op, size, m_initialized, dmaMode>>
    OBVIOUS
  <1>1. CASE RegisterComplete \/ RegisterError \/ RegisterContext
    BY <1>0, <1>1 DEF RegisterComplete, RegisterError, RegisterContext, RegisterHandler
  <1>2. CASE DisableManual
    BY <1>0, <1>2 DEF DisableManual, Disabled
  <1>3. CASE DisableEvent
    BY <1>0, <1>3 DEF DisableEvent
  <1>4. CASE DisableEventEnable
    BY <1>0, <1>4 DEF DisableEventEnable, Disabled, disable_DMA_event
  <1>5. CASE ResetDone \/ ResetError
    <2>1. UNCHANGED <<IER, EER, ESR, m_transfer_enabled, m_trigger_mode, cur, arg, continue>>
      BY <1>5 DEF ResetDone, ResetError
    <2>2. pc \in {"reset_done", "reset_error"} /\ pc' \in {"reset_error", "enable"}
      BY <1>5 DEF ResetDone, ResetError
    <2>3. at = "wait"
      BY <2>2
    <2>4. QED
      BY <1>0, <2>1, <2>2, <2>3
  <1>6. CASE EnableManual
    BY <1>0, <1>6 DEF EnableManual
  <1>7. CASE EnableEvent
    BY <1>0, <1>7 DEF EnableEvent
  <1>8. CASE EnableEventEnable
    BY <1>0, <1>8 DEF EnableEventEnable, enable_DMA_event, Started
  <1>9. CASE FreeMaskInterrupt \/ FreeClearInterrupt
    BY <1>0, <1>9 DEF FreeMaskInterrupt, FreeClearInterrupt, disable_evt_intr
  <1>10. ASSUME NEW f \in Fields, UnregisterField(f)
         PROVE  CpuInv'
    BY <1>0, <1>10 DEF UnregisterField
  <1>11. QED
    BY <1>1, <1>2, <1>3, <1>4, <1>5, <1>6, <1>7, <1>8, <1>9, <1>10 DEF MethodStep

-----------------------------------------------------------------------------
(* IrqInv: what the interrupt lines tell. *)

LEMMA IrqInvInit == Init_ => IrqInv
  BY DEF Init_, Init, ccInit, IrqInv

\* With prompt interrupts a step of the CPU finds none pending.
LEMMA Prompt ==
  ASSUME PromptIrq, IrqInv, Foreground
  PROVE  EMR = {} /\ IER \intersect IPR = {}
  BY DEF IrqInv, Foreground

\* So it cannot take away a line that is still needed.
LEMMA IrqInvCpu ==
  ASSUME PromptIrq, IrqInv, Foreground,
         isr' = isr, EMR' \subseteq EMR, IER' \intersect IPR' \subseteq IER \intersect IPR
  PROVE  IrqInv'
  BY Prompt DEF IrqInv, Foreground

\* The calls' steps are the CPU's.
CpuStep ==
    \/ Client \/ BackendStep \/ Wait \/ TailTimeout

LEMMA CallsAreForeground ==
  ASSUME CpuStep
  PROVE  Foreground /\ pc = "idle" /\ Ready
  BY DEF CpuStep, Client, BackendStep, InitTx, InitRx, StopBackend, FreeChannel, Begin, DMA_enable, DMA_disable,
         DmaMode, StartDma, Wait, HaltDma, Halted, PutTail, GetTail, TailTimeout, Return, Now, CpuTurn

LEMMA IrqInvCalls ==
  ASSUME PromptIrq, IrqInv, CpuStep
  PROVE  IrqInv'
  <1> USE DEF ccVars, eventVars, intrVars, isrVars, vars
  <1>0. Foreground
    BY CallsAreForeground
  <1>1. CASE InitTx \/ InitRx
    <2>1. \A c \in Channels : InitChannel(c) => IrqInv'
      BY <1>0, Prompt DEF InitChannel, enable_evt_intr, CompletionPulse, IrqInv, Foreground
    <2>2. QED
      BY <1>1, <2>1, Numbers DEF InitTx, InitRx
  <1>2. CASE ~(InitTx \/ InitRx)
    <2>1. UNCHANGED <<isr, EMR, IER, IPR>>
      <3>1. \A c : Free(c) \/ Stop(c) \/ WaitReturns(c) \/ Trigger(c, "EVENT") => UNCHANGED <<isr, EMR, IER, IPR>>
        BY DEF Free, Stop, WaitReturns, Trigger
      <3>2. \A c, n, l : Configure(c, n, l) => UNCHANGED <<isr, EMR, IER, IPR>>
        BY DEF Configure
      <3>3. \A o, n : Begin(o, n) => UNCHANGED <<isr, EMR, IER, IPR>>
        BY <3>2 DEF Begin
      <3>4. \A s, on, then : DmaMode(s, on, then) => UNCHANGED <<isr, EMR, IER, IPR>>
        BY DEF DmaMode
      <3>5. QED
        BY <1>2, <3>1, <3>3, <3>4 DEF CpuStep, Client, BackendStep, StopBackend, FreeChannel, DMA_enable, DMA_disable,
            StartDma, Wait, HaltDma, Halted, PutTail, GetTail, TailTimeout, Return
    <2>2. QED
      BY <1>0, <2>1, IrqInvCpu
  <1>3. QED
    BY <1>1, <1>2

LEMMA IrqInvMethods ==
  ASSUME PromptIrq, IrqInv, DmaMethodStep
  PROVE  IrqInv'
  <1>1. Foreground
    BY DEF DmaMethodStep, MethodStep, RegisterComplete, RegisterError, RegisterContext, RegisterHandler,
           DisableManual, DisableEvent, DisableEventEnable, ResetDone, ResetError, EnableManual, EnableEvent,
           EnableEventEnable, FreeMaskInterrupt, FreeClearInterrupt, UnregisterField, Step
  <1>2. isr' = isr /\ EMR' \subseteq EMR /\ IER' \subseteq IER /\ IPR' \subseteq IPR
    BY DEF DmaMethodStep, MethodStep, RegisterComplete, RegisterError, RegisterContext, RegisterHandler,
           DisableManual, DisableEvent, DisableEventEnable, ResetDone, ResetError, EnableManual, EnableEvent,
           EnableEventEnable, FreeMaskInterrupt, FreeClearInterrupt, UnregisterField, Step, clr_miss_evt,
           disable_evt_intr, clr_intr, ccVars, eventVars, intrVars, isrVars
  <1>3. QED
    BY <1>1, <1>2, IrqInvCpu

LEMMA IrqInvService ==
  ASSUME BackendTypes, IrqInv, Service
  PROVE  IrqInv'
  <1> USE DEF IrqInv, eventVars, intrVars, Pulses
  <1>1. ASSUME NEW p \in Pulses, IsrEnter(p)
        PROVE  IrqInv'
    BY <1>1 DEF IsrEnter
  <1>2. ASSUME NEW c \in Channels, CompletionIsr(c)
        PROVE  IrqInv'
    BY <1>2 DEF CompletionIsr, clr_intr
  <1>3. ASSUME NEW c \in Channels, ErrorIsr(c)
        PROVE  IrqInv'
    BY <1>3 DEF ErrorIsr, clr_miss_evt
  <1>4. CASE CompletionIsrExit
    BY <1>4 DEF CompletionIsrExit, revaluateInterruptLine
  <1>5. CASE ErrorIsrExit
    BY <1>5 DEF ErrorIsrExit, CC_Err_evaluate
  <1>6. QED
    BY <1>1, <1>2, <1>3, <1>4, <1>5 DEF Service, Isr

LEMMA IrqInvOthers ==
  ASSUME BackendTypes, CpuInv, IrqInv,
         LineByte \/ ShiftByte \/ UNCHANGED allVars \/ \E c \in Channels : Controller(c)
  PROVE  IrqInv'
  <1> USE DEF IrqInv, eventVars, intrVars, isrVars, softVars
  <1>1. CASE UNCHANGED vars
    BY <1>1 DEF vars, ccVars
  <1>2. ASSUME NEW c \in Channels, Event(c)
        PROVE  IrqInv'
    BY <1>2 DEF Event, PeripheralEvent, ErrorPulse
  <1>3. ASSUME NEW c \in Channels, Submit(c)
        PROVE  IrqInv'
    BY <1>3 DEF Submit, SubmitTransfer
  <1>4. ASSUME NEW c \in Channels, Exhausted(c)
        PROVE  IrqInv'
    <2>1. c \in EER
      BY <1>4 DEF Exhausted, ExhaustedSet, TakeEvent, CpuInv
    <2>2. QED
      BY <1>4, <2>1 DEF Exhausted, ExhaustedSet, ErrorPulse
  <1>5. ASSUME NEW c \in Channels, Complete(c)
        PROVE  IrqInv'
    BY <1>5 DEF Complete, CompleteTransfer, CompletionPulse
  <1>6. UNCHANGED vars \/ \E c \in Channels : Event(c) \/ Submit(c) \/ Exhausted(c) \/ Complete(c)
    BY DEF LineByte, ShiftByte, lineSame, Controller, Request, SubmitChunk, IgnoreOrMiss, MoveChunk,
           CompleteChunk, allVars
  <1>7. QED
    BY <1>1, <1>2, <1>3, <1>4, <1>5, <1>6

-----------------------------------------------------------------------------
(* FlowInv: whose requests are under way. *)

LEMMA FlowInvInit == Init_ => FlowInv
  BY DEF Init_, Init, ccInit, FlowInv

\* While no request comes or goes, only the end of a call changes whose it is.
LEMMA FlowInvFrame ==
  ASSUME FlowInv, UNCHANGED <<moving, inflight, stale, op, leftover>>, Underway => Underway'
  PROVE  FlowInv'
  BY DEF FlowInv, chan

LEMMA FlowInvSetup ==
  ASSUME BackendTypes, CpuInv, FlowInv,
         \/ InitTx \/ InitRx \/ StopBackend
         \/ FreeChannel("free_tx", Tx, "free_rx") \/ FreeChannel("free_rx", Rx, "idle")
  PROVE  FlowInv'
  <1>1. UNCHANGED <<moving, inflight, stale, op, leftover>>
    BY DEF InitTx, InitRx, StopBackend, FreeChannel, InitChannel, Free, vars, ccVars, flowVars
  <1>2. at \in Outside
    BY DEF InitTx, InitRx, StopBackend, FreeChannel, Now, Outside
  <1>3. QED
    BY <1>1, <1>2, FlowInvFrame DEF Underway, Outside

LEMMA FlowInvCalls ==
  ASSUME BackendTypes, CpuInv, FlowInv, ExactInv,
         \/ \E o \in {"write", "read"}, n \in Sizes : Begin(o, n)
         \/ DMA_enable \/ StartDma \/ Wait \/ DMA_disable \/ HaltDma \/ Halted
         \/ PutTail \/ GetTail \/ TailTimeout \/ Return
  PROVE  FlowInv'
  <1> USE DEF Now, CpuTurn
  <1>1. ASSUME NEW o \in {"write", "read"}, NEW n \in Sizes, Begin(o, n)
        PROVE  FlowInv'
    <2>1. UNCHANGED <<moving, inflight, stale>>
      BY <1>1 DEF Begin, Configure, vars, ccVars
    <2>2. ~Underway /\ ~Underway'
      BY <1>1 DEF Begin, Underway
    <2>3. ~leftover' => chan' \notin stale
      BY <1>1 DEF Begin
    <2>4. QED
      BY <2>1, <2>2, <2>3 DEF FlowInv
  <1>2. CASE DMA_enable \/ StartDma \/ Wait \/ DMA_disable \/ HaltDma
    <2>1. UNCHANGED <<moving, inflight, stale, op, leftover>>
      BY <1>2 DEF DMA_enable, DMA_disable, DmaMode, StartDma, Wait, HaltDma, Trigger, WaitReturns, Stop, vars, ccVars,
                  flowVars
    <2>2. Underway => Underway'
      BY <1>2 DEF DMA_enable, DMA_disable, DmaMode, StartDma, Wait, HaltDma, Underway
    <2>3. QED
      BY <2>1, <2>2, FlowInvFrame
  <1>3. CASE Halted
    <2>1. inflight' = inflight /\ moving' = moving
      BY <1>3 DEF Halted, vars, ccVars
    <2>2. stale' = stale \union ({chan} \intersect (moving \union inflight)) /\ ~Underway'
      BY <1>3 DEF Halted, Over, Underway
    <2>3. op # "none" /\ Underway
      BY <1>3 DEF Halted, CpuInv, Outside, Underway
    <2>4. CASE ok
      <3>1. UNCHANGED <<op, leftover>>
        BY <1>3, <2>4 DEF Halted, uartVars
      <3>2. ~leftover => chan \notin moving \union inflight
        BY <1>3, <2>3, <2>4 DEF Halted, ExactInv, Going, Finished
      <3>3. QED
        BY <2>1, <2>2, <3>1, <3>2 DEF FlowInv, chan
    <2>5. CASE ~ok
      <3>1. op' = "none"
        BY <1>3, <2>5 DEF Halted, Over
      <3>2. QED
        BY <2>1, <2>2, <3>1 DEF FlowInv
    <2>6. QED
      BY <2>4, <2>5
  <1>4. CASE PutTail \/ GetTail
    <2>1. UNCHANGED <<moving, inflight, stale, op, leftover, at>>
      BY <1>4 DEF PutTail, GetTail, vars, ccVars, flowVars
    <2>2. ~Underway
      BY <1>4 DEF PutTail, GetTail, Underway
    <2>3. QED
      BY <2>1, <2>2, FlowInvFrame
  <1>5. CASE TailTimeout \/ Return
    <2>1. UNCHANGED <<moving, inflight, stale>> /\ op' = "none"
      BY <1>5 DEF TailTimeout, Return, Over, vars, ccVars
    <2>2. ~Underway /\ ~Underway'
      BY <1>5 DEF TailTimeout, Return, Over, Underway
    <2>3. QED
      BY <2>1, <2>2 DEF FlowInv
  <1>6. QED
    BY <1>1, <1>2, <1>3, <1>4, <1>5

LEMMA FlowInvMethods ==
  ASSUME BackendTypes, CpuInv, FlowInv, DmaMethodStep
  PROVE  FlowInv'
  <1>1. UNCHANGED <<moving, inflight, stale, op, leftover, at>>
    BY DEF DmaMethodStep, MethodStep, RegisterComplete, RegisterError, RegisterContext, RegisterHandler,
           DisableManual, DisableEvent, DisableEventEnable, ResetDone, ResetError, EnableManual, EnableEvent,
           EnableEventEnable, FreeMaskInterrupt, FreeClearInterrupt, UnregisterField, callVars, flowVars, ccVars
  <1>2. pc # "idle"
    BY DEF DmaMethodStep, MethodStep, RegisterComplete, RegisterError, RegisterContext, RegisterHandler,
           DisableManual, DisableEvent, DisableEventEnable, ResetDone, ResetError, EnableManual, EnableEvent,
           EnableEventEnable, FreeMaskInterrupt, FreeClearInterrupt, UnregisterField, Step
  <1>3. Underway => Underway'
    BY <1>1, <1>2 DEF Underway
  <1>4. QED
    BY <1>1, <1>3, FlowInvFrame

LEMMA FlowInvOthers ==
  ASSUME BackendTypes, CpuInv, FlowInv,
         Service \/ LineByte \/ ShiftByte \/ UNCHANGED allVars \/ \E c \in Channels : Controller(c)
  PROVE  FlowInv'
  <1>1. UNCHANGED <<at, op, leftover, pc>>
    BY DEF Service, Isr, IsrEnter, CompletionIsr, CompletionIsrExit, ErrorIsr, ErrorIsrExit, LineByte, ShiftByte,
           lineSame, Controller, Request, SubmitChunk, IgnoreOrMiss, MoveChunk, CompleteChunk, MoveBytes, Event, Submit,
           Exhausted, Complete, softVars, callVars, flowVars, fgVars, vars, allVars
  <1>2. (Underway' <=> Underway) /\ chan' = chan
    BY <1>1 DEF Underway, chan
  <1>3. ASSUME UNCHANGED <<moving, inflight, stale>>
        PROVE  FlowInv'
    BY <1>1, <1>2, <1>3, FlowInvFrame
  <1>4. CASE Service \/ LineByte \/ ShiftByte \/ UNCHANGED allVars
    <2>1. UNCHANGED <<moving, inflight, stale>>
      BY <1>4 DEF Service, Isr, IsrEnter, CompletionIsr, CompletionIsrExit, ErrorIsr, ErrorIsrExit, LineByte, ShiftByte,
                  lineSame, flowVars, vars, ccVars, allVars
    <2>2. QED
      BY <1>3, <2>1
  <1>5. ASSUME NEW c \in Channels, Request(c) \/ IgnoreOrMiss(c)
        PROVE  FlowInv'
    <2>1. UNCHANGED <<moving, inflight, stale>>
      BY <1>5 DEF Request, IgnoreOrMiss, Event, PeripheralEvent, Exhausted, ExhaustedSet, flowVars, vars, ccVars
    <2>2. QED
      BY <1>3, <2>1
  <1>6. ASSUME NEW c \in Channels, SubmitChunk(c)
        PROVE  FlowInv'
    <2>1. c \in EER
      BY <1>6 DEF SubmitChunk, Submit, SubmitTransfer, TakeEvent, CpuInv
    <2>2. Underway /\ c = chan
      BY <2>1 DEF CpuInv, Taking
    <2>3. c \notin moving \union inflight /\ stale' = stale
      BY <1>6 DEF SubmitChunk, Submit, SubmitTransfer
    <2>4. \/ moving' = moving \union {c} /\ inflight' = inflight
          \/ moving' = moving /\ inflight' = inflight \union {c}
      BY <1>6, <2>3 DEF SubmitChunk, Submit, SubmitTransfer
    <2>5. QED
      BY <1>1, <1>2, <2>2, <2>3, <2>4 DEF FlowInv
  <1>7. ASSUME NEW c \in Channels, MoveChunk(c) \/ CompleteChunk(c)
        PROVE  FlowInv'
    <2>1. stale' = stale \ {c}
      BY <1>7 DEF MoveChunk, CompleteChunk, MoveBytes
    <2>2. \/ c \in moving /\ moving' = moving \ {c} /\ inflight' = inflight
          \/ c \in inflight /\ moving' = moving /\ inflight' = inflight \ {c}
      BY <1>7 DEF MoveChunk, CompleteChunk, Complete, CompleteTransfer, vars, ccVars
    <2>3. QED
      BY <1>1, <1>2, <2>1, <2>2 DEF FlowInv
  <1>8. QED
    BY <1>4, <1>5, <1>6, <1>7 DEF Controller

-----------------------------------------------------------------------------
(* Bytes. *)

LEMMA ChannelOfCall ==
  ASSUME BackendTypes, op # "none"
  PROVE  /\ chan \in Channels
         /\ op = "write" => chan = Tx
         /\ op # "write" => op = "read" /\ chan = Rx
         /\ \A c \in Channels : c # chan => (op = "write" => c = Rx) /\ (op # "write" => c = Tx)
  BY Numbers DEF chan, BackendTypes

LEMMA AppendBytes ==
  ASSUME NEW k \in Nat, NEW n \in Nat
  PROVE  [i \in 1..k |-> i] \o [i \in 1..n |-> k + i] = [i \in 1..(k + n) |-> i]
  <1> DEFINE s == [i \in 1..k |-> i]
             t == [i \in 1..n |-> k + i]
  <1>1. s \in Seq(Nat) /\ Len(s) = k
    BY SMT
  <1>2. t \in Seq(Nat) /\ Len(t) = n
    BY SMT
  <1>3. s \o t = [i \in 1..(Len(s) + Len(t)) |-> IF i <= Len(s) THEN s[i] ELSE t[i - Len(s)]]
    BY <1>1, <1>2, SMT
  <1>4. s \o t = [i \in 1..(k + n) |-> IF i <= k THEN s[i] ELSE t[i - k]]
    BY <1>1, <1>2, <1>3
  <1>5. ASSUME NEW i \in 1..(k + n)
        PROVE  (IF i <= k THEN s[i] ELSE t[i - k]) = i
    BY <1>5, SMT
  <1>6. QED
    BY <1>4, <1>5

\* A chunk of the other channel is an abandoned one: it costs the FIFO its bytes
\* but touches none of the call's.
LEMMA OthersChunk ==
  ASSUME BackendTypes, FlowInv, op # "none", ~leftover,
         NEW c \in moving \union inflight, c # chan, MoveBytes(c)
  PROVE  /\ UNCHANGED <<out, got, data>>
         /\ chan = Tx => UNCHANGED txPending
         /\ chan = Rx => UNCHANGED level
         /\ chan \in asked => chan \in asked'
  <1>1. c \in Channels /\ c \in stale
    BY DEF FlowInv, BackendTypes, TypeOK, ccTypeOK
  <1>2. CASE op = "write"
    <2>1. c = Rx /\ c # Tx
      BY <1>1, <1>2, ChannelOfCall, Numbers
    <2>2. QED
      BY <1>1, <1>2, <2>1 DEF MoveBytes, chan
  <1>3. CASE op # "write"
    <2>1. c = Tx /\ chan # Tx
      BY <1>1, <1>3, ChannelOfCall, Numbers
    <2>2. QED
      BY <1>1, <1>3, <2>1 DEF MoveBytes
  <1>4. QED
    BY <1>2, <1>3

\* A chunk of the call is moved whole, to its own place.
LEMMA OwnChunk ==
  ASSUME BackendTypes, FlowInv, op # "none", ~leftover, size \in Nat,
         chan \in moving \union inflight, Going, MoveBytes(chan),
         paRAM' = paRAM, chan \notin (moving \union inflight)'
  PROVE  (chunks >= 0 /\ Contents(chunks * Chunk))'
  <1> DEFINE k == size \div Chunk - paRAM[chan] - 1
  <1>0. size \div Chunk \in Nat /\ paRAM[chan] \in Nat
    BY WholeChunks, MaxCountAssumption, ChannelOfCall DEF BackendTypes, TypeOK, ccTypeOK
  <1>1. chunks = k /\ k \in Nat
    BY <1>0 DEF Going, chunks
  <1>2. offset(chan) = k * Chunk /\ k * Chunk \in Nat /\ (k + 1) * Chunk = k * Chunk + Chunk
    BY <1>1, ProductIsNat, NextProduct, Numbers DEF offset
  <1>3. Contents(k * Chunk) /\ Fits /\ chan \notin stale
    BY <1>1 DEF Going, FlowInv
  <1>4. UNCHANGED <<op, size>> /\ chan' = chan
    BY DEF MoveBytes, callVars, chan
  <1>5. chunks' = k + 1
    BY <1>0, <1>4 DEF chunks
  <1> HIDE DEF k
  <1>6. CASE op = "write"
    <2>1. chan = Tx /\ TxFifo - txPending >= Chunk /\ ~(TxFifo - txPending < Chunk)
      BY <1>3, <1>6, ChannelOfCall, Numbers DEF Fits, BackendTypes
    <2>2. out' = out \o [i \in 1..Chunk |-> offset(chan) + i]
      BY <1>3, <1>6, <2>1 DEF MoveBytes
    <2>3. out' = [i \in 1..((k + 1) * Chunk) |-> i]
      BY <1>2, <1>3, <1>6, <2>2, AppendBytes, Numbers DEF Contents
    <2>4. QED
      BY <1>1, <1>6, <1>4, <1>5, <2>3 DEF Contents
  <1>7. CASE op # "write"
    <2>1. /\ op = "read" /\ chan = Rx /\ chan # Tx /\ ~(level < Chunk)
      BY <1>3, <1>7, ChannelOfCall, Numbers DEF Fits, BackendTypes
    <2>2. got = k * Chunk /\ data = [i \in 1..size |-> IF i <= k * Chunk THEN i ELSE 0]
      BY <1>3, <1>7 DEF Contents
    <2>3. got' = (k + 1) * Chunk
      BY <1>2, <2>1, <2>2 DEF MoveBytes
    <2>4. data' = [i \in DOMAIN data |-> LET j == i - offset(chan) IN
                      IF j \notin 1..Chunk THEN data[i] ELSE IF j <= Chunk THEN got + j ELSE 0]
      BY <1>3, <2>1 DEF MoveBytes
    <2>5. data' = [i \in 1..size |-> IF i <= (k + 1) * Chunk THEN i ELSE 0]
      <3>1. DOMAIN data = 1..size
        BY <2>2
      <3>2. ASSUME NEW i \in 1..size
            PROVE  (LET j == i - offset(chan) IN
                      IF j \notin 1..Chunk THEN data[i] ELSE IF j <= Chunk THEN got + j ELSE 0)
                    = IF i <= (k + 1) * Chunk THEN i ELSE 0
        BY <1>2, <2>2, Numbers
      <3>3. QED
        BY <2>4, <3>1, <3>2
    <2>6. QED
      BY <1>1, <1>7, <1>4, <1>5, <2>3, <2>5 DEF Contents
  <1>8. QED
    BY <1>6, <1>7

-----------------------------------------------------------------------------
(* ExactInv: calls and methods. *)

LEMMA ExactInvInit == Init_ => ExactInv
  BY DEF Init_, ExactInv

LEMMA ExactInvSetup ==
  ASSUME BackendTypes, CpuInv, ExactInv,
         \/ InitTx \/ InitRx \/ StopBackend
         \/ FreeChannel("free_tx", Tx, "free_rx") \/ FreeChannel("free_rx", Rx, "idle")
  PROVE  ExactInv'
  <1>1. op = "none"
    BY DEF InitTx, InitRx, StopBackend, FreeChannel, Now, CpuInv, Outside
  <1>2. UNCHANGED <<op, out, got>>
    BY DEF InitTx, InitRx, StopBackend, FreeChannel, uartVars
  <1>3. QED
    BY <1>1, <1>2 DEF ExactInv

LEMMA BeginArms ==
  ASSUME BackendTypes, CpuInv, ExactInv, NEW o \in {"write", "read"}, NEW n \in Sizes, Begin(o, n)
  PROVE  ExactInv'
  <1>1. op = "none" /\ out = <<>> /\ got = 0
    BY DEF Begin, Now, CpuInv, Outside, ExactInv
  <1>2. op' = o /\ size' = n /\ next' = dma_size(n) /\ out' = <<>> /\ got' = 0
    BY <1>1 DEF Begin
  <1>3. n \in Nat
    BY Numbers
  <1>4. Contents(0)'
    <2>1. o = "write" => [i \in 1..0 |-> i] = <<>>
      BY SMT
    <2>2. o = "read" => [i \in 1..n |-> 0] = [i \in 1..n |-> IF i <= 0 THEN i ELSE 0]
      BY <1>3, SMT
    <2>3. QED
      BY <1>2, <2>1, <2>2 DEF Begin, Contents
  <1>5. chan' \in Channels
    BY Numbers DEF chan
  <1>6. CASE n >= Chunk
    <2>1. Configure(chan', n \div Chunk, IF o = "write" THEN "dummy" ELSE "null") /\ at' = "enable"
      BY <1>6 DEF Begin
    <2>2. paRAM' = [paRAM EXCEPT ![chan'] = n \div Chunk]
          /\ link' = [link EXCEPT ![chan'] = IF o = "write" THEN "dummy" ELSE "null"]
      BY <2>1 DEF Configure, set_paRAM
    <2>3. paRAM'[chan'] = n \div Chunk /\ (o = "write" => link'[chan'] = "dummy")
      BY <1>5, <2>2 DEF BackendTypes, TypeOK, ccTypeOK
    <2>4. ER' = ER /\ Supplied' = Supplied /\ pc' = "idle"
      BY <2>1 DEF Begin, Configure, Call, eventVars, Supplied
    <2>5. ~leftover' => (chan' \in ER => chan' \in Supplied)
      BY DEF Begin
    <2>6. ~leftover' => Armed'
      BY <1>2, <1>4, <2>3, <2>4, <2>5 DEF Armed
    <2>7. QED
      BY <1>2, <2>1, <2>4, <2>6 DEF ExactInv, Underway
  <1>7. CASE ~(n >= Chunk)
    <2>1. next' = 0
      BY <1>2, <1>3, <1>7, WholeChunks, Numbers
    <2>2. at' = "tail"
      BY <1>7 DEF Begin
    <2>3. Tailing'
      BY <1>2, <1>3, <1>4, <2>1 DEF Tailing
    <2>4. QED
      BY <1>2, <2>2, <2>3 DEF ExactInv, Underway, Before
  <1>8. QED
    BY <1>6, <1>7

LEMMA EnableKeepsArmed ==
  ASSUME BackendTypes, CpuInv, ExactInv, DMA_enable \/ StartDma
  PROVE  ExactInv'
  <1>1. /\ UNCHANGED <<op, size, next, leftover, out, got, data, txPending, level>>
        /\ at \in {"enable", "trigger"} /\ pc = "idle"
    BY DEF DMA_enable, DmaMode, StartDma, Now, CpuTurn, uartVars, flowVars
  <1>2. /\ UNCHANGED <<paRAM, link, ER, IPR, m_transfer_done, m_transfer_error>>
    BY DEF DMA_enable, DmaMode, StartDma, Trigger, vars, ccVars, eventVars, intrVars, paramVars, flagVars
  <1>3. \/ at' = "trigger" /\ pc' = "idle"
        \/ at' = "wait" /\ pc' = "reset_done"
    <2>1. CASE DMA_enable
      BY <1>1, <2>1 DEF DMA_enable, DmaMode, vars, fgVars
    <2>2. CASE StartDma
      <3>1. m_transfer_enabled = {}
        BY <2>2 DEF StartDma, Now, CpuInv, Taking, Underway
      <3>2. QED
        BY <2>2, <3>1 DEF StartDma, Trigger
    <2>3. QED
      BY <2>1, <2>2
  <1>4. op # "none" /\ Before /\ Before' /\ ~Underway'
    BY <1>1, <1>3 DEF CpuInv, Outside, Before, Underway
  <1>5. Armed => Armed'
    BY <1>1, <1>2, <1>3 DEF Armed, Contents, chan, Supplied
  <1>6. QED
    BY <1>1, <1>3, <1>4, <1>5 DEF ExactInv

\* The methods of DmaChannel that run while no transfer of a call does.
LEMMA MethodsOutside ==
  ASSUME CpuInv, ExactInv, op = "none", UNCHANGED <<op, out, got>>
  PROVE  ExactInv'
  BY DEF ExactInv

\* trigger() up to its last access.
LEMMA TriggerKeepsArmed ==
  ASSUME PromptIrq, BackendTypes, CpuInv, IrqInv, ExactInv, DmaMethodStep,
         ResetDone \/ ResetError \/ EnableEvent
  PROVE  ExactInv'
  <1>1. /\ UNCHANGED <<at, op, size, next, leftover, out, got, data, txPending, level>>
    BY DEF DmaMethodStep, callVars, uartVars, flowVars
  <1>2. UNCHANGED <<paRAM, link, ER, IPR>>
    BY DEF ResetDone, ResetError, EnableEvent, ccVars, eventVars, intrVars, paramVars
  <1>3. pc \in Arming /\ Foreground
    BY DEF ResetDone, ResetError, EnableEvent, Step, Arming
  <1>4. at = "wait" /\ cur = chan
    BY <1>3 DEF CpuInv, Outside, Arming, Freeing, BackendTypes
  <1>5. pc' \in {"reset_error", "enable", "eesr"}
    BY DEF ResetDone, ResetError, EnableEvent
  <1>6. op # "none" /\ Before /\ Before' /\ ~Underway'
    BY <1>1, <1>3, <1>4, <1>5 DEF CpuInv, Outside, Before, Underway, Arming
  <1>7. chan \notin IPR
    BY <1>3, <1>4, <1>6, Prompt, ChannelOfCall DEF CpuInv
  <1>8. Armed => Armed'
    <2>1. Armed => chan \notin m_transfer_done'
      BY <1>4 DEF Armed, ResetDone, ResetError, EnableEvent, Step, flagVars
    <2>2. Armed /\ pc' \in {"enable", "eesr"} => chan \notin m_transfer_error'
      BY <1>4 DEF Armed, ResetDone, ResetError, EnableEvent, Step, flagVars
    <2>3. chan' = chan /\ Supplied' = Supplied /\ (Contents(0)' <=> Contents(0))
      BY <1>1 DEF chan, Supplied, Contents
    <2>4. QED
      BY <1>1, <1>2, <1>7, <2>1, <2>2, <2>3 DEF Armed
  <1>9. QED
    BY <1>1, <1>4, <1>6, <1>8 DEF ExactInv

\* The last access of trigger() finds every request that could be raised raised,
\* so an event latched before is a request not yet served.
LEMMA EnableStarts ==
  ASSUME PromptIrq, BackendTypes, CpuInv, IrqInv, FlowInv, ExactInv, DmaMethodStep, EnableEventEnable
  PROVE  ExactInv'
  <1>1. /\ UNCHANGED <<at, op, size, next, leftover, out, got, data, txPending, level, asked, dmaMode, moving, stale>>
    BY DEF DmaMethodStep, callVars, uartVars, flowVars
  <1>2. UNCHANGED <<paRAM, link, ER, IPR, EMR, inflight, m_transfer_done, m_transfer_error>>
    BY DEF EnableEventEnable, ccVars, eventVars, intrVars, paramVars, flagVars
  <1>3. pc = "eesr" /\ Foreground /\ pc' = "idle"
    BY DEF EnableEventEnable, Step, Started
  <1>4. at = "wait" /\ cur = chan /\ dmaMode
    BY <1>3 DEF CpuInv, Outside, Arming, Freeing, BackendTypes
  <1>5. op # "none" /\ Before /\ ~Before' /\ Underway' /\ ~Underway
    BY <1>1, <1>3, <1>4 DEF CpuInv, Outside, Before, Underway
  <1>6. chan \in Channels /\ EMR = {} /\ ~Rising(chan)
    BY <1>3, <1>5, Prompt, ChannelOfCall DEF DmaMethodStep, Ready
  <1>7. ASSUME ~leftover
        PROVE  Going'
    <2>1. Armed
      BY <1>5, <1>7 DEF ExactInv
    <2>2. chan \notin moving \union inflight
      BY <1>5, <1>7 DEF FlowInv
    <2>3. size \div Chunk \in Nat
      BY <1>5, WholeChunks, Numbers DEF CpuInv
    <2>4. chunks' = 0 /\ 0 * Chunk = 0
      BY <1>1, <1>2, <2>1, <2>2, <2>3, Numbers DEF chunks, Armed, chan
    <2>5. Contents(0)' /\ chan' = chan
      BY <1>1, <2>1 DEF Armed, Contents, chan
    <2>6. chan \in ER => Fits /\ chan \in asked
      <3>1. chan \in ER => chan \in Supplied /\ chan \in asked
        BY <1>4, <1>6, <2>1 DEF Armed, Rising
      <3>2. chan \in Supplied => Fits
        BY Numbers DEF Supplied, Fits, BackendTypes
      <3>3. QED
        BY <3>1, <3>2
    <2>7. Fits' <=> Fits
      BY <1>1 DEF Fits, chan
    <2>8. (chunks >= 0 /\ Contents(chunks * Chunk))'
      BY <2>4, <2>5
    <2>9. QED
      BY <1>1, <1>2, <1>3, <1>4, <1>6, <2>1, <2>2, <2>5, <2>6, <2>7, <2>8 DEF Armed, Going, Finished
  <1>8. QED
    BY <1>1, <1>4, <1>5, <1>7 DEF ExactInv

LEMMA WaitEnds ==
  ASSUME BackendTypes, CpuInv, ExactInv, Wait
  PROVE  ExactInv'
  <1>1. /\ UNCHANGED <<op, size, next, leftover, out, got, data, txPending, level, asked, dmaMode, moving, stale>>
        /\ at = "wait" /\ pc = "idle" /\ at' = "disable"
    BY DEF Wait, uartVars, flowVars, Now, CpuTurn
  <1>2. UNCHANGED <<paRAM, link, ER, IPR, EMR, inflight, m_transfer_done, m_transfer_error>>
    BY DEF Wait, WaitReturns, ccVars, eventVars, intrVars, paramVars, flagVars
  <1>3. op # "none" /\ Underway /\ Underway' /\ ~Before'
    BY <1>1 DEF CpuInv, Outside, Before, Underway
  <1>4. ASSUME Going
        PROVE  Going'
    <2>1. /\ chan' = chan /\ chunks' = chunks /\ (Fits' <=> Fits) /\ (Finished' <=> Finished)
          /\ Contents(chunks * Chunk)' <=> Contents(chunks * Chunk)
      BY <1>1, <1>2 DEF chan, chunks, Fits, Finished, Contents
    <2>2. /\ ok' => Finished
          /\ ~ok' => timedOut' \/ (op = "read" /\ level >= Level /\ Finished)
      <3>1. CASE chan \notin m_transfer_done
        BY <3>1 DEF Wait
      <3>2. CASE chan \in m_transfer_done /\ chan \notin m_transfer_error
        BY <1>4, <3>2 DEF Wait, Going
      <3>3. CASE chan \in m_transfer_error /\ chan \in m_transfer_done
        BY <1>3, <1>4, <3>3, ChannelOfCall DEF Wait, Going
      <3>4. QED
        BY <3>1, <3>2, <3>3
    <2>3. QED
      BY <1>1, <1>2, <1>4, <2>1, <2>2 DEF Going
  <1>5. QED
    BY <1>1, <1>3, <1>4 DEF ExactInv

\* Leaving the DMA mode and stopping the channel.
LEMMA HaltKeepsGoing ==
  ASSUME PromptIrq, BackendTypes, CpuInv, IrqInv, ExactInv,
         \/ DMA_disable \/ HaltDma
         \/ DmaMethodStep /\ at = "halted" /\ (DisableEvent \/ DisableEventEnable)
  PROVE  ExactInv'
  <1>1. /\ UNCHANGED <<op, size, next, leftover, out, got, data, txPending, level, moving, stale, ok, timedOut>>
        /\ at \in {"disable", "halt", "halted"} /\ at' \in {"halt", "halted"}
        /\ (dmaMode' => dmaMode /\ asked' = asked)
    BY DEF DMA_disable, DmaMode, HaltDma, DmaMethodStep, Now, callVars, uartVars, flowVars
  <1>2. UNCHANGED <<paRAM, link, ER, IPR, inflight, m_transfer_done, m_transfer_error>> /\ EMR' \subseteq EMR
    BY DEF DMA_disable, DmaMode, HaltDma, Stop, DisableEvent, DisableEventEnable, clr_miss_evt, vars, ccVars, eventVars,
           intrVars, paramVars, flagVars
  <1>3. op # "none" /\ Underway /\ Underway' /\ ~Before'
    BY <1>1 DEF CpuInv, Outside, Before, Underway
  <1>4. ASSUME Going
        PROVE  Going'
    <2>1. /\ chan' = chan /\ chunks' = chunks /\ (Fits' <=> Fits) /\ (Finished' <=> Finished)
          /\ Contents(chunks * Chunk)' <=> Contents(chunks * Chunk)
      BY <1>1, <1>2 DEF chan, chunks, Fits, Finished, Contents
    <2>2. QED
      BY <1>1, <1>2, <1>4, <2>1 DEF Going
  <1>5. QED
    BY <1>1, <1>3, <1>4 DEF ExactInv

LEMMA HaltedEnds ==
  ASSUME BackendTypes, CpuInv, ExactInv, Halted
  PROVE  ExactInv'
  <1>1. at = "halted" /\ op # "none"
    BY DEF Halted, Now, CpuInv, Outside
  <1>2. CASE ok
    <2>1. UNCHANGED <<op, size, next, leftover, out, got, data, paRAM>> /\ at' = "tail"
      BY <1>2 DEF Halted, uartVars, vars, ccVars, paramVars
    <2>2. ~Before' /\ ~Underway'
      BY <2>1 DEF Before, Underway
    <2>3. ASSUME ~leftover
          PROVE  Tailing'
      <3>1. Going /\ Finished /\ next = dma_size(size)
        BY <1>1, <1>2, <2>3 DEF ExactInv, Underway, Going
      <3>2. size \in Nat
        BY <1>1, Numbers DEF CpuInv
      <3>3. chunks = size \div Chunk
        BY <3>1, <3>2, WholeChunks DEF chunks, Finished
      <3>4. Contents(next) /\ next <= size
        BY <3>1, <3>2, <3>3, WholeChunks DEF Going
      <3>5. QED
        BY <2>1, <3>4 DEF Tailing, Contents
    <2>4. QED
      BY <1>1, <2>1, <2>2, <2>3 DEF ExactInv
  <1>3. CASE ~ok
    BY <1>3 DEF Halted, Over, ExactInv
  <1>4. QED
    BY <1>2, <1>3

LEMMA PutKeepsTailing ==
  ASSUME BackendTypes, CpuInv, ExactInv, PutTail
  PROVE  ExactInv'
  <1>1. /\ at = "tail" /\ at' = at /\ op = "write" /\ op' = op /\ next < size
        /\ out' = Append(out, next + 1) /\ next' = next + 1 /\ UNCHANGED <<size, leftover, got>>
    BY DEF PutTail, Now, flowVars
  <1>2. ASSUME Tailing
        PROVE  Tailing'
    <2>1. next \in Nat /\ size \in Nat /\ out = [i \in 1..next |-> i]
      BY <1>1, <1>2 DEF Tailing, Contents, BackendTypes
    <2>2. Append(out, next + 1) = [i \in 1..(next + 1) |-> i]
      BY <2>1, SMT
    <2>3. QED
      BY <1>1, <2>1, <2>2 DEF Tailing, Contents
  <1>3. QED
    BY <1>1, <1>2 DEF ExactInv, Before, Underway

LEMMA GetKeepsTailing ==
  ASSUME BackendTypes, CpuInv, ExactInv, GetTail
  PROVE  ExactInv'
  <1>1. /\ at = "tail" /\ at' = at /\ op = "read" /\ op' = op /\ next < size
        /\ got' = got + 1 /\ data' = [data EXCEPT ![next + 1] = got'] /\ next' = next + 1
        /\ UNCHANGED <<size, leftover, out>>
    BY DEF GetTail, Now, flowVars
  <1>2. ASSUME Tailing
        PROVE  Tailing'
    <2>1. next \in Nat /\ size \in Nat /\ got = next /\ data = [i \in 1..size |-> IF i <= next THEN i ELSE 0]
      BY <1>1, <1>2 DEF Tailing, Contents, BackendTypes
    <2>2. [data EXCEPT ![next + 1] = next + 1] = [i \in 1..size |-> IF i <= next + 1 THEN i ELSE 0]
      <3>1. ASSUME NEW i \in 1..size
            PROVE  [data EXCEPT ![next + 1] = next + 1][i] = IF i <= next + 1 THEN i ELSE 0
        <4>1. CASE i = next + 1
          BY <2>1, <4>1
        <4>2. CASE i # next + 1
          BY <2>1, <4>2
        <4>3. QED
          BY <4>1, <4>2
      <3>2. [data EXCEPT ![next + 1] = next + 1] = [i \in 1..size |-> [data EXCEPT ![next + 1] = next + 1][i]]
        BY <2>1
      <3>3. QED
        BY <3>1, <3>2
    <2>3. QED
      BY <1>1, <2>1, <2>2 DEF Tailing, Contents
  <1>3. QED
    BY <1>1, <1>2 DEF ExactInv, Before, Underway

LEMMA OverForgets ==
  ASSUME TailTimeout \/ Return
  PROVE  ExactInv'
  BY DEF TailTimeout, Return, Over, ExactInv

-----------------------------------------------------------------------------
(* ExactInv: service routines and hardware. *)

\* What these steps leave alone.
callSame == UNCHANGED <<at, op, size, next, ok, timedOut, leftover, pc, cur, arg, dmaMode, link>>

LEMMA CallSame ==
  ASSUME Service \/ LineByte \/ ShiftByte \/ UNCHANGED allVars \/ \E c \in Channels : Controller(c)
  PROVE  callSame
  BY DEF callSame, Service, Isr, IsrEnter, CompletionIsr, CompletionIsrExit, ErrorIsr, ErrorIsrExit, LineByte,
         ShiftByte, lineSame, Controller, Request, SubmitChunk, IgnoreOrMiss, MoveChunk, CompleteChunk, MoveBytes,
         Event, PeripheralEvent, Submit, SubmitTransfer, Exhausted, ExhaustedSet, Complete, CompleteTransfer, softVars,
         callVars, uartVars, flowVars, fgVars, paramVars, vars, ccVars, allVars

\* It is enough to look at what the phase of the call needs.
LEMMA ByPhase ==
  ASSUME BackendTypes, CpuInv, ExactInv, callSame,
         op = "none" => UNCHANGED <<out, got>>,
         op # "none" /\ ~leftover /\ Before /\ ~Underway /\ Armed => Armed',
         op # "none" /\ ~leftover /\ Underway /\ Going => Going',
         op # "none" /\ ~leftover /\ at = "tail" /\ ~Underway => (Contents(next)' <=> Contents(next))
  PROVE  ExactInv'
  <1>1. (Before' <=> Before) /\ (Underway' <=> Underway) /\ (Before => ~Underway) /\ (at = "tail" => ~Underway)
    BY DEF callSame, Before, Underway
  <1>2. (Tailing' <=> next <= size /\ Contents(next)')
    BY DEF callSame, Tailing
  <1>3. QED
    BY <1>1, <1>2 DEF ExactInv, callSame, Tailing

LEMMA BytesSame ==
  ASSUME callSame, UNCHANGED <<out, got, data>>
  PROVE  /\ chan' = chan
         /\ Contents(0)' <=> Contents(0)
         /\ Contents(next)' <=> Contents(next)
         /\ paRAM' = paRAM /\ moving' = moving /\ inflight' = inflight =>
               /\ chunks' = chunks /\ Contents(chunks * Chunk)' <=> Contents(chunks * Chunk)
               /\ Finished' <=> Finished
  BY DEF callSame, chan, Contents, chunks, Finished

LEMMA ServiceKeeps ==
  ASSUME BackendTypes, CpuInv, IrqInv, ExactInv, Service
  PROVE  ExactInv'
  <1>1. /\ callSame
        /\ UNCHANGED <<out, got, data, txPending, level, asked, moving, stale, paRAM, link, ER, inflight>>
    BY CallSame DEF Service, Isr, IsrEnter, CompletionIsr, CompletionIsrExit, ErrorIsr, ErrorIsrExit, uartVars,
                    flowVars, eventVars, paramVars
  <1> DEFINE Served == /\ m_transfer_done' \subseteq m_transfer_done \union IPR \union EMR
                       /\ m_transfer_error' \subseteq m_transfer_error \union EMR
                       /\ IPR' \subseteq IPR /\ EMR' \subseteq EMR
                       /\ m_transfer_done' \ m_transfer_error' \subseteq (m_transfer_done \ m_transfer_error) \union IPR
  <1>2. Served
    <2>1. ASSUME NEW c \in Channels, CompletionIsr(c)
          PROVE  Served
      BY <2>1 DEF CompletionIsr, dispatchCompletion, clr_intr, IrqInv, eventVars
    <2>2. ASSUME NEW c \in Channels, ErrorIsr(c)
          PROVE  Served
      BY <2>2 DEF ErrorIsr, dispatchError, clr_miss_evt, IrqInv, intrVars, flagVars
    <2>3. CASE (\E p \in Pulses : IsrEnter(p)) \/ CompletionIsrExit \/ ErrorIsrExit
      BY <2>3 DEF IsrEnter, CompletionIsrExit, ErrorIsrExit, eventVars, intrVars, flagVars
    <2>4. QED
      BY <2>1, <2>2, <2>3 DEF Service, Isr
  <1>3. op # "none" /\ Before /\ ~Underway /\ Armed => Armed'
    <2>1. Before /\ ~Underway => EMR = {}
      BY DEF IrqInv, CpuInv, Taking
    <2>2. QED
      BY <1>1, <1>2, <2>1, BytesSame DEF Armed, callSame, Supplied
  <1>4. op # "none" /\ Going => Going'
    <2>1. (Fits' <=> Fits) /\ chan' = chan
      BY <1>1 DEF Fits, chan, callSame
    <2>2. QED
      BY <1>1, <1>2, <2>1, BytesSame DEF Going, callSame
  <1>5. QED
    BY <1>1, <1>3, <1>4, ByPhase, BytesSame

LEMMA FifoKeeps ==
  ASSUME BackendTypes, CpuInv, ExactInv, LineByte \/ ShiftByte \/ UNCHANGED allVars
  PROVE  ExactInv'
  <1>1. /\ callSame
        /\ UNCHANGED <<out, got, data, asked, moving, stale, paRAM, link, ER, EMR, IPR, inflight, m_transfer_done,
                       m_transfer_error>>
    BY CallSame DEF LineByte, ShiftByte, lineSame, allVars, vars, ccVars, eventVars, intrVars, paramVars, flagVars,
                    flowVars, uartVars
  <1>2. txPending' \in Nat /\ txPending' <= txPending /\ level' \in Nat /\ level <= level'
    BY Numbers DEF LineByte, ShiftByte, BackendTypes, allVars, uartVars
  <1>3. Supplied \subseteq Supplied' /\ (Fits => Fits') /\ (level >= Level => level' >= Level)
    <2>1. txPending \in Nat /\ level \in Nat
      BY Numbers DEF BackendTypes
    <2>2. /\ TxFifo - txPending >= Space => TxFifo - txPending' >= Space
          /\ TxFifo - txPending >= Chunk => TxFifo - txPending' >= Chunk
          /\ level >= Level => level' >= Level
      <3>1. TxFifo \in Nat /\ Space \in Nat /\ Chunk \in Nat /\ Level \in Nat
        BY Numbers
      <3>2. \A t, a, b, n \in Nat : a <= b /\ t - b >= n => t - a >= n
        BY SMT
      <3>3. level >= Level => level' >= Level
        BY <1>2, <2>1, <3>1
      <3>4. QED
        BY <1>2, <2>1, <3>1, <3>2, <3>3
    <2>3. chan' = chan
      BY <1>1 DEF chan, callSame
    <2>4. QED
      BY <2>2, <2>3 DEF Supplied, Fits
  <1>4. Armed => Armed'
    BY <1>1, <1>3, BytesSame DEF Armed, callSame
  <1>5. Going => Going'
    BY <1>1, <1>3, BytesSame DEF Going, callSame
  <1>6. QED
    BY <1>1, <1>4, <1>5, ByPhase, BytesSame

LEMMA RequestKeeps ==
  ASSUME BackendTypes, CpuInv, ExactInv, NEW c \in Channels, Request(c)
  PROVE  ExactInv'
  <1>1. /\ callSame
        /\ UNCHANGED <<out, got, data, txPending, level, moving, stale, paRAM, link, IPR, inflight, m_transfer_done,
                       m_transfer_error>>
    BY CallSame DEF Controller, Request, Event, PeripheralEvent, vars, ccVars, intrVars, paramVars, softVars, flagVars,
                    flowVars
  <1>2. c \in Supplied /\ c \notin asked /\ dmaMode /\ asked' = asked \union {c} /\ ER' \subseteq ER \union {c}
    BY DEF Request, Rising, Event, PeripheralEvent, vars, ccVars, eventVars
  <1>3. Supplied' = Supplied /\ (Fits' <=> Fits) /\ chan' = chan
    BY <1>1 DEF Supplied, Fits, chan, callSame
  <1>4. Armed => Armed'
    BY <1>1, <1>2, <1>3, BytesSame DEF Armed, callSame
  <1>5. Going => Going'
    <2>1. Supplied \subseteq Channels /\ (chan \in Supplied => Fits)
      BY Numbers DEF Supplied, Fits, BackendTypes
    <2>2. ASSUME Going
          PROVE  EMR' \subseteq EMR \union (Channels \ {chan})
      <3>1. c = chan => c \notin ER
        BY <1>2, <2>2 DEF Going
      <3>2. QED
        BY <3>1 DEF Request, Event, PeripheralEvent, vars, ccVars, eventVars
    <2>3. ASSUME Going, c = chan
          PROVE  chan \notin ER \union moving \union inflight
      BY <1>2, <2>3 DEF Going
    <2>4. QED
      BY <1>1, <1>2, <1>3, <2>1, <2>2, <2>3, BytesSame DEF Going, callSame
  <1>6. QED
    BY <1>1, <1>4, <1>5, ByPhase, BytesSame

\* Only the channel of a call under way takes events.
LEMMA TakenIsOwn ==
  ASSUME CpuInv, NEW c, TakeEvent(c)
  PROVE  Underway /\ c = chan /\ c \in ER /\ ER' = ER \ {c} /\ at # "tail" /\ ~Before /\ op # "none"
  <1>1. c \in ER \intersect EER /\ ER' = ER \ {c}
    BY DEF TakeEvent, CpuInv
  <1>2. Taking /\ c = chan
    BY <1>1 DEF CpuInv
  <1>3. QED
    BY <1>1, <1>2 DEF Taking, Underway, Before, CpuInv, Outside

LEMMA SubmitKeeps ==
  ASSUME BackendTypes, CpuInv, ExactInv, NEW c \in Channels, SubmitChunk(c)
  PROVE  ExactInv'
  <1>1. /\ callSame
        /\ UNCHANGED <<out, got, data, txPending, level, asked, stale, EMR, IPR, m_transfer_done, m_transfer_error>>
    BY CallSame DEF Controller, SubmitChunk, Submit, SubmitTransfer, eventVars, intrVars, softVars, flagVars, uartVars
  <1>2. Underway /\ c = chan /\ c \in ER /\ ER' = ER \ {c} /\ at # "tail" /\ ~Before /\ op # "none"
    BY TakenIsOwn DEF SubmitChunk, Submit, SubmitTransfer
  <1>3. /\ paRAM[c] > 0 /\ paRAM' = [paRAM EXCEPT ![c] = @ - 1]
        /\ c \notin moving \union inflight
        /\ IF paRAM[c] = 1 THEN inflight' = inflight \union {c} /\ moving' = moving
                           ELSE inflight' = inflight /\ moving' = moving \union {c}
    BY DEF SubmitChunk, Submit, SubmitTransfer
  <1>4. paRAM[c] \in Nat /\ paRAM'[c] = paRAM[c] - 1
    BY <1>3, MaxCountAssumption DEF BackendTypes, TypeOK, ccTypeOK
  <1>5. size \div Chunk \in Nat
    BY <1>2, WholeChunks, Numbers DEF CpuInv
  <1>6. ASSUME Going
        PROVE  Going'
    <2>1. chan' = chan /\ chunks' = chunks /\ (Fits' <=> Fits)
      BY <1>1, <1>2, <1>3, <1>4, <1>5 DEF chan, chunks, Fits, callSame
    <2>2. (chunks >= 0 /\ Contents(chunks * Chunk))'
      BY <1>1, <1>6, <2>1 DEF Going, Contents, callSame
    <2>3. ~Finished
      BY <1>2, <1>3 DEF Finished
    <2>4. /\ chan \in moving' => paRAM'[chan] > 0
          /\ chan \in inflight' => paRAM'[chan] = 0
      BY <1>2, <1>3, <1>4
    <2>5. at # "wait" => ~ok /\ timedOut
      BY <1>6, <2>3 DEF Going
    <2>6. QED
      BY <1>1, <1>2, <1>6, <2>1, <2>2, <2>3, <2>4, <2>5 DEF Going, callSame
  <1>7. QED
    BY <1>1, <1>2, <1>6, ByPhase

LEMMA IgnoreOrMissKeeps ==
  ASSUME BackendTypes, CpuInv, ExactInv, NEW c \in Channels, IgnoreOrMiss(c)
  PROVE  ExactInv'
  <1>1. /\ callSame
        /\ UNCHANGED <<out, got, data, txPending, level, asked, moving, stale, paRAM, inflight, IPR, m_transfer_done,
                       m_transfer_error>>
    BY CallSame DEF Controller, IgnoreOrMiss, Exhausted, ExhaustedSet, intrVars, paramVars, softVars, flagVars, uartVars,
                    flowVars
  <1>2. Underway /\ c = chan /\ c \in ER /\ ER' = ER \ {c} /\ at # "tail" /\ ~Before /\ op # "none"
    BY TakenIsOwn DEF IgnoreOrMiss, Exhausted, ExhaustedSet
  <1>3. paRAM[c] = 0 /\ EMR' = IF link[c] = "null" THEN EMR \union {c} ELSE EMR
    BY DEF IgnoreOrMiss, Exhausted, ExhaustedSet
  <1>4. ASSUME Going
        PROVE  Going'
    <2>1. chan' = chan /\ (Fits' <=> Fits)
      BY <1>1 DEF chan, Fits, callSame
    <2>2. Finished /\ Fits
      BY <1>2, <1>3, <1>4 DEF Going, Finished
    <2>3. op = "write" => EMR' = EMR
      BY <1>2, <1>3, <1>4 DEF Going
    <2>4. op # "write" => level >= Level
      BY <1>2, <2>2, ChannelOfCall, Numbers DEF Fits
    <2>5. op = "write" => chan \notin EMR' \union m_transfer_error'
      BY <1>1, <1>4, <2>3 DEF Going
    <2>6. chan \in EMR' \union m_transfer_error' => level >= Level
      BY <2>4, <2>5
    <2>7. QED
      BY <1>1, <1>2, <1>4, <2>1, <2>2, <2>5, <2>6, BytesSame DEF Going, callSame
  <1>5. QED
    BY <1>1, <1>2, <1>4, ByPhase

LEMMA MoveKeeps ==
  ASSUME BackendTypes, CpuInv, FlowInv, ExactInv, NEW c \in Channels, MoveChunk(c) \/ CompleteChunk(c)
  PROVE  ExactInv'
  <1>1. callSame
    BY CallSame DEF Controller
  <1>2. /\ MoveBytes(c)
        /\ UNCHANGED <<paRAM, link, ER, EMR, m_transfer_done, m_transfer_error>>
        /\ asked' = asked \ {c}
        /\ c \in moving \union inflight
    BY DEF MoveChunk, CompleteChunk, MoveBytes, Complete, CompleteTransfer, softVars, eventVars, paramVars,
           flagVars, vars, ccVars
  <1>3. \/ c \in moving /\ moving' = moving \ {c} /\ inflight' = inflight /\ IPR' = IPR
        \/ c \in inflight /\ moving' = moving /\ inflight' = inflight \ {c} /\ IPR' = IPR \union {c}
    BY DEF MoveChunk, CompleteChunk, Complete, CompleteTransfer, vars, ccVars, intrVars
  <1>4. op = "none" => UNCHANGED <<out, got>>
    BY <1>2 DEF MoveBytes
  <1>5. ASSUME op # "none", ~leftover, c # chan
        PROVE  ExactInv'
    <2>1. /\ UNCHANGED <<out, got, data>>
          /\ chan = Tx => UNCHANGED txPending
          /\ chan = Rx => UNCHANGED level
          /\ chan \in asked => chan \in asked'
      BY <1>2, <1>5, OthersChunk
    <2>2. /\ chan' = chan /\ (Fits' <=> Fits) /\ (chan \in Supplied' <=> chan \in Supplied)
          /\ op = "read" => level' = level
      BY <1>1, <2>1, <1>5, ChannelOfCall, Numbers DEF callSame, chan, Fits, Supplied
    <2>3. /\ chan \in moving' <=> chan \in moving
          /\ chan \in inflight' <=> chan \in inflight
          /\ chan \in IPR' <=> chan \in IPR
      BY <1>3, <1>5
    <2>4. Armed => Armed'
      BY <1>1, <1>2, <2>1, <2>2, <2>3, BytesSame DEF Armed, callSame
    <2>5. Going => Going'
      <3>1. chunks' = chunks /\ (Finished' <=> Finished)
        BY <1>1, <1>2, <2>2, <2>3 DEF chunks, Finished, callSame
      <3>2. Contents(chunks * Chunk)' <=> Contents(chunks * Chunk)
        BY <1>1, <2>1, <3>1 DEF Contents, callSame
      <3>3. op = "write" \/ op = "read"
        BY <1>5, ChannelOfCall
      <3>4. QED
        BY <1>1, <1>2, <2>1, <2>2, <2>3, <3>1, <3>2, <3>3 DEF Going, callSame
    <2>6. QED
      BY <1>1, <1>4, <2>1, <2>4, <2>5, ByPhase, BytesSame
  <1>6. ASSUME op # "none", ~leftover, c = chan
        PROVE  ExactInv'
    <2>1. Underway
      BY <1>2, <1>6 DEF FlowInv
    <2>2. c \notin moving' \union inflight'
      BY <1>3 DEF FlowInv
    <2>3. ASSUME Going
          PROVE  Going'
      <3>1. size \in Nat
        BY <1>6, Numbers DEF CpuInv
      <3>2. (chunks >= 0 /\ Contents(chunks * Chunk))'
        BY <1>2, <1>6, <2>2, <2>3, <3>1, OwnChunk
      <3>3. chan' = chan /\ chan \notin ER
        BY <1>1, <1>2, <1>6, <2>3 DEF callSame, chan, Going
      <3>4. ~Finished
        BY <1>2, <1>6 DEF Finished
      <3>5. chan \notin IPR \union (m_transfer_done \ m_transfer_error) \union EMR \union m_transfer_error
        BY <2>3, <3>4 DEF Going
      <3>6. chan \in IPR' => Finished'
        BY <1>2, <1>3, <1>6, <2>2, <2>3, <3>3, <3>5 DEF Going, Finished
      <3>7. at # "wait" => ~ok /\ timedOut
        BY <2>3, <3>4 DEF Going
      <3>8. QED
        BY <1>1, <1>2, <1>6, <2>2, <2>3, <3>2, <3>3, <3>5, <3>6, <3>7 DEF Going, callSame
    <2>4. QED
      BY <1>1, <1>4, <1>6, <2>1, <2>3, ByPhase DEF Underway, Before
  <1>7. op = "none" \/ leftover => ExactInv'
    BY <1>1, <1>4 DEF ExactInv, callSame
  <1>8. QED
    BY <1>5, <1>6, <1>7

-----------------------------------------------------------------------------
(* The theorems. *)

LEMMA InitBackend == Init_ => BackendInv
  BY BackendInitTypes, CpuInvInit, IrqInvInit, FlowInvInit, ExactInvInit DEF BackendInv

LEMMA MethodKeepsExact ==
  ASSUME PromptIrq, BackendInv, DmaMethodStep
  PROVE  ExactInv'
  <1>1. UNCHANGED <<op, out, got>>
    BY DEF DmaMethodStep, callVars, uartVars
  <1>2. CASE op = "none"
    BY <1>1, <1>2, MethodsOutside DEF BackendInv
  <1>3. CASE op # "none"
    <2>1. \/ at = "wait" /\ pc \in Arming /\ arg = "EVENT"
          \/ at = "halted" /\ pc \in {"disable", "eecr"} /\ m_trigger_mode[cur] = "EVENT"
      <3>1. pc # "idle"
        BY DEF DmaMethodStep, MethodStep, RegisterComplete, RegisterError, RegisterContext, RegisterHandler,
               DisableManual, DisableEvent, DisableEventEnable, ResetDone, ResetError, EnableManual, EnableEvent,
               EnableEventEnable, FreeMaskInterrupt, FreeClearInterrupt, UnregisterField, Step
      <3>2. at \in {"wait", "halted"}
        BY <1>3, <3>1 DEF BackendInv, CpuInv, BackendTypes
      <3>3. at = "halted" => m_trigger_mode[cur] = "EVENT"
        BY <3>1 DEF BackendInv, CpuInv, Taking, Underway
      <3>4. QED
        BY <3>1, <3>2, <3>3 DEF BackendInv, CpuInv
    <2>2. \/ ResetDone \/ ResetError \/ EnableEvent \/ EnableEventEnable
          \/ at = "halted" /\ (DisableEvent \/ DisableEventEnable)
      BY <2>1 DEF DmaMethodStep, MethodStep, RegisterComplete, RegisterError, RegisterContext, RegisterHandler,
               DisableManual, DisableEvent, DisableEventEnable, ResetDone, ResetError, EnableManual, EnableEvent,
               EnableEventEnable, FreeMaskInterrupt, FreeClearInterrupt, UnregisterField, Step, Arming
    <2>3. QED
      BY <2>2, TriggerKeepsArmed, EnableStarts, HaltKeepsGoing DEF BackendInv
  <1>4. QED
    BY <1>2, <1>3

LEMMA BackendStepKeeps ==
  ASSUME PromptIrq
  PROVE  BackendInv /\ [Next_]_allVars => BackendInv'
  <1> SUFFICES ASSUME BackendInv, [Next_]_allVars
               PROVE  BackendInv'
    OBVIOUS
  <1> USE DEF BackendInv
  <1>1. CASE \/ InitTx \/ InitRx \/ StopBackend
             \/ FreeChannel("free_tx", Tx, "free_rx") \/ FreeChannel("free_rx", Rx, "idle")
    <2>1. CpuStep
      BY <1>1 DEF CpuStep, Client, BackendStep
    <2>2. QED
      BY <1>1, <2>1, CpuTypes, CpuInvSetup, IrqInvCalls, FlowInvSetup, ExactInvSetup
  <1>2. ASSUME NEW o \in {"write", "read"}, NEW n \in Sizes, Begin(o, n)
        PROVE  BackendInv'
    <2>1. CpuStep
      BY <1>2 DEF CpuStep, Client
    <2>2. QED
      BY <1>2, <2>1, BeginTypes, CpuInvCalls, IrqInvCalls, FlowInvCalls, BeginArms
  <1>3. CASE \/ DMA_enable \/ StartDma \/ Wait \/ DMA_disable \/ HaltDma \/ Halted
             \/ PutTail \/ GetTail \/ TailTimeout \/ Return
    <2>1. CpuStep
      BY <1>3 DEF CpuStep, BackendStep
    <2>2. BackendTypes' /\ CpuInv' /\ IrqInv' /\ FlowInv'
      BY <1>3, <2>1, CpuTypes, CpuInvCalls, IrqInvCalls, FlowInvCalls
    <2>3. ExactInv'
      BY <1>3, EnableKeepsArmed, WaitEnds, HaltKeepsGoing, HaltedEnds, PutKeepsTailing, GetKeepsTailing, OverForgets
    <2>4. QED
      BY <2>2, <2>3
  <1>4. CASE DmaMethodStep
    BY <1>4, OtherTypes, CpuInvMethods, IrqInvMethods, FlowInvMethods, MethodKeepsExact
  <1>5. CASE Service
    BY <1>5, OtherTypes, CpuInvOthers, IrqInvService, FlowInvOthers, ServiceKeeps
  <1>6. CASE LineByte \/ ShiftByte
    BY <1>6, OtherTypes, CpuInvOthers, IrqInvOthers, FlowInvOthers, FifoKeeps
  <1>7. ASSUME NEW c \in Channels, Controller(c)
        PROVE  BackendInv'
    <2>1. BackendTypes'
      BY <1>7, OtherTypes, MoveTypes DEF Controller
    <2>2. ExactInv'
      BY <1>7, RequestKeeps, SubmitKeeps, IgnoreOrMissKeeps, MoveKeeps DEF Controller
    <2>3. QED
      BY <1>7, <2>1, <2>2, CpuInvOthers, IrqInvOthers, FlowInvOthers
  <1>8. CASE UNCHANGED allVars
    <2>1. BackendTypes'
      BY <1>8, StutterTypeOK DEF BackendTypes, allVars, callVars, uartVars, flowVars
    <2>2. QED
      BY <1>8, <2>1, CpuInvOthers, IrqInvOthers, FlowInvOthers, FifoKeeps
  <1>9. QED
    BY <1>1, <1>2, <1>3, <1>4, <1>5, <1>6, <1>7, <1>8 DEF Next_, Client, BackendStep

\* At every step of a call the requests in the controller, the bytes moved and
\* the flags belong together, for any chunk, FIFO and transfer sizes, any number
\* of timeouts and any line, if interrupts are served before the CPU goes on.
THEOREM BackendInvariant ==
  ASSUME PromptIrq
  PROVE  BackendSpec => []BackendInv
  BY InitBackend, BackendStepKeeps, PTL DEF BackendSpec

\* A write that reports success has sent each byte once and in order.
THEOREM BackendWriteIsExact ==
  ASSUME PromptIrq
  PROVE  BackendSpec => []WriteIsExact
  <1>1. BackendInv => WriteIsExact
    <2> SUFFICES ASSUME BackendInv, Succeeds("write"), ~leftover
                 PROVE  out = [i \in 1..size |-> i]
      BY DEF WriteIsExact
    <2>1. Tailing /\ next = size /\ op = "write"
      BY DEF BackendInv, ExactInv, Succeeds
    <2>2. QED
      BY <2>1 DEF Tailing, Contents
  <1>2. QED
    BY BackendInvariant, <1>1, PTL

\* A read that reports success has filled its buffer with the bytes that came.
THEOREM BackendReadIsExact ==
  ASSUME PromptIrq
  PROVE  BackendSpec => []ReadIsExact
  <1>1. BackendInv => ReadIsExact
    <2> SUFFICES ASSUME BackendInv, Succeeds("read"), ~leftover
                 PROVE  data = [i \in 1..size |-> i]
      BY DEF ReadIsExact
    <2>1. Tailing /\ next = size /\ op = "read" /\ size \in Nat
      BY DEF BackendInv, BackendTypes, ExactInv, Succeeds
    <2>2. data = [i \in 1..size |-> IF i <= size THEN i ELSE 0]
      BY <2>1 DEF Tailing, Contents
    <2>3. QED
      BY <2>1, <2>2
  <1>2. QED
    BY BackendInvariant, <1>1, PTL

\* The DMA part of a call fails for its time or for a surplus chunk on the line.
THEOREM BackendFailureHasReason ==
  ASSUME PromptIrq
  PROVE  BackendSpec => []FailureHasReason
  <1>1. BackendInv => FailureHasReason
    BY DEF BackendInv, CpuInv, Outside, ExactInv, Underway, Going, FailureHasReason, Aborted
  <1>2. QED
    BY BackendInvariant, <1>1, PTL
=============================================================================
