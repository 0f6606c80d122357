------------------------- MODULE FreeRtosPortProofs --------------------------
(***************************************************************************)
(* Safety of the FreeRTOS port for any tasks, interrupt sources and        *)
(* priorities, and any depth of critical sections and handlers.            *)
(*                                                                         *)
(* The argument: THRESHOLD only ever holds 0, under which no source passes *)
(* (every priority is at least 1), or 255, so a handler always runs with   *)
(* 255; the mask functions it calls then find it "already masked" and do   *)
(* not reach their CPSIE, so no second handler can start.  That gives the  *)
(* nesting count, the yield flag and the one place where a switch happens; *)
(* the rest is that what a task has loaded stays true of its own context.  *)
(***************************************************************************)
EXTENDS FreeRtosPort, TLAPS

ThresholdInv == threshold \in {0, 255}

\* No source passes before the first task's context is loaded.
BootInv ==
    /\ phase # "running" =>
         /\ level = 0 /\ ulCriticalNesting = 0
         /\ \A t \in Tasks : /\ depth[t] = 0 /\ ~usesFpu[t] /\ at[t] = "run"
                             /\ saved[t].nesting = 0 /\ saved[t].hasFpu = FALSE
    /\ phase \in {"disable", "start", "tick"} => pending = {} /\ timerOn = FALSE
    /\ phase \in {"tick", "restore"} => threshold = 0

\* A handler runs alone, with the threshold off and the CPU's mask on.
HandlerInv ==
    /\ level > 0 => /\ level = 1 /\ threshold = 255 /\ irqDisabled = TRUE
                    /\ ulPortInterruptNesting = 1 /\ frame[1].old = 0
    /\ level = 0 => ulPortInterruptNesting = 0 /\ ulPortYieldRequired = FALSE

\* What a task knows of its own nesting, and what its context says of it.
NestInv ==
    /\ NestingIsOwn
    /\ \A t \in Tasks :
         /\ at[t] \in {"inc_store", "dec_store"} => reg[t] = depth[t]
         /\ at[t] \in {"exit_test", "dec_load", "dec_store"} => depth[t] > 0
         /\ at[t] = "clear_mask" => depth[t] = 0

\* The running task's critical section is masked, from the store on.
MaskInv ==
    /\ SectionKeepsMask
    /\ \/ at[pxCurrentTCB] \in {"inc_load", "inc_store"}
       \/ at[pxCurrentTCB] = "mask_write" /\ reg[pxCurrentTCB] = 255
       => threshold = 255

FpuInv ==
    /\ FpuIsOwn
    /\ \A t \in Tasks : at[t] = "fpu_init" =>
         IF t = pxCurrentTCB THEN ulPortTaskHasFPUContext = TRUE ELSE saved[t].hasFpu = TRUE

PortInv ==
    TypeOK /\ ThresholdInv /\ BootInv /\ HandlerInv /\ NestInv /\ MaskInv /\ FpuInv

-----------------------------------------------------------------------------
(* A context switch keeps every part of the invariant that a task's        *)
(* context can disturb, and leaves the threshold off.                      *)
LEMMA SwitchTyped ==
    ASSUME TypeOK, NEW t \in Tasks, SwitchTo(t)
    PROVE  /\ saved' \in [Tasks -> Contexts] /\ pxCurrentTCB' \in Tasks
           /\ fpu' \in Tasks \union {NoOwner}
           /\ ulCriticalNesting' \in Nat /\ ulPortTaskHasFPUContext' \in BOOLEAN
           /\ threshold' = 255 /\ irqDisabled' \in BOOLEAN
<1> DEFINE c == saved'[t]
<1>1. SavedContext \in Contexts
  <2>1. (IF ulPortTaskHasFPUContext THEN fpu ELSE NoOwner) \in Tasks \union {NoOwner}
    BY DEF TypeOK
  <2> QED
    BY <2>1 DEF TypeOK, SavedContext, Contexts
<1>2. saved' \in [Tasks -> Contexts]
  BY <1>1 DEF TypeOK, SwitchTo
<1>3. c \in Contexts
  BY <1>2
<1>4. c.nesting \in Nat /\ c.hasFpu \in BOOLEAN /\ c.fpu \in Tasks \union {NoOwner}
  BY <1>3 DEF Contexts
<1>5. irqDisabled' \in BOOLEAN
  <2>1. irqDisabled' = FALSE
    BY DEF SwitchTo
  <2> QED
    BY <2>1, Zenon
<1>6. RestoreContext(c) /\ pxCurrentTCB' = t
  BY DEF SwitchTo
<1>7. ulPortTaskHasFPUContext' \in BOOLEAN
  <2>1. ulPortTaskHasFPUContext' = c.hasFpu
    BY <1>6 DEF RestoreContext
  <2> QED
    BY <2>1, <1>4, Zenon
<1>8. fpu' \in Tasks \union {NoOwner} /\ ulCriticalNesting' \in Nat /\ threshold' = 255
  BY <1>4, <1>6 DEF TypeOK, RestoreContext, RestoredFpu, RestoredThreshold, NoThreshold,
     configMAX_API_CALL_INTERRUPT_PRIORITY
<1> QED
  BY <1>2, <1>5, <1>6, <1>7, <1>8

LEMMA SwitchKeepsContexts ==
    ASSUME PortInv, NEW t \in Tasks, SwitchTo(t), phase = "running",
           UNCHANGED <<at, reg, depth, usesFpu, phase>>
    PROVE  NestInv' /\ MaskInv' /\ FpuInv'
<1> USE DEF PortInv
<1>1. /\ threshold' = 255 /\ pxCurrentTCB' = t
      /\ saved' = [saved EXCEPT ![pxCurrentTCB] = SavedContext]
      /\ ulCriticalNesting' = saved'[t].nesting
      /\ ulPortTaskHasFPUContext' = saved'[t].hasFpu
      /\ fpu' = IF saved'[t].hasFpu THEN saved'[t].fpu ELSE fpu
  BY SwitchTyped DEF SwitchTo, RestoreContext, RestoredFpu
<1>2. pxCurrentTCB \in Tasks /\ saved \in [Tasks -> Contexts]
  BY DEF TypeOK
<1>3. \A u \in Tasks : saved'[u] = IF u = pxCurrentTCB THEN SavedContext ELSE saved[u]
  BY <1>1, <1>2
<1>4. \A u \in Tasks : saved'[u].nesting = depth[u]
  BY <1>2, <1>3 DEF NestInv, NestingIsOwn, SavedContext
<1>5. NestInv'
  BY <1>1, <1>4 DEF NestInv, NestingIsOwn
<1>6. MaskInv'
  BY <1>1 DEF MaskInv, SectionKeepsMask, configMAX_API_CALL_INTERRUPT_PRIORITY
<1>7. \A u \in Tasks : usesFpu[u] => saved'[u].hasFpu = TRUE /\ saved'[u].fpu = u
  <2> TAKE u \in Tasks
  <2> HAVE usesFpu[u]
  <2>0. ulPortTaskHasFPUContext \in BOOLEAN /\ saved[u].hasFpu \in BOOLEAN
    BY <1>2 DEF TypeOK, Contexts
  <2>1. CASE u = pxCurrentTCB
    <3>1. ulPortTaskHasFPUContext = TRUE /\ fpu = u
      BY <2>0, <2>1 DEF FpuInv, FpuIsOwn
    <3> QED
      BY <3>1, <2>1, <1>3 DEF SavedContext
  <2>2. CASE u # pxCurrentTCB
    <3>1. saved[u].hasFpu = TRUE /\ saved[u].fpu = u
      BY <2>0, <2>2 DEF FpuInv, FpuIsOwn
    <3> QED
      BY <3>1, <2>2, <1>3
  <2> QED
    BY <2>1, <2>2
<1>8. \A u \in Tasks : at[u] = "fpu_init" => saved'[u].hasFpu = TRUE
  BY <1>3 DEF FpuInv, SavedContext
<1>9. FpuInv'
  BY <1>1, <1>7, <1>8 DEF FpuInv, FpuIsOwn
<1> QED
  BY <1>5, <1>6, <1>9

-----------------------------------------------------------------------------
LEMMA InitPort == Init => PortInv
<1> SUFFICES ASSUME Init PROVE PortInv
  OBVIOUS
<1> USE TaskAssumption, IrqAssumption, BoundAssumption
<1>1. InitialContext \in Contexts
  BY DEF InitialContext, Contexts
<1>2. NoFrame \in Frames
  BY DEF NoFrame, Frames, FrameSteps
<1>3. TypeOK
  <2>1. /\ intcReady = TRUE /\ irqDisabled = FALSE /\ timerOn = FALSE
        /\ ulPortYieldRequired = FALSE /\ ulPortTaskHasFPUContext = FALSE
    BY DEF Init
  <2>2. /\ intcReady \in BOOLEAN /\ irqDisabled \in BOOLEAN /\ timerOn \in BOOLEAN
        /\ ulPortYieldRequired \in BOOLEAN /\ ulPortTaskHasFPUContext \in BOOLEAN
    BY <2>1, Zenon
  <2>3. saved \in [Tasks -> Contexts] /\ frame \in [1..MaxLevel -> Frames]
    BY <1>1, <1>2 DEF Init
  <2>4. /\ at \in [Tasks -> TaskSteps] /\ reg \in [Tasks -> Nat] /\ depth \in [Tasks -> Nat]
        /\ usesFpu \in [Tasks -> BOOLEAN]
    BY DEF Init, TaskSteps
  <2>5. /\ threshold \in 0..255 /\ pending \in SUBSET Irqs /\ fpu \in Tasks \union {NoOwner}
        /\ ulCriticalNesting \in Nat /\ ulPortInterruptNesting \in Nat
        /\ pxCurrentTCB \in Tasks /\ level \in 0..MaxLevel /\ phase \in Phases
    BY DEF Init, portUNMASK_VALUE, Phases
  <2> QED
    BY <2>2, <2>3, <2>4, <2>5 DEF TypeOK
<1>4. ThresholdInv /\ BootInv /\ HandlerInv
  BY DEF Init, ThresholdInv, BootInv, HandlerInv, InitialContext, portUNMASK_VALUE
<1>5. NestInv /\ MaskInv
  BY DEF Init, NestInv, NestingIsOwn, MaskInv, SectionKeepsMask
<1>6. FpuInv
  <2>1. \A t \in Tasks : usesFpu[t] = FALSE /\ at[t] = "run"
    BY DEF Init
  <2> QED
    BY <2>1 DEF FpuInv, FpuIsOwn, TypeOK, Init
<1> QED
  BY <1>3, <1>4, <1>5, <1>6 DEF PortInv

(* Sources, and the start of the scheduler.                                *)
LEMMA RaiseKeeps ==
    ASSUME PortInv, NEW irq \in Irqs, Raise(irq)
    PROVE  PortInv'
<1> USE DEF Raise, PortInv, portVars, taskVars, irqVars, bootVars, ghosts
<1>1. TypeOK'
  BY DEF TypeOK
<1>2. ThresholdInv' /\ BootInv' /\ HandlerInv'
  BY DEF ThresholdInv, BootInv, HandlerInv
<1>3. NestInv' /\ MaskInv'
  BY DEF NestInv, NestingIsOwn, MaskInv, SectionKeepsMask
<1>4. FpuInv'
  BY DEF FpuInv, FpuIsOwn
<1> QED
  BY <1>1, <1>2, <1>3, <1>4

\* While no task runs, nothing is nested and nobody uses the FPU.
LEMMA BootKeeps ==
    ASSUME PortInv, StartDisable \/ StartUnmask \/ StartTick
    PROVE  PortInv'
<1> USE DEF PortInv, portVars, taskVars, irqVars, ghosts, intcVars
<1>0. /\ phase # "running" /\ level = 0
      /\ UNCHANGED <<intcReady, pending, fpu, portVars, taskVars, irqVars, ghosts>>
  BY DEF StartDisable, StartUnmask, StartTick
<1>1. /\ phase' \in {"start", "tick", "restore"}
      /\ threshold' \in {0, 255}
      /\ phase' \in {"tick", "restore"} => threshold' = 0
      /\ phase' \in {"start", "tick"} => pending = {} /\ timerOn' = FALSE
  BY DEF StartDisable, StartUnmask, StartTick, WriteMask, portCLEAR_INTERRUPT_MASK, BootInv, ThresholdInv,
     portUNMASK_VALUE, configMAX_API_CALL_INTERRUPT_PRIORITY
<1>2. irqDisabled' \in BOOLEAN /\ timerOn' \in BOOLEAN
  <2>1. irqDisabled' = FALSE \/ irqDisabled' = irqDisabled
    BY DEF StartDisable, StartUnmask, StartTick, WriteMask, portCLEAR_INTERRUPT_MASK
  <2>2. timerOn' = TRUE \/ timerOn' = timerOn
    BY DEF StartDisable, StartUnmask, StartTick
  <2>3. irqDisabled \in BOOLEAN /\ timerOn \in BOOLEAN
    BY DEF TypeOK
  <2> QED
    BY <2>1, <2>2, <2>3, Zenon
<1>3. TypeOK'
  BY <1>0, <1>1, <1>2 DEF TypeOK, Phases
<1>4. ThresholdInv' /\ BootInv' /\ HandlerInv'
  BY <1>0, <1>1 DEF ThresholdInv, BootInv, HandlerInv
<1>5. pxCurrentTCB \in Tasks /\ \A t \in Tasks : depth[t] = 0 /\ ~usesFpu[t] /\ at[t] = "run"
  BY <1>0 DEF BootInv, TypeOK
<1>6. NestInv' /\ MaskInv'
  BY <1>0, <1>1, <1>5 DEF NestInv, NestingIsOwn, MaskInv, SectionKeepsMask
<1>7. FpuInv'
  BY <1>0, <1>5 DEF FpuInv, FpuIsOwn
<1> QED
  BY <1>3, <1>4, <1>6, <1>7

LEMMA FirstRestoreKeeps ==
    ASSUME PortInv, vPortRestoreTaskContext
    PROVE  PortInv'
<1> USE DEF PortInv, irqVars, ghosts
<1>0. /\ phase = "restore" /\ level = 0 /\ phase' = "running"
      /\ at' = [at EXCEPT ![pxCurrentTCB] = "restored"]
      /\ UNCHANGED <<intcReady, pending, irqDisabled, ulPortYieldRequired, ulPortInterruptNesting,
                     pxCurrentTCB, saved, reg, level, frame, timerOn, depth, usesFpu>>
      /\ ulPortTaskHasFPUContext' = saved[pxCurrentTCB].hasFpu
      /\ ulCriticalNesting' = saved[pxCurrentTCB].nesting
  BY DEF vPortRestoreTaskContext, RestoreContext
<1>1. /\ pxCurrentTCB \in Tasks
      /\ \A t \in Tasks : depth[t] = 0 /\ ~usesFpu[t] /\ at[t] = "run"
                          /\ saved[t].nesting = 0 /\ saved[t].hasFpu = FALSE
  BY <1>0 DEF BootInv, TypeOK
<1>2. threshold' = 255 /\ fpu' = fpu
  BY <1>1 DEF vPortRestoreTaskContext, RestoreContext, RestoredThreshold, RestoredFpu, NoThreshold,
     configMAX_API_CALL_INTERRUPT_PRIORITY
<1>3. \A t \in Tasks : at'[t] \in {"run", "restored"}
  BY <1>0, <1>1 DEF TypeOK
<1>4. ulPortTaskHasFPUContext' \in BOOLEAN
  BY <1>0, <1>1, Zenon
<1>5. TypeOK'
  BY <1>0, <1>1, <1>2, <1>4 DEF TypeOK, Phases, TaskSteps
<1>6. ThresholdInv' /\ BootInv' /\ HandlerInv'
  BY <1>0, <1>2 DEF ThresholdInv, BootInv, HandlerInv
<1>7. NestInv' /\ MaskInv'
  BY <1>0, <1>1, <1>2, <1>3 DEF NestInv, NestingIsOwn, MaskInv, SectionKeepsMask,
     configMAX_API_CALL_INTERRUPT_PRIORITY
<1>8. FpuInv'
  BY <1>0, <1>1, <1>3 DEF FpuInv, FpuIsOwn
<1> QED
  BY <1>5, <1>6, <1>7, <1>8

-----------------------------------------------------------------------------
(* What a task does.  Every step is the running task's, moves only its own *)
(* at and reg, and finds no handler in progress.                           *)
LEMMA MovesOwn ==
    ASSUME TypeOK, NEW s, Goto(s)
    PROVE  /\ pxCurrentTCB \in Tasks
           /\ at'[pxCurrentTCB] = s
           /\ \A t \in Tasks \ {pxCurrentTCB} : at'[t] = at[t]
           /\ s \in TaskSteps => at' \in [Tasks -> TaskSteps]
BY DEF TypeOK, Goto

LEMMA LoadsOwn ==
    ASSUME TypeOK, NEW v \in Nat, Load(v)
    PROVE  /\ reg'[pxCurrentTCB] = v
           /\ \A t \in Tasks \ {pxCurrentTCB} : reg'[t] = reg[t]
           /\ reg' \in [Tasks -> Nat]
BY DEF TypeOK, Load

\* Steps that only move and load: calls, tests and loads.
LEMMA MovesKeep ==
    ASSUME PortInv,
           \/ FirstTaskEntered \/ vPortEnterCritical \/ MaskRead \/ IncrementLoad
           \/ vPortExitCritical \/ ExitTest \/ DecrementLoad \/ ZeroTest
    PROVE  PortInv'
<1> DEFINE me == pxCurrentTCB
<1> USE DEF PortInv, intcVars, portVars, irqVars, bootVars, ghosts
<1>0. /\ phase = "running" /\ level = 0
      /\ UNCHANGED <<intcVars, fpu, portVars, pxCurrentTCB, saved, irqVars, bootVars, ghosts>>
  BY DEF FirstTaskEntered, vPortEnterCritical, MaskRead, IncrementLoad, vPortExitCritical, ExitTest,
     DecrementLoad, ZeroTest, TaskAt
<1>1. me \in Tasks /\ ulCriticalNesting = depth[me] /\ depth[me] \in Nat
  BY <1>0 DEF NestInv, NestingIsOwn, TypeOK
<1>2. PICK s \in TaskSteps :
        /\ Goto(s)
        /\ s \notin {"dec_store", "inc_store", "mask_write"} => reg' = reg
        /\ s = "mask_write" => at[me] = "mask_read" /\ Load(threshold)
        /\ s \in {"inc_store", "dec_store"} => Load(ulCriticalNesting)
        /\ s = "inc_store" => at[me] = "inc_load"
        /\ s \in {"exit_test", "dec_load", "dec_store"} => depth[me] > 0
        /\ s = "clear_mask" => depth[me] = 0
        /\ s \notin {"inc_load", "fpu_init"}
  <2> USE <1>1 DEF TaskAt, current, TaskSteps, EnterSteps, ExitSteps
  <2>1. CASE FirstTaskEntered
    BY <2>1 DEF FirstTaskEntered
  <2>2. CASE vPortEnterCritical
    BY <2>2 DEF vPortEnterCritical
  <2>3. CASE MaskRead
    BY <2>3 DEF MaskRead
  <2>4. CASE IncrementLoad
    BY <2>4 DEF IncrementLoad
  <2>5. CASE vPortExitCritical
    BY <2>5 DEF vPortExitCritical
  <2>6. CASE ExitTest
    BY <2>6 DEF ExitTest
  <2>7. CASE DecrementLoad
    BY <2>7 DEF DecrementLoad, NestInv
  <2>8. CASE ZeroTest
    BY <2>8 DEF ZeroTest
  <2> QED
    BY <2>1, <2>2, <2>3, <2>4, <2>5, <2>6, <2>7, <2>8
<1>3. /\ at'[me] = s /\ at' \in [Tasks -> TaskSteps]
      /\ \A t \in Tasks \ {me} : at'[t] = at[t]
  BY <1>2, MovesOwn
<1>4. /\ reg' \in [Tasks -> Nat]
      /\ \A t \in Tasks \ {me} : reg'[t] = reg[t]
      /\ s = "mask_write" => reg'[me] = threshold
      /\ s \in {"inc_store", "dec_store"} => reg'[me] = depth[me]
  <2>0. threshold \in Nat /\ ulCriticalNesting \in Nat /\ reg \in [Tasks -> Nat]
    BY DEF TypeOK
  <2>1. CASE s \notin {"dec_store", "inc_store", "mask_write"}
    BY <2>0, <2>1, <1>2
  <2>2. CASE s = "mask_write"
    <3>1. Load(threshold)
      BY <2>2, <1>2
    <3> QED
      BY <2>0, <2>2, <3>1, LoadsOwn
  <2>3. CASE s \in {"inc_store", "dec_store"}
    <3>1. Load(ulCriticalNesting)
      BY <2>3, <1>2
    <3> QED
      BY <2>0, <2>3, <3>1, <1>1, LoadsOwn
  <2> QED
    BY <1>2, <2>1, <2>2, <2>3
<1>5. TypeOK'
  BY <1>0, <1>3, <1>4 DEF TypeOK
<1>6. ThresholdInv' /\ BootInv' /\ HandlerInv'
  BY <1>0 DEF ThresholdInv, BootInv, HandlerInv
<1>7. NestInv'
  BY <1>0, <1>1, <1>2, <1>3, <1>4 DEF NestInv, NestingIsOwn
<1>8. MaskInv'
  BY <1>0, <1>1, <1>2, <1>3, <1>4 DEF MaskInv, SectionKeepsMask
<1>9. FpuInv'
  BY <1>0, <1>1, <1>2, <1>3 DEF FpuInv, FpuIsOwn
<1> QED
  BY <1>5, <1>6, <1>7, <1>8, <1>9

\* The two stores to the nesting count.
LEMMA CountsKeep ==
    ASSUME PortInv, IncrementStore \/ DecrementStore
    PROVE  PortInv'
<1> DEFINE me == pxCurrentTCB
<1> USE DEF PortInv, intcVars, portVars, irqVars, bootVars, ghosts
<1>0. /\ phase = "running" /\ level = 0 /\ me \in Tasks
      /\ UNCHANGED <<intcVars, fpu, ulPortYieldRequired, ulPortInterruptNesting, ulPortTaskHasFPUContext,
                     pxCurrentTCB, saved, irqVars, bootVars, usesFpu>>
      /\ Load(0)
  BY DEF IncrementStore, DecrementStore, TaskAt, TypeOK
<1>1. PICK s \in {"run", "zero_test"}, n \in Nat :
        /\ Goto(s) /\ ulCriticalNesting' = n /\ depth' = [depth EXCEPT ![me] = n]
        /\ n > 0 => threshold = 255
  <2>1. depth[me] \in Nat /\ depth \in [Tasks -> Nat]
    BY <1>0 DEF TypeOK
  <2>2. CASE IncrementStore
    <3>1. reg[me] = depth[me] /\ threshold = 255
      BY <2>2, <1>0 DEF IncrementStore, TaskAt, NestInv, MaskInv
    <3>2. Goto("run") /\ ulCriticalNesting' = depth[me] + 1 /\ depth' = [depth EXCEPT ![me] = depth[me] + 1]
      BY <2>2, <3>1 DEF IncrementStore, current
    <3>3. depth[me] + 1 \in Nat
      BY <2>1
    <3> WITNESS "run" \in {"run", "zero_test"}, depth[me] + 1 \in Nat
    <3> QED
      BY <3>1, <3>2
  <2>3. CASE DecrementStore
    <3>1. reg[me] = depth[me] /\ depth[me] > 0 /\ threshold = 255
      BY <2>3, <1>0 DEF DecrementStore, TaskAt, NestInv, MaskInv, SectionKeepsMask,
         configMAX_API_CALL_INTERRUPT_PRIORITY
    <3>2. Goto("zero_test") /\ ulCriticalNesting' = depth[me] - 1 /\ depth' = [depth EXCEPT ![me] = depth[me] - 1]
      BY <2>3, <3>1 DEF DecrementStore, current
    <3>3. depth[me] - 1 \in Nat
      BY <2>1, <3>1
    <3> WITNESS "zero_test" \in {"run", "zero_test"}, depth[me] - 1 \in Nat
    <3> QED
      BY <3>1, <3>2
  <2> QED
    BY <2>2, <2>3
<1>2. /\ at'[me] = s /\ at' \in [Tasks -> TaskSteps]
      /\ \A t \in Tasks \ {me} : at'[t] = at[t]
  BY <1>1, MovesOwn DEF TaskSteps, ExitSteps
<1>3. /\ reg' \in [Tasks -> Nat]
      /\ \A t \in Tasks \ {me} : reg'[t] = reg[t]
  BY <1>0, LoadsOwn
<1>4. /\ depth' \in [Tasks -> Nat] /\ depth'[me] = n
      /\ \A t \in Tasks \ {me} : depth'[t] = depth[t]
  BY <1>0, <1>1 DEF TypeOK
<1>5. TypeOK'
  BY <1>0, <1>1, <1>2, <1>3, <1>4 DEF TypeOK
<1>6. ThresholdInv' /\ BootInv' /\ HandlerInv'
  BY <1>0 DEF ThresholdInv, BootInv, HandlerInv
<1>7. NestInv'
  BY <1>0, <1>1, <1>2, <1>3, <1>4 DEF NestInv, NestingIsOwn
<1>8. MaskInv'
  BY <1>0, <1>1, <1>2, <1>4 DEF MaskInv, SectionKeepsMask, configMAX_API_CALL_INTERRUPT_PRIORITY
<1>9. FpuInv'
  BY <1>0, <1>1, <1>2 DEF FpuInv, FpuIsOwn
<1> QED
  BY <1>5, <1>6, <1>7, <1>8, <1>9

\* The two stores to THRESHOLD.
LEMMA MasksKeep ==
    ASSUME PortInv, MaskWrite \/ ClearMask
    PROVE  PortInv'
<1> DEFINE me == pxCurrentTCB
<1> USE DEF PortInv, portVars, irqVars, bootVars, ghosts
<1>0. /\ phase = "running" /\ level = 0 /\ me \in Tasks
      /\ UNCHANGED <<intcReady, pending, fpu, portVars, pxCurrentTCB, saved, irqVars, bootVars, ghosts>>
      /\ reg' = reg \/ Load(0)
  BY DEF MaskWrite, ClearMask, TaskAt, TypeOK
<1>1. PICK s \in {"inc_load", "run"} :
        /\ Goto(s) /\ threshold' \in {0, 255}
        /\ s = "inc_load" \/ depth[me] > 0 => threshold' = 255
  <2>1. CASE MaskWrite
    BY <2>1, <1>0 DEF MaskWrite, TaskAt, WriteMask, MaskInv, ThresholdInv, current,
       configMAX_API_CALL_INTERRUPT_PRIORITY
  <2>2. CASE ClearMask
    BY <2>2, <1>0 DEF ClearMask, TaskAt, portCLEAR_INTERRUPT_MASK, NestInv, TypeOK, portUNMASK_VALUE
  <2> QED
    BY <2>1, <2>2
<1>2. irqDisabled' \in BOOLEAN
  <2>1. irqDisabled' = FALSE \/ irqDisabled' = irqDisabled
    BY DEF MaskWrite, ClearMask, WriteMask, portCLEAR_INTERRUPT_MASK
  <2>2. irqDisabled \in BOOLEAN
    BY DEF TypeOK
  <2> QED
    BY <2>1, <2>2, Zenon
<1>3. /\ at'[me] = s /\ at' \in [Tasks -> TaskSteps]
      /\ \A t \in Tasks \ {me} : at'[t] = at[t]
  BY <1>1, MovesOwn DEF TaskSteps, EnterSteps
<1>4. /\ reg' \in [Tasks -> Nat]
      /\ \A t \in Tasks \ {me} : reg'[t] = reg[t]
  BY <1>0, LoadsOwn DEF TypeOK
<1>5. TypeOK'
  BY <1>0, <1>1, <1>2, <1>3, <1>4 DEF TypeOK
<1>6. ThresholdInv' /\ BootInv' /\ HandlerInv'
  BY <1>0, <1>1 DEF ThresholdInv, BootInv, HandlerInv
<1>7. NestInv'
  BY <1>0, <1>1, <1>3, <1>4 DEF NestInv, NestingIsOwn
<1>8. MaskInv'
  BY <1>0, <1>1, <1>3 DEF MaskInv, SectionKeepsMask, configMAX_API_CALL_INTERRUPT_PRIORITY
<1>9. FpuInv'
  BY <1>0, <1>1, <1>3 DEF FpuInv, FpuIsOwn
<1> QED
  BY <1>5, <1>6, <1>7, <1>8, <1>9

LEMMA FpuStepsKeep ==
    ASSUME PortInv, vPortTaskUsesFPU \/ FpuInit
    PROVE  PortInv'
<1> DEFINE me == pxCurrentTCB
<1> USE DEF PortInv, intcVars, portVars, irqVars, bootVars, ghosts
<1>0. /\ phase = "running" /\ level = 0 /\ me \in Tasks
      /\ UNCHANGED <<intcVars, ulCriticalNesting, ulPortYieldRequired, ulPortInterruptNesting,
                     pxCurrentTCB, saved, reg, irqVars, bootVars, depth>>
  BY DEF vPortTaskUsesFPU, FpuInit, TaskAt, TypeOK
<1>1. ulPortTaskHasFPUContext' = TRUE
  <2>1. ulPortTaskHasFPUContext \in BOOLEAN
    BY DEF TypeOK
  <2> QED
    BY <2>1, <1>0 DEF vPortTaskUsesFPU, FpuInit, TaskAt, FpuInv
<1>2. PICK s \in {"fpu_init", "run"} :
        /\ Goto(s) /\ fpu' \in {fpu, me}
        /\ \/ usesFpu' = usesFpu /\ ~usesFpu[me]
           \/ usesFpu' = [usesFpu EXCEPT ![me] = TRUE] /\ fpu' = me
  BY DEF vPortTaskUsesFPU, FpuInit, current
<1>3. /\ at'[me] = s /\ at' \in [Tasks -> TaskSteps]
      /\ \A t \in Tasks \ {me} : at'[t] = at[t]
  BY <1>2, MovesOwn DEF TaskSteps
<1>4. \A t \in Tasks : usesFpu'[t] => IF t = me THEN fpu' = me ELSE usesFpu[t]
  BY <1>0, <1>2 DEF TypeOK
<1>5. usesFpu' \in [Tasks -> BOOLEAN]
  BY <1>0, <1>2 DEF TypeOK
<1>6. TypeOK'
  <2>1. ulPortTaskHasFPUContext' \in BOOLEAN
    BY <1>1, Zenon
  <2>2. fpu' \in Tasks \union {NoOwner}
    BY <1>0, <1>2 DEF TypeOK
  <2> QED
    BY <1>0, <1>3, <1>5, <2>1, <2>2 DEF TypeOK
<1>7. ThresholdInv' /\ BootInv' /\ HandlerInv'
  BY <1>0 DEF ThresholdInv, BootInv, HandlerInv
<1>8. NestInv' /\ MaskInv'
  BY <1>0, <1>2, <1>3 DEF NestInv, NestingIsOwn, MaskInv, SectionKeepsMask
<1>9. FpuInv'
  BY <1>0, <1>1, <1>3, <1>4 DEF FpuInv, FpuIsOwn
<1> QED
  BY <1>6, <1>7, <1>8, <1>9

LEMMA YieldKeeps ==
    ASSUME PortInv, FreeRTOS_SWI_Handler
    PROVE  PortInv'
<1> USE DEF PortInv, irqVars, bootVars, ghosts
<1>1. PICK t \in Tasks : SwitchTo(t)
  BY DEF FreeRTOS_SWI_Handler
<1>2. /\ phase = "running" /\ level = 0
      /\ UNCHANGED <<intcReady, pending, ulPortYieldRequired, ulPortInterruptNesting,
                     at, reg, irqVars, bootVars, ghosts>>
  BY DEF FreeRTOS_SWI_Handler, TaskAt
<1>3. TypeOK' /\ threshold' = 255
  BY <1>1, <1>2, SwitchTyped DEF TypeOK
<1>4. ThresholdInv' /\ BootInv' /\ HandlerInv'
  BY <1>2, <1>3 DEF ThresholdInv, BootInv, HandlerInv
<1>5. NestInv' /\ MaskInv' /\ FpuInv'
  BY <1>1, <1>2, SwitchKeepsContexts
<1> QED
  BY <1>3, <1>4, <1>5

-----------------------------------------------------------------------------
(* Interrupts.  A handler starts only from a task: while one runs the      *)
(* CPU's mask is on.                                                       *)
LEMMA EntryKeeps ==
    ASSUME PortInv, NEW irq \in Irqs, IrqEntry(irq)
    PROVE  PortInv'
<1> USE DEF PortInv, taskVars, bootVars, ghosts
<1>0. /\ irq \in pending /\ Passes(irq) /\ ~irqDisabled /\ level < MaxLevel
      /\ intcReady' = FALSE /\ irqDisabled' = TRUE /\ level' = level + 1
      /\ frame' = [frame EXCEPT ![level + 1] =
                     [step |-> "handler", irq |-> irq, old |-> ulPortInterruptNesting, masked |-> FALSE]]
      /\ ulPortInterruptNesting' = ulPortInterruptNesting + 1
      /\ UNCHANGED <<threshold, pending, fpu, ulCriticalNesting, ulPortYieldRequired,
                     ulPortTaskHasFPUContext, taskVars, bootVars, ghosts>>
  BY DEF IrqEntry
<1>1. Priority[irq] > 0 /\ Priority[irq] \in Nat
  BY PriorityAssumption
<1>2. threshold = 255
  BY <1>0, <1>1 DEF Passes, ThresholdInv, NoThreshold
<1>3. level = 0
  BY <1>0 DEF HandlerInv, TypeOK
<1>4. phase = "running"
  BY <1>0, <1>2 DEF BootInv, TypeOK, Phases
<1>5. ulPortInterruptNesting = 0
  BY <1>3 DEF HandlerInv
<1>6. TypeOK'
  <2>1. intcReady' \in BOOLEAN /\ irqDisabled' \in BOOLEAN
    BY <1>0, Zenon
  <2>2. [step |-> "handler", irq |-> irq, old |-> ulPortInterruptNesting, masked |-> FALSE] \in Frames
    BY <1>5 DEF Frames, FrameSteps
  <2>3. frame' \in [1..MaxLevel -> Frames]
    BY <1>0, <2>2 DEF TypeOK
  <2>4. level' \in 0..MaxLevel
    BY <1>0, <1>3, BoundAssumption
  <2> QED
    BY <1>0, <1>5, <2>1, <2>3, <2>4 DEF TypeOK
<1>7. ThresholdInv' /\ BootInv'
  BY <1>0, <1>4 DEF ThresholdInv, BootInv
<1>8. HandlerInv'
  <2>1. 1 \in 1..MaxLevel
    BY <1>0, <1>3, BoundAssumption
  <2>2. frame'[1].old = 0
    BY <1>0, <1>3, <1>5, <2>1 DEF TypeOK
  <2> QED
    BY <1>0, <1>2, <1>3, <1>5, <2>2 DEF HandlerInv
<1>9. NestInv' /\ MaskInv'
  BY <1>0 DEF NestInv, NestingIsOwn, MaskInv, SectionKeepsMask
<1>10. FpuInv'
  BY <1>0 DEF FpuInv, FpuIsOwn
<1> QED
  BY <1>6, <1>7, <1>8, <1>9, <1>10

LEMMA InHandler ==
    ASSUME PortInv, level > 0
    PROVE  /\ level = 1 /\ 1 \in 1..MaxLevel /\ threshold = 255 /\ irqDisabled = TRUE
           /\ ulPortInterruptNesting = 1 /\ frame[1].old = 0 /\ phase = "running"
           /\ frame[1] \in Frames
BY BoundAssumption DEF PortInv, HandlerInv, BootInv, TypeOK

\* A handler's own steps: none of its calls unmasks, because the threshold
\* is off and the nesting count is not 0.
LEMMA HandlerKeeps ==
    ASSUME PortInv,
           \/ FreeRTOS_Tick_Handler \/ DeviceHandler \/ ApiMask \/ ApiWork
           \/ vPortClearInterruptMask \/ Agree \/ Leave
    PROVE  PortInv'
<1> USE DEF PortInv, portVars, taskVars, bootVars, ghosts
<1>0. level > 0
  BY DEF FreeRTOS_Tick_Handler, DeviceHandler, ApiMask, ApiWork, vPortClearInterruptMask, Agree, Leave, HandlerAt
<1>1. /\ level = 1 /\ 1 \in 1..MaxLevel /\ threshold = 255 /\ irqDisabled = TRUE
      /\ ulPortInterruptNesting = 1 /\ frame[1].old = 0 /\ phase = "running" /\ frame[1] \in Frames
  BY <1>0, InHandler
<1>2. UNCHANGED <<fpu, ulCriticalNesting, ulPortInterruptNesting, ulPortTaskHasFPUContext,
                  taskVars, level, bootVars, ghosts>>
  BY DEF FreeRTOS_Tick_Handler, DeviceHandler, ApiMask, ApiWork, vPortClearInterruptMask, Agree, Leave
<1>3. threshold' = 255 /\ irqDisabled' = TRUE
  <2>1. CASE FreeRTOS_Tick_Handler \/ DeviceHandler \/ Agree \/ Leave
    <3>1. threshold' = threshold
      BY <2>1 DEF FreeRTOS_Tick_Handler, DeviceHandler, Agree, Leave
    <3>2. irqDisabled' = irqDisabled \/ irqDisabled' = TRUE
      BY <2>1 DEF FreeRTOS_Tick_Handler, DeviceHandler, Agree, Leave
    <3> QED
      BY <1>1, <3>1, <3>2, Zenon
  <2>2. CASE ApiMask
    <3>1. UNCHANGED <<threshold, irqDisabled>>
      BY <1>1, <2>2 DEF ApiMask, WriteMask, configMAX_API_CALL_INTERRUPT_PRIORITY
    <3> QED
      BY <1>1, <3>1, Zenon
  <2>3. CASE ApiWork
    <3>1. threshold' = threshold /\ irqDisabled' = irqDisabled
      BY <2>3 DEF ApiWork, intcVars
    <3> QED
      BY <1>1, <3>1, Zenon
  <2>4. CASE vPortClearInterruptMask
    <3>1. UNCHANGED <<threshold, irqDisabled>>
      BY <1>1, <2>4 DEF vPortClearInterruptMask
    <3> QED
      BY <1>1, <3>1, Zenon
  <2> QED
    BY <2>1, <2>2, <2>3, <2>4
<1>4. PICK s \in FrameSteps, b \in BOOLEAN :
        frame' = [frame EXCEPT ![1] = [step |-> s, irq |-> frame[1].irq, old |-> frame[1].old, masked |-> b]]
  <2> DEFINE f(s, b) == [step |-> s, irq |-> frame[1].irq, old |-> frame[1].old, masked |-> b]
  <2>0. frame[1] = f(frame[1].step, frame[1].masked) /\ frame[1].masked \in BOOLEAN
    BY <1>1 DEF Frames
  <2>1. CASE ApiMask
    <3>1. (threshold = configMAX_API_CALL_INTERRUPT_PRIORITY) = TRUE
      BY <1>1 DEF configMAX_API_CALL_INTERRUPT_PRIORITY
    <3>2. frame' = [frame EXCEPT ![1] = f("api", threshold = configMAX_API_CALL_INTERRUPT_PRIORITY)]
      BY <1>1, <2>1 DEF ApiMask
    <3>4. frame' = [frame EXCEPT ![1] = f("api", TRUE)]
      BY <3>1, <3>2
    <3> QED
      BY <3>4 DEF FrameSteps
  <2>2. CASE \E s \in FrameSteps : NextStep(s)
    <3>1. PICK s \in FrameSteps : NextStep(s)
      BY <2>2
    <3>0. [frame[1] EXCEPT !.step = s] = f(s, frame[1].masked)
      BY <1>1 DEF Frames
    <3>2. frame' = [frame EXCEPT ![1] = f(s, frame[1].masked)]
      BY <1>1, <3>0, <3>1 DEF NextStep
    <3> QED
      BY <2>0, <3>2
  <2> QED
    BY <2>1, <2>2 DEF FreeRTOS_Tick_Handler, DeviceHandler, ApiWork, vPortClearInterruptMask, Agree, Leave,
       FrameSteps
<1>5. frame' \in [1..MaxLevel -> Frames] /\ frame'[1].old = 0
  <2> DEFINE f == [step |-> s, irq |-> frame[1].irq, old |-> frame[1].old, masked |-> b]
  <2>1. f \in Frames /\ f.old = 0
    BY <1>1, <1>4 DEF Frames
  <2> HIDE DEF f
  <2>2. frame \in [1..MaxLevel -> Frames] /\ frame' = [frame EXCEPT ![1] = f]
    BY <1>4 DEF TypeOK, f
  <2> QED
    BY <1>1, <2>1, <2>2
<1>6. /\ intcReady' \in BOOLEAN /\ pending' \in SUBSET Irqs /\ ulPortYieldRequired' \in BOOLEAN
  <2>1. intcReady' = TRUE \/ intcReady' = intcReady
    BY DEF FreeRTOS_Tick_Handler, DeviceHandler, ApiMask, ApiWork, vPortClearInterruptMask, Agree, Leave, intcVars
  <2>2. intcReady \in BOOLEAN /\ ulPortYieldRequired \in BOOLEAN
    BY DEF TypeOK
  <2>3. ulPortYieldRequired' = ulPortYieldRequired
        \/ \E y \in BOOLEAN : ulPortYieldRequired' = (ulPortYieldRequired \/ y)
    BY DEF FreeRTOS_Tick_Handler, DeviceHandler, ApiMask, ApiWork, vPortClearInterruptMask, Agree, Leave
  <2>4. pending' \in SUBSET Irqs
    BY DEF FreeRTOS_Tick_Handler, DeviceHandler, ApiMask, ApiWork, vPortClearInterruptMask, Agree, Leave,
       intcVars, TypeOK
  <2>5. intcReady' \in BOOLEAN
    BY <2>1, <2>2, Zenon
  <2>6. ulPortYieldRequired' \in BOOLEAN
    BY <2>2, <2>3
  <2> QED
    BY <2>4, <2>5, <2>6
<1>7. TypeOK'
  <2>1. irqDisabled' \in BOOLEAN
    BY <1>3, Zenon
  <2> QED
    BY <1>2, <1>3, <1>5, <1>6, <2>1 DEF TypeOK
<1>8. ThresholdInv' /\ BootInv' /\ HandlerInv'
  BY <1>1, <1>2, <1>3, <1>5 DEF ThresholdInv, BootInv, HandlerInv
<1>9. NestInv' /\ MaskInv'
  BY <1>1, <1>2, <1>3 DEF NestInv, NestingIsOwn, MaskInv, SectionKeepsMask, configMAX_API_CALL_INTERRUPT_PRIORITY
<1>10. FpuInv'
  BY <1>2 DEF FpuInv, FpuIsOwn
<1> QED
  BY <1>7, <1>8, <1>9, <1>10

LEMMA PopsLast ==
    ASSUME PortInv, level > 0, Pop
    PROVE  level' = 0 /\ frame' \in [1..MaxLevel -> Frames] /\ level' \in 0..MaxLevel
<1>1. NoFrame \in Frames
  BY IrqAssumption DEF NoFrame, Frames, FrameSteps
<1>2. level = 1 /\ frame \in [1..MaxLevel -> Frames]
  BY InHandler DEF PortInv, TypeOK
<1>3. level' = 0 /\ frame' = [frame EXCEPT ![1] = NoFrame]
  BY <1>2 DEF Pop
<1>4. frame' \in [1..MaxLevel -> Frames]
  BY <1>1, <1>2, <1>3
<1> QED
  BY <1>3, <1>4, BoundAssumption

LEMMA ExitKeeps ==
    ASSUME PortInv, ExitWithoutSwitch
    PROVE  PortInv'
<1> USE DEF PortInv, taskVars, bootVars, ghosts
<1>0. level > 0 /\ Pop
  BY DEF ExitWithoutSwitch, HandlerAt
<1>1. /\ level = 1 /\ threshold = 255 /\ frame[1].old = 0 /\ phase = "running"
  BY <1>0, InHandler
<1>2. /\ ulPortYieldRequired = FALSE /\ ulPortYieldRequired' = FALSE
      /\ ulPortInterruptNesting' = 0 /\ irqDisabled' = FALSE /\ intcReady' = TRUE
      /\ UNCHANGED <<threshold, pending, fpu, ulCriticalNesting, ulPortTaskHasFPUContext,
                     taskVars, bootVars, ghosts>>
  BY <1>1 DEF ExitWithoutSwitch, TypeOK
<1>3. level' = 0 /\ frame' \in [1..MaxLevel -> Frames] /\ level' \in 0..MaxLevel
  BY <1>0, PopsLast
<1>4. TypeOK'
  <2>1. irqDisabled' \in BOOLEAN /\ intcReady' \in BOOLEAN /\ ulPortYieldRequired' \in BOOLEAN
    BY <1>2, Zenon
  <2> QED
    BY <1>2, <1>3, <2>1 DEF TypeOK
<1>5. ThresholdInv' /\ BootInv' /\ HandlerInv'
  BY <1>1, <1>2, <1>3 DEF ThresholdInv, BootInv, HandlerInv
<1>6. NestInv' /\ MaskInv'
  BY <1>2 DEF NestInv, NestingIsOwn, MaskInv, SectionKeepsMask
<1>7. FpuInv'
  BY <1>2 DEF FpuInv, FpuIsOwn
<1> QED
  BY <1>4, <1>5, <1>6, <1>7

LEMMA SwitchExitKeeps ==
    ASSUME PortInv, SwitchBeforeExit
    PROVE  PortInv'
<1> USE DEF PortInv, bootVars, ghosts
<1>0. level > 0 /\ Pop
  BY DEF SwitchBeforeExit, HandlerAt
<1>1. level = 1 /\ frame[1].old = 0 /\ phase = "running"
  BY <1>0, InHandler
<1>2. /\ ulPortYieldRequired' = FALSE /\ ulPortInterruptNesting' = 0 /\ intcReady' = TRUE
      /\ UNCHANGED <<pending, at, reg, bootVars, ghosts>>
  BY <1>1 DEF SwitchBeforeExit
<1>3. PICK t \in Tasks : SwitchTo(t)
  BY DEF SwitchBeforeExit
<1>4. level' = 0 /\ frame' \in [1..MaxLevel -> Frames] /\ level' \in 0..MaxLevel
  BY <1>0, PopsLast
<1>5. TypeOK' /\ threshold' = 255
  <2>1. intcReady' \in BOOLEAN /\ ulPortYieldRequired' \in BOOLEAN
    BY <1>2, Zenon
  <2> QED
    BY <1>2, <1>3, <1>4, <2>1, SwitchTyped DEF TypeOK
<1>6. ThresholdInv' /\ BootInv' /\ HandlerInv'
  BY <1>1, <1>2, <1>4, <1>5 DEF ThresholdInv, BootInv, HandlerInv
<1>7. NestInv' /\ MaskInv' /\ FpuInv'
  BY <1>1, <1>2, <1>3, SwitchKeepsContexts
<1> QED
  BY <1>5, <1>6, <1>7

-----------------------------------------------------------------------------
LEMMA StepPort == PortInv /\ [Next]_vars => PortInv'
<1> SUFFICES ASSUME PortInv, [Next]_vars PROVE PortInv'
  OBVIOUS
<1>1. CASE \E irq \in Irqs : Raise(irq)
  BY <1>1, RaiseKeeps
<1>2. CASE Start
  BY <1>2, BootKeeps, FirstRestoreKeeps DEF Start
<1>3. CASE TaskStep \/ TaskCall \/ FreeRTOS_SWI_Handler
  BY <1>3, MovesKeep, CountsKeep, MasksKeep, FpuStepsKeep, YieldKeeps DEF TaskStep, TaskCall
<1>4. CASE \E irq \in Irqs : IrqEntry(irq)
  BY <1>4, EntryKeeps
<1>5. CASE HandlerStep
  BY <1>5, HandlerKeeps, ExitKeeps, SwitchExitKeeps DEF HandlerStep
<1>6. CASE UNCHANGED vars
  BY <1>6 DEF PortInv, TypeOK, ThresholdInv, BootInv, HandlerInv, NestInv, NestingIsOwn, MaskInv,
     SectionKeepsMask, FpuInv, FpuIsOwn, vars, intcVars, portVars, taskVars, irqVars, bootVars, ghosts
<1> QED
  BY <1>1, <1>2, <1>3, <1>4, <1>5, <1>6 DEF Next

LEMMA PortInvHolds == Spec => []PortInv
BY InitPort, StepPort, PTL DEF Spec

(* Every word of the port and of the model keeps its type.                 *)
THEOREM PortTypeOK == Spec => []TypeOK
<1>1. PortInv => TypeOK
  BY DEF PortInv
<1> QED
  BY <1>1, PortInvHolds, PTL

(* ulCriticalNesting, and each saved copy of it, is the depth of sections  *)
(* the task it belongs to is in.                                           *)
THEOREM PortNestingIsOwn == Spec => []NestingIsOwn
<1>1. PortInv => NestingIsOwn
  BY DEF PortInv, NestInv
<1> QED
  BY <1>1, PortInvHolds, PTL

(* A critical section keeps the mask value it set, across any switch.      *)
THEOREM PortSectionKeepsMask == Spec => []SectionKeepsMask
<1>1. PortInv => SectionKeepsMask
  BY DEF PortInv, MaskInv
<1> QED
  BY <1>1, PortInvHolds, PTL

(* No handler ever interrupts another, for any number of sources and any   *)
(* positive priorities.                                                    *)
THEOREM PortHandlersAreSequential == Spec => []HandlersAreSequential
<1>1. PortInv => HandlersAreSequential
  BY DEF PortInv, HandlerInv, HandlersAreSequential, TypeOK
<1> QED
  BY <1>1, PortInvHolds, PTL

(* The nesting count is 0 exactly where a task runs.                       *)
THEOREM PortNestingTellsTasks == Spec => []NestingTellsTasks
<1>1. PortInv => NestingTellsTasks
  BY DEF PortInv, HandlerInv, NestingTellsTasks, TypeOK
<1> QED
  BY <1>1, PortInvHolds, PTL

(* A task never runs with a switch still asked for.                        *)
THEOREM PortYieldIsServed == Spec => []YieldIsServed
<1>1. PortInv => YieldIsServed
  BY DEF PortInv, HandlerInv, YieldIsServed
<1> QED
  BY <1>1, PortInvHolds, PTL

(* A task's FPU values survive whatever other tasks do.                    *)
THEOREM PortFpuIsOwn == Spec => []FpuIsOwn
<1>1. PortInv => FpuIsOwn
  BY DEF PortInv, FpuInv
<1> QED
  BY <1>1, PortInvHolds, PTL

(* No handler runs before the first task's context is loaded.              *)
THEOREM PortNoHandlerBeforeFirstTask == Spec => []NoHandlerBeforeFirstTask
<1>1. PortInv => NoHandlerBeforeFirstTask
  BY DEF PortInv, BootInv, NoHandlerBeforeFirstTask
<1> QED
  BY <1>1, PortInvHolds, PTL
=============================================================================
