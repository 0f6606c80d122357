---------------------------- MODULE UartReceive -----------------------------
(***************************************************************************)
(* HAL::UART::uart: its operating modes, the receive interrupt and read()  *)
(* in the interrupt and polling modes.                                     *)
(*                                                                         *)
(* One foreground thread runs the methods.  Wherever the UART's interrupt  *)
(* may be unmasked a method is split at every store to a field the service *)
(* routine uses, so pc names the next access.  The service routine runs to *)
(* the end before the foreground continues, but the line keeps filling the *)
(* FIFO meanwhile, so it is stepped byte by byte.                          *)
(*                                                                         *)
(* Bytes are numbered as the receiver accepts them; the receive FIFO holds *)
(* popped+1 .. received.  A byte that arrives when the FIFO is full never  *)
(* gets a number: the overrun is the line's, not the driver's.             *)
(***************************************************************************)
EXTENDS Integers

CONSTANTS MaxSize,    \* largest size callers pass to read()
          MaxLoops,   \* largest timeout_loops callers pass
          FifoDepth,  \* bytes the receive FIFO holds
          LineLength  \* bound: bytes the line delivers

ASSUME CallAssumption == MaxSize \in Nat /\ MaxLoops \in Nat
ASSUME LineAssumption == FifoDepth \in Nat /\ LineLength \in Nat

VARIABLES
    received, popped,                    \* the line and the FIFO
    io_mode, unmasked, rhr_it,           \* mode, INTC mask, IER.RHR
    instance, callback,                  \* m_active_instance, m_user_callback
    m_rx_buffer, m_rx_expected, m_rx_count, m_rx_active, m_rx_complete, m_rx_success,
    data,                                \* the caller's buffer
    isr, fifo_level,                     \* the service routine in progress
    pc, target, after,                   \* the method in progress
    size, timeout_loops, remaining, index, ok,   \* its arguments and locals
    outcome, start, lastRead, dropped    \* ghosts

fifoVars   == <<received, popped>>
irqVars    == <<unmasked, rhr_it, instance, callback>>
rxVars     == <<m_rx_buffer, m_rx_expected, m_rx_count, m_rx_active, m_rx_complete, m_rx_success>>
isrVars    == <<isr, fifo_level>>
localVars  == <<size, timeout_loops, remaining, index, ok>>
ghostVars  == <<outcome, start, lastRead, dropped>>
vars == <<fifoVars, io_mode, irqVars, rxVars, data, isrVars, pc, target, after, localVars, ghostVars>>

Sizes   == 0..MaxSize
IOModes == {"UNINITIALIZED", "POLLING", "INTERRUPT", "DMA"}
Targets == {"none", "polling", "interrupt", "dma"}

ModeSteps  == {"mask", "int_disable", "drop_callback", "drop_instance", "close",
               "open", "set_instance", "set_callback", "int_enable", "unmask", "publish"}
ResetSteps == {"reset_buffer", "reset_expected", "reset_count",
               "reset_active", "reset_complete", "reset_success"}
ArmSteps   == {"arm_buffer", "arm_expected", "arm_active"}
WaitSteps  == {"wait", "check", "fail_active", "fail_success", "result"}
ReadSteps  == ResetSteps \union ArmSteps \union WaitSteps \union {"poll"}

TypeOK ==
    /\ received \in Nat /\ popped \in Nat
    /\ io_mode \in IOModes
    /\ unmasked \in BOOLEAN /\ rhr_it \in BOOLEAN
    /\ instance \in BOOLEAN /\ callback \in BOOLEAN
    /\ m_rx_buffer \in BOOLEAN
    /\ m_rx_expected \in Nat /\ m_rx_count \in Nat
    /\ m_rx_active \in BOOLEAN /\ m_rx_complete \in BOOLEAN /\ m_rx_success \in BOOLEAN
    /\ data \in [0..MaxSize-1 -> Nat]
    /\ isr \in BOOLEAN /\ fifo_level \in Nat
    /\ pc \in {"idle"} \union ModeSteps \union ReadSteps
    /\ target \in Targets
    /\ after \in {"arm", "return"}
    /\ size \in Sizes
    /\ timeout_loops \in 0..MaxLoops /\ remaining \in 0..MaxLoops
    /\ index \in Nat
    /\ ok \in BOOLEAN
    /\ outcome \in {"none", "failure", "success"}
    /\ start \in Nat /\ lastRead \in Nat
    /\ dropped \subseteq Nat

Init ==
    /\ received = 0 /\ popped = 0
    /\ io_mode = "UNINITIALIZED" /\ unmasked = FALSE /\ rhr_it = FALSE
    /\ instance = FALSE /\ callback = FALSE
    /\ m_rx_buffer = FALSE /\ m_rx_expected = 0 /\ m_rx_count = 0
    /\ m_rx_active = FALSE /\ m_rx_complete = FALSE /\ m_rx_success = FALSE
    /\ data = [i \in 0..MaxSize-1 |-> 0]
    /\ isr = FALSE /\ fifo_level = 0
    /\ pc = "idle" /\ target = "none" /\ after = "arm"
    /\ size = 0 /\ timeout_loops = 0 /\ remaining = 0 /\ index = 0 /\ ok = FALSE
    /\ outcome = "none" /\ start = 0 /\ lastRead = 0 /\ dropped = {}

-----------------------------------------------------------------------------
(* The line and the interrupt service routine. *)

\* External: the receiver puts a character into the FIFO.
Accept ==
    /\ received < LineLength
    /\ received - popped < FifoDepth
    /\ received' = received + 1
    /\ UNCHANGED <<popped, io_mode, irqVars, rxVars, data, isrVars, pc, target, after,
                   localVars, ghostVars>>

\* The line asserts at the FIFO trigger level or after a character timeout:
\* at some time while the FIFO is not empty.
Asserted == unmasked /\ rhr_it /\ popped < received

\* uart_isr() enters and takes its snapshot of RXFIFO_LVL.  Without an active
\* instance it would return with the line still asserted.
handle_uart_irq ==
    /\ ~isr /\ Asserted /\ instance
    /\ isr' = TRUE
    /\ fifo_level' = received - popped
    /\ UNCHANGED <<fifoVars, io_mode, irqVars, rxVars, data, pc, target, after,
                   localVars, ghostVars>>

\* One turn of the loop takes one byte from RHR.
PopByte ==
    /\ isr /\ fifo_level # 0
    /\ fifo_level' = fifo_level - 1
    /\ popped' = popped + 1
    /\ UNCHANGED <<received, io_mode, irqVars, isr, pc, target, after, localVars>>

Collecting == m_rx_active /\ m_rx_buffer

\* The byte belongs to the read in progress; the one that fills the request
\* completes it.
StoreByte ==
    /\ PopByte
    /\ Collecting
    /\ IF m_rx_count < m_rx_expected
          THEN /\ data' = [data EXCEPT ![m_rx_count] = popped + 1]
               /\ m_rx_count' = m_rx_count + 1
               /\ dropped' = dropped
          ELSE /\ UNCHANGED <<data, m_rx_count>>
               /\ dropped' = dropped \union {popped + 1}
    /\ LET full == m_rx_count' = m_rx_expected
       IN  /\ m_rx_active' = ~full
           /\ m_rx_complete' = (m_rx_complete \/ full)
           /\ m_rx_success' = (m_rx_success \/ full)
    /\ UNCHANGED <<m_rx_buffer, m_rx_expected, outcome, start, lastRead>>

\* No read wants the byte: it goes to the user's callback.
CallbackByte ==
    /\ PopByte
    /\ ~Collecting
    /\ dropped' = IF callback THEN dropped ELSE dropped \union {popped + 1}
    /\ UNCHANGED <<rxVars, data, outcome, start, lastRead>>

IsrExit ==
    /\ isr /\ fifo_level = 0
    /\ isr' = FALSE
    /\ UNCHANGED <<fifoVars, io_mode, irqVars, rxVars, data, fifo_level, pc, target, after,
                   localVars, ghostVars>>

-----------------------------------------------------------------------------
(* Modes: deinit(), init_polling(), init_interrupt(), init_dma(). *)

Foreground == ~isr
Step(s, next) == Foreground /\ pc = s /\ pc' = next

\* Every mode change tears the old mode down first; set_baudrate() is the
\* change to polling.  A UART never opened has no clock and is not touched.
ChangeMode(t) ==
    /\ Foreground /\ pc = "idle"
    /\ target' = t
    /\ pc' = IF io_mode # "UNINITIALIZED" THEN "mask"
             ELSE IF t # "none" THEN "open" ELSE "idle"
    /\ UNCHANGED <<fifoVars, io_mode, irqVars, rxVars, data, isrVars, after,
                   localVars, ghostVars>>

\* Mutant: the teardown leaves the interrupt unmasked.
Mask_Dropped ==
    /\ Step("mask", IF io_mode = "INTERRUPT" THEN "int_disable" ELSE "close")
    /\ UNCHANGED <<fifoVars, io_mode, irqVars, rxVars, data, isrVars, target, after,
                   localVars, ghostVars>>

Mask ==
    /\ Step("mask", IF io_mode = "INTERRUPT" THEN "int_disable" ELSE "close")
    /\ unmasked' = FALSE
    /\ UNCHANGED <<fifoVars, io_mode, rhr_it, instance, callback, rxVars, data, isrVars,
                   target, after, localVars, ghostVars>>

IntDisable ==
    /\ Step("int_disable", "drop_callback")
    /\ rhr_it' = FALSE
    /\ UNCHANGED <<fifoVars, io_mode, unmasked, instance, callback, rxVars, data, isrVars,
                   target, after, localVars, ghostVars>>

DropCallback ==
    /\ Step("drop_callback", "drop_instance")
    /\ callback' = FALSE
    /\ UNCHANGED <<fifoVars, io_mode, unmasked, rhr_it, instance, rxVars, data, isrVars,
                   target, after, localVars, ghostVars>>

DropInstance ==
    /\ Step("drop_instance", "close")
    /\ instance' = FALSE
    /\ UNCHANGED <<fifoVars, io_mode, unmasked, rhr_it, callback, rxVars, data, isrVars,
                   target, after, localVars, ghostVars>>

\* The rest of deinit(): DMA off, the receive transaction reset.
Close ==
    /\ Step("close", IF target = "none" THEN "idle" ELSE "open")
    /\ m_rx_buffer' = FALSE /\ m_rx_expected' = 0 /\ m_rx_count' = 0
    /\ m_rx_active' = FALSE /\ m_rx_complete' = FALSE /\ m_rx_success' = FALSE
    /\ io_mode' = "UNINITIALIZED"
    /\ UNCHANGED <<fifoVars, irqVars, data, isrVars, target, after, localVars, ghostVars>>

\* config_baudrate() resets the module and clears its FIFO; init_dma() falls
\* back to polling when the FIFO, the threshold or a channel is refused.
Open ==
    /\ Step("open", IF target = "interrupt" THEN "set_instance" ELSE "idle")
    /\ popped' = received
    /\ rhr_it' = FALSE
    /\ io_mode' \in IF target = "dma" THEN {"DMA", "POLLING"} ELSE {"POLLING"}
    /\ UNCHANGED <<received, unmasked, instance, callback, rxVars, data, isrVars, target,
                   after, localVars, ghostVars>>

SetInstance ==
    /\ Step("set_instance", "set_callback")
    /\ instance' = TRUE
    /\ UNCHANGED <<fifoVars, io_mode, unmasked, rhr_it, callback, rxVars, data, isrVars,
                   target, after, localVars, ghostVars>>

SetCallback ==
    /\ Step("set_callback", "int_enable")
    /\ callback' = TRUE
    /\ UNCHANGED <<fifoVars, io_mode, unmasked, rhr_it, instance, rxVars, data, isrVars,
                   target, after, localVars, ghostVars>>

\* Mutant: setup forgets to enable the receive interrupt.
IntEnable_Dropped ==
    /\ Step("int_enable", "unmask")
    /\ UNCHANGED <<fifoVars, io_mode, irqVars, rxVars, data, isrVars, target, after,
                   localVars, ghostVars>>

IntEnable ==
    /\ Step("int_enable", "unmask")
    /\ rhr_it' = TRUE
    /\ UNCHANGED <<fifoVars, io_mode, unmasked, instance, callback, rxVars, data, isrVars,
                   target, after, localVars, ghostVars>>

Unmask ==
    /\ Step("unmask", "publish")
    /\ unmasked' = TRUE
    /\ UNCHANGED <<fifoVars, io_mode, rhr_it, instance, callback, rxVars, data, isrVars,
                   target, after, localVars, ghostVars>>

Publish ==
    /\ Step("publish", "idle")
    /\ io_mode' = "INTERRUPT"
    /\ UNCHANGED <<fifoVars, irqVars, rxVars, data, isrVars, target, after,
                   localVars, ghostVars>>

ModeStep == Mask \/ IntDisable \/ DropCallback \/ DropInstance \/ Close \/ Open
            \/ SetInstance \/ SetCallback \/ IntEnable \/ Unmask \/ Publish

-----------------------------------------------------------------------------
(* read() in the interrupt mode. *)

\* Calls that end at once: an unopened UART fails, a size of zero succeeds.
ReadAtOnce(n) ==
    /\ Foreground /\ pc = "idle"
    /\ io_mode = "UNINITIALIZED" \/ n = 0
    /\ size' = n
    /\ outcome' = IF io_mode = "UNINITIALIZED" THEN "failure" ELSE "success"
    /\ UNCHANGED <<fifoVars, io_mode, irqVars, rxVars, data, isrVars, pc, target, after,
                   timeout_loops, remaining, index, ok, start, lastRead, dropped>>

\* arm_interrupt_receive() begins with reset_rx_transaction().
Arm(n, loops) ==
    /\ Foreground /\ pc = "idle"
    /\ io_mode = "INTERRUPT" /\ n # 0
    /\ size' = n /\ timeout_loops' = loops /\ remaining' = loops
    /\ outcome' = "none"
    /\ after' = "arm"
    /\ pc' = "reset_buffer"
    /\ UNCHANGED <<fifoVars, io_mode, irqVars, rxVars, data, isrVars, target, index, ok,
                   start, lastRead, dropped>>

\* The stores of reset_rx_transaction(), in its order.
ResetBuffer ==
    /\ Step("reset_buffer", "reset_expected")
    /\ m_rx_buffer' = FALSE
    /\ UNCHANGED <<fifoVars, io_mode, irqVars, m_rx_expected, m_rx_count, m_rx_active,
                   m_rx_complete, m_rx_success, data, isrVars, target, after, localVars, ghostVars>>

ResetExpected ==
    /\ Step("reset_expected", "reset_count")
    /\ m_rx_expected' = 0
    /\ UNCHANGED <<fifoVars, io_mode, irqVars, m_rx_buffer, m_rx_count, m_rx_active,
                   m_rx_complete, m_rx_success, data, isrVars, target, after, localVars, ghostVars>>

ResetCount ==
    /\ Step("reset_count", "reset_active")
    /\ m_rx_count' = 0
    /\ UNCHANGED <<fifoVars, io_mode, irqVars, m_rx_buffer, m_rx_expected, m_rx_active,
                   m_rx_complete, m_rx_success, data, isrVars, target, after, localVars, ghostVars>>

ResetActive ==
    /\ Step("reset_active", "reset_complete")
    /\ m_rx_active' = FALSE
    /\ UNCHANGED <<fifoVars, io_mode, irqVars, m_rx_buffer, m_rx_expected, m_rx_count,
                   m_rx_complete, m_rx_success, data, isrVars, target, after, localVars, ghostVars>>

ResetComplete ==
    /\ Step("reset_complete", "reset_success")
    /\ m_rx_complete' = FALSE
    /\ UNCHANGED <<fifoVars, io_mode, irqVars, m_rx_buffer, m_rx_expected, m_rx_count,
                   m_rx_active, m_rx_success, data, isrVars, target, after, localVars, ghostVars>>

\* The last store; arming continues, or read() returns what it computed.
ResetSuccess ==
    /\ Step("reset_success", IF after = "arm" THEN "arm_buffer" ELSE "idle")
    /\ m_rx_success' = FALSE
    /\ outcome' = IF after = "arm" THEN outcome ELSE IF ok THEN "success" ELSE "failure"
    /\ lastRead' = IF after = "return" /\ ok THEN start + size ELSE lastRead
    /\ UNCHANGED <<fifoVars, io_mode, irqVars, m_rx_buffer, m_rx_expected, m_rx_count,
                   m_rx_active, m_rx_complete, data, isrVars, target, after, localVars,
                   start, dropped>>

ArmBuffer ==
    /\ Step("arm_buffer", "arm_expected")
    /\ m_rx_buffer' = TRUE
    /\ UNCHANGED <<fifoVars, io_mode, irqVars, m_rx_expected, m_rx_count, m_rx_active,
                   m_rx_complete, m_rx_success, data, isrVars, target, after, localVars, ghostVars>>

\* Mutant: the transaction is activated before its size is known.
ArmExpected_Activates ==
    /\ Step("arm_expected", "arm_active")
    /\ m_rx_active' = TRUE
    /\ start' = popped
    /\ UNCHANGED <<fifoVars, io_mode, irqVars, m_rx_buffer, m_rx_expected, m_rx_count,
                   m_rx_complete, m_rx_success, data, isrVars, target, after, localVars,
                   outcome, lastRead, dropped>>

ArmExpected ==
    /\ Step("arm_expected", "arm_active")
    /\ m_rx_expected' = size
    /\ UNCHANGED <<fifoVars, io_mode, irqVars, m_rx_buffer, m_rx_count, m_rx_active,
                   m_rx_complete, m_rx_success, data, isrVars, target, after, localVars, ghostVars>>

ArmActive ==
    /\ Step("arm_active", "wait")
    /\ m_rx_active' = TRUE
    /\ start' = popped
    /\ UNCHANGED <<fifoVars, io_mode, irqVars, m_rx_buffer, m_rx_expected, m_rx_count,
                   m_rx_complete, m_rx_success, data, isrVars, target, after, localVars,
                   outcome, lastRead, dropped>>

\* Mutant: the waiting loop does not count.
WaitSpin_NoCount ==
    /\ Step("wait", "wait")
    /\ ~m_rx_complete /\ remaining # 0
    /\ UNCHANGED <<fifoVars, io_mode, irqVars, rxVars, data, isrVars, target, after,
                   localVars, ghostVars>>

\* wait_interrupt_receive() polls m_rx_complete until its loops are used up.
WaitSpin ==
    /\ Step("wait", "wait")
    /\ ~m_rx_complete /\ remaining # 0
    /\ remaining' = remaining - 1
    /\ UNCHANGED <<fifoVars, io_mode, irqVars, rxVars, data, isrVars, target, after,
                   size, timeout_loops, index, ok, ghostVars>>

WaitDone ==
    /\ Step("wait", "check")
    /\ m_rx_complete \/ remaining = 0
    /\ UNCHANGED <<fifoVars, io_mode, irqVars, rxVars, data, isrVars, target, after,
                   localVars, ghostVars>>

\* Mutant: a timeout returns without taking the transaction down.
Check_EarlyReturn ==
    /\ Step("check", IF m_rx_complete THEN "result" ELSE "idle")
    /\ outcome' = IF m_rx_complete THEN outcome ELSE "failure"
    /\ UNCHANGED <<fifoVars, io_mode, irqVars, rxVars, data, isrVars, target, after,
                   localVars, start, lastRead, dropped>>

\* After the barrier the flag is read again: the read may have completed since.
Check ==
    /\ Step("check", IF m_rx_complete THEN "result" ELSE "fail_active")
    /\ UNCHANGED <<fifoVars, io_mode, irqVars, rxVars, data, isrVars, target, after,
                   localVars, ghostVars>>

FailActive ==
    /\ Step("fail_active", "fail_success")
    /\ m_rx_active' = FALSE
    /\ UNCHANGED <<fifoVars, io_mode, irqVars, m_rx_buffer, m_rx_expected, m_rx_count,
                   m_rx_complete, m_rx_success, data, isrVars, target, after, localVars, ghostVars>>

FailSuccess ==
    /\ Step("fail_success", "result")
    /\ m_rx_success' = FALSE
    /\ UNCHANGED <<fifoVars, io_mode, irqVars, m_rx_buffer, m_rx_expected, m_rx_count,
                   m_rx_active, m_rx_complete, data, isrVars, target, after, localVars, ghostVars>>

\* Mutant: the result is what was asked for, not what arrived.
Result_Trusting ==
    /\ Step("result", "reset_buffer")
    /\ ok' = (m_rx_expected = size)
    /\ after' = "return"
    /\ UNCHANGED <<fifoVars, io_mode, irqVars, rxVars, data, isrVars, target,
                   size, timeout_loops, remaining, index, ghostVars>>

\* The call succeeded if the routine said so and the count agrees.
Result ==
    /\ Step("result", "reset_buffer")
    /\ ok' = (m_rx_success /\ m_rx_count = size)
    /\ after' = "return"
    /\ UNCHANGED <<fifoVars, io_mode, irqVars, rxVars, data, isrVars, target,
                   size, timeout_loops, remaining, index, ghostVars>>

InterruptRead ==
    \/ ResetBuffer \/ ResetExpected \/ ResetCount \/ ResetActive \/ ResetComplete \/ ResetSuccess
    \/ ArmBuffer \/ ArmExpected \/ ArmActive
    \/ WaitSpin \/ WaitDone \/ Check \/ FailActive \/ FailSuccess \/ Result

-----------------------------------------------------------------------------
(* read() in the polling mode: a fresh budget of loops for every byte. *)

PollRead(n, loops) ==
    /\ Foreground /\ pc = "idle"
    /\ io_mode = "POLLING" /\ n # 0
    /\ size' = n /\ timeout_loops' = loops /\ remaining' = loops /\ index' = 0
    /\ outcome' = "none"
    /\ start' = popped
    /\ pc' = "poll"
    /\ UNCHANGED <<fifoVars, io_mode, irqVars, rxVars, data, isrVars, target, after, ok,
                   lastRead, dropped>>

PollSpin ==
    /\ Step("poll", "poll")
    /\ popped = received /\ remaining # 0
    /\ remaining' = remaining - 1
    /\ UNCHANGED <<fifoVars, io_mode, irqVars, rxVars, data, isrVars, target, after,
                   size, timeout_loops, index, ok, ghostVars>>

\* The budget is looked at last, so a byte seen by the very last poll stays in
\* the FIFO and the call fails.
PollExpires ==
    /\ Step("poll", "idle")
    /\ remaining = 0
    /\ outcome' = "failure"
    /\ UNCHANGED <<fifoVars, io_mode, irqVars, rxVars, data, isrVars, target, after,
                   localVars, start, lastRead, dropped>>

PollGet ==
    /\ Step("poll", IF index + 1 = size THEN "idle" ELSE "poll")
    /\ popped < received /\ remaining # 0
    /\ data' = [data EXCEPT ![index] = popped + 1]
    /\ popped' = popped + 1
    /\ index' = index + 1
    /\ remaining' = timeout_loops
    /\ outcome' = IF index + 1 = size THEN "success" ELSE outcome
    /\ lastRead' = IF index + 1 = size THEN start + size ELSE lastRead
    /\ UNCHANGED <<received, io_mode, irqVars, rxVars, isrVars, target, after,
                   size, timeout_loops, ok, start, dropped>>

PollingRead == PollSpin \/ PollExpires \/ PollGet

-----------------------------------------------------------------------------
Call ==
    \/ \E t \in Targets : ChangeMode(t)
    \/ \E n \in Sizes : ReadAtOnce(n)
    \/ \E n \in Sizes, loops \in 0..MaxLoops : Arm(n, loops) \/ PollRead(n, loops)

Progress == ModeStep \/ InterruptRead \/ PollingRead      \* of the method in progress
Isr      == StoreByte \/ CallbackByte \/ IsrExit

Next == Accept \/ handle_uart_irq \/ Isr \/ Call \/ Progress

Spec == Init /\ [][Next]_vars

\* A method in progress and a service routine in progress go on, and the
\* processor takes an asserted, unmasked interrupt.  Callers need never call
\* and the line need never deliver.
Fairness == WF_vars(Progress) /\ WF_vars(Isr) /\ WF_vars(handle_uart_irq)

FairSpec == Spec /\ Fairness

-----------------------------------------------------------------------------
(* Properties. *)

\* handle_uart_irq() takes from the FIFO no more than it holds: the comment on
\* RXFIFO_LVL says that polling LSR.RXFIFOE instead could over-read it.
NoOverRead == popped <= received /\ (isr => popped + fifo_level <= received)

\* While INTC lets the UART's line through, uart_isr() finds the instance and the
\* callback it was set up with; without the instance it would return with the
\* line still asserted, for ever.
InterruptHasOwner == unmasked => instance /\ callback

\* Every byte the service routine takes goes to the caller's buffer or to the
\* callback, at whatever point of read() it arrives.
NothingDropped == dropped = {}

\* read() that returned true left in the buffer size bytes that followed one
\* another on the line, and the buffer stays as it was after the return.
SuccessIsExact ==
    (pc = "idle" /\ outcome = "success") =>
        \A i \in 0..size-1 : data[i] = start + 1 + i

\* The caller's buffer is written only while a read() of it is in progress:
\* neither a timeout nor a mode change leaves a transaction behind.
NoLateStore == [][data' # data => pc \in ReadSteps]_vars

\* read() returns: the loops are bounded and the bytes interrupt it but finitely
\* often.
ReadReturns == (pc \in ReadSteps) ~> (pc = "idle")

\* In the interrupt mode a byte on the line is taken out of the FIFO.
BytesServed ==
    \A k \in 1..LineLength :
        (io_mode = "INTERRUPT" /\ received >= k) ~> (popped >= k \/ io_mode # "INTERRUPT")

\* What the last read() returned; nothing unless it succeeded.
returned == [i \in 0..(IF outcome = "success" THEN size - 1 ELSE -1) |-> data[i]]

Promise == INSTANCE SerialRead WITH
    reading <- pc \in ReadSteps,
    bytes   <- returned

\* Every call of read(), in either mode and whatever interrupts it, keeps the
\* promise of SerialRead.
KeepsPromise == Promise!Spec
=============================================================================
