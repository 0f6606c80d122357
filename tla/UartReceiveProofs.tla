------------------------- MODULE UartReceiveProofs --------------------------
(***************************************************************************)
(* Proofs about UartReceive, for any buffer size, FIFO depth and timeout.  *)
(*                                                                         *)
(* ModeInv says which of the interrupt's registers and fields are set at   *)
(* each point of a mode change; RxInv says what the receive transaction    *)
(* holds at each point of read().  Together they are inductive, and every  *)
(* safety property of the module follows from them.                        *)
(***************************************************************************)
EXTENDS UartReceive, TLAPS

\* The interrupt is unmasked only once it has an owner, and only in the
\* interrupt mode or just before that mode is published.
ModeInv ==
    /\ unmasked => rhr_it /\ instance /\ callback /\ (io_mode = "INTERRUPT" \/ pc = "publish")
    /\ isr => unmasked
    /\ ~isr => fifo_level = 0
    /\ popped + fifo_level <= received
    /\ pc \in ModeSteps \ {"mask", "publish"} => ~unmasked
    /\ pc \in {"set_callback", "int_enable", "unmask"} => instance
    /\ pc \in {"int_enable", "unmask"} => callback
    /\ pc = "unmask" => rhr_it
    /\ pc = "poll" => ~unmasked

\* The first n bytes of the buffer are the ones that followed start.
Collected(n) == \A i \in 0..n-1 : data[i] = start + 1 + i

Filled == Collected(size) /\ start + size <= popped /\ lastRead <= start

Inert == ~m_rx_active /\ ~m_rx_complete /\ ~m_rx_success /\ m_rx_count = 0
Clear == Inert /\ ~m_rx_buffer /\ m_rx_expected = 0

\* The transaction while the caller waits: collecting, or complete.
Waiting ==
    /\ m_rx_buffer /\ m_rx_expected = size /\ lastRead <= start
    /\ Collected(m_rx_count)
    /\ \/ /\ m_rx_active /\ ~m_rx_complete /\ ~m_rx_success
          /\ m_rx_count < size /\ popped = start + m_rx_count
       \/ /\ ~m_rx_active /\ m_rx_complete /\ m_rx_success
          /\ m_rx_count = size /\ start + size <= popped

RxInv ==
    /\ dropped = {}
    /\ lastRead <= popped
    /\ pc \in ReadSteps => outcome = "none"
    /\ pc \in {"idle"} \union ModeSteps => (outcome = "success" => Collected(size))
    /\ pc \in {"idle", "poll", "arm_buffer"} \union ModeSteps => Clear
    /\ pc \in ResetSteps /\ after = "arm" => Clear
    /\ (pc \in ResetSteps /\ after = "arm") \/ pc \in ArmSteps => size # 0
    /\ pc = "arm_expected" => Inert /\ m_rx_buffer /\ m_rx_expected = 0
    /\ pc = "arm_active" => Inert /\ m_rx_buffer /\ m_rx_expected = size
    /\ pc \in {"wait", "check", "fail_active"} => Waiting
    /\ pc \in {"fail_success", "result"} => ~m_rx_active
    /\ pc = "result" /\ m_rx_success => m_rx_count = size /\ Filled
    /\ pc \in ResetSteps /\ after = "return" => ~m_rx_active /\ (ok => Filled)
    /\ pc \in ResetSteps \ {"reset_buffer"} => ~m_rx_buffer
    /\ pc \in ResetSteps \ {"reset_buffer", "reset_expected"} => m_rx_expected = 0
    /\ pc \in {"reset_active", "reset_complete", "reset_success"} => m_rx_count = 0
    /\ pc = "reset_success" => ~m_rx_complete
    /\ pc = "poll" => /\ index < size /\ popped = start + index /\ lastRead <= start
                      /\ Collected(index)

UartInv == TypeOK /\ ModeInv /\ RxInv

\* A store of a natural number keeps the buffer's type.
LEMMA StoreType ==
    ASSUME NEW D, NEW f \in [D -> Nat], NEW k, NEW v \in Nat
    PROVE  [f EXCEPT ![k] = v] \in [D -> Nat]
OBVIOUS

LEMMA TypeStep == TypeOK /\ [Next]_vars => TypeOK'
<1> SUFFICES ASSUME TypeOK, [Next]_vars PROVE TypeOK'
  OBVIOUS
<1> USE CallAssumption, LineAssumption DEF TypeOK, Sizes, IOModes, Targets,
        ModeSteps, ResetSteps, ArmSteps, WaitSteps, ReadSteps, fifoVars, irqVars, rxVars, isrVars, localVars, ghostVars
<1>1. ASSUME NEW t \in Targets, ChangeMode(t)
      PROVE  TypeOK'
  BY <1>1 DEF ChangeMode, Foreground
<1>2. ASSUME NEW n \in Sizes, ReadAtOnce(n)
      PROVE  TypeOK'
  BY <1>2 DEF ReadAtOnce, Foreground
<1>3. ASSUME NEW n \in Sizes, NEW loops \in 0..MaxLoops, Arm(n, loops)
      PROVE  TypeOK'
  BY <1>3 DEF Arm, Foreground
<1>4. ASSUME NEW n \in Sizes, NEW loops \in 0..MaxLoops, PollRead(n, loops)
      PROVE  TypeOK'
  BY <1>4 DEF PollRead, Foreground
<1>5. CASE Accept
  BY <1>5 DEF Accept
<1>6. CASE handle_uart_irq
  BY <1>6 DEF handle_uart_irq, Asserted
<1>7. CASE StoreByte
  <2> USE DEF StoreByte, PopByte, Collecting
  <2>1. m_rx_active' \in BOOLEAN /\ m_rx_complete' \in BOOLEAN /\ m_rx_success' \in BOOLEAN
    BY <1>7, Zenon
  <2>2. m_rx_count' \in Nat /\ popped' \in Nat /\ fifo_level' \in Nat
    BY <1>7
  <2>3. dropped' \subseteq Nat
    <3>1. dropped' = dropped \/ dropped' = dropped \union {popped + 1}
      BY <1>7, Zenon
    <3>2. dropped \subseteq Nat /\ popped + 1 \in Nat
      OBVIOUS
    <3>3. QED
      BY ONLY <3>1, <3>2
  <2>4. data' \in [0..MaxSize-1 -> Nat]
    BY <1>7
  <2>5. QED
    BY <1>7, <2>1, <2>2, <2>3, <2>4
<1>8. CASE CallbackByte
  BY <1>8 DEF CallbackByte, PopByte, Collecting
<1>9. CASE IsrExit
  <2>1. isr' \in BOOLEAN
    BY <1>9, Zenon DEF IsrExit
  <2>2. QED
    BY <1>9, <2>1 DEF IsrExit
<1>10. CASE Mask
  <2>1. unmasked' \in BOOLEAN
    BY <1>10, Zenon DEF Mask
  <2>2. QED
    BY <1>10, <2>1 DEF Mask, Step, Foreground
<1>11. CASE IntDisable
  <2>1. rhr_it' \in BOOLEAN
    BY <1>11, Zenon DEF IntDisable
  <2>2. QED
    BY <1>11, <2>1 DEF IntDisable, Step, Foreground
<1>12. CASE DropCallback
  <2>1. callback' \in BOOLEAN
    BY <1>12, Zenon DEF DropCallback
  <2>2. QED
    BY <1>12, <2>1 DEF DropCallback, Step, Foreground
<1>13. CASE DropInstance
  <2>1. instance' \in BOOLEAN
    BY <1>13, Zenon DEF DropInstance
  <2>2. QED
    BY <1>13, <2>1 DEF DropInstance, Step, Foreground
<1>14. CASE Close
  BY <1>14 DEF Close, Step, Foreground
<1>15. CASE Open
  <2>1. rhr_it' \in BOOLEAN
    BY <1>15, Zenon DEF Open
  <2>2. QED
    BY <1>15, <2>1 DEF Open, Step, Foreground
<1>16. CASE SetInstance
  BY <1>16 DEF SetInstance, Step, Foreground
<1>17. CASE SetCallback
  BY <1>17 DEF SetCallback, Step, Foreground
<1>18. CASE IntEnable
  BY <1>18 DEF IntEnable, Step, Foreground
<1>19. CASE Unmask
  BY <1>19 DEF Unmask, Step, Foreground
<1>20. CASE Publish
  BY <1>20 DEF Publish, Step, Foreground
<1>21. CASE ResetBuffer
  <2>1. m_rx_buffer' \in BOOLEAN
    BY <1>21, Zenon DEF ResetBuffer
  <2>2. QED
    BY <1>21, <2>1 DEF ResetBuffer, Step, Foreground
<1>22. CASE ResetExpected
  BY <1>22 DEF ResetExpected, Step, Foreground
<1>23. CASE ResetCount
  BY <1>23 DEF ResetCount, Step, Foreground
<1>24. CASE ResetActive
  <2>1. m_rx_active' \in BOOLEAN
    BY <1>24, Zenon DEF ResetActive
  <2>2. QED
    BY <1>24, <2>1 DEF ResetActive, Step, Foreground
<1>25. CASE ResetComplete
  <2>1. m_rx_complete' \in BOOLEAN
    BY <1>25, Zenon DEF ResetComplete
  <2>2. QED
    BY <1>25, <2>1 DEF ResetComplete, Step, Foreground
<1>26. CASE ResetSuccess
  <2>1. m_rx_success' \in BOOLEAN
    BY <1>26, Zenon DEF ResetSuccess
  <2>2. QED
    BY <1>26, <2>1 DEF ResetSuccess, Step, Foreground
<1>27. CASE ArmBuffer
  BY <1>27 DEF ArmBuffer, Step, Foreground
<1>28. CASE ArmExpected
  BY <1>28 DEF ArmExpected, Step, Foreground
<1>29. CASE ArmActive
  BY <1>29 DEF ArmActive, Step, Foreground
<1>30. CASE WaitSpin
  BY <1>30 DEF WaitSpin, Step, Foreground
<1>31. CASE WaitDone
  BY <1>31 DEF WaitDone, Step, Foreground
<1>32. CASE Check
  BY <1>32 DEF Check, Step, Foreground
<1>33. CASE FailActive
  <2>1. m_rx_active' \in BOOLEAN
    BY <1>33, Zenon DEF FailActive
  <2>2. QED
    BY <1>33, <2>1 DEF FailActive, Step, Foreground
<1>34. CASE FailSuccess
  <2>1. m_rx_success' \in BOOLEAN
    BY <1>34, Zenon DEF FailSuccess
  <2>2. QED
    BY <1>34, <2>1 DEF FailSuccess, Step, Foreground
<1>35. CASE Result
  BY <1>35 DEF Result, Step, Foreground
<1>36. CASE PollSpin
  BY <1>36 DEF PollSpin, Step, Foreground
<1>37. CASE PollExpires
  BY <1>37 DEF PollExpires, Step, Foreground
<1>38. CASE PollGet
  <2> USE DEF PollGet, Step, Foreground
  <2>1. pc' \in {"idle", "poll"} /\ outcome' \in {"none", "failure", "success"}
    BY <1>38
  <2>2. popped' \in Nat /\ index' \in Nat /\ remaining' \in 0..MaxLoops /\ lastRead' \in Nat
    BY <1>38
  <2>3. data' \in [0..MaxSize-1 -> Nat]
    <3>1. data' = [data EXCEPT ![index] = popped + 1] /\ popped + 1 \in Nat
      BY <1>38
    <3>2. data \in [0..MaxSize-1 -> Nat]
      OBVIOUS
    <3>3. QED
      BY ONLY <3>1, <3>2, StoreType
  <2>4. QED
    BY <1>38, <2>1, <2>2, <2>3
<1>39. CASE UNCHANGED vars
  BY <1>39 DEF vars
<1>40. QED
  BY <1>1, <1>2, <1>3, <1>4, <1>5, <1>6, <1>7, <1>8, <1>9, <1>10, <1>11, <1>12, <1>13, <1>14, <1>15, <1>16, <1>17, <1>18, <1>19, <1>20, <1>21, <1>22, <1>23, <1>24, <1>25, <1>26, <1>27, <1>28, <1>29, <1>30, <1>31, <1>32, <1>33, <1>34, <1>35, <1>36, <1>37, <1>38, <1>39 DEF Next, Call, Progress, ModeStep, InterruptRead, PollingRead, Isr

LEMMA ModeInvStep == TypeOK /\ ModeInv /\ [Next]_vars => ModeInv'
<1> SUFFICES ASSUME TypeOK, ModeInv, [Next]_vars PROVE ModeInv'
  OBVIOUS
<1> USE DEF TypeOK, ModeInv, ModeSteps, ResetSteps, ArmSteps, WaitSteps, ReadSteps, fifoVars, irqVars, rxVars, isrVars, localVars, ghostVars
<1>1. ASSUME NEW t \in Targets, ChangeMode(t)
      PROVE  ModeInv'
  BY <1>1 DEF ChangeMode, Foreground
<1>2. ASSUME NEW n \in Sizes, ReadAtOnce(n)
      PROVE  ModeInv'
  BY <1>2 DEF ReadAtOnce, Foreground
<1>3. ASSUME NEW n \in Sizes, NEW loops \in 0..MaxLoops, Arm(n, loops)
      PROVE  ModeInv'
  BY <1>3 DEF Arm, Foreground
<1>4. ASSUME NEW n \in Sizes, NEW loops \in 0..MaxLoops, PollRead(n, loops)
      PROVE  ModeInv'
  BY <1>4 DEF PollRead, Foreground
<1>5. CASE Accept
  BY <1>5 DEF Accept
<1>6. CASE handle_uart_irq
  BY <1>6 DEF handle_uart_irq, Asserted
<1>7. CASE StoreByte
  BY <1>7 DEF StoreByte, PopByte, Collecting
<1>8. CASE CallbackByte
  BY <1>8 DEF CallbackByte, PopByte, Collecting
<1>9. CASE IsrExit
  BY <1>9 DEF IsrExit
<1>10. CASE Mask
  BY <1>10 DEF Mask, Step, Foreground
<1>11. CASE IntDisable
  BY <1>11 DEF IntDisable, Step, Foreground
<1>12. CASE DropCallback
  BY <1>12 DEF DropCallback, Step, Foreground
<1>13. CASE DropInstance
  BY <1>13 DEF DropInstance, Step, Foreground
<1>14. CASE Close
  BY <1>14 DEF Close, Step, Foreground
<1>15. CASE Open
  BY <1>15 DEF Open, Step, Foreground
<1>16. CASE SetInstance
  BY <1>16 DEF SetInstance, Step, Foreground
<1>17. CASE SetCallback
  BY <1>17 DEF SetCallback, Step, Foreground
<1>18. CASE IntEnable
  BY <1>18 DEF IntEnable, Step, Foreground
<1>19. CASE Unmask
  BY <1>19 DEF Unmask, Step, Foreground
<1>20. CASE Publish
  BY <1>20 DEF Publish, Step, Foreground
<1>21. CASE ResetBuffer
  BY <1>21 DEF ResetBuffer, Step, Foreground
<1>22. CASE ResetExpected
  BY <1>22 DEF ResetExpected, Step, Foreground
<1>23. CASE ResetCount
  BY <1>23 DEF ResetCount, Step, Foreground
<1>24. CASE ResetActive
  BY <1>24 DEF ResetActive, Step, Foreground
<1>25. CASE ResetComplete
  BY <1>25 DEF ResetComplete, Step, Foreground
<1>26. CASE ResetSuccess
  BY <1>26 DEF ResetSuccess, Step, Foreground
<1>27. CASE ArmBuffer
  BY <1>27 DEF ArmBuffer, Step, Foreground
<1>28. CASE ArmExpected
  BY <1>28 DEF ArmExpected, Step, Foreground
<1>29. CASE ArmActive
  BY <1>29 DEF ArmActive, Step, Foreground
<1>30. CASE WaitSpin
  BY <1>30 DEF WaitSpin, Step, Foreground
<1>31. CASE WaitDone
  BY <1>31 DEF WaitDone, Step, Foreground
<1>32. CASE Check
  BY <1>32 DEF Check, Step, Foreground
<1>33. CASE FailActive
  BY <1>33 DEF FailActive, Step, Foreground
<1>34. CASE FailSuccess
  BY <1>34 DEF FailSuccess, Step, Foreground
<1>35. CASE Result
  BY <1>35 DEF Result, Step, Foreground
<1>36. CASE PollSpin
  BY <1>36 DEF PollSpin, Step, Foreground
<1>37. CASE PollExpires
  BY <1>37 DEF PollExpires, Step, Foreground
<1>38. CASE PollGet
  BY <1>38 DEF PollGet, Step, Foreground
<1>39. CASE UNCHANGED vars
  BY <1>39 DEF vars
<1>40. QED
  BY <1>1, <1>2, <1>3, <1>4, <1>5, <1>6, <1>7, <1>8, <1>9, <1>10, <1>11, <1>12, <1>13, <1>14, <1>15, <1>16, <1>17, <1>18, <1>19, <1>20, <1>21, <1>22, <1>23, <1>24, <1>25, <1>26, <1>27, <1>28, <1>29, <1>30, <1>31, <1>32, <1>33, <1>34, <1>35, <1>36, <1>37, <1>38, <1>39 DEF Next, Call, Progress, ModeStep, InterruptRead, PollingRead, Isr

LEMMA RxInvStep == TypeOK /\ ModeInv /\ RxInv /\ [Next]_vars => RxInv'
<1> SUFFICES ASSUME TypeOK, ModeInv, RxInv, [Next]_vars PROVE RxInv'
  OBVIOUS
<1> USE CallAssumption DEF TypeOK, ModeInv, RxInv, Sizes, Collected, Filled, Inert, Clear, Waiting,
        ModeSteps, ResetSteps, ArmSteps, WaitSteps, ReadSteps, fifoVars, irqVars, rxVars, isrVars, localVars, ghostVars
<1>1. ASSUME NEW t \in Targets, ChangeMode(t)
      PROVE  RxInv'
  BY <1>1 DEF ChangeMode, Foreground
<1>2. ASSUME NEW n \in Sizes, ReadAtOnce(n)
      PROVE  RxInv'
  BY <1>2 DEF ReadAtOnce, Foreground
<1>3. ASSUME NEW n \in Sizes, NEW loops \in 0..MaxLoops, Arm(n, loops)
      PROVE  RxInv'
  BY <1>3 DEF Arm, Foreground
<1>4. ASSUME NEW n \in Sizes, NEW loops \in 0..MaxLoops, PollRead(n, loops)
      PROVE  RxInv'
  BY <1>4 DEF PollRead, Foreground
<1>5. CASE Accept
  BY <1>5 DEF Accept
<1>6. CASE handle_uart_irq
  BY <1>6 DEF handle_uart_irq, Asserted
<1>7. CASE StoreByte
  <2> USE DEF StoreByte, PopByte, Collecting
  <2>1. pc \in {"wait", "check", "fail_active"} /\ m_rx_active /\ m_rx_buffer
    BY <1>7
  <2>2. /\ m_rx_count < size /\ m_rx_expected = size /\ popped = start + m_rx_count
        /\ ~m_rx_complete /\ ~m_rx_success /\ m_rx_count \in 0..MaxSize-1
    BY <2>1
  <2>3. m_rx_count' = m_rx_count + 1 /\ popped' = popped + 1 /\ dropped' = {}
    BY <1>7, <2>2
  <2>4. \A i \in 0..m_rx_count : data'[i] = start + 1 + i
    <3>1. data' = [data EXCEPT ![m_rx_count] = start + m_rx_count + 1]
      BY <1>7, <2>2
    <3>2. /\ MaxSize \in Nat /\ start \in Nat /\ m_rx_count \in 0..MaxSize-1
          /\ data \in [0..MaxSize-1 -> Nat]
          /\ \A i \in 0..m_rx_count-1 : data[i] = start + 1 + i
      BY <2>1, <2>2
    <3>3. QED
      BY ONLY <3>1, <3>2
  <2>5. UNCHANGED <<pc, after, lastRead, start, size, outcome, m_rx_buffer, m_rx_expected>>
    BY <1>7
  <2>6. Waiting'
    <3>1. Collected(m_rx_count)'
      BY <2>2, <2>3, <2>4, <2>5
    <3>2. CASE m_rx_count' = m_rx_expected
      <4>1. ~m_rx_active' /\ m_rx_complete' /\ m_rx_success'
        BY <1>7, <3>2
      <4>2. QED
        BY <2>1, <2>2, <2>3, <2>5, <3>1, <3>2, <4>1
    <3>3. CASE m_rx_count' # m_rx_expected
      <4>1. m_rx_active' /\ ~m_rx_complete' /\ ~m_rx_success'
        BY <1>7, <2>2, <3>3
      <4>2. QED
        BY <2>1, <2>2, <2>3, <2>5, <3>1, <3>3, <4>1
    <3>4. QED
      BY <3>2, <3>3
  <2>7. QED
    BY <2>1, <2>3, <2>5, <2>6
<1>8. CASE CallbackByte
  BY <1>8 DEF CallbackByte, PopByte, Collecting
<1>9. CASE IsrExit
  BY <1>9 DEF IsrExit
<1>10. CASE Mask
  BY <1>10 DEF Mask, Step, Foreground
<1>11. CASE IntDisable
  BY <1>11 DEF IntDisable, Step, Foreground
<1>12. CASE DropCallback
  BY <1>12 DEF DropCallback, Step, Foreground
<1>13. CASE DropInstance
  BY <1>13 DEF DropInstance, Step, Foreground
<1>14. CASE Close
  BY <1>14 DEF Close, Step, Foreground
<1>15. CASE Open
  BY <1>15 DEF Open, Step, Foreground
<1>16. CASE SetInstance
  BY <1>16 DEF SetInstance, Step, Foreground
<1>17. CASE SetCallback
  BY <1>17 DEF SetCallback, Step, Foreground
<1>18. CASE IntEnable
  BY <1>18 DEF IntEnable, Step, Foreground
<1>19. CASE Unmask
  BY <1>19 DEF Unmask, Step, Foreground
<1>20. CASE Publish
  BY <1>20 DEF Publish, Step, Foreground
<1>21. CASE ResetBuffer
  BY <1>21 DEF ResetBuffer, Step, Foreground
<1>22. CASE ResetExpected
  BY <1>22 DEF ResetExpected, Step, Foreground
<1>23. CASE ResetCount
  BY <1>23 DEF ResetCount, Step, Foreground
<1>24. CASE ResetActive
  BY <1>24 DEF ResetActive, Step, Foreground
<1>25. CASE ResetComplete
  BY <1>25 DEF ResetComplete, Step, Foreground
<1>26. CASE ResetSuccess
  BY <1>26 DEF ResetSuccess, Step, Foreground
<1>27. CASE ArmBuffer
  BY <1>27 DEF ArmBuffer, Step, Foreground
<1>28. CASE ArmExpected
  BY <1>28 DEF ArmExpected, Step, Foreground
<1>29. CASE ArmActive
  BY <1>29 DEF ArmActive, Step, Foreground
<1>30. CASE WaitSpin
  BY <1>30 DEF WaitSpin, Step, Foreground
<1>31. CASE WaitDone
  BY <1>31 DEF WaitDone, Step, Foreground
<1>32. CASE Check
  BY <1>32 DEF Check, Step, Foreground
<1>33. CASE FailActive
  BY <1>33 DEF FailActive, Step, Foreground
<1>34. CASE FailSuccess
  BY <1>34 DEF FailSuccess, Step, Foreground
<1>35. CASE Result
  BY <1>35 DEF Result, Step, Foreground
<1>36. CASE PollSpin
  BY <1>36 DEF PollSpin, Step, Foreground
<1>37. CASE PollExpires
  BY <1>37 DEF PollExpires, Step, Foreground
<1>38. CASE PollGet
  <2> USE DEF PollGet, Step, Foreground
  <2>1. /\ index < size /\ popped = start + index /\ lastRead <= start /\ Clear
        /\ pc = "poll" /\ index \in 0..MaxSize-1
    BY <1>38
  <2>2. \A i \in 0..index : data'[i] = start + 1 + i
    <3>1. data' = [data EXCEPT ![index] = start + index + 1]
      BY <1>38, <2>1
    <3>2. /\ MaxSize \in Nat /\ start \in Nat /\ index \in 0..MaxSize-1
          /\ data \in [0..MaxSize-1 -> Nat] /\ \A i \in 0..index-1 : data[i] = start + 1 + i
      BY <2>1
    <3>3. QED
      BY ONLY <3>1, <3>2
  <2>3. Clear'
    BY <1>38, <2>1
  <2>4. CASE index + 1 = size
    BY <1>38, <2>1, <2>2, <2>3, <2>4
  <2>5. CASE index + 1 # size
    BY <1>38, <2>1, <2>2, <2>3, <2>5
  <2>6. QED
    BY <2>4, <2>5
<1>39. CASE UNCHANGED vars
  BY <1>39 DEF vars
<1>40. QED
  BY <1>1, <1>2, <1>3, <1>4, <1>5, <1>6, <1>7, <1>8, <1>9, <1>10, <1>11, <1>12, <1>13, <1>14, <1>15, <1>16, <1>17, <1>18, <1>19, <1>20, <1>21, <1>22, <1>23, <1>24, <1>25, <1>26, <1>27, <1>28, <1>29, <1>30, <1>31, <1>32, <1>33, <1>34, <1>35, <1>36, <1>37, <1>38, <1>39 DEF Next, Call, Progress, ModeStep, InterruptRead, PollingRead, Isr

LEMMA UartInvariant == Spec => []UartInv
<1>1. Init => UartInv
  <2> SUFFICES ASSUME Init PROVE UartInv
    OBVIOUS
  <2> USE CallAssumption DEF Init
  <2>1. TypeOK
    <3>1. /\ unmasked \in BOOLEAN /\ rhr_it \in BOOLEAN /\ instance \in BOOLEAN
          /\ callback \in BOOLEAN /\ m_rx_buffer \in BOOLEAN /\ m_rx_active \in BOOLEAN
          /\ m_rx_complete \in BOOLEAN /\ m_rx_success \in BOOLEAN /\ isr \in BOOLEAN
          /\ ok \in BOOLEAN
      BY Zenon
    <3>2. data \in [0..MaxSize-1 -> Nat]
      OBVIOUS
    <3>3. QED
      BY <3>1, <3>2 DEF TypeOK, Sizes, IOModes, Targets
  <2>2. ModeInv
    BY DEF ModeInv, ModeSteps
  <2>3. RxInv
    BY DEF RxInv, Clear, Inert, ModeSteps, ResetSteps, ArmSteps, WaitSteps, ReadSteps
  <2>4. QED
    BY <2>1, <2>2, <2>3 DEF UartInv
<1>2. UartInv /\ [Next]_vars => UartInv'
  BY TypeStep, ModeInvStep, RxInvStep DEF UartInv
<1>3. QED
  BY <1>1, <1>2, PTL DEF Spec

\* Registers, fields, locals and program points keep their types.
THEOREM UartTypeOK == Spec => []TypeOK
<1>1. UartInv => TypeOK
  BY DEF UartInv
<1>2. QED
  BY <1>1, UartInvariant, PTL

\* handle_uart_irq() never reads an empty FIFO.
THEOREM UartNoOverRead == Spec => []NoOverRead
<1>1. UartInv => NoOverRead
  BY DEF UartInv, TypeOK, ModeInv, NoOverRead
<1>2. QED
  BY <1>1, UartInvariant, PTL

\* The interrupt can fire only while it has an instance and a callback.
THEOREM UartInterruptHasOwner == Spec => []InterruptHasOwner
<1>1. UartInv => InterruptHasOwner
  BY DEF UartInv, TypeOK, ModeInv, InterruptHasOwner
<1>2. QED
  BY <1>1, UartInvariant, PTL

\* Every byte the routine takes reaches the buffer or the callback.
THEOREM UartNothingDropped == Spec => []NothingDropped
<1>1. UartInv => NothingDropped
  BY DEF UartInv, RxInv, NothingDropped
<1>2. QED
  BY <1>1, UartInvariant, PTL

\* A successful read() returned consecutive bytes, and they stay in the buffer.
THEOREM UartSuccessIsExact == Spec => []SuccessIsExact
<1>1. UartInv => SuccessIsExact
  BY DEF UartInv, RxInv, SuccessIsExact, Collected
<1>2. QED
  BY <1>1, UartInvariant, PTL

\* Nothing is stored into a caller's buffer after its read() has returned.
THEOREM UartNoLateStore == Spec => NoLateStore
<1>1. UartInv /\ [Next]_vars => [data' # data => pc \in ReadSteps]_vars
  <2> SUFFICES ASSUME UartInv, [Next]_vars, data' # data PROVE pc \in ReadSteps
    BY DEF vars
  <2>1. CASE StoreByte
    BY <2>1 DEF UartInv, TypeOK, RxInv, StoreByte, Collecting, Clear, ReadSteps
  <2>2. CASE PollGet
    BY <2>2 DEF PollGet, Step, ReadSteps
  <2>3. CASE UNCHANGED data
    BY <2>3
  <2>4. [Next]_vars => StoreByte \/ PollGet \/ UNCHANGED data
    BY DEF Next, Call, Progress, ModeStep, InterruptRead, PollingRead, Isr, vars,
           Accept, handle_uart_irq, CallbackByte, IsrExit, ChangeMode, ReadAtOnce, Arm, PollRead,
           Mask, IntDisable, DropCallback, DropInstance, Close, Open, SetInstance, SetCallback,
           IntEnable, Unmask, Publish, ResetBuffer, ResetExpected, ResetCount, ResetActive,
           ResetComplete, ResetSuccess, ArmBuffer, ArmExpected, ArmActive, WaitSpin, WaitDone,
           Check, FailActive, FailSuccess, Result, PollSpin, PollExpires
  <2>5. QED
    BY <2>1, <2>2, <2>3, <2>4
<1>2. QED
  BY <1>1, UartInvariant, PTL DEF Spec, NoLateStore

-----------------------------------------------------------------------------
(* UartReceive implements SerialRead. *)

\* The actions inside a call, and the changes of mode, that no caller sees.
Inside ==
    \/ \E t \in Targets : ChangeMode(t)
    \/ handle_uart_irq \/ CallbackByte \/ IsrExit
    \/ ModeStep
    \/ ResetBuffer \/ ResetExpected \/ ResetCount \/ ResetActive \/ ResetComplete
    \/ ArmBuffer \/ ArmExpected \/ ArmActive
    \/ WaitSpin \/ WaitDone \/ Check \/ FailActive \/ FailSuccess \/ Result
    \/ PollSpin
    \/ UNCHANGED vars

LEMMA InsideIsSilent == UartInv /\ Inside => UNCHANGED Promise!readVars
<1> SUFFICES ASSUME UartInv, Inside PROVE UNCHANGED Promise!readVars
  OBVIOUS
<1> USE DEF fifoVars, localVars, ghostVars
<1> DEFINE Silent ==
      /\ UNCHANGED <<received, lastRead, outcome, size, data>>
      /\ pc' \in ReadSteps <=> pc \in ReadSteps
<1>0. SUFFICES Silent
  <2> SUFFICES ASSUME Silent PROVE UNCHANGED Promise!readVars
    OBVIOUS
  <2>1. (pc \in ReadSteps)' = (pc \in ReadSteps)
    <3>1. (pc \in ReadSteps)' <=> pc \in ReadSteps
      BY DEF ReadSteps, ResetSteps, ArmSteps, WaitSteps
    <3>2. (pc \in ReadSteps)' \in BOOLEAN /\ (pc \in ReadSteps) \in BOOLEAN
      OBVIOUS
    <3>3. QED
      BY <3>1, <3>2
  <2>2. returned' = returned
    BY DEF returned
  <2>3. UNCHANGED <<received, lastRead, outcome>>
    OBVIOUS
  <2>4. QED
    BY <2>1, <2>2, <2>3, Zenon DEF Promise!readVars
<1> USE DEF ModeSteps, ResetSteps, ArmSteps, WaitSteps, ReadSteps
<1>1. ASSUME NEW t \in Targets, ChangeMode(t) PROVE Silent
  BY <1>1 DEF ChangeMode
<1>2. CASE handle_uart_irq
  BY <1>2 DEF handle_uart_irq
<1>3. CASE CallbackByte
  BY <1>3 DEF CallbackByte, PopByte
<1>4. CASE IsrExit
  BY <1>4 DEF IsrExit
<1>5. CASE Mask
  BY <1>5 DEF Mask, Step
<1>6. CASE IntDisable
  BY <1>6 DEF IntDisable, Step
<1>7. CASE DropCallback
  BY <1>7 DEF DropCallback, Step
<1>8. CASE DropInstance
  BY <1>8 DEF DropInstance, Step
<1>9. CASE Close
  BY <1>9 DEF Close, Step
<1>10. CASE Open
  BY <1>10 DEF Open, Step
<1>11. CASE SetInstance
  BY <1>11 DEF SetInstance, Step
<1>12. CASE SetCallback
  BY <1>12 DEF SetCallback, Step
<1>13. CASE IntEnable
  BY <1>13 DEF IntEnable, Step
<1>14. CASE Unmask
  BY <1>14 DEF Unmask, Step
<1>15. CASE Publish
  BY <1>15 DEF Publish, Step
<1>16. CASE ResetBuffer
  BY <1>16 DEF ResetBuffer, Step
<1>17. CASE ResetExpected
  BY <1>17 DEF ResetExpected, Step
<1>18. CASE ResetCount
  BY <1>18 DEF ResetCount, Step
<1>19. CASE ResetActive
  BY <1>19 DEF ResetActive, Step
<1>20. CASE ResetComplete
  BY <1>20 DEF ResetComplete, Step
<1>21. CASE ArmBuffer
  BY <1>21 DEF ArmBuffer, Step
<1>22. CASE ArmExpected
  BY <1>22 DEF ArmExpected, Step
<1>23. CASE ArmActive
  BY <1>23 DEF ArmActive, Step
<1>24. CASE WaitSpin
  BY <1>24 DEF WaitSpin, Step
<1>25. CASE WaitDone
  BY <1>25 DEF WaitDone, Step
<1>26. CASE Check
  BY <1>26 DEF Check, Step
<1>27. CASE FailActive
  BY <1>27 DEF FailActive, Step
<1>28. CASE FailSuccess
  BY <1>28 DEF FailSuccess, Step
<1>29. CASE Result
  BY <1>29 DEF Result, Step
<1>30. CASE PollSpin
  BY <1>30 DEF PollSpin, Step
<1>31. CASE UNCHANGED vars
  BY <1>31 DEF vars
<1>32. QED
  BY <1>1, <1>2, <1>3, <1>4, <1>5, <1>6, <1>7, <1>8, <1>9, <1>10, <1>11, <1>12, <1>13, <1>14, <1>15, <1>16, <1>17, <1>18, <1>19, <1>20, <1>21, <1>22, <1>23, <1>24, <1>25, <1>26, <1>27, <1>28, <1>29, <1>30, <1>31 DEF Inside, ModeStep

\* A byte stored during a call changes nothing a caller may look at.
LEMMA StoreByteIsSilent == UartInv /\ StoreByte => UNCHANGED Promise!readVars
<1> SUFFICES ASSUME UartInv, StoreByte PROVE UNCHANGED Promise!readVars
  OBVIOUS
<1>1. pc \in ReadSteps /\ outcome = "none"
  BY DEF UartInv, TypeOK, RxInv, StoreByte, Collecting, Clear, ReadSteps
<1>2. UNCHANGED <<received, lastRead, outcome, pc>>
  BY DEF StoreByte, PopByte
<1>3. returned' = returned
  BY <1>1, <1>2 DEF returned
<1>4. QED
  BY <1>2, <1>3 DEF Promise!readVars

\* A run that starts at or after lastRead and ends at or before received may be
\* returned.
LEMMA MaySucceed ==
    ASSUME TypeOK, TypeOK',
           pc' \notin ReadSteps, outcome' = "success", received' = received,
           start + size' <= received, lastRead <= start, lastRead' = start + size',
           \A i \in 0..size'-1 : data'[i] = start + 1 + i
    PROVE  Promise!Succeed
<1>1. size' \in Sizes /\ size' \in Nat
  BY DEF TypeOK, Sizes
<1>2. start \in lastRead..(received - size')
  <2>1. ASSUME NEW a \in Nat, NEW l \in Nat, NEW r \in Nat, NEW n \in Nat, a + n <= r, l <= a
        PROVE  a \in l..(r - n)
    BY <2>1
  <2>2. start \in Nat /\ lastRead \in Nat /\ received \in Nat
    BY DEF TypeOK
  <2>3. QED
    BY <1>1, <2>1, <2>2
<1>3. returned' = Promise!Run(start, size')
  BY <1>1 DEF returned, Promise!Run, TypeOK
<1>4. (pc \in ReadSteps)' = FALSE
  OBVIOUS
<1>5. QED
  BY <1>1, <1>2, <1>3, <1>4 DEF Promise!Succeed

LEMMA NothingReturned == outcome # "success" => returned = Promise!Nothing
BY DEF returned, Promise!Nothing, Promise!Run

LEMMA RefinementStep == UartInv /\ UartInv' /\ [Next]_vars => [Promise!Next]_Promise!readVars
<1> SUFFICES ASSUME UartInv, UartInv', [Next]_vars PROVE [Promise!Next]_Promise!readVars
  OBVIOUS
<1> USE DEF UartInv
<1>1. CASE Inside
  BY <1>1, InsideIsSilent
<1>2. CASE StoreByte
  BY <1>2, StoreByteIsSilent
<1>3. CASE Accept
  <2>1. UNCHANGED <<pc, outcome, size, data, lastRead>> /\ received' = received + 1
    BY <1>3 DEF Accept, localVars, ghostVars
  <2>2. Promise!Accept
    BY <2>1 DEF Promise!Accept, returned
  <2>3. QED
    BY <2>2 DEF Promise!Next
<1>4. ASSUME NEW n \in Sizes, NEW loops \in 0..MaxLoops, Arm(n, loops) \/ PollRead(n, loops)
      PROVE  Promise!Begin
  <2>1. /\ pc = "idle" /\ pc' \in {"reset_buffer", "poll"} /\ outcome' = "none"
        /\ UNCHANGED <<received, lastRead>>
    BY <1>4 DEF Arm, PollRead, fifoVars
  <2>2. pc \notin ReadSteps /\ (pc \in ReadSteps)' = TRUE
    BY <2>1 DEF ReadSteps, ResetSteps, ArmSteps, WaitSteps
  <2>3. returned' = Promise!Nothing
    BY <2>1 DEF returned, Promise!Nothing, Promise!Run
  <2>4. QED
    BY <2>1, <2>2, <2>3 DEF Promise!Begin
<1>5. ASSUME pc' = "idle", outcome' = "failure", UNCHANGED <<received, lastRead>>
      PROVE  Promise!Fail
  <2>1. (pc \in ReadSteps)' = FALSE
    BY <1>5 DEF ReadSteps, ResetSteps, ArmSteps, WaitSteps
  <2>2. returned' = Promise!Nothing
    BY <1>5 DEF returned, Promise!Nothing, Promise!Run
  <2>3. QED
    BY <1>5, <2>1, <2>2 DEF Promise!Fail
<1>6. ASSUME NEW n \in Sizes, ReadAtOnce(n)
      PROVE  Promise!Fail \/ Promise!Succeed
  <2> USE <1>6 DEF ReadAtOnce, fifoVars
  <2>1. CASE io_mode = "UNINITIALIZED"
    BY <2>1, <1>5
  <2>2. CASE io_mode # "UNINITIALIZED"
    <3>1. n = 0 /\ size' = 0 /\ outcome' = "success" /\ UNCHANGED <<received, lastRead>>
      BY <2>2
    <3>2. (pc \in ReadSteps)' = FALSE
      BY DEF ReadSteps, ResetSteps, ArmSteps, WaitSteps
    <3>3. returned' = Promise!Run(lastRead, 0)
      BY <3>1 DEF returned, Promise!Run
    <3>4. lastRead \in lastRead..(received - 0) /\ lastRead' = lastRead + 0 /\ 0 \in Sizes
      BY <3>1, CallAssumption DEF TypeOK, RxInv, ModeInv, Sizes
    <3>5. QED
      BY <3>1, <3>2, <3>3, <3>4 DEF Promise!Succeed
  <2>3. QED
    BY <2>1, <2>2
<1>7. CASE ResetSuccess
  <2> USE <1>7 DEF ResetSuccess, Step, fifoVars, localVars
  <2>1. CASE after = "arm"
    <3>1. UNCHANGED <<received, lastRead, outcome, size, data>>
      BY <2>1
    <3>2. (pc \in ReadSteps)' = (pc \in ReadSteps)
      BY <2>1 DEF ReadSteps, ResetSteps, ArmSteps, WaitSteps
    <3>3. QED
      BY <3>1, <3>2 DEF Promise!readVars, returned
  <2>2. CASE after = "return" /\ ok
    <3>1. Filled
      BY <2>2 DEF RxInv, ResetSteps
    <3>2. /\ pc' = "idle" /\ outcome' = "success" /\ lastRead' = start + size
          /\ UNCHANGED <<received, size, data>>
      BY <2>2
    <3>3. pc' \notin ReadSteps
      BY <3>2 DEF ReadSteps, ResetSteps, ArmSteps, WaitSteps
    <3>4. start + size <= received
      BY <3>1 DEF Filled, TypeOK, ModeInv, Sizes
    <3>5. Promise!Succeed
      BY <3>1, <3>2, <3>3, <3>4, MaySucceed DEF Filled, Collected
    <3>6. QED
      BY <3>5 DEF Promise!Next
  <2>3. CASE after = "return" /\ ~ok
    BY <2>3, <1>5 DEF Promise!Next
  <2>4. QED
    BY <2>1, <2>2, <2>3 DEF TypeOK
<1>8. CASE PollExpires
  BY <1>5, <1>8 DEF PollExpires, Step, fifoVars, Promise!Next
<1>9. CASE PollGet
  <2> USE <1>9 DEF PollGet, Step
  <2>1. CASE index + 1 = size
    <3>1. /\ pc' = "idle" /\ outcome' = "success" /\ lastRead' = start + size
          /\ UNCHANGED <<received, size, start>>
      BY <2>1 DEF localVars, ghostVars
    <3>2. pc' \notin ReadSteps
      BY <3>1 DEF ReadSteps, ResetSteps, ArmSteps, WaitSteps
    <3>3. \A i \in 0..size'-1 : data'[i] = start + 1 + i
      BY <3>1 DEF RxInv, Collected
    <3>4. start + size <= received /\ lastRead <= start
      BY <2>1 DEF RxInv, TypeOK, Sizes
    <3>5. Promise!Succeed
      BY <3>1, <3>2, <3>3, <3>4, MaySucceed
    <3>6. QED
      BY <3>5 DEF Promise!Next
  <2>2. CASE index + 1 # size
    <3>1. pc = "poll" /\ pc' = "poll" /\ UNCHANGED <<received, lastRead, outcome>>
      BY <2>2
    <3>2. outcome = "none"
      BY <3>1 DEF RxInv, ReadSteps
    <3>3. returned' = returned
      BY <3>1, <3>2 DEF returned
    <3>4. QED
      BY <3>1, <3>3 DEF Promise!readVars
  <2>3. QED
    BY <2>1, <2>2
<1>10. QED
  BY <1>1, <1>2, <1>3, <1>4, <1>6, <1>7, <1>8, <1>9
  DEF Next, Isr, Call, Progress, InterruptRead, PollingRead, Inside, Promise!Next

\* read() implements the promise of SerialRead, in both modes, for every size,
\* budget, FIFO depth and interleaving with the interrupt.
THEOREM UartKeepsPromise == Spec => KeepsPromise
<1>1. Init => Promise!Init
  <2> SUFFICES ASSUME Init PROVE Promise!Init
    OBVIOUS
  <2>1. (pc \in ReadSteps) = FALSE
    BY DEF Init, ReadSteps, ResetSteps, ArmSteps, WaitSteps
  <2>2. returned = Promise!Nothing
    BY DEF Init, returned, Promise!Nothing, Promise!Run
  <2>3. QED
    BY <2>1, <2>2 DEF Init, Promise!Init
<1>2. QED
  BY <1>1, RefinementStep, UartInvariant, PTL DEF Spec, KeepsPromise, Promise!Spec
=============================================================================
