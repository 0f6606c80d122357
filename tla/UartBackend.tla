----------------------------- MODULE UartBackend -----------------------------
(***************************************************************************)
(* HAL::EDMA::periph::UartBackend: the transfers of a UART in DMA mode,    *)
(* composed of two DmaChannel objects, the UART's FIFOs and its two DMA    *)
(* request lines.  write() and read() move whole chunks by DMA and the     *)
(* rest, the tail, byte by byte with the CPU.                              *)
(*                                                                         *)
(* at names the next call of the method in progress; while it names one    *)
(* the steps of the DmaChannel method called before may still be running   *)
(* (pc # "idle").  A byte of a write is its position in the caller's       *)
(* buffer.  A byte of a read is its position among the bytes that left the *)
(* receive FIFO since the call began; 0 is a byte that never was there, or *)
(* belongs to an earlier call.                                             *)
(*                                                                         *)
(* A call may time out while a request is in flight: stop() does not wait  *)
(* for it, and it is left over to the next call (stale, leftover).         *)
(***************************************************************************)
EXTENDS DmaChannel, Sequences

CONSTANTS Tx, Rx,       \* the two channels
          Chunk,        \* tx_chunk and rx_chunk
          TxFifo,       \* bytes the transmitter holds, shifter included
          RxFifo,       \* bytes the receive FIFO holds
          Level,        \* rx_trigger_level: bytes that raise the receive request
          Space,        \* tx_trigger_space: room that raises the transmit request
          Sizes,        \* what callers ask for; a size of 0 returns at once
          MaxTimeouts   \* bound: waits for a DMA part that give up

\* valid() checks neither of the last two; the defaults satisfy them.
ASSUME BackendAssumption ==
    /\ Channels = {Tx, Rx} /\ Tx # Rx
    /\ {Chunk, TxFifo, RxFifo, Level, Space} \union Sizes \subseteq Nat \ {0}
    /\ MaxTimeouts \in Nat
    /\ \A n \in Sizes : n \div Chunk <= MaxCount
    /\ Chunk <= Space /\ Space <= TxFifo
    /\ Chunk <= Level /\ Level <= RxFifo

VARIABLES
    m_initialized,
    at, op, size, next,           \* the call in progress, its next tail byte
    ok, timedOut,                 \* how its DMA part ended
    timeouts,                     \* how many have timed out
    dmaMode,                      \* SCR.DMAMODE2 is not SCR_DMA_MODE_0
    txPending,                    \* bytes not yet physically sent
    out,                          \* bytes of the current write() given to THR
    level,                        \* RXFIFO_LVL
    got, data,                    \* bytes taken from the FIFO by this read(), its buffer
    asked,                        \* request lines raised and not yet served
    moving,                       \* channels executing a request that is not the last
    stale, leftover               \* ghosts: requests no call waits for any more

callVars  == <<m_initialized, at, op, size, next, ok, timedOut, timeouts>>
uartVars  == <<dmaMode, asked, txPending, out, level, got, data>>
flowVars  == <<moving, stale, leftover>>
allVars   == <<vars, callVars, uartVars, flowVars>>

chan == IF op = "write" THEN Tx ELSE Rx
dma_size(n) == n - (n % Chunk)

\* The channels whose UART could raise a request now.
Supplied == {c \in Channels : IF c = Tx THEN TxFifo - txPending >= Space ELSE level >= Level}

\* A request line rises at its trigger level and falls when a chunk has been
\* moved or the DMA mode is left.
Rising(c) == dmaMode /\ c \in Supplied \ asked

\* The controller takes an enabled event before the line moves a byte, and the
\* UART raises a request, too, before the CPU's next register access.
Taken == ER \intersect EER \subseteq SER \union moving \union inflight
Ready == Taken /\ \A c \in Channels : ~Rising(c)

CpuTurn == Foreground /\ pc = "idle" /\ Ready
Now(s)  == at = s /\ CpuTurn

Init_ ==
    /\ Init
    /\ m_initialized = FALSE /\ at = "idle" /\ op = "none" /\ size = 0 /\ next = 0
    /\ ok = TRUE /\ timedOut = FALSE /\ timeouts = 0
    /\ dmaMode = FALSE /\ asked = {} /\ txPending = 0 /\ out = <<>>
    /\ level = 0 /\ got = 0 /\ data = <<>>
    /\ moving = {} /\ stale = {} /\ leftover = FALSE

-----------------------------------------------------------------------------
(* init() and stop().  uart::init_dma() has entered the DMA mode before. *)

InitTx ==
    /\ Now("idle") /\ ~m_initialized
    /\ InitChannel(Tx)
    /\ at' = "init_rx"
    /\ dmaMode' = TRUE
    /\ UNCHANGED <<m_initialized, op, size, next, ok, timedOut, timeouts, asked, txPending, out,
                   level, got, data, flowVars>>

InitRx ==
    /\ Now("init_rx")
    /\ InitChannel(Rx)
    /\ at' = "idle" /\ m_initialized' = TRUE
    /\ UNCHANGED <<op, size, next, ok, timedOut, timeouts, uartVars, flowVars>>

\* stop() of the two channels returns at once: no call has left them started.
StopBackend ==
    /\ Now("idle") /\ m_initialized
    /\ dmaMode' = FALSE /\ asked' = {}
    /\ at' = "free_tx"
    /\ UNCHANGED <<vars, m_initialized, op, size, next, ok, timedOut, timeouts, txPending, out, level,
                   got, data, flowVars>>

FreeChannel(s, c, then) ==
    /\ Now(s)
    /\ Free(c)
    /\ at' = then /\ m_initialized' = (then # "idle")
    /\ UNCHANGED <<op, size, next, ok, timedOut, timeouts, uartVars, flowVars>>

-----------------------------------------------------------------------------
(* write() and read(). *)

\* A call is over; its record is of no use to the next.
Over ==
    /\ at' = "idle" /\ op' = "none" /\ size' = 0 /\ next' = 0
    /\ ok' = TRUE /\ timedOut' = FALSE /\ leftover' = FALSE
    /\ out' = <<>> /\ got' = 0 /\ data' = <<>>
    /\ UNCHANGED <<m_initialized, timeouts>>

\* Mutant: the last set of a write, too, is linked to the null set.
Begin_NullLink(o, n) ==
    /\ Now("idle") /\ m_initialized
    /\ op' = o /\ size' = n /\ next' = dma_size(n)
    /\ data' = IF o = "read" THEN [i \in 1..n |-> 0] ELSE <<>>
    /\ leftover' = (chan' \in stale \union (ER \ Supplied))
    /\ Configure(chan', n \div Chunk, "null")
    /\ at' = "enable"
    /\ UNCHANGED <<m_initialized, ok, timedOut, timeouts, dmaMode, asked, txPending, out, level,
                   got, moving, stale>>

\* A call with at least one whole chunk configures its channel: a write links
\* to a dummy set, a read to a null one.
Begin(o, n) ==
    /\ Now("idle") /\ m_initialized
    /\ op' = o /\ size' = n /\ next' = dma_size(n)
    /\ data' = IF o = "read" THEN [i \in 1..n |-> 0] ELSE <<>>
    /\ leftover' = (chan' \in stale \union (ER \ Supplied))
    /\ IF n >= Chunk
       THEN /\ Configure(chan', n \div Chunk, IF o = "write" THEN "dummy" ELSE "null")
            /\ at' = "enable"
       ELSE at' = "tail" /\ UNCHANGED vars
    /\ UNCHANGED <<m_initialized, ok, timedOut, timeouts, dmaMode, asked, txPending, out, level,
                   got, moving, stale>>

DmaMode(s, on, then) ==
    /\ Now(s)
    /\ dmaMode' = on /\ asked' = {}
    /\ at' = then
    /\ UNCHANGED <<vars, m_initialized, op, size, next, ok, timedOut, timeouts,
                   txPending, out, level, got, data, flowVars>>

\* Mutant: the UART's DMA mode is never entered.
DMA_enable_Missing == DmaMode("enable", FALSE, "trigger")

DMA_enable  == DmaMode("enable", TRUE, "trigger")
DMA_disable == DmaMode("disable", FALSE, "halt")

StartDma ==
    /\ Now("trigger")
    /\ Trigger(chan, "EVENT")
    /\ at' = "wait"
    /\ UNCHANGED <<m_initialized, op, size, next, ok, timedOut, timeouts, uartVars, flowVars>>

\* Mutant: what wait_completion() returns is not looked at.
Wait_AnyResult ==
    /\ Now("wait")
    /\ WaitReturns(chan)
    /\ ok' = TRUE /\ timedOut' = (chan \notin m_transfer_done)
    /\ timeouts' = IF timedOut' THEN timeouts + 1 ELSE timeouts
    /\ timeouts' <= MaxTimeouts
    /\ at' = "disable"
    /\ UNCHANGED <<m_initialized, op, size, next, uartVars, flowVars>>

\* wait_completion() returns on done, or when its loops and epochs are used up.
Wait ==
    /\ Now("wait")
    /\ WaitReturns(chan)
    /\ ok' = (chan \in m_transfer_done \ m_transfer_error)
    /\ timedOut' = (chan \notin m_transfer_done)
    /\ timeouts' = IF timedOut' THEN timeouts + 1 ELSE timeouts
    /\ timeouts' <= MaxTimeouts
    /\ at' = "disable"
    /\ UNCHANGED <<m_initialized, op, size, next, uartVars, flowVars>>

\* Success or abort_tx()/abort_rx(): DMA_disable(), then stop() of the channel.
HaltDma ==
    /\ Now("halt")
    /\ Stop(chan)
    /\ at' = "halted"
    /\ UNCHANGED <<m_initialized, op, size, next, ok, timedOut, timeouts, uartVars, flowVars>>

Halted ==
    /\ Now("halted")
    /\ stale' = stale \union ({chan} \intersect (moving \union inflight))
    /\ UNCHANGED <<vars, moving>>
    /\ IF ok
       THEN at' = "tail"
            /\ UNCHANGED <<m_initialized, op, size, next, ok, timedOut, timeouts, uartVars, leftover>>
       ELSE Over /\ UNCHANGED <<dmaMode, asked, txPending, level>>

\* put_char() waits for an empty transmitter before and after its byte.
PutTail ==
    /\ Now("tail") /\ op = "write" /\ next < size
    /\ txPending = 0
    /\ txPending' = 1
    /\ out' = Append(out, next + 1)
    /\ next' = next + 1
    /\ UNCHANGED <<vars, m_initialized, at, op, size, ok, timedOut, timeouts, dmaMode, asked, level,
                   got, data, flowVars>>

\* Mutant: a tail byte is read whether or not one is there.
GetTail_NoWait ==
    /\ Now("tail") /\ op = "read" /\ next < size
    /\ level' = IF level > 0 THEN level - 1 ELSE 0
    /\ got' = got + 1
    /\ data' = [data EXCEPT ![next + 1] = IF level > 0 THEN got' ELSE 0]
    /\ next' = next + 1
    /\ UNCHANGED <<vars, m_initialized, at, op, size, ok, timedOut, timeouts, dmaMode, asked,
                   txPending, out, flowVars>>

GetTail ==
    /\ Now("tail") /\ op = "read" /\ next < size
    /\ level > 0
    /\ level' = level - 1
    /\ got' = got + 1
    /\ data' = [data EXCEPT ![next + 1] = got']
    /\ next' = next + 1
    /\ UNCHANGED <<vars, m_initialized, at, op, size, ok, timedOut, timeouts, dmaMode, asked,
                   txPending, out, flowVars>>

\* tail_timeout_loops, one budget for all bytes of the tail, is used up.
TailTimeout ==
    /\ Now("tail") /\ op = "read" /\ next < size
    /\ level = 0
    /\ Over
    /\ UNCHANGED <<vars, dmaMode, asked, txPending, level, moving, stale>>

\* A write ends with wait_tx_complete().
Return ==
    /\ Now("tail") /\ next = size
    /\ op = "write" => txPending = 0
    /\ Over
    /\ UNCHANGED <<vars, dmaMode, asked, txPending, level, moving, stale>>

-----------------------------------------------------------------------------
(* The hardware: the line, the FIFOs, the requests, the data they move. *)

lineSame == UNCHANGED <<vars, callVars, flowVars, dmaMode, asked, out, got, data>>

\* A full FIFO loses the byte.
LineByte ==
    /\ Taken
    /\ level' = IF level < RxFifo THEN level + 1 ELSE level
    /\ UNCHANGED txPending /\ lineSame

ShiftByte == Taken /\ txPending > 0 /\ txPending' = txPending - 1 /\ UNCHANGED level /\ lineSame

\* The rising edge is the event, lost on a disabled channel whose event is
\* already latched.
Request(c) ==
    /\ Rising(c)
    /\ asked' = asked \union {c}
    /\ IF c \in ER \ EER THEN UNCHANGED vars ELSE Event(c)
    /\ UNCHANGED <<callVars, dmaMode, txPending, out, level, got, data, flowVars>>

SubmitChunk(c) ==
    /\ c \notin moving
    /\ Submit(c)
    /\ moving' = IF c \in inflight' THEN moving ELSE moving \union {c}
    /\ UNCHANGED <<callVars, uartVars, stale, leftover>>

IgnoreOrMiss(c) == Exhausted(c) /\ UNCHANGED <<callVars, uartVars, flowVars>>

\* Where in the caller's buffer the chunk in flight begins.
offset(c) == (size \div Chunk - paRAM[c] - 1) * Chunk

\* A chunk goes to THR as far as there is room, or comes from RHR as far as
\* there are bytes.  A stale one is nobody's, and costs its bytes.
MoveBytes(c) ==
    /\ stale' = stale \ {c} /\ asked' = asked \ {c}
    /\ IF c = Tx
       THEN LET n == IF TxFifo - txPending < Chunk THEN TxFifo - txPending ELSE Chunk IN
            /\ txPending' = txPending + n
            /\ out' = IF op # "write" THEN out
                      ELSE out \o [i \in 1..n |-> IF c \in stale THEN 0 ELSE offset(c) + i]
            /\ UNCHANGED <<level, got, data>>
       ELSE LET n == IF level < Chunk THEN level ELSE Chunk IN
            /\ level' = level - n
            /\ got' = IF op # "read" THEN got ELSE got + n
            /\ data' = IF c \in stale \/ op # "read" THEN data
                       ELSE [i \in DOMAIN data |->
                               LET j == i - offset(c) IN
                               IF j \notin 1..Chunk THEN data[i]
                               ELSE IF j <= n THEN got + j ELSE 0]
            /\ UNCHANGED <<txPending, out>>
    /\ UNCHANGED <<dmaMode, leftover, callVars>>

MoveChunk(c) ==
    /\ c \in moving
    /\ moving' = moving \ {c}
    /\ MoveBytes(c)
    /\ UNCHANGED vars

CompleteChunk(c) ==
    /\ Complete(c)
    /\ MoveBytes(c)
    /\ UNCHANGED moving

-----------------------------------------------------------------------------
DmaMethodStep == Ready /\ MethodStep /\ UNCHANGED <<callVars, uartVars, flowVars>>
Service       == Isr /\ UNCHANGED <<callVars, uartVars, flowVars>>

Client ==
    \/ InitTx \/ StopBackend
    \/ \E n \in Sizes : Begin("write", n) \/ Begin("read", n)

\* What a method in progress does next, its expected waits included.
BackendStep ==
    \/ InitRx
    \/ FreeChannel("free_tx", Tx, "free_rx") \/ FreeChannel("free_rx", Rx, "idle")
    \/ DMA_enable \/ StartDma \/ DMA_disable \/ HaltDma \/ Halted
    \/ PutTail \/ GetTail \/ Return

Controller(c) ==
    \/ Request(c) \/ SubmitChunk(c) \/ IgnoreOrMiss(c) \/ MoveChunk(c) \/ CompleteChunk(c)

Next_ ==
    \/ Client \/ BackendStep \/ Wait \/ TailTimeout
    \/ DmaMethodStep \/ Service
    \/ LineByte \/ ShiftByte
    \/ \E c \in Channels : Controller(c)

BackendSpec == Init_ /\ [][Next_]_allVars

\* The CPU goes on with the method in progress, service routines get their turn,
\* the controller serves its requests, the transmitter keeps sending and the
\* line receiving.  No timeout is relied on.
BackendFairness ==
    /\ WF_allVars(BackendStep) /\ WF_allVars(DmaMethodStep)
    /\ WF_allVars(ShiftByte) /\ WF_allVars(LineByte)
    /\ WF_allVars(Wait /\ chan \in m_transfer_done)
    /\ SF_allVars(Service)
    /\ \A c \in Channels : /\ WF_allVars(Request(c))
                           /\ WF_allVars(SubmitChunk(c) \/ IgnoreOrMiss(c))
                           /\ WF_allVars(MoveChunk(c) \/ CompleteChunk(c))

FairBackendSpec == BackendSpec /\ BackendFairness

-----------------------------------------------------------------------------
(* Properties. *)

Succeeds(o) == at = "tail" /\ op = o /\ next = size /\ (o = "write" => txPending = 0)
Aborted     == at = "halted" /\ ~ok

\* A write that reports success has sent its bytes, each once and in order,
\* the DMA part, the tail and the switch between them included.  The exception
\* is a write that begins while a request of an earlier, timed-out write is
\* still in flight, or while a transmit event is latched from before and the
\* FIFO has no room for a chunk.
WriteIsExact == Succeeds("write") /\ ~leftover => out = [i \in 1..size |-> i]

\* A read that reports success has filled its buffer with the bytes the
\* receiver held or got next, none skipped, none invented: no request moves
\* bytes the FIFO does not have, and no second one takes what the tail needs.
\* Exceptions: a request of an earlier read still in flight, and a receive
\* event latched before the call whose bytes another call has taken since.
ReadIsExact == Succeeds("read") /\ ~leftover => data = [i \in 1..size |-> i]

\* The DMA part of a call fails because its time is up or, in a read only,
\* because the line had a further chunk ready: the surplus request meets the
\* null set, and its error interrupt turns a complete transfer into a failure.
FailureHasReason ==
    Aborted => timedOut \/ leftover \/ (op = "read" /\ level >= Level)

\* What the comment of EDMA::enable_transfer() says: the event register of a
\* channel is cleared before its events are enabled.  The code clears the
\* secondary and the missed-event register only, so an event latched while the
\* other direction had the DMA mode on is taken at once.
EnableClearsEventRegister == [][\A c \in EER' \ EER : c \notin ER]_allVars

\* Every call returns without the help of its timeouts, as long as the line
\* keeps moving: no request of a transfer is lost for good, and no wait is for
\* something that already happened.
CallReturns == (at # "idle") ~> (at = "idle")
=============================================================================
