------------------------------- MODULE Logger --------------------------------
(***************************************************************************)
(* The logging frontend under FreeRTOS: log_print_format() with the lock   *)
(* of the application's Session, the registry of sinks, the UART sink and  *)
(* the RTT sink.  A call is cut where another task, a handler or a fault   *)
(* can get in between: the lock, the timestamp, every raw write.           *)
(*                                                                         *)
(* A record is its timestamp, here the number of records formatted before  *)
(* it.  Whether its level and tag pass the filters is an input.            *)
(***************************************************************************)
EXTENDS Integers, FiniteSets

CONSTANTS Tasks,        \* tasks that log
          UartSinks,    \* objects of class UartSink, one for each UART
          RttSinks,     \* objects of class RttSink, which share one sink
          MaxSinks,     \* LOG_MAX_SINK_COUNT
          MaxRecords    \* bound: records formatted in a behaviour

ASSUME BoundAssumption == MaxSinks \in Nat /\ MaxRecords \in Nat
ASSUME FiniteAssumption == IsFiniteSet(RttSinks)

Main    == "main"       \* before the scheduler starts
Handler == "handler"    \* an interrupt routine: SVC mode, nesting above 0
Fault   == "fault"      \* an abort routine: ABT mode
None    == "none"
Exceptions == {Handler, Fault}
Callers    == Tasks \union {Main} \union Exceptions

Rtt   == "rtt"          \* s_rtt_sink
Sinks == UartSinks \union {Rtt}

ASSUME NameAssumption ==
    /\ Tasks \intersect ({Main, None} \union Exceptions) = {}
    /\ UartSinks \intersect (RttSinks \union {Rtt, None}) = {}

VARIABLES
    started,        \* vTaskStartScheduler() was called
    suspender,      \* the task that suspended the scheduler, if any
    critical,       \* tasks inside a critical section of the port
    exception,      \* the exception that interrupted them, if any
    holder,         \* of Session::m_mutex
    slots,          \* s_sinks
    registered,     \* living sink objects whose m_registered is TRUE
    s_users,        \* of the RTT backend
    ready,          \* UART sinks that are enabled, on a UART that polls
    clock,          \* records that have a timestamp
    pc, token, rec, slot, piece,    \* of every caller
    wire            \* the last raw write that reached each sink's transport

registry == <<slots, registered, s_users, ready>>
system   == <<started, suspender, critical, exception>>
vars == <<system, holder, registry, clock, pc, token, rec, slot, piece, wire>>

\* The raw writes of a record: RttSink.cpp brackets the text with colours,
\* UartSink sends the line and then CR LF.
Pieces(sink) == IF sink = Rtt THEN 3 ELSE 2

Points == {"out", "wait", "print", "sink", "write", "release"}
Writes == [rec : Nat, piece : 1..3]

TypeOK ==
    /\ started \in BOOLEAN /\ suspender \in Tasks \union {None}
    /\ critical \in SUBSET Tasks /\ exception \in Exceptions \union {None}
    /\ holder \in Callers \union {None}
    /\ slots \in [1..MaxSinks -> Sinks \union {None}]
    /\ registered \in SUBSET (UartSinks \union RttSinks)
    /\ s_users \in Nat /\ ready \in SUBSET UartSinks
    /\ clock \in Nat
    /\ pc \in [Callers -> Points] /\ token \in [Callers -> 0..2]
    /\ rec \in [Callers -> Nat] /\ slot \in [Callers -> 1..MaxSinks + 1]
    /\ piece \in [Callers -> 1..3]
    /\ wire \in [Sinks -> Writes]

\* The Session's constructor has run, before any of the sinks.
Init ==
    /\ started = FALSE /\ suspender = None /\ critical = {} /\ exception = None
    /\ holder = None
    /\ slots = [i \in 1..MaxSinks |-> None] /\ registered = {} /\ s_users = 0
    /\ ready = {} /\ clock = 0
    /\ pc = [c \in Callers |-> "out"] /\ token = [c \in Callers |-> 0]
    /\ rec = [c \in Callers |-> 0] /\ slot = [c \in Callers |-> 1]
    /\ piece = [c \in Callers |-> 1]
    /\ wire = [s \in Sinks |-> [rec |-> 0, piece |-> 1]]

-----------------------------------------------------------------------------
(* Who runs.  A task that waits for the mutex has given up the CPU, and a  *)
(* critical section it is in does not keep the others out any more.        *)
Runs(c) ==
    IF c \in Exceptions THEN exception = c
    ELSE /\ exception = None
         /\ started <=> c # Main
         /\ c # Main => suspender \in {None, c} /\ \A t \in critical \ {c} : pc[t] = "wait"

Idle(c) == Runs(c) /\ pc[c] = "out"

\* main(): the mutex is there when the scheduler starts, or it does not start.
StartScheduler ==
    /\ Idle(Main)
    /\ started' = TRUE
    /\ UNCHANGED <<suspender, critical, exception, holder, registry, clock,
                   pc, token, rec, slot, piece, wire>>

\* External: vTaskSuspendAll(), xTaskResumeAll(), outside critical sections.
SuspendAll(t) ==
    /\ Idle(t) /\ suspender = None /\ t \notin critical
    /\ suspender' = t
    /\ UNCHANGED <<started, critical, exception, holder, registry, clock,
                   pc, token, rec, slot, piece, wire>>

ResumeAll(t) ==
    /\ Idle(t) /\ suspender = t /\ t \notin critical
    /\ suspender' = None
    /\ UNCHANGED <<started, critical, exception, holder, registry, clock,
                   pc, token, rec, slot, piece, wire>>

EnterCritical(t) ==
    /\ Idle(t) /\ t \notin critical
    /\ critical' = critical \union {t}
    /\ UNCHANGED <<started, suspender, exception, holder, registry, clock,
                   pc, token, rec, slot, piece, wire>>

ExitCritical(t) ==
    /\ Idle(t) /\ t \in critical
    /\ critical' = critical \ {t}
    /\ UNCHANGED <<started, suspender, exception, holder, registry, clock,
                   pc, token, rec, slot, piece, wire>>

\* Interrupts come once the scheduler runs; the threshold of a critical
\* section does not keep them out.  An abort comes at any time.
EnterException(h) ==
    /\ exception = None
    /\ h = Handler => started
    /\ exception' = h
    /\ UNCHANGED <<started, suspender, critical, holder, registry, clock,
                   pc, token, rec, slot, piece, wire>>

LeaveException(h) ==
    /\ Idle(h)
    /\ exception' = None
    /\ UNCHANGED <<started, suspender, critical, holder, registry, clock,
                   pc, token, rec, slot, piece, wire>>

-----------------------------------------------------------------------------
(* The registry, which only main() changes, and only between its records.  *)
Holds(sink) == \E i \in 1..MaxSinks : slots[i] = sink
CanRegister(sink) == Holds(sink) \/ Holds(None)

\* The first free slot, unless the sink has one.
log_register_sink(sink) ==
    [i \in 1..MaxSinks |->
        IF ~Holds(sink) /\ slots[i] = None
           /\ \A j \in 1..i-1 : slots[j] # None
        THEN sink ELSE slots[i]]

log_unregister_sink(sink) ==
    [i \in 1..MaxSinks |-> IF slots[i] = sink THEN None ELSE slots[i]]

UNCHANGED_calls == UNCHANGED <<system, holder, clock, pc, token, rec, slot, piece, wire>>

ConstructUartSink(u) ==
    /\ Idle(Main) /\ u \notin registered
    /\ slots' = log_register_sink(u)
    /\ registered' = IF CanRegister(u) THEN registered \union {u} ELSE registered
    /\ UNCHANGED <<s_users, ready>> /\ UNCHANGED_calls

DestructUartSink(u) ==
    /\ Idle(Main) /\ u \in registered
    /\ slots' = log_unregister_sink(u)
    /\ registered' = registered \ {u}
    /\ UNCHANGED <<s_users, ready>> /\ UNCHANGED_calls

\* RttSink's constructor: only the first user registers the sink.
rtt_backend_init(r) ==
    /\ Idle(Main) /\ r \notin registered
    /\ slots' = IF s_users = 0 THEN log_register_sink(Rtt) ELSE slots
    /\ IF s_users > 0 \/ CanRegister(Rtt)
       THEN s_users' = s_users + 1 /\ registered' = registered \union {r}
       ELSE UNCHANGED <<s_users, registered>>
    /\ UNCHANGED ready /\ UNCHANGED_calls

\* Mutant: every user takes the sink away.
rtt_backend_deinit_First(r) ==
    /\ Idle(Main) /\ r \in registered
    /\ s_users' = s_users - 1
    /\ slots' = log_unregister_sink(Rtt)
    /\ registered' = registered \ {r}
    /\ UNCHANGED ready /\ UNCHANGED_calls

\* RttSink's destructor: the last user takes the sink away.
rtt_backend_deinit(r) ==
    /\ Idle(Main) /\ r \in registered
    /\ s_users' = s_users - 1
    /\ slots' = IF s_users = 1 THEN log_unregister_sink(Rtt) ELSE slots
    /\ registered' = registered \ {r}
    /\ UNCHANGED ready /\ UNCHANGED_calls

\* UartSink::enable(), or the UART enters or leaves the polling mode.
SetReady(u, isReady) ==
    /\ Idle(Main)
    /\ ready' = IF isReady THEN ready \union {u} ELSE ready \ {u}
    /\ UNCHANGED <<slots, registered, s_users>> /\ UNCHANGED_calls

-----------------------------------------------------------------------------
(* log_print_format(). *)

\* Mutant: CPSR alone tells handlers from tasks.
acquire_NoNesting(c) ==
    IF c = Fault THEN "drop"
    ELSE IF ~started THEN "direct"
    ELSE IF suspender # None THEN "drop"
    ELSE "take"

\* Session::acquire(): interrupt nesting, CPU mode, scheduler state.  CPSR.I
\* is clear in every task: critical sections mask by the INTC's threshold.
acquire(c) ==
    IF c \in Exceptions THEN "drop"
    ELSE IF ~started THEN "direct"
    ELSE IF suspender # None THEN "drop"
    ELSE "take"

\* Bound: no more records than MaxRecords can be formatted.
MayFormat == clock + Cardinality({c \in Callers : pc[c] \in {"wait", "print"}}) < MaxRecords

\* s_acquire(), up to the point where xSemaphoreTake() has or waits for the mutex.
Call(c) ==
    /\ Idle(c) /\ MayFormat
    /\ \/ /\ acquire(c) = "drop"
          /\ UNCHANGED <<holder, pc, token>>
       \/ /\ acquire(c) = "direct"
          /\ pc' = [pc EXCEPT ![c] = "print"]
          /\ token' = [token EXCEPT ![c] = 1]
          /\ UNCHANGED holder
       \/ /\ acquire(c) = "take" /\ holder = None
          /\ holder' = c
          /\ pc' = [pc EXCEPT ![c] = "print"]
          /\ token' = [token EXCEPT ![c] = 2]
       \/ /\ acquire(c) = "take" /\ holder # None
          /\ pc' = [pc EXCEPT ![c] = "wait"]
          /\ UNCHANGED <<holder, token>>
    /\ UNCHANGED <<system, registry, clock, rec, slot, piece, wire>>

\* Mutant: the wait has a limit, and its result is not looked at.
Take_AfterTimeout(c) ==
    /\ Runs(c) /\ pc[c] = "wait"
    /\ holder' = c
    /\ pc' = [pc EXCEPT ![c] = "print"]
    /\ token' = [token EXCEPT ![c] = 2]
    /\ UNCHANGED <<system, registry, clock, rec, slot, piece, wire>>

\* The mutex was given back and this task runs before any other takes it.
Take(c) ==
    /\ Runs(c) /\ pc[c] = "wait" /\ holder = None
    /\ holder' = c
    /\ pc' = [pc EXCEPT ![c] = "print"]
    /\ token' = [token EXCEPT ![c] = 2]
    /\ UNCHANGED <<system, registry, clock, rec, slot, piece, wire>>

\* Level, no sink, or tag: nothing is formatted.
Filtered(c) ==
    /\ Runs(c) /\ pc[c] = "print"
    /\ pc' = [pc EXCEPT ![c] = "release"]
    /\ UNCHANGED <<system, holder, registry, clock, token, rec, slot, piece, wire>>

\* Timestamp and text; the loop over the sinks begins.
Format(c) ==
    /\ Runs(c) /\ pc[c] = "print"
    /\ \E i \in 1..MaxSinks : slots[i] # None
    /\ clock' = clock + 1
    /\ rec' = [rec EXCEPT ![c] = clock + 1]
    /\ pc' = [pc EXCEPT ![c] = "sink"]
    /\ slot' = [slot EXCEPT ![c] = 1]
    /\ UNCHANGED <<system, holder, registry, token, piece, wire>>

NextSlot(c) ==
    /\ slot' = [slot EXCEPT ![c] = slot[c] + 1]
    /\ pc' = [pc EXCEPT ![c] = "sink"]

\* No sink in the slot, or one that drops the record.
SkipSink(c) ==
    /\ Runs(c) /\ pc[c] = "sink" /\ slot[c] <= MaxSinks
    /\ slots[slot[c]] \notin ready \union {Rtt}
    /\ NextSlot(c)
    /\ UNCHANGED <<system, holder, registry, clock, token, rec, piece, wire>>

EnterSink(c) ==
    /\ Runs(c) /\ pc[c] = "sink" /\ slot[c] <= MaxSinks
    /\ slots[slot[c]] \in ready \union {Rtt}
    /\ pc' = [pc EXCEPT ![c] = "write"]
    /\ piece' = [piece EXCEPT ![c] = 1]
    /\ UNCHANGED <<system, holder, registry, clock, token, rec, slot, wire>>

\* A raw write reaches the transport.  One of the UART that ran out of its
\* budget on the way is the record's last.
WritePiece(c) ==
    /\ Runs(c) /\ pc[c] = "write"
    /\ LET sink == slots[slot[c]] IN
          /\ wire' = [wire EXCEPT ![sink] = [rec |-> rec[c], piece |-> piece[c]]]
          /\ \/ /\ piece[c] < Pieces(sink)
                /\ piece' = [piece EXCEPT ![c] = piece[c] + 1]
                /\ UNCHANGED <<pc, slot>>
             \/ /\ piece[c] >= Pieces(sink) \/ sink # Rtt
                /\ NextSlot(c) /\ UNCHANGED piece
    /\ UNCHANGED <<system, holder, registry, clock, token, rec>>

\* A raw write of the UART runs out of its budget before its first byte: the
\* record ends there.  One of RTT finds the buffer full: only that is lost.
LosePiece(c) ==
    /\ Runs(c) /\ pc[c] = "write"
    /\ IF slots[slot[c]] = Rtt /\ piece[c] < Pieces(Rtt)
       THEN piece' = [piece EXCEPT ![c] = piece[c] + 1] /\ UNCHANGED <<pc, slot>>
       ELSE NextSlot(c) /\ UNCHANGED piece
    /\ UNCHANGED <<system, holder, registry, clock, token, rec, wire>>

Dispatched(c) ==
    /\ Runs(c) /\ pc[c] = "sink" /\ slot[c] > MaxSinks
    /\ pc' = [pc EXCEPT ![c] = "release"]
    /\ UNCHANGED <<system, holder, registry, clock, token, rec, slot, piece, wire>>

\* The locals of a call are gone when it returns.
Forget(c) ==
    /\ pc' = [pc EXCEPT ![c] = "out"] /\ token' = [token EXCEPT ![c] = 0]
    /\ rec' = [rec EXCEPT ![c] = 0] /\ slot' = [slot EXCEPT ![c] = 1]
    /\ piece' = [piece EXCEPT ![c] = 1]

\* Session::release(): xSemaphoreGive() for the token of a taken mutex.
release(c) ==
    /\ Runs(c) /\ pc[c] = "release"
    /\ holder' = IF token[c] = 2 THEN None ELSE holder
    /\ Forget(c)
    /\ UNCHANGED <<system, registry, clock, wire>>

-----------------------------------------------------------------------------
Configure ==
    \/ \E u \in UartSinks : \/ ConstructUartSink(u) \/ DestructUartSink(u)
                            \/ \E isReady \in BOOLEAN : SetReady(u, isReady)
    \/ \E r \in RttSinks : rtt_backend_init(r) \/ rtt_backend_deinit(r)

Step(c) ==
    \/ Take(c) \/ Filtered(c) \/ Format(c) \/ SkipSink(c) \/ EnterSink(c)
    \/ WritePiece(c) \/ LosePiece(c) \/ Dispatched(c) \/ release(c)

Next ==
    \/ Configure \/ StartScheduler
    \/ \E t \in Tasks : SuspendAll(t) \/ ResumeAll(t) \/ EnterCritical(t) \/ ExitCritical(t)
    \/ \E h \in Exceptions : EnterException(h) \/ LeaveException(h)
    \/ \E c \in Callers : Call(c) \/ Step(c)

Spec == Init /\ [][Next]_vars

\* Exceptions return, sections and suspensions end, and every task that can
\* run gets the CPU again and again: the tasks sleep between their records,
\* and the mutex passes its waiters' priority on to its holder.
FairSpec ==
    /\ Spec
    /\ WF_vars(\E h \in Exceptions : LeaveException(h))
    /\ SF_vars(\E t \in Tasks : ResumeAll(t)) /\ SF_vars(\E t \in Tasks : ExitCritical(t))
    /\ \A t \in Tasks : SF_vars(Step(t))

-----------------------------------------------------------------------------
(* Properties. *)

\* Whoever preempts whom, no two records mix on any sink, and all sinks show
\* the records in the order of their timestamps (the lock around formatting,
\* timestamp and all sinks, LOGGING.md).
RecordsInOrder ==
    [][\A s \in Sinks : wire'[s] # wire[s] =>
          \/ wire'[s].rec > wire[s].rec
          \/ wire'[s].rec = wire[s].rec /\ wire'[s].piece > wire[s].piece]_vars

\* The mutex belongs to the one task between acquire() and release(), and to
\* nobody else: no path through a record, filtered or cut short, keeps it, and
\* no exception ever has it.
LockBalanced ==
    /\ \A t \in Tasks : holder = t <=> pc[t] \notin {"out", "wait"}
    /\ holder \notin {Main} \union Exceptions

\* A slot of the registry holds a sink exactly as long as an object that
\* answers registered() lives, and no sink twice: nothing is dispatched to a
\* dead object, and no record is written twice to one transport.
RegistryIsLive ==
    /\ \A u \in UartSinks : u \in registered <=> Holds(u)
    /\ registered \intersect RttSinks # {} <=> Holds(Rtt)
    /\ \A i, j \in 1..MaxSinks : slots[i] = slots[j] /\ slots[i] # None => i = j

\* A call to the logger returns, whatever the scheduler, the handlers and the
\* other tasks do: no task waits for a mutex that is never given back.
CallReturns == \A c \in Tasks : pc[c] # "out" ~> pc[c] = "out"

\* "Never block while interrupts are masked" (logging.cpp): a task inside a
\* critical section does not wait for the mutex.
NeverBlocksMasked == \A t \in critical : pc[t] # "wait"
=============================================================================
