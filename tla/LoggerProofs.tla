---------------------------- MODULE LoggerProofs -----------------------------
(***************************************************************************)
(* Theorems of Logger, for any tasks, sinks and size of the registry.      *)
(*                                                                         *)
(* The argument: the mutex keeps the tasks apart, main() is done before    *)
(* any of them runs, and no exception gets past acquire(); so at most one  *)
(* caller is between acquire() and release().  Its timestamp is then the   *)
(* last one given out, and every sink still before it in the registry has  *)
(* only older records.                                                     *)
(***************************************************************************)
EXTENDS Logger, FiniteSetTheorems, WellFoundedInduction, TLAPS

Section == {"print", "sink", "write", "release"}

\* Who can be in a call: nobody but main() before the start, tasks after it.
PhaseInv ==
    /\ \A h \in Exceptions : pc[h] = "out"
    /\ started => pc[Main] = "out"
    /\ ~started => \A t \in Tasks : pc[t] = "out"

\* main() logs without the mutex.
MainInv == pc[Main] # "wait"

TokenInv == \A c \in Callers : token[c] = 2 <=> c \in Tasks /\ pc[c] \in Section

\* A sink that writes is in the registry.
SlotInv == \A c \in Callers : pc[c] = "write" => slot[c] <= MaxSinks /\ slots[slot[c]] \in Sinks

UsersInv == s_users = Cardinality(registered \intersect RttSinks)

\* The caller's record is the newest; sinks it has not come to have older
\* ones, and the sink it writes to has only earlier pieces of it.
OrderInv ==
    /\ \A s \in Sinks : wire[s].rec <= clock
    /\ \A c \in Callers :
          pc[c] \in {"sink", "write"} =>
              /\ rec[c] = clock
              /\ \A i \in 1..MaxSinks :
                    i >= slot[c] /\ slots[i] # None =>
                        \/ wire[slots[i]].rec < clock
                        \/ pc[c] = "write" /\ i = slot[c] /\ wire[slots[i]].piece < piece[c]

IInv ==
    /\ TypeOK /\ PhaseInv /\ MainInv /\ TokenInv /\ LockBalanced
    /\ RegistryIsLive /\ SlotInv /\ UsersInv /\ OrderInv

-----------------------------------------------------------------------------
(* Consequences of the invariant. *)

\* A caller inside a call is a task that runs after the start, or main()
\* before it; the lock's tasks and main() do not meet.
LEMMA OneInSection ==
    ASSUME IInv, NEW c \in Callers, NEW d \in Callers,
           pc[c] \in Section, pc[d] \in Section
    PROVE  c = d
<1>1. c \notin Exceptions /\ d \notin Exceptions
  BY DEF IInv, PhaseInv, Section
<1>2. c \in Tasks \union {Main} /\ d \in Tasks \union {Main}
  BY <1>1 DEF Callers
<1>3. CASE started
  <2>1. c \in Tasks /\ d \in Tasks
    BY <1>2, <1>3 DEF IInv, PhaseInv, Section
  <2>2. holder = c /\ holder = d
    BY <2>1 DEF IInv, LockBalanced, Section
  <2> QED
    BY <2>2
<1>4. CASE ~started
  BY <1>2, <1>4 DEF IInv, PhaseInv, Section
<1> QED
  BY <1>3, <1>4

\* Whoever takes a step inside a call is no exception.
LEMMA StepperIsNoException ==
    ASSUME IInv, NEW c \in Callers, Runs(c), pc[c] # "out"
    PROVE  /\ c \notin Exceptions
           /\ (c \in Tasks /\ started) \/ (c = Main /\ ~started)
           /\ Main \notin Tasks
<1>1. c \notin Exceptions
  BY DEF IInv, PhaseInv
<1>2. started <=> c # Main
  BY <1>1 DEF Runs
<1>3. Main \notin Tasks
  BY NameAssumption
<1>4. c \in Tasks \union {Main}
  BY <1>1 DEF Callers
<1>5. CASE c = Main
  BY <1>1, <1>2, <1>3, <1>5
<1>6. CASE c \in Tasks
  BY <1>1, <1>2, <1>3, <1>6
<1> QED
  BY <1>4, <1>5, <1>6

\* No other caller sees a step inside a call, or is inside one.
LEMMA OthersAreOut ==
    ASSUME IInv, NEW c \in Callers, pc[c] \in Section
    PROVE  \A d \in Callers \ {c} : pc[d] \in {"out", "wait"}
<1>1. SUFFICES ASSUME NEW d \in Callers \ {c}, pc[d] \notin {"out", "wait"}
               PROVE  FALSE
  OBVIOUS
<1>2. pc[d] \in Section
  BY <1>1 DEF IInv, TypeOK, Points, Section
<1> QED
  BY <1>1, <1>2, OneInSection

\* While main() configures, nobody is in a call.
LEMMA IdleMainIsAlone ==
    ASSUME IInv, Idle(Main)
    PROVE  ~started /\ \A c \in Callers : pc[c] = "out"
<1>1. Main \notin Exceptions
  BY DEF Main, Exceptions, Handler, Fault
<1>2. ~started
  BY <1>1 DEF Idle, Runs
<1> QED
  BY <1>2 DEF IInv, PhaseInv, Idle, Callers

\* The initial state satisfies the invariant.
THEOREM LoggerInit == Init => IInv
<1> SUFFICES ASSUME Init
             PROVE  IInv
  OBVIOUS
<1>1. TypeOK
  <2>1. slots \in [1..MaxSinks -> Sinks \union {None}]
    BY DEF Init
  <2>2. wire \in [Sinks -> Writes]
    BY DEF Init, Writes
  <2>3. slot \in [Callers -> 1..MaxSinks + 1]
    BY BoundAssumption DEF Init
  <2>4. /\ pc \in [Callers -> Points] /\ token \in [Callers -> 0..2]
        /\ rec \in [Callers -> Nat] /\ piece \in [Callers -> 1..3]
    BY DEF Init, Points
  <2>5. /\ started \in BOOLEAN /\ suspender \in Tasks \union {None}
        /\ critical \in SUBSET Tasks /\ exception \in Exceptions \union {None}
        /\ holder \in Callers \union {None}
        /\ registered \in SUBSET (UartSinks \union RttSinks) /\ ready \in SUBSET UartSinks
    BY Zenon DEF Init
  <2>6. s_users \in Nat /\ clock \in Nat
    BY DEF Init
  <2> QED
    BY <2>1, <2>2, <2>3, <2>4, <2>5, <2>6 DEF TypeOK
<1>2. PhaseInv /\ MainInv /\ TokenInv /\ SlotInv
  BY DEF Init, PhaseInv, MainInv, TokenInv, SlotInv, Section, Callers
<1>3. LockBalanced
  BY NameAssumption DEF Init, LockBalanced, Callers, None, Main, Exceptions, Handler, Fault
<1>4. RegistryIsLive
  BY NameAssumption DEF Init, RegistryIsLive, Holds, None, Rtt
<1>5. UsersInv
  BY FS_EmptySet DEF Init, UsersInv
<1>6. OrderInv
  BY DEF Init, OrderInv
<1> QED
  BY <1>1, <1>2, <1>3, <1>4, <1>5, <1>6 DEF IInv

-----------------------------------------------------------------------------
(* The scheduler and the exceptions. *)

\* A step outside the calls: main() may be gone after it, but not in a record.
LEMMA SystemKeeps ==
    ASSUME IInv, TypeOK',
           UNCHANGED <<holder, registry, clock, pc, token, rec, slot, piece, wire>>,
           started' = started \/ (started' /\ pc[Main] = "out")
    PROVE  IInv'
<1>1. PhaseInv' /\ MainInv'
  BY DEF IInv, PhaseInv, MainInv
<1>2. TokenInv' /\ LockBalanced' /\ SlotInv' /\ UsersInv' /\ OrderInv'
  BY DEF IInv, TokenInv, LockBalanced, SlotInv, UsersInv, OrderInv, registry
<1>3. RegistryIsLive'
  BY DEF IInv, RegistryIsLive, Holds, registry
<1> QED
  BY <1>1, <1>2, <1>3 DEF IInv

\* Suspensions and critical sections leave the logger alone.
LEMMA SchedulerSteps ==
    ASSUME IInv, NEW t \in Tasks,
           SuspendAll(t) \/ ResumeAll(t) \/ EnterCritical(t) \/ ExitCritical(t)
    PROVE  IInv'
<1>1. TypeOK
  BY DEF IInv
<1>2. UNCHANGED <<holder, registry, clock, pc, token, rec, slot, piece, wire>>
  BY DEF SuspendAll, ResumeAll, EnterCritical, ExitCritical
<1>3. started' = started /\ exception' = exception
  BY DEF SuspendAll, ResumeAll, EnterCritical, ExitCritical
<1>4. suspender' \in Tasks \union {None} /\ critical' \in SUBSET Tasks
  BY <1>1 DEF SuspendAll, ResumeAll, EnterCritical, ExitCritical, TypeOK
<1>5. TypeOK'
  BY <1>1, <1>2, <1>3, <1>4 DEF TypeOK, registry
<1> QED
  BY <1>2, <1>3, <1>5, SystemKeeps

\* main() is idle when it starts the scheduler, and gone for good after it.
LEMMA StartStep ==
    ASSUME IInv, StartScheduler
    PROVE  IInv'
<1>1. started' /\ pc[Main] = "out"
  BY DEF StartScheduler, Idle
<1>2. TypeOK'
  BY DEF IInv, TypeOK, StartScheduler, registry
<1> QED
  BY <1>1, <1>2, SystemKeeps DEF StartScheduler

\* So do exceptions that come and go.
LEMMA ExceptionSteps ==
    ASSUME IInv, NEW h \in Exceptions, EnterException(h) \/ LeaveException(h)
    PROVE  IInv'
<1>1. TypeOK
  BY DEF IInv
<1>2. UNCHANGED <<holder, registry, clock, pc, token, rec, slot, piece, wire>>
  BY DEF EnterException, LeaveException
<1>3. UNCHANGED <<started, suspender, critical>> /\ exception' \in Exceptions \union {None}
  BY DEF EnterException, LeaveException
<1>4. TypeOK'
  BY <1>1, <1>2, <1>3 DEF TypeOK, registry
<1> QED
  BY <1>2, <1>3, <1>4, SystemKeeps

-----------------------------------------------------------------------------
(* The registry. *)

NoDuplicates(table) ==
    \A i, j \in 1..MaxSinks : table[i] = table[j] /\ table[i] # None => i = j

\* A set of naturals with an element has a least one.
LEMMA LeastNatural ==
    ASSUME NEW S \in SUBSET Nat, S # {}
    PROVE  \E n \in S : \A m \in S : n <= m
<1>1. \E n \in S : \A m \in S : ~(<<m, n>> \in OpToRel(<, Nat))
  BY NatLessThanWellFounded, WFMin, Zenon
<1>2. PICK n \in S : \A m \in S : ~(<<m, n>> \in OpToRel(<, Nat))
  BY <1>1, Zenon
<1>3. ASSUME NEW m \in S
      PROVE  n <= m
  <2>1. m \in Nat /\ n \in Nat
    OBVIOUS
  <2>2. ~(m < n)
    BY <1>2, <2>1, Zenon DEF OpToRel
  <2> QED
    BY <2>1, <2>2
<1> QED
  BY <1>3

\* A registry that has a free slot has a first one.
LEMMA FirstFree ==
    ASSUME Holds(None)
    PROVE  \E i \in 1..MaxSinks : slots[i] = None /\ \A j \in 1..i-1 : slots[j] # None
<1> DEFINE Free == {i \in 1..MaxSinks : slots[i] = None}
<1>1. Free \in SUBSET Nat /\ Free # {}
  BY BoundAssumption DEF Holds
<1>2. PICK n \in Free : \A m \in Free : n <= m
  BY <1>1, LeastNatural
<1>3. n \in 1..MaxSinks /\ slots[n] = None
  BY <1>2
<1>4. ASSUME NEW j \in 1..n-1
      PROVE  slots[j] # None
  <2>1. j \in 1..MaxSinks /\ ~(n <= j)
    BY <1>3, <1>4, BoundAssumption
  <2> QED
    BY <1>2, <2>1
<1> QED
  BY <1>3, <1>4

\* log_register_sink(): the sink is there afterwards unless the registry is
\* full, the others stay, and nothing is there twice.
LEMMA RegisterSink ==
    ASSUME TypeOK, NEW sink \in Sinks, slots' = log_register_sink(sink),
           NoDuplicates(slots)
    PROVE  /\ slots' \in [1..MaxSinks -> Sinks \union {None}]
           /\ NoDuplicates(slots')
           /\ Holds(sink)' <=> CanRegister(sink)
           /\ \A other \in Sinks \ {sink} : Holds(other)' <=> Holds(other)
<1>0. sink # None
  BY NameAssumption DEF Sinks, Rtt, None
<1>1. slots' \in [1..MaxSinks -> Sinks \union {None}]
  BY DEF TypeOK, log_register_sink
<1>2. CASE Holds(sink) \/ ~Holds(None)
  <2>1. \A i \in 1..MaxSinks : slots'[i] = slots[i]
    BY <1>2 DEF log_register_sink, Holds
  <2> QED
    BY <1>0, <1>1, <1>2, <2>1 DEF NoDuplicates, Holds, CanRegister
<1>3. CASE ~Holds(sink) /\ Holds(None)
  <2>1. PICK n \in 1..MaxSinks : slots[n] = None /\ \A j \in 1..n-1 : slots[j] # None
    BY <1>3, FirstFree
  <2>2. slots'[n] = sink
    BY <1>3, <2>1 DEF log_register_sink
  <2>3. ASSUME NEW i \in 1..MaxSinks, i # n
        PROVE  slots'[i] = slots[i]
    <3>1. ~(slots[i] = None /\ \A j \in 1..i-1 : slots[j] # None)
      BY <2>1, <2>3
    <3> QED
      BY <3>1, <2>3 DEF log_register_sink
  <2>4. \A i \in 1..MaxSinks : slots[i] # sink
    BY <1>3 DEF Holds
  <2>5. NoDuplicates(slots')
    BY <2>2, <2>3, <2>4 DEF NoDuplicates
  <2>6. Holds(sink)' /\ CanRegister(sink)
    BY <1>3, <2>2 DEF Holds, CanRegister
  <2>7. ASSUME NEW other \in Sinks \ {sink}
        PROVE  Holds(other)' <=> Holds(other)
    <3>1. other # None
      BY NameAssumption DEF Sinks, Rtt, None
    <3> QED
      BY <2>1, <2>2, <2>3, <2>7, <3>1 DEF Holds
  <2> QED
    BY <1>1, <2>5, <2>6, <2>7
<1> QED
  BY <1>2, <1>3

\* log_unregister_sink(): the sink is gone, the others stay.
LEMMA UnregisterSink ==
    ASSUME TypeOK, NEW sink \in Sinks, slots' = log_unregister_sink(sink),
           NoDuplicates(slots)
    PROVE  /\ slots' \in [1..MaxSinks -> Sinks \union {None}]
           /\ NoDuplicates(slots')
           /\ ~Holds(sink)'
           /\ \A other \in Sinks \ {sink} : Holds(other)' <=> Holds(other)
<1>0. \A other \in Sinks : other # None
  BY NameAssumption DEF Sinks, Rtt, None
<1>1. slots' \in [1..MaxSinks -> Sinks \union {None}]
  BY DEF TypeOK, log_unregister_sink
<1>2. \A i \in 1..MaxSinks : slots'[i] = IF slots[i] = sink THEN None ELSE slots[i]
  BY DEF log_unregister_sink
<1> QED
  BY <1>0, <1>1, <1>2 DEF NoDuplicates, Holds

\* A step of main() on the registry, while nobody is in a call.
LEMMA ConfigureKeeps ==
    ASSUME IInv, Idle(Main), UNCHANGED_calls,
           TypeOK', RegistryIsLive', UsersInv'
    PROVE  IInv'
<1>1. \A c \in Callers : pc[c] = "out" /\ pc'[c] = "out"
  BY IdleMainIsAlone DEF UNCHANGED_calls
<1>2. PhaseInv' /\ MainInv' /\ TokenInv' /\ LockBalanced'
  BY DEF IInv, PhaseInv, MainInv, TokenInv, LockBalanced, UNCHANGED_calls, system
<1>3. SlotInv'
  BY <1>1 DEF SlotInv
<1>4. OrderInv'
  <2>1. \A s \in Sinks : wire'[s].rec <= clock'
    BY DEF IInv, OrderInv, UNCHANGED_calls
  <2> QED
    BY <1>1, <2>1 DEF OrderInv
<1> QED
  BY <1>2, <1>3, <1>4 DEF IInv

\* RegistryIsLive, with its last part named.
LEMMA NoneTwice ==
    RegistryIsLive <=> /\ \A u \in UartSinks : u \in registered <=> Holds(u)
                       /\ registered \intersect RttSinks # {} <=> Holds(Rtt)
                       /\ NoDuplicates(slots)
BY DEF RegistryIsLive, NoDuplicates

\* The sinks are told apart.
LEMMA SinkFacts ==
    /\ Rtt \in Sinks /\ UartSinks \subseteq Sinks /\ Rtt \notin UartSinks
    /\ UartSinks \intersect RttSinks = {}
BY NameAssumption DEF Sinks

\* The users of the RTT backend are counted in naturals.
LEMMA UserFacts ==
    ASSUME IInv
    PROVE  /\ IsFiniteSet(registered \intersect RttSinks)
           /\ s_users = 0 <=> registered \intersect RttSinks = {}
<1>1. IsFiniteSet(registered \intersect RttSinks)
  BY FiniteAssumption, FS_Intersection
<1> QED
  BY <1>1, FS_EmptySet DEF IInv, UsersInv

\* UartSink's constructor and destructor.
LEMMA UartSinkSteps ==
    ASSUME IInv, NEW u \in UartSinks, ConstructUartSink(u) \/ DestructUartSink(u)
    PROVE  IInv'
<1>1. Idle(Main) /\ UNCHANGED_calls /\ UNCHANGED <<s_users, ready>>
  BY DEF ConstructUartSink, DestructUartSink
<1>2. TypeOK /\ NoDuplicates(slots) /\ u \in Sinks
  BY SinkFacts, NoneTwice DEF IInv
<1>3. registered' \intersect RttSinks = registered \intersect RttSinks
  BY SinkFacts DEF ConstructUartSink, DestructUartSink
<1>4. /\ slots' \in [1..MaxSinks -> Sinks \union {None}]
      /\ NoDuplicates(slots')
      /\ u \in registered' <=> Holds(u)'
      /\ \A other \in Sinks \ {u} : Holds(other)' <=> Holds(other)
  <2>1. CASE ConstructUartSink(u)
    <3>1. u \in registered' <=> CanRegister(u)
      BY <2>1 DEF ConstructUartSink
    <3>2. slots' = log_register_sink(u)
      BY <2>1 DEF ConstructUartSink
    <3> QED
      BY <1>2, <3>1, <3>2, RegisterSink
  <2>2. CASE DestructUartSink(u)
    <3>1. u \notin registered' /\ slots' = log_unregister_sink(u)
      BY <2>2 DEF DestructUartSink
    <3> QED
      BY <1>2, <3>1, UnregisterSink
  <2> QED
    BY <2>1, <2>2
<1>5. \A v \in UartSinks \ {u} : v \in registered' <=> v \in registered
  BY DEF ConstructUartSink, DestructUartSink
<1>6. RegistryIsLive'
  <2>1. \A v \in UartSinks : v \in registered' <=> Holds(v)'
    BY <1>4, <1>5, SinkFacts, NoneTwice DEF IInv
  <2>2. registered' \intersect RttSinks # {} <=> Holds(Rtt)'
    BY <1>3, <1>4, SinkFacts, NoneTwice DEF IInv
  <2> QED
    BY <1>4, <2>1, <2>2 DEF RegistryIsLive, NoDuplicates
<1>7. UsersInv'
  BY <1>1, <1>3 DEF IInv, UsersInv
<1>8. TypeOK'
  <2>1. registered' \in SUBSET (UartSinks \union RttSinks)
    BY DEF IInv, TypeOK, ConstructUartSink, DestructUartSink
  <2> QED
    BY <1>1, <1>2, <1>4, <2>1 DEF TypeOK, UNCHANGED_calls, system
<1> QED
  BY <1>1, <1>6, <1>7, <1>8, ConfigureKeeps

\* enable(), and the UART's mode.
LEMMA SetReadyStep ==
    ASSUME IInv, NEW u \in UartSinks, NEW isReady \in BOOLEAN, SetReady(u, isReady)
    PROVE  IInv'
<1>1. Idle(Main) /\ UNCHANGED_calls /\ UNCHANGED <<slots, registered, s_users>>
  BY DEF SetReady
<1>2. RegistryIsLive' /\ UsersInv'
  BY <1>1 DEF IInv, RegistryIsLive, Holds, UsersInv
<1>3. TypeOK'
  <2>1. ready' \in SUBSET UartSinks
    BY DEF IInv, TypeOK, SetReady
  <2> QED
    BY <1>1, <2>1 DEF IInv, TypeOK, UNCHANGED_calls, system
<1> QED
  BY <1>1, <1>2, <1>3, ConfigureKeeps

\* RttSink's constructor.
LEMMA RttInitStep ==
    ASSUME IInv, NEW r \in RttSinks, rtt_backend_init(r)
    PROVE  IInv'
<1> DEFINE Users == registered \intersect RttSinks
<1>1. Idle(Main) /\ UNCHANGED_calls /\ UNCHANGED ready /\ r \notin registered
  BY DEF rtt_backend_init
<1>2. /\ TypeOK /\ NoDuplicates(slots) /\ s_users \in Nat
      /\ s_users > 0 <=> Users # {}
      /\ Holds(Rtt) <=> Users # {}
  BY NoneTwice, UserFacts DEF IInv, TypeOK
<1>3. \A u \in UartSinks : u \in registered' <=> u \in registered
  BY SinkFacts DEF rtt_backend_init
<1>4. /\ slots' \in [1..MaxSinks -> Sinks \union {None}]
      /\ NoDuplicates(slots')
      /\ Holds(Rtt)' <=> s_users > 0 \/ CanRegister(Rtt)
      /\ \A other \in Sinks \ {Rtt} : Holds(other)' <=> Holds(other)
  <2>1. CASE s_users = 0
    BY <1>2, <2>1, SinkFacts, RegisterSink DEF rtt_backend_init
  <2>2. CASE s_users > 0
    <3>1. slots' = slots
      BY <1>2, <2>2 DEF rtt_backend_init
    <3> QED
      BY <1>2, <2>2, <3>1 DEF TypeOK, Holds
  <2> QED
    BY <1>2, <2>1, <2>2
<1>5. CASE s_users > 0 \/ CanRegister(Rtt)
  <2>1. s_users' = s_users + 1 /\ registered' = registered \union {r}
    BY <1>5 DEF rtt_backend_init
  <2>2. registered' \intersect RttSinks = Users \union {r}
    BY <2>1
  <2>3. UsersInv'
    <3>1. r \notin Users /\ IsFiniteSet(Users) /\ s_users = Cardinality(Users)
      BY <1>1, UserFacts DEF IInv, UsersInv
    <3>2. Cardinality(Users \union {r}) = Cardinality(Users) + 1
      BY <3>1, FS_AddElement
    <3> QED
      BY <2>1, <2>2, <3>1, <3>2 DEF UsersInv
  <2>4. registered' \intersect RttSinks # {} /\ Holds(Rtt)'
    BY <1>4, <1>5, <2>2
  <2>5. TypeOK'
    <3>1. s_users' \in Nat /\ registered' \in SUBSET (UartSinks \union RttSinks)
      BY <1>2, <2>1 DEF TypeOK
    <3> QED
      BY <1>1, <1>2, <1>4, <3>1 DEF TypeOK, UNCHANGED_calls, system
  <2>6. \A u \in UartSinks : u \in registered' <=> Holds(u)'
    BY <1>3, <1>4, SinkFacts, NoneTwice DEF IInv
  <2>7. RegistryIsLive'
    BY <1>4, <2>4, <2>6 DEF RegistryIsLive, NoDuplicates
  <2> QED
    BY <1>1, <2>3, <2>5, <2>7, ConfigureKeeps
<1>6. CASE ~(s_users > 0 \/ CanRegister(Rtt))
  <2>1. s_users' = s_users /\ registered' = registered
    BY <1>6 DEF rtt_backend_init
  <2>2. UsersInv'
    BY <2>1 DEF IInv, UsersInv
  <2>3. TypeOK'
    BY <1>1, <1>2, <1>4, <2>1 DEF TypeOK, UNCHANGED_calls, system
  <2>4. \A u \in UartSinks : u \in registered' <=> Holds(u)'
    BY <1>3, <1>4, SinkFacts, NoneTwice DEF IInv
  <2>5. registered' \intersect RttSinks = {} /\ ~Holds(Rtt)'
    BY <1>2, <1>4, <1>6, <2>1
  <2>6. RegistryIsLive'
    BY <1>4, <2>4, <2>5 DEF RegistryIsLive, NoDuplicates
  <2> QED
    BY <1>1, <2>2, <2>3, <2>6, ConfigureKeeps
<1> QED
  BY <1>5, <1>6

\* RttSink's destructor.
LEMMA RttDeinitStep ==
    ASSUME IInv, NEW r \in RttSinks, rtt_backend_deinit(r)
    PROVE  IInv'
<1> DEFINE Users == registered \intersect RttSinks
<1>1. Idle(Main) /\ UNCHANGED_calls /\ UNCHANGED ready /\ r \in registered
  BY DEF rtt_backend_deinit
<1>2. /\ TypeOK /\ NoDuplicates(slots) /\ Holds(Rtt) /\ s_users \in Nat
      /\ IsFiniteSet(Users) /\ s_users = Cardinality(Users)
  BY <1>1, NoneTwice, UserFacts DEF IInv, TypeOK, UsersInv
<1>3. s_users' = s_users - 1 /\ registered' = registered \ {r}
  BY DEF rtt_backend_deinit
<1>4. registered' \intersect RttSinks = Users \ {r}
  BY <1>3
<1>5. IsFiniteSet(Users \ {r}) /\ Cardinality(Users \ {r}) = s_users - 1
  BY <1>1, <1>2, FS_RemoveElement
<1>6. s_users - 1 \in Nat /\ (s_users = 1 <=> Users \ {r} = {})
  <2>1. Cardinality(Users \ {r}) \in Nat
    BY <1>5, FS_CardinalityType
  <2>2. Cardinality(Users \ {r}) = 0 <=> Users \ {r} = {}
    BY <1>5, FS_EmptySet
  <2> HIDE DEF Users
  <2> QED
    BY <1>2, <1>5, <2>1, <2>2
<1>7. /\ slots' \in [1..MaxSinks -> Sinks \union {None}]
      /\ NoDuplicates(slots')
      /\ Holds(Rtt)' <=> s_users # 1
      /\ \A other \in Sinks \ {Rtt} : Holds(other)' <=> Holds(other)
  <2>1. CASE s_users = 1
    BY <1>2, <2>1, SinkFacts, UnregisterSink DEF rtt_backend_deinit
  <2>2. CASE s_users # 1
    <3>1. slots' = slots
      BY <2>2 DEF rtt_backend_deinit
    <3> QED
      BY <1>2, <2>2, <3>1 DEF TypeOK, Holds
  <2> QED
    BY <2>1, <2>2
<1>8. UsersInv'
  BY <1>3, <1>4, <1>5 DEF UsersInv
<1>9. TypeOK'
  <2>1. s_users' \in Nat /\ registered' \in SUBSET (UartSinks \union RttSinks)
    BY <1>2, <1>3, <1>6 DEF TypeOK
  <2> QED
    BY <1>1, <1>2, <1>7, <2>1 DEF TypeOK, UNCHANGED_calls, system
<1>10. RegistryIsLive'
  <2>1. \A u \in UartSinks : u \in registered' <=> u \in registered
    BY <1>3, SinkFacts
  <2>2. \A u \in UartSinks : u \in registered' <=> Holds(u)'
    BY <1>7, <2>1, SinkFacts, NoneTwice DEF IInv
  <2>3. registered' \intersect RttSinks # {} <=> Holds(Rtt)'
    BY <1>4, <1>6, <1>7
  <2> QED
    BY <1>7, <2>2, <2>3 DEF RegistryIsLive, NoDuplicates
<1> QED
  BY <1>1, <1>8, <1>9, <1>10, ConfigureKeeps

-----------------------------------------------------------------------------
(* log_print_format(). *)

\* A step of the one caller inside the lock, which stays there.
LEMMA StepKeeps ==
    ASSUME IInv, NEW c \in Callers, Runs(c), pc[c] \in Section,
           TypeOK', UNCHANGED <<system, holder, registry, token>>,
           pc'[c] \in Section, \A d \in Callers \ {c} : pc'[d] = pc[d],
           pc'[c] = "write" => slot'[c] <= MaxSinks /\ slots[slot'[c]] \in Sinks,
           \A s \in Sinks : wire'[s].rec <= clock',
           pc'[c] \in {"sink", "write"} =>
               /\ rec'[c] = clock'
               /\ \A i \in 1..MaxSinks :
                     i >= slot'[c] /\ slots[i] # None =>
                         \/ wire'[slots[i]].rec < clock'
                         \/ pc'[c] = "write" /\ i = slot'[c]
                            /\ wire'[slots[i]].piece < piece'[c]
    PROVE  IInv'
<1>1. \A d \in Callers \ {c} : pc'[d] \in {"out", "wait"}
  BY OthersAreOut
<1>2. /\ c \notin Exceptions
      /\ (c \in Tasks /\ started) \/ (c = Main /\ ~started)
      /\ Main \notin Tasks
  BY StepperIsNoException DEF Section
<1>3. PhaseInv'
  <2>1. \A h \in Exceptions : pc'[h] = "out"
    BY <1>2 DEF IInv, PhaseInv, Callers
  <2>2. started' => pc'[Main] = "out"
    BY <1>2 DEF IInv, PhaseInv, Callers, system
  <2>3. ~started' => \A t \in Tasks : pc'[t] = "out"
    BY <1>2 DEF IInv, PhaseInv, Callers, system
  <2> QED
    BY <2>1, <2>2, <2>3 DEF PhaseInv
<1>9. MainInv'
  BY DEF IInv, MainInv, Section, Callers
<1>4. TokenInv'
  BY DEF IInv, TokenInv
<1>5. LockBalanced'
  <2>1. \A t \in Tasks : holder' = t <=> pc'[t] \notin {"out", "wait"}
    BY DEF IInv, LockBalanced, Callers, Section
  <2> QED
    BY <2>1 DEF IInv, LockBalanced
<1>6. RegistryIsLive' /\ UsersInv'
  BY DEF IInv, RegistryIsLive, Holds, UsersInv, registry
<1>7. SlotInv'
  BY <1>1 DEF SlotInv, registry
<1>8. OrderInv'
  BY <1>1 DEF OrderInv, registry
<1> QED
  BY <1>3, <1>4, <1>5, <1>6, <1>7, <1>8, <1>9 DEF IInv

\* Before a caller's first sink and after its last there is nothing to say of
\* slots and pieces.
LEMMA FilteredStep ==
    ASSUME IInv, NEW c \in Callers, Filtered(c) \/ Dispatched(c)
    PROVE  IInv'
<1>1. /\ Runs(c) /\ pc[c] \in Section
      /\ pc' = [pc EXCEPT ![c] = "release"]
      /\ UNCHANGED <<system, holder, registry, clock, token, rec, slot, piece, wire>>
  BY DEF Filtered, Dispatched, Section
<1>2. TypeOK'
  BY <1>1 DEF IInv, TypeOK, Points, system, registry
<1>3. pc'[c] = "release" /\ \A d \in Callers \ {c} : pc'[d] = pc[d]
  BY <1>1 DEF IInv, TypeOK
<1>4. \A s \in Sinks : wire'[s].rec <= clock'
  BY <1>1 DEF IInv, OrderInv
<1> QED
  BY <1>1, <1>2, <1>3, <1>4, StepKeeps DEF Section

\* A new timestamp is newer than what any sink has.
LEMMA FormatStep ==
    ASSUME IInv, NEW c \in Callers, Format(c)
    PROVE  IInv'
<1>1. /\ Runs(c) /\ pc[c] \in Section
      /\ UNCHANGED <<system, holder, registry, token, piece, wire>>
  BY DEF Format, Section
<1>2. /\ pc'[c] = "sink" /\ slot'[c] = 1 /\ rec'[c] = clock + 1 /\ clock' = clock + 1
      /\ \A d \in Callers \ {c} : pc'[d] = pc[d]
  BY DEF IInv, TypeOK, Format
<1>3. TypeOK'
  <2>1. pc' \in [Callers -> Points] /\ rec' \in [Callers -> Nat] /\ clock' \in Nat
    BY DEF IInv, TypeOK, Format, Points
  <2>2. slot' \in [Callers -> 1..MaxSinks + 1]
    BY BoundAssumption DEF IInv, TypeOK, Format
  <2> QED
    BY <1>1, <2>1, <2>2 DEF IInv, TypeOK, system, registry
<1>4. \A s \in Sinks : wire'[s].rec \in Nat /\ wire'[s].rec < clock'
  <2>1. clock \in Nat /\ \A s \in Sinks : wire[s].rec \in Nat /\ wire[s].rec <= clock
    BY DEF IInv, TypeOK, OrderInv, Writes
  <2> QED
    BY <1>1, <1>2, <2>1
<1>5. \A s \in Sinks : wire'[s].rec <= clock'
  BY <1>3, <1>4 DEF TypeOK
<1>6. \A i \in 1..MaxSinks : slots[i] # None => slots[i] \in Sinks
  BY DEF IInv, TypeOK
<1> QED
  BY <1>1, <1>2, <1>3, <1>4, <1>5, <1>6, StepKeeps DEF Section

\* The loop passes a slot without writing.
LEMMA SkipSinkStep ==
    ASSUME IInv, NEW c \in Callers, SkipSink(c)
    PROVE  IInv'
<1>1. /\ Runs(c) /\ pc[c] = "sink" /\ slot[c] <= MaxSinks
      /\ UNCHANGED <<system, holder, registry, clock, token, rec, piece, wire>>
  BY DEF SkipSink
<1>2. /\ pc'[c] = "sink" /\ slot'[c] = slot[c] + 1 /\ slot[c] \in 1..MaxSinks
      /\ \A d \in Callers \ {c} : pc'[d] = pc[d]
  BY <1>1 DEF IInv, TypeOK, SkipSink, NextSlot
<1>3. TypeOK'
  <2>1. pc' \in [Callers -> Points]
    BY DEF IInv, TypeOK, SkipSink, NextSlot, Points
  <2>2. slot' \in [Callers -> 1..MaxSinks + 1]
    BY <1>2, BoundAssumption DEF IInv, TypeOK, SkipSink, NextSlot
  <2> QED
    BY <1>1, <2>1, <2>2 DEF IInv, TypeOK, system, registry
<1>4. /\ \A s \in Sinks : wire'[s].rec <= clock'
      /\ rec'[c] = clock'
      /\ \A i \in 1..MaxSinks : i >= slot[c] /\ slots[i] # None => wire'[slots[i]].rec < clock'
  BY <1>1 DEF IInv, OrderInv
<1> QED
  BY <1>1, <1>2, <1>3, <1>4, StepKeeps DEF Section

\* The loop comes to a sink that writes.
LEMMA EnterSinkStep ==
    ASSUME IInv, NEW c \in Callers, EnterSink(c)
    PROVE  IInv'
<1>1. /\ Runs(c) /\ pc[c] = "sink" /\ slot[c] <= MaxSinks
      /\ slots[slot[c]] \in ready \union {Rtt}
      /\ UNCHANGED <<system, holder, registry, clock, token, rec, slot, wire>>
  BY DEF EnterSink
<1>2. /\ pc'[c] = "write" /\ slot'[c] = slot[c]
      /\ \A d \in Callers \ {c} : pc'[d] = pc[d]
  BY <1>1 DEF IInv, TypeOK, EnterSink
<1>3. slots[slot[c]] \in Sinks
  BY <1>1, SinkFacts DEF IInv, TypeOK
<1>4. TypeOK'
  <2>1. pc' \in [Callers -> Points] /\ piece' \in [Callers -> 1..3]
    BY DEF IInv, TypeOK, EnterSink, Points
  <2> QED
    BY <1>1, <2>1 DEF IInv, TypeOK, system, registry
<1>5. /\ \A s \in Sinks : wire'[s].rec <= clock'
      /\ rec'[c] = clock'
      /\ \A i \in 1..MaxSinks : i >= slot[c] /\ slots[i] # None => wire'[slots[i]].rec < clock'
  BY <1>1 DEF IInv, OrderInv
<1> QED
  BY <1>1, <1>2, <1>3, <1>4, <1>5, StepKeeps DEF Section

\* What a caller that writes finds: its sink is behind it, the later ones
\* are older, and the sinks behind later slots are others.
LEMMA WriterFacts ==
    ASSUME IInv, NEW c \in Callers, pc[c] = "write"
    PROVE  /\ slot[c] \in 1..MaxSinks /\ slots[slot[c]] \in Sinks
           /\ rec[c] = clock /\ clock \in Nat /\ piece[c] \in 1..3
           /\ \/ wire[slots[slot[c]]].rec < clock
              \/ wire[slots[slot[c]]].piece < piece[c]
           /\ wire[slots[slot[c]]].rec <= clock
           /\ \A i \in 1..MaxSinks :
                 i > slot[c] /\ slots[i] # None =>
                     /\ wire[slots[i]].rec < clock
                     /\ slots[i] \in Sinks /\ slots[i] # slots[slot[c]]
<1>1. slot[c] \in 1..MaxSinks /\ slots[slot[c]] \in Sinks
  BY DEF IInv, SlotInv, TypeOK
<1>2. slots[slot[c]] # None
  BY <1>1, NameAssumption DEF Sinks, Rtt, None
<1>3. rec[c] = clock /\ clock \in Nat /\ piece[c] \in 1..3
  BY DEF IInv, OrderInv, TypeOK
<1>4. wire[slots[slot[c]]].rec <= clock
  BY <1>1 DEF IInv, OrderInv
<1>5. wire[slots[slot[c]]].rec < clock \/ wire[slots[slot[c]]].piece < piece[c]
  BY <1>1, <1>2 DEF IInv, OrderInv
<1>6. ASSUME NEW i \in 1..MaxSinks, i > slot[c], slots[i] # None
      PROVE  /\ wire[slots[i]].rec < clock
             /\ slots[i] \in Sinks /\ slots[i] # slots[slot[c]]
  <2>1. i >= slot[c] /\ i # slot[c]
    BY <1>1, <1>6
  <2>2. wire[slots[i]].rec < clock
    BY <1>6, <2>1 DEF IInv, OrderInv
  <2>3. slots[i] \in Sinks /\ slots[i] # slots[slot[c]]
    BY <1>1, <1>6, <2>1 DEF IInv, TypeOK, RegistryIsLive
  <2> QED
    BY <2>2, <2>3
<1> QED
  BY <1>1, <1>3, <1>4, <1>5, <1>6

\* The write goes to one sink, and is newer than what that sink has.
LEMMA WriteIsNewer ==
    ASSUME IInv, NEW c \in Callers, WritePiece(c)
    PROVE  /\ wire' \in [Sinks -> Writes]
           /\ wire'[slots[slot[c]]].rec = clock
           /\ wire'[slots[slot[c]]].piece = piece[c]
           /\ \A s \in Sinks \ {slots[slot[c]]} : wire'[s] = wire[s]
<1> DEFINE sink == slots[slot[c]]
           w == [rec |-> rec[c], piece |-> piece[c]]
<1>1. sink \in Sinks /\ rec[c] = clock /\ clock \in Nat /\ piece[c] \in 1..3
  BY WriterFacts DEF WritePiece
<1>2. w \in Writes /\ w.rec = clock /\ w.piece = piece[c]
  BY <1>1 DEF Writes
<1>3. wire' = [wire EXCEPT ![sink] = w] /\ wire \in [Sinks -> Writes]
  BY DEF IInv, TypeOK, WritePiece
<1> HIDE DEF sink, w
<1>4. wire' \in [Sinks -> Writes] /\ wire'[sink] = w /\ \A s \in Sinks \ {sink} : wire'[s] = wire[s]
  BY <1>1, <1>2, <1>3
<1> QED
  BY <1>2, <1>4 DEF sink

\* A raw write, then the next one or the next slot.
LEMMA WritePieceStep ==
    ASSUME IInv, NEW c \in Callers, WritePiece(c)
    PROVE  IInv'
<1> DEFINE sink == slots[slot[c]]
<1>1. /\ Runs(c) /\ pc[c] = "write"
      /\ UNCHANGED <<system, holder, registry, clock, token, rec>>
  BY DEF WritePiece
<1>2. /\ slot[c] \in 1..MaxSinks /\ sink \in Sinks /\ rec[c] = clock
      /\ clock \in Nat /\ piece[c] \in 1..3
      /\ \A i \in 1..MaxSinks :
            i > slot[c] /\ slots[i] # None =>
                wire[slots[i]].rec < clock /\ slots[i] \in Sinks /\ slots[i] # sink
  BY <1>1, WriterFacts
<1>3. /\ wire' \in [Sinks -> Writes]
      /\ wire'[sink].rec = clock /\ wire'[sink].piece = piece[c]
      /\ \A s \in Sinks \ {sink} : wire'[s] = wire[s]
  BY WriteIsNewer
<1>4. \A s \in Sinks : wire'[s].rec <= clock'
  <2>1. \A s \in Sinks : wire[s].rec <= clock
    BY DEF IInv, OrderInv
  <2> QED
    BY <1>1, <1>2, <1>3, <2>1
<1>5. \A i \in 1..MaxSinks : i > slot[c] /\ slots[i] # None => wire'[slots[i]].rec < clock
  BY <1>2, <1>3
<1>6. CASE /\ piece[c] < Pieces(sink)
           /\ piece' = [piece EXCEPT ![c] = piece[c] + 1] /\ UNCHANGED <<pc, slot>>
  <2>1. /\ piece' = [piece EXCEPT ![c] = piece[c] + 1] /\ pc' = pc /\ slot' = slot
        /\ piece[c] + 1 \in 1..3
    BY <1>2, <1>6 DEF Pieces
  <2>2. TypeOK'
    BY <1>1, <1>3, <2>1 DEF IInv, TypeOK, system, registry
  <2>3. piece'[c] = piece[c] + 1
    BY <2>1 DEF IInv, TypeOK
  <2>4. ASSUME NEW i \in 1..MaxSinks, i >= slot'[c], slots[i] # None
        PROVE  \/ wire'[slots[i]].rec < clock'
               \/ i = slot'[c] /\ wire'[slots[i]].piece < piece'[c]
    <3>1. CASE i = slot[c]
      BY <1>2, <1>3, <2>1, <2>3, <3>1
    <3>2. CASE i # slot[c]
      BY <1>1, <1>2, <1>5, <2>1, <2>4, <3>2
    <3> QED
      BY <3>1, <3>2
  <2> HIDE DEF sink
  <2>5. pc'[c] = "write" /\ slot'[c] <= MaxSinks /\ rec'[c] = clock'
    BY <1>1, <1>2, <2>1
  <2> QED
    BY <1>1, <1>2, <1>4, <2>1, <2>2, <2>4, <2>5, StepKeeps DEF Section, sink
<1>7. CASE NextSlot(c) /\ UNCHANGED piece
  <2>1. NextSlot(c) /\ piece' = piece
    BY <1>7
  <2>2. /\ pc'[c] = "sink" /\ slot'[c] = slot[c] + 1
        /\ \A d \in Callers \ {c} : pc'[d] = pc[d]
    BY <2>1 DEF IInv, TypeOK, NextSlot
  <2>3. TypeOK'
    <3>1. pc' \in [Callers -> Points]
      BY <2>1 DEF IInv, TypeOK, NextSlot, Points
    <3>2. slot' \in [Callers -> 1..MaxSinks + 1]
      BY <1>2, <2>1, BoundAssumption DEF IInv, TypeOK, NextSlot
    <3> QED
      BY <1>1, <1>3, <2>1, <3>1, <3>2 DEF IInv, TypeOK, system, registry
  <2>4. \A i \in 1..MaxSinks : i >= slot'[c] /\ slots[i] # None => wire'[slots[i]].rec < clock'
    BY <1>1, <1>2, <1>5, <2>2
  <2> QED
    BY <1>1, <1>2, <1>4, <2>2, <2>3, <2>4, StepKeeps DEF Section
<1> QED
  BY <1>6, <1>7 DEF WritePiece

\* A raw write lost, then the next one or the next slot.
LEMMA LosePieceStep ==
    ASSUME IInv, NEW c \in Callers, LosePiece(c)
    PROVE  IInv'
<1> DEFINE sink == slots[slot[c]]
<1>1. /\ Runs(c) /\ pc[c] = "write"
      /\ UNCHANGED <<system, holder, registry, clock, token, rec, wire>>
  BY DEF LosePiece
<1>2. /\ slot[c] \in 1..MaxSinks /\ sink \in Sinks /\ rec[c] = clock
      /\ clock \in Nat /\ piece[c] \in 1..3
      /\ wire[sink].rec < clock \/ wire[sink].piece < piece[c]
      /\ \A i \in 1..MaxSinks : i > slot[c] /\ slots[i] # None => wire[slots[i]].rec < clock
  BY <1>1, WriterFacts
<1>3. \A s \in Sinks : wire'[s].rec <= clock'
  BY <1>1 DEF IInv, OrderInv
<1>4. CASE sink = Rtt /\ piece[c] < Pieces(Rtt)
  <2>1. /\ piece' = [piece EXCEPT ![c] = piece[c] + 1] /\ pc' = pc /\ slot' = slot
        /\ piece[c] + 1 \in 1..3
    BY <1>2, <1>4 DEF LosePiece, Pieces
  <2>2. TypeOK'
    BY <1>1, <2>1 DEF IInv, TypeOK, system, registry
  <2>3. piece'[c] = piece[c] + 1
    BY <2>1 DEF IInv, TypeOK
  <2>4. wire[sink].piece \in 1..3
    <3>1. wire[sink] \in Writes
      BY <1>2 DEF IInv, TypeOK
    <3> QED
      BY <3>1 DEF Writes
  <2>5. ASSUME NEW i \in 1..MaxSinks, i >= slot'[c], slots[i] # None
        PROVE  \/ wire'[slots[i]].rec < clock'
               \/ i = slot'[c] /\ wire'[slots[i]].piece < piece'[c]
    <3>1. CASE i = slot[c]
      BY <1>1, <1>2, <2>1, <2>3, <2>4, <3>1
    <3>2. CASE i # slot[c]
      BY <1>1, <1>2, <2>1, <2>5, <3>2
    <3> QED
      BY <3>1, <3>2
  <2>6. pc'[c] = "write" /\ slot'[c] <= MaxSinks /\ rec'[c] = clock'
    BY <1>1, <1>2, <2>1
  <2> QED
    BY <1>1, <1>2, <1>3, <2>1, <2>2, <2>5, <2>6, StepKeeps DEF Section
<1>5. CASE ~(sink = Rtt /\ piece[c] < Pieces(Rtt))
  <2>1. NextSlot(c) /\ piece' = piece
    BY <1>5 DEF LosePiece
  <2>2. /\ pc'[c] = "sink" /\ slot'[c] = slot[c] + 1
        /\ \A d \in Callers \ {c} : pc'[d] = pc[d]
    BY <2>1 DEF IInv, TypeOK, NextSlot
  <2>3. TypeOK'
    <3>1. pc' \in [Callers -> Points]
      BY <2>1 DEF IInv, TypeOK, NextSlot, Points
    <3>2. slot' \in [Callers -> 1..MaxSinks + 1]
      BY <1>2, <2>1, BoundAssumption DEF IInv, TypeOK, NextSlot
    <3> QED
      BY <1>1, <2>1, <3>1, <3>2 DEF IInv, TypeOK, system, registry
  <2>4. \A i \in 1..MaxSinks : i >= slot'[c] /\ slots[i] # None => wire'[slots[i]].rec < clock'
    BY <1>1, <1>2, <2>2
  <2> QED
    BY <1>1, <1>2, <1>3, <2>2, <2>3, <2>4, StepKeeps DEF Section
<1> QED
  BY <1>4, <1>5

\* The mutex is taken by a task that was not inside, while nobody else is.
LEMMA TakeKeeps ==
    ASSUME IInv, NEW c \in Tasks, Runs(c), pc[c] \in {"out", "wait"}, holder = None,
           holder' = c,
           pc' = [pc EXCEPT ![c] = "print"], token' = [token EXCEPT ![c] = 2],
           UNCHANGED <<system, registry, clock, rec, slot, piece, wire>>
    PROVE  IInv'
<1>1. c \in Callers /\ c # Main /\ c \notin Exceptions /\ c # None
  BY NameAssumption DEF Callers
<1>2. started
  BY <1>1 DEF Runs
<1>3. /\ pc'[c] = "print" /\ token'[c] = 2
      /\ \A d \in Callers \ {c} : pc'[d] = pc[d] /\ token'[d] = token[d]
  BY <1>1 DEF IInv, TypeOK
<1>4. TypeOK'
  <2>1. /\ pc' \in [Callers -> Points] /\ token' \in [Callers -> 0..2]
        /\ holder' \in Callers \union {None}
    BY <1>1 DEF IInv, TypeOK, Points
  <2> QED
    BY <2>1 DEF IInv, TypeOK, system, registry
<1>5. PhaseInv' /\ MainInv'
  BY <1>1, <1>2, <1>3 DEF IInv, PhaseInv, MainInv, Callers, system
<1>6. TokenInv'
  BY <1>3 DEF IInv, TokenInv, Section
<1>7. LockBalanced'
  <2>1. ASSUME NEW t \in Tasks
        PROVE  holder' = t <=> pc'[t] \notin {"out", "wait"}
    <3>1. CASE t = c
      BY <1>3, <3>1
    <3>2. CASE t # c
      <4>1. t \in Callers /\ t # None
        BY NameAssumption DEF Callers
      <4>2. pc[t] \in {"out", "wait"}
        BY <4>1 DEF IInv, LockBalanced
      <4> QED
        BY <1>3, <3>2, <4>1, <4>2
    <3> QED
      BY <3>1, <3>2
  <2> QED
    BY <1>1, <2>1 DEF LockBalanced
<1>8. RegistryIsLive' /\ UsersInv'
  BY DEF IInv, RegistryIsLive, Holds, UsersInv, registry
<1>9. SlotInv' /\ OrderInv'
  BY <1>3 DEF IInv, SlotInv, OrderInv, registry
<1> QED
  BY <1>4, <1>5, <1>6, <1>7, <1>8, <1>9 DEF IInv

\* A task that waited gets the mutex.
LEMMA TakeStep ==
    ASSUME IInv, NEW c \in Callers, Take(c)
    PROVE  IInv'
<1>1. Runs(c) /\ pc[c] = "wait"
  BY DEF Take
<1>2. /\ c \notin Exceptions
      /\ (c \in Tasks /\ started) \/ (c = Main /\ ~started)
  BY <1>1, StepperIsNoException
<1>3. CASE c \in Tasks
  BY <1>1, <1>3, TakeKeeps DEF Take
<1>4. CASE c = Main /\ ~started
  \* main() never waits.
  BY <1>1, <1>4 DEF IInv, MainInv
<1> QED
  BY <1>2, <1>3, <1>4

\* acquire(), in each of its outcomes.
LEMMA CallStep ==
    ASSUME IInv, NEW c \in Callers, Call(c)
    PROVE  IInv'
<1>1. /\ Runs(c) /\ pc[c] = "out"
      /\ UNCHANGED <<system, registry, clock, rec, slot, piece, wire>>
  BY DEF Call, Idle
<1>2. CASE UNCHANGED <<holder, pc, token>>
  <2>1. TypeOK'
    BY <1>1, <1>2 DEF IInv, TypeOK, system, registry
  <2> QED
    BY <1>1, <1>2, <2>1, SystemKeeps DEF system
<1>3. CASE /\ acquire(c) = "direct"
           /\ pc' = [pc EXCEPT ![c] = "print"] /\ token' = [token EXCEPT ![c] = 1]
           /\ UNCHANGED holder
  <2>1. c \notin Exceptions /\ ~started
    BY <1>3 DEF acquire
  <2>2. c = Main /\ Main \notin Tasks
    BY <1>1, <2>1, NameAssumption DEF Runs
  <2>3. /\ pc'[c] = "print" /\ token'[c] = 1
        /\ \A d \in Callers \ {c} : pc'[d] = pc[d] /\ token'[d] = token[d]
    BY <1>3 DEF IInv, TypeOK
  <2>4. TypeOK'
    <3>1. pc' \in [Callers -> Points] /\ token' \in [Callers -> 0..2]
      BY <1>3 DEF IInv, TypeOK, Points
    <3> QED
      BY <1>1, <1>3, <3>1 DEF IInv, TypeOK, system, registry
  <2>5. PhaseInv'
    BY <1>1, <2>1, <2>2, <2>3 DEF IInv, PhaseInv, Callers, system
  <2>6. TokenInv'
    BY <2>2, <2>3 DEF IInv, TokenInv
  <2>7. LockBalanced'
    BY <1>3, <2>2, <2>3 DEF IInv, LockBalanced, Callers
  <2>8. RegistryIsLive' /\ UsersInv'
    BY <1>1 DEF IInv, RegistryIsLive, Holds, UsersInv, registry
  <2>9. SlotInv' /\ OrderInv'
    BY <1>1, <2>3 DEF IInv, SlotInv, OrderInv, registry
  <2>10. MainInv'
    BY <2>2, <2>3 DEF MainInv
  <2> QED
    BY <2>4, <2>5, <2>6, <2>7, <2>8, <2>9, <2>10 DEF IInv
<1>4. CASE /\ acquire(c) = "take" /\ holder = None /\ holder' = c
           /\ pc' = [pc EXCEPT ![c] = "print"] /\ token' = [token EXCEPT ![c] = 2]
  <2>1. c \in Tasks
    <3>1. c \notin Exceptions /\ started
      BY <1>4 DEF acquire
    <3>2. c # Main
      BY <1>1, <3>1 DEF Runs
    <3> QED
      BY <3>1, <3>2 DEF Callers
  <2> QED
    BY <1>1, <1>4, <2>1, TakeKeeps
<1>5. CASE /\ acquire(c) = "take" /\ holder # None
           /\ pc' = [pc EXCEPT ![c] = "wait"]
           /\ UNCHANGED <<holder, token>>
  <2>1. c \notin Exceptions /\ started
    BY <1>5 DEF acquire
  <2>2. c # Main
    BY <1>1, <2>1 DEF Runs
  <2>3. pc'[c] = "wait" /\ \A d \in Callers \ {c} : pc'[d] = pc[d]
    BY <1>5 DEF IInv, TypeOK
  <2>4. TypeOK'
    <3>1. pc' \in [Callers -> Points]
      BY <1>5 DEF IInv, TypeOK, Points
    <3> QED
      BY <1>1, <1>5, <3>1 DEF IInv, TypeOK, system, registry
  <2>5. PhaseInv' /\ MainInv'
    BY <1>1, <2>1, <2>2, <2>3 DEF IInv, PhaseInv, MainInv, Callers, system
  <2>6. TokenInv'
    BY <1>1, <1>5, <2>3 DEF IInv, TokenInv, Section
  <2>7. LockBalanced'
    BY <1>1, <1>5, <2>3 DEF IInv, LockBalanced, Callers
  <2>8. RegistryIsLive' /\ UsersInv'
    BY <1>1 DEF IInv, RegistryIsLive, Holds, UsersInv, registry
  <2>9. SlotInv' /\ OrderInv'
    BY <1>1, <2>3 DEF IInv, SlotInv, OrderInv, registry
  <2> QED
    BY <2>4, <2>5, <2>6, <2>7, <2>8, <2>9 DEF IInv
<1> QED
  BY <1>2, <1>3, <1>4, <1>5 DEF Call

\* release(): nobody is inside afterwards.
LEMMA ReleaseStep ==
    ASSUME IInv, NEW c \in Callers, release(c)
    PROVE  IInv'
<1>1. /\ Runs(c) /\ pc[c] \in Section
      /\ holder' = IF token[c] = 2 THEN None ELSE holder
      /\ UNCHANGED <<system, registry, clock, wire>>
  BY DEF release, Section
<1>2. /\ c \notin Exceptions
      /\ (c \in Tasks /\ started) \/ (c = Main /\ ~started)
      /\ Main \notin Tasks
  BY <1>1, StepperIsNoException DEF Section
<1>3. \A d \in Callers \ {c} : pc[d] \in {"out", "wait"}
  BY <1>1, OthersAreOut
<1>4. /\ pc'[c] = "out" /\ token'[c] = 0
      /\ \A d \in Callers \ {c} : pc'[d] = pc[d] /\ token'[d] = token[d]
  BY DEF IInv, TypeOK, release, Forget
<1>5. TypeOK'
  <2>1. /\ pc' \in [Callers -> Points] /\ token' \in [Callers -> 0..2]
        /\ rec' \in [Callers -> Nat] /\ piece' \in [Callers -> 1..3]
    BY DEF IInv, TypeOK, release, Forget, Points
  <2>2. slot' \in [Callers -> 1..MaxSinks + 1]
    BY BoundAssumption DEF IInv, TypeOK, release, Forget
  <2>3. holder' \in Callers \union {None}
    BY <1>1 DEF IInv, TypeOK
  <2> QED
    BY <1>1, <2>1, <2>2, <2>3 DEF IInv, TypeOK, system, registry
<1>6. PhaseInv' /\ MainInv'
  BY <1>1, <1>2, <1>4 DEF IInv, PhaseInv, MainInv, Callers, system
<1>7. TokenInv'
  BY <1>4 DEF IInv, TokenInv, Section
<1>8. LockBalanced'
  <2>1. CASE c \in Tasks
    <3>1. holder' = None
      BY <1>1, <2>1 DEF IInv, TokenInv
    <3>2. \A t \in Tasks : pc'[t] \in {"out", "wait"}
      BY <1>3, <1>4 DEF Callers
    <3>3. \A t \in Tasks : t # None
      BY NameAssumption
    <3>4. None \notin {Main} \union Exceptions
      BY DEF None, Main, Exceptions, Handler, Fault
    <3> QED
      BY <3>1, <3>2, <3>3, <3>4 DEF LockBalanced
  <2>2. CASE c = Main
    <3>1. holder' = holder
      BY <1>1, <1>2, <2>2 DEF IInv, TokenInv
    <3>2. \A t \in Tasks : pc'[t] = pc[t]
      BY <1>2, <1>4, <2>2 DEF Callers
    <3> QED
      BY <3>1, <3>2 DEF IInv, LockBalanced
  <2> QED
    BY <1>2, <2>1, <2>2
<1>9. RegistryIsLive' /\ UsersInv'
  BY <1>1 DEF IInv, RegistryIsLive, Holds, UsersInv, registry
<1>10. SlotInv' /\ OrderInv'
  <2>1. \A d \in Callers : pc'[d] \in {"out", "wait"}
    BY <1>3, <1>4
  <2>2. \A s \in Sinks : wire'[s].rec <= clock'
    BY <1>1 DEF IInv, OrderInv
  <2> QED
    BY <2>1, <2>2 DEF SlotInv, OrderInv
<1> QED
  BY <1>5, <1>6, <1>7, <1>8, <1>9, <1>10 DEF IInv

-----------------------------------------------------------------------------
\* Every step keeps the invariant.
LEMMA Inductive == IInv /\ [Next]_vars => IInv'
<1> SUFFICES ASSUME IInv, [Next]_vars
             PROVE  IInv'
  OBVIOUS
<1>1. CASE UNCHANGED vars
  <2>1. TypeOK'
    BY <1>1 DEF IInv, TypeOK, vars, system, registry
  <2> QED
    BY <1>1, <2>1, SystemKeeps DEF vars, system
<1>2. CASE Configure
  BY <1>2, UartSinkSteps, SetReadyStep, RttInitStep, RttDeinitStep DEF Configure
<1>3. CASE StartScheduler
  BY <1>3, StartStep
<1>4. ASSUME NEW t \in Tasks,
             SuspendAll(t) \/ ResumeAll(t) \/ EnterCritical(t) \/ ExitCritical(t)
      PROVE  IInv'
  BY <1>4, SchedulerSteps
<1>5. ASSUME NEW h \in Exceptions, EnterException(h) \/ LeaveException(h)
      PROVE  IInv'
  BY <1>5, ExceptionSteps
<1>6. ASSUME NEW c \in Callers, Call(c) \/ Step(c)
      PROVE  IInv'
  BY <1>6, CallStep, TakeStep, FilteredStep, FormatStep, SkipSinkStep, EnterSinkStep,
     WritePieceStep, LosePieceStep, ReleaseStep DEF Step
<1> QED
  BY <1>1, <1>2, <1>3, <1>4, <1>5, <1>6 DEF Next

\* The invariant holds throughout.
THEOREM LoggerIInv == Spec => []IInv
<1> QED
  BY LoggerInit, Inductive, PTL DEF Spec

\* Types of the lock's, the registry's and the callers' state, for any number
\* of tasks and sinks.
THEOREM LoggerTypeOK == Spec => []TypeOK
<1>1. IInv => TypeOK
  BY DEF IInv
<1> QED
  BY <1>1, LoggerIInv, PTL

\* The mutex is held exactly by the task inside a record.
THEOREM LoggerLockBalanced == Spec => []LockBalanced
<1>1. IInv => LockBalanced
  BY DEF IInv
<1> QED
  BY <1>1, LoggerIInv, PTL

\* The registry holds exactly the sinks of living objects, once each.
THEOREM LoggerRegistryIsLive == Spec => []RegistryIsLive
<1>1. IInv => RegistryIsLive
  BY DEF IInv
<1> QED
  BY <1>1, LoggerIInv, PTL

\* Only WritePiece() changes what a sink has last.
LEMMA OnlyWritesWrite ==
    ASSUME Next, \A c \in Callers : ~WritePiece(c)
    PROVE  wire' = wire
<1>1. ASSUME Configure
      PROVE  wire' = wire
  BY <1>1 DEF Configure, ConstructUartSink, DestructUartSink, SetReady, rtt_backend_init,
     rtt_backend_deinit, UNCHANGED_calls
<1>2. ASSUME NEW t \in Tasks,
             SuspendAll(t) \/ ResumeAll(t) \/ EnterCritical(t) \/ ExitCritical(t)
      PROVE  wire' = wire
  BY <1>2 DEF SuspendAll, ResumeAll, EnterCritical, ExitCritical
<1>3. ASSUME NEW h \in Exceptions, EnterException(h) \/ LeaveException(h)
      PROVE  wire' = wire
  BY <1>3 DEF EnterException, LeaveException
<1>4. ASSUME NEW c \in Callers, Call(c) \/ Step(c)
      PROVE  wire' = wire
  BY <1>4 DEF Call, Step, Take, Filtered, Format, SkipSink, EnterSink, LosePiece,
     Dispatched, release
<1>5. StartScheduler => wire' = wire
  BY DEF StartScheduler
<1> QED
  BY <1>1, <1>2, <1>3, <1>4, <1>5 DEF Next

\* Records on every sink whole and in the order of their timestamps, whoever
\* preempts whom.
THEOREM LoggerRecordsInOrder == Spec => RecordsInOrder
<1> DEFINE Newer(s) == \/ wire'[s].rec > wire[s].rec
                       \/ wire'[s].rec = wire[s].rec /\ wire'[s].piece > wire[s].piece
<1>1. ASSUME IInv, Next
      PROVE  \A s \in Sinks : wire'[s] # wire[s] => Newer(s)
  <2>1. CASE \A c \in Callers : ~WritePiece(c)
    BY <1>1, <2>1, OnlyWritesWrite
  <2>2. ASSUME NEW c \in Callers, WritePiece(c), NEW s \in Sinks, wire'[s] # wire[s]
        PROVE  Newer(s)
    <3>1. s = slots[slot[c]] /\ wire'[s].rec = clock /\ wire'[s].piece = piece[c]
      BY <1>1, <2>2, WriteIsNewer
    <3>2. /\ wire[s].rec < clock \/ wire[s].piece < piece[c]
          /\ wire[s].rec <= clock /\ clock \in Nat /\ piece[c] \in 1..3
      BY <1>1, <2>2, <3>1, WriterFacts DEF WritePiece
    <3>3. wire[s].rec \in Nat /\ wire[s].piece \in 1..3
      <4>1. wire[s] \in Writes
        BY <1>1 DEF IInv, TypeOK
      <4> QED
        BY <4>1 DEF Writes
    <3> QED
      BY <3>1, <3>2, <3>3
  <2> QED
    BY <2>1, <2>2
<1>2. ASSUME IInv, [Next]_vars
      PROVE  [\A s \in Sinks : wire'[s] # wire[s] => Newer(s)]_vars
  BY <1>1, <1>2
<1> QED
  BY <1>2, LoggerIInv, PTL DEF Spec, RecordsInOrder
=============================================================================
