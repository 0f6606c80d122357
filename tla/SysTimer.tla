------------------------------ MODULE SysTimer ------------------------------
(***************************************************************************)
(* HAL::TIMERS::sysTimer, the millisecond clock, and delay_ms() on it.     *)
(*                                                                         *)
(* The timer's overflow interrupt increments the 64-bit m_time; threads    *)
(* read it while the interrupt may be taken between any two accesses, and  *)
(* interrupts of a higher priority may read it in the middle of the        *)
(* increment.  A 64-bit access is one LDRD or STRD in some builds and two  *)
(* accesses of a word, in either order, in others.                         *)
(***************************************************************************)
EXTENDS Integers

CONSTANTS Word,       \* the number of values of a word: 2^32 in the code
          Accesses    \* the ways the build may access 64 bits

ASSUME WordAssumption == Word \in Nat /\ Word > 2
ASSUME AccessAssumption == Accesses \subseteq {"both", "lowFirst", "highFirst"}

VARIABLES
    access,       \* how this build accesses 64 bits
    OVF_IT_FLAG,  \* TISR: an overflow has been latched
    OVF_EN_FLAG,  \* TIER
    masked,       \* the INTC mask of the timer's line
    isr,          \* the next step of the interrupt handler, or "none"
    sum,          \* the register the handler adds in
    m_time,       \* its two words
    ticks,        \* ghost: overflows since the timer was started
    due,          \* ghost: the handler has not taken its second step on the last overflow
    thread        \* the thread in delay_ms()

svars == <<access, OVF_IT_FLAG, OVF_EN_FLAG, masked, isr, sum, m_time, ticks, due, thread>>
handling == <<OVF_IT_FLAG, OVF_EN_FLAG, masked, isr, sum, m_time, due>>

\* The clock is not followed beyond what 64 bits hold.
MaxTicks == Word * Word - 1

Value(t) == t.hi * Word + t.lo
Zero     == [lo |-> 0, hi |-> 0]

\* The word accessed first, and what follows an access to w.
First == CASE access = "both"      -> "both"
           [] access = "lowFirst"  -> "lo"
           [] access = "highFirst" -> "hi"

Following(w, end) == CASE access = "lowFirst" /\ w = "lo"  -> "hi"
                       [] access = "highFirst" /\ w = "hi" -> "lo"
                       [] OTHER                            -> end

\* One access to a word of t, or to both, of which v is the new value.
Put(t, w, v) == IF w = "both" THEN v ELSE [t EXCEPT ![w] = v[w]]

Thread(pc, ms, begin) ==
    [pc |-> pc, todo |-> "none", got |-> Zero, from |-> 0, ms |-> ms, start |-> 0, begin |-> begin]

\* After init(): the timer runs, its interrupt is enabled and unmasked.
SInit ==
    /\ access \in Accesses
    /\ OVF_IT_FLAG = FALSE /\ OVF_EN_FLAG = TRUE /\ masked = FALSE
    /\ isr = "none" /\ sum = Zero /\ m_time = Zero
    /\ ticks = 0 /\ due = FALSE /\ thread = Thread("idle", 0, 0)

-----------------------------------------------------------------------------
(* The timer and its handler. *)

\* The handler's first two accesses follow an overflow within one period.
Overflow ==
    /\ ticks < MaxTicks /\ ~due
    /\ ticks' = ticks + 1 /\ OVF_IT_FLAG' = TRUE /\ due' = TRUE
    /\ UNCHANGED <<access, OVF_EN_FLAG, masked, isr, sum, m_time, thread>>

\* Mutant: the flag is cleared after the tick has been counted.
sys_timer_irqhandler_ClearsLate ==
    [disable |-> "add", add |-> First,
     both |-> "clear", lo |-> Following("lo", "clear"), hi |-> Following("hi", "clear"),
     clear |-> "enable", enable |-> "unmask", unmask |-> "none"]

\* Each step of the handler, and the one after it.
sys_timer_irqhandler ==
    [disable |-> "clear", clear |-> "add", add |-> First,
     both |-> "enable", lo |-> Following("lo", "enable"), hi |-> Following("hi", "enable"),
     enable |-> "unmask", unmask |-> "none"]

Interrupt ==
    /\ isr = "none" /\ OVF_IT_FLAG /\ OVF_EN_FLAG /\ ~masked
    /\ isr' = "disable"
    /\ UNCHANGED <<access, OVF_IT_FLAG, OVF_EN_FLAG, masked, sum, m_time, ticks, due, thread>>

Handle(op) ==
    /\ isr = op
    /\ isr' = sys_timer_irqhandler[op]
    /\ due' = (due /\ op # sys_timer_irqhandler["disable"])

IRQ_disable == /\ Handle("disable") /\ OVF_EN_FLAG' = FALSE
               /\ UNCHANGED <<access, OVF_IT_FLAG, masked, sum, m_time, ticks, thread>>

IRQ_clear == /\ Handle("clear") /\ OVF_IT_FLAG' = FALSE
             /\ UNCHANGED <<access, OVF_EN_FLAG, masked, sum, m_time, ticks, thread>>

Plus1(t) == IF t.lo < Word - 1 THEN [t EXCEPT !.lo = @ + 1]
            ELSE [lo |-> 0, hi |-> (t.hi + 1) % Word]

Increment == /\ Handle("add") /\ sum' = Plus1(m_time)
             /\ UNCHANGED <<access, OVF_IT_FLAG, OVF_EN_FLAG, masked, m_time, ticks, thread>>

Store == /\ \E w \in {"both", "lo", "hi"} : Handle(w) /\ m_time' = Put(m_time, w, sum)
         /\ UNCHANGED <<access, OVF_IT_FLAG, OVF_EN_FLAG, masked, sum, ticks, thread>>

IRQ_enable == /\ Handle("enable") /\ OVF_EN_FLAG' = TRUE
              /\ UNCHANGED <<access, OVF_IT_FLAG, masked, sum, m_time, ticks, thread>>

Unmask == /\ Handle("unmask") /\ masked' = FALSE
          /\ UNCHANGED <<access, OVF_IT_FLAG, OVF_EN_FLAG, sum, m_time, ticks, thread>>

Handler == Interrupt \/ IRQ_disable \/ IRQ_clear \/ Increment \/ Store \/ IRQ_enable \/ Unmask

-----------------------------------------------------------------------------
(* The thread: it runs when the handler does not.                          *)

Free == isr = "none" /\ thread.pc \in {"idle", "done"}

sys_interrupt_disable == /\ Free /\ masked' = TRUE
                         /\ UNCHANGED <<access, OVF_IT_FLAG, OVF_EN_FLAG, isr, sum, m_time, ticks, due, thread>>

sys_interrupt_enable == /\ Free /\ masked /\ masked' = FALSE
                        /\ UNCHANGED <<access, OVF_IT_FLAG, OVF_EN_FLAG, isr, sum, m_time, ticks, due, thread>>

\* Mutant: the clock is read once, as if m_time were not volatile.
get_ms_Once(t) == IF t.pc = "start" THEN [t EXCEPT !.todo = First, !.from = Value(m_time)] ELSE t

\* get_ms() begins: what it loads is not older than this moment.
get_ms(t) == [t EXCEPT !.todo = First, !.from = Value(m_time)]

delay_ms ==
    /\ Free /\ ~masked
    /\ \E ms \in 1..Word - 1 :
          thread' = get_ms(Thread("start", ms, Value(m_time)))
    /\ UNCHANGED <<access, handling, ticks>>

\* Mutant: only the low word is loaded.
Load_Low(t) == [t EXCEPT !.got = [lo |-> m_time.lo, hi |-> 0], !.todo = Following(@, "none")]

Load(t) == [t EXCEPT !.got = Put(@, t.todo, m_time), !.todo = Following(@, "none")]

LoadWord == /\ isr = "none" /\ thread.todo # "none"
            /\ thread' = Load(thread)
            /\ UNCHANGED <<access, handling, ticks>>

Loaded == thread.pc \in {"start", "poll"} /\ thread.todo = "none"

\* Mutant: the start is kept in half a word.
Start_Narrow(n) == n % (Word \div 2)

\* "const volatile uint32_t start"
Start(n) == n % Word

KeepStart == /\ isr = "none" /\ Loaded /\ thread.pc = "start"
             /\ thread' = get_ms([thread EXCEPT !.pc = "poll", !.start = Start(Value(thread.got))])
             /\ UNCHANGED <<access, handling, ticks>>

\* The difference is one of uint64_t.
Compare ==
    /\ isr = "none" /\ Loaded /\ thread.pc = "poll"
    /\ thread' = IF (Value(thread.got) - thread.start) % (Word * Word) < thread.ms
                 THEN get_ms(thread) ELSE [thread EXCEPT !.pc = "done"]
    /\ UNCHANGED <<access, handling, ticks>>

Delaying == LoadWord \/ KeepStart \/ Compare

SNext == Overflow \/ Handler \/ sys_interrupt_disable \/ sys_interrupt_enable \/ delay_ms \/ Delaying

\* The handler needs far less than a period, so the thread runs again and again.
SysTimerSpec == /\ SInit /\ [][SNext]_svars
                /\ WF_svars(Overflow) /\ WF_svars(Handler) /\ SF_svars(Delaying)

-----------------------------------------------------------------------------
(* Properties. *)

STypeOK ==
    /\ access \in Accesses
    /\ {OVF_IT_FLAG, OVF_EN_FLAG, masked, due} \subseteq BOOLEAN
    /\ isr \in {"none"} \union DOMAIN sys_timer_irqhandler
    /\ {sum, m_time, thread.got} \subseteq [lo : 0..Word - 1, hi : 0..Word - 1]
    /\ ticks \in 0..MaxTicks
    /\ thread.pc \in {"idle", "start", "poll", "done"}

\* No overflow is lost and none is counted twice, wherever in the handler the
\* next one comes: once the handler has run, m_time is their number.
TicksCounted == isr = "none" /\ ~OVF_IT_FLAG => Value(m_time) = ticks

\* get_ms() gives a value the clock had while it was read.  Only a build that
\* loads or stores the words one by one may give another, and only when the
\* high word changes meanwhile, once in 2^32 ms.
TimeIsRead ==
    /\ isr = "none" /\ Loaded =>
          \/ Value(thread.got) \in thread.from..Value(m_time)
          \/ access # "both" /\ thread.from \div Word # m_time.hi
    /\ \/ isr = "none"
       \/ Value(m_time) \in ticks - 2..ticks
       \/ access # "both" /\ sum.lo = 0

\* In the first 2^32 ms delay_ms() returns after no fewer ticks than asked, even
\* with a torn read.
DelayWaits ==
    thread.pc = "done" /\ thread.begin + thread.ms < Word /\ isr = "none" =>
        Value(m_time) - thread.begin >= thread.ms

\* delay_ms() returns.
DelayReturns == thread.pc \in {"start", "poll"} ~> thread.pc = "done"
=============================================================================
