---------------------------- MODULE TimerProofs ----------------------------
(***************************************************************************)
(* Proofs about the timers.                                                *)
(*                                                                         *)
(* SysTimer, for words of any size, 2^32 included: CountInv accounts for   *)
(* every overflow, which is in m_time, or latched in the flag, or on its   *)
(* way between IRQ_clear() and the last store of the handler.              *)
(*                                                                         *)
(* HwTimer, for counters of any width and any number of calls: TimerInv    *)
(* says, before each access of each method, what the registers will be     *)
(* once the writes on their way have landed.                               *)
(***************************************************************************)
EXTENDS HwTimer, SysTimer, TLAPS

-----------------------------------------------------------------------------
(* The tick: SysTimer. *)

Time == [lo : 0..Word - 1, hi : 0..Word - 1]

Elements == {"both", "lo", "hi"}
Storing  == isr \in Elements
\* One of two stores has been made.
Second   == Storing /\ isr # First
Counted  == isr \in {"enable", "unmask", "none"}

ClockTypes ==
    /\ access \in {"both", "lowFirst", "highFirst"} \intersect Accesses
    /\ OVF_IT_FLAG \in BOOLEAN /\ OVF_EN_FLAG \in BOOLEAN /\ masked \in BOOLEAN /\ due \in BOOLEAN
    /\ isr \in {"none", "disable", "clear", "add", "both", "lo", "hi", "enable", "unmask"}
    /\ isr = "both" => access = "both"
    /\ isr \in {"lo", "hi"} => access # "both"
    /\ sum \in Time /\ m_time \in Time
    /\ ticks \in 0..MaxTicks
    /\ thread \in [pc : {"idle", "start", "poll", "done"}, todo : Elements \union {"none"}, got : Time,
                   from : Int, ms : Int, start : Int, begin : Int]

\* The overflows that IRQ_clear() has taken from the flag.
Taken == IF OVF_IT_FLAG THEN ticks - 1 ELSE ticks

CountInv ==
    /\ due = OVF_IT_FLAG
    /\ isr \in {"disable", "clear"} => OVF_IT_FLAG /\ Value(m_time) = Taken
    /\ isr = "add" => Value(m_time) + 1 = Taken
    /\ Storing => Value(sum) = Taken
    /\ Storing /\ ~Second => Value(m_time) + 1 = Taken
    /\ Second /\ isr = "hi" => m_time.lo = sum.lo
    /\ Second /\ isr = "lo" => m_time.hi = sum.hi
    /\ Counted => Value(m_time) = Taken

ClockInv == ClockTypes /\ CountInv

\* The increments completed.
Now == IF isr = "add" \/ Storing THEN Taken - 1 ELSE Taken

\* While the words are stored, and the high one stays as it is.
CarryInv ==
    Storing /\ sum.lo # 0 =>
        /\ m_time.hi = sum.hi
        /\ \/ Second /\ isr = "hi"
           \/ m_time.lo = sum.lo - 1

\* The high word has not changed since the time was n.
Same(n) == n \div Word = Now \div Word

\* What the thread holds of a value it has loaded, or is loading word by word.
ReadInv ==
    IF thread.pc \in {"idle", "done"} THEN thread.todo = "none"
    ELSE
        /\ thread.from \in 0..Now
        /\ thread.todo = "both" => access = "both"
        /\ thread.todo \in {"lo", "hi"} => access # "both"
        /\ thread.todo = "none" /\ (access = "both" \/ Same(thread.from)) => Value(thread.got) \in thread.from..Now
        /\ thread.todo = "hi" /\ access = "lowFirst" /\ Same(thread.from) =>
              thread.got.lo \in thread.from % Word..Now % Word
        /\ thread.todo = "lo" /\ access = "highFirst" /\ Same(thread.from) => thread.got.hi = Now \div Word

\* Before 2^32 ms the start of a delay is not older than the call.
DelayInv ==
    /\ thread.pc \in {"start", "poll"} => thread.begin \in 0..thread.from /\ thread.ms \in 1..Word - 1
    /\ thread.pc = "poll" => thread.start \in 0..Word - 1
    /\ thread.pc = "poll" /\ Now < Word => thread.start \in thread.begin..thread.from
    /\ thread.pc = "done" /\ thread.begin + thread.ms < Word => Now - thread.begin >= thread.ms

-----------------------------------------------------------------------------
(* Words. *)

\* A new value of the clock is one more, below what 64 bits hold.
LEMMA Plus1IsNext ==
    ASSUME NEW t \in Time, Value(t) < MaxTicks
    PROVE  Plus1(t) \in Time /\ Value(Plus1(t)) = Value(t) + 1
<1>1. CASE t.lo < Word - 1
  BY <1>1, WordAssumption DEF Plus1, Value, Time
<1>2. CASE t.lo >= Word - 1
  <2>1. t.lo = Word - 1
    BY <1>2, WordAssumption DEF Time
  <2>2. Value(t) = t.hi * Word + (Word - 1)
    BY <2>1 DEF Value
  <2>3. t.hi # Word - 1
    BY <2>2, WordAssumption DEF Time, MaxTicks
  <2>4. t.hi + 1 \in 0..Word - 1
    BY <2>3, WordAssumption DEF Time
  <2>5. Plus1(t) = [lo |-> 0, hi |-> t.hi + 1]
    BY <2>1, <2>4, WordAssumption DEF Plus1
  <2>6. (t.hi + 1) * Word = t.hi * Word + Word
    BY WordAssumption DEF Time
  <2> QED
    BY <2>2, <2>4, <2>5, <2>6, WordAssumption DEF Value, Time
<1> QED
  BY <1>1, <1>2, WordAssumption DEF Time

\* A store keeps the two words in range.
LEMMA PutInTime ==
    ASSUME NEW t \in Time, NEW v \in Time, NEW w \in {"both", "lo", "hi"}
    PROVE  Put(t, w, v) \in Time
BY DEF Put, Time

\* After the last store both words are the new ones.
LEMMA StoredIsNew ==
    ASSUME NEW t \in Time, NEW v \in Time
    PROVE  /\ Put(t, "both", v) = v
           /\ t.lo = v.lo => Put(t, "hi", v) = v
           /\ t.hi = v.hi => Put(t, "lo", v) = v
BY DEF Put, Time

LEMMA Words2 ==
    ASSUME NEW h \in Int, NEW l \in 0..Word - 1
    PROVE  (h * Word + l) \div Word = h /\ (h * Word + l) % Word = l
BY WordAssumption, Z3T(30)

LEMMA Quotient ==
    ASSUME NEW n \in Int, NEW q \in Int, NEW r \in Int, q = n \div Word, r = n % Word
    PROVE  n = q * Word + r /\ r \in 0..Word - 1
<1>1. n = Word * q + r
  BY WordAssumption, Z3T(30)
<1>2. r \in 0..Word - 1
  BY WordAssumption, Z3T(30)
<1> QED
  BY <1>1, <1>2, WordAssumption

LEMMA Division ==
    ASSUME NEW n \in Int
    PROVE  n \div Word \in Int /\ n % Word \in 0..Word - 1
BY WordAssumption, Z3T(30)

LEMMA Small ==
    ASSUME NEW n \in 0..Word - 1
    PROVE  n \div Word = 0 /\ n % Word = n
BY WordAssumption, Z3T(30)

LEMMA SmallSquare ==
    ASSUME NEW n \in 0..MaxTicks
    PROVE  n % (Word * Word) = n
BY WordAssumption, Z3T(30) DEF MaxTicks

LEMMA Monotone ==
    ASSUME NEW m \in Int, NEW n \in Int, m <= n
    PROVE  m \div Word <= n \div Word
BY WordAssumption, Z3T(30)

\* Two values with the same high word are ordered as their low words.
LEMMA SameHigh ==
    ASSUME NEW m \in Int, NEW n \in Int, m \div Word = n \div Word
    PROVE  m <= n <=> m % Word <= n % Word
<1> DEFINE q == n \div Word
           r == n % Word
           s == m % Word
<1>1. q \in Int /\ r \in Int /\ s \in Int
  BY Division
<1>2. q = n \div Word /\ q = m \div Word /\ r = n % Word /\ s = m % Word
  OBVIOUS
<1> HIDE DEF q, r, s
<1>3. n = q * Word + r /\ m = q * Word + s
  BY <1>1, <1>2, Quotient
<1>4. q * Word \in Int
  BY <1>1, WordAssumption
<1>5. m <= n <=> s <= r
  BY <1>1, <1>3, <1>4
<1> QED
  BY <1>2, <1>5

LEMMA ValueWords ==
    ASSUME NEW t \in Time
    PROVE  /\ Value(t) \in 0..MaxTicks /\ Value(t) \div Word = t.hi /\ Value(t) % Word = t.lo
<1>1. t.hi \in 0..Word - 1 /\ t.lo \in 0..Word - 1
  BY DEF Time
<1>2. t.hi * Word <= (Word - 1) * Word /\ 0 <= t.hi * Word /\ t.hi * Word \in Int
  BY <1>1, WordAssumption
<1>3. (Word - 1) * Word = Word * Word - Word /\ Word * Word \in Int
  BY WordAssumption
<1>4. Value(t) \in 0..MaxTicks
  BY <1>1, <1>2, <1>3, WordAssumption DEF Value, MaxTicks
<1> QED
  BY <1>1, <1>4, Words2 DEF Value

LEMMA ValueIsInt == \A t \in Time : Value(t) \in Int
BY WordAssumption DEF Value, Time

-----------------------------------------------------------------------------
(* The invariant. *)

LEMMA ClockInit == SInit => ClockInv
<1> SUFFICES ASSUME SInit PROVE ClockInv
  OBVIOUS
<1>1. 0 \in 0..Word - 1 /\ 0 * Word + 0 = 0
  BY WordAssumption
<1>2. 0 \in 0..MaxTicks
  BY WordAssumption DEF MaxTicks
<1>3. Zero \in Time /\ Value(Zero) = 0
  BY <1>1, WordAssumption DEF Zero, Time, Value
<1>4. thread = [pc |-> "idle", todo |-> "none", got |-> Zero, from |-> 0, ms |-> 0, start |-> 0, begin |-> 0]
  BY DEF SInit, Thread
<1>5. thread \in [pc : {"idle", "start", "poll", "done"}, todo : Elements \union {"none"}, got : Time,
                   from : Int, ms : Int, start : Int, begin : Int]
  BY <1>3, <1>4
<1>6. access \in {"both", "lowFirst", "highFirst"} \intersect Accesses
  BY AccessAssumption DEF SInit
<1>7. ClockTypes
  BY <1>2, <1>3, <1>5, <1>6 DEF SInit, ClockTypes
<1>8. CountInv
  BY <1>3 DEF SInit, CountInv, Counted, Storing, Second, Taken, Elements
<1> QED
  BY <1>7, <1>8 DEF ClockInv

LEMMA OverflowInv == ClockInv /\ Overflow => ClockInv'
<1> SUFFICES ASSUME ClockInv, Overflow PROVE ClockInv'
  OBVIOUS
<1>1. ticks + 1 \in 0..MaxTicks
  BY WordAssumption DEF ClockInv, ClockTypes, Overflow, MaxTicks
<1>2. ClockTypes'
  BY <1>1 DEF ClockInv, ClockTypes, Overflow
<1>3. ~OVF_IT_FLAG /\ Taken' = Taken
  BY WordAssumption DEF ClockInv, CountInv, ClockTypes, Overflow, Taken, MaxTicks
<1>4. CountInv'
  BY <1>3 DEF ClockInv, CountInv, ClockTypes, Overflow, Storing, Second, Counted, Value, First
<1> QED
  BY <1>2, <1>4 DEF ClockInv

\* The handler has come to the overflow when it has cleared its flag.
LEMMA DueUntilClear ==
    ASSUME ClockTypes, NEW op, Handle(op)
    PROVE  /\ op = "clear" => due' = FALSE
           /\ op # "clear" => due' = due
<1>1. sys_timer_irqhandler["disable"] = "clear"
  BY DEF sys_timer_irqhandler
<1>2. due' = (due /\ op # "clear") /\ due \in BOOLEAN
  BY <1>1 DEF Handle, ClockTypes
<1> QED
  BY <1>2

LEMMA ClearInv == ClockInv /\ IRQ_clear => ClockInv'
<1> SUFFICES ASSUME ClockInv, IRQ_clear PROVE ClockInv'
  OBVIOUS
<1>1. isr' = "add" /\ isr = "clear" /\ due' = FALSE
  BY DueUntilClear DEF ClockInv, IRQ_clear, Handle, sys_timer_irqhandler
<1>2. ClockTypes'
  BY <1>1 DEF ClockInv, ClockTypes, IRQ_clear
<1>3. Value(m_time) + 1 = ticks
  BY <1>1, ValueIsInt, WordAssumption DEF ClockInv, ClockTypes, CountInv, Taken, MaxTicks
<1>4. CountInv'
  BY <1>1, <1>3 DEF ClockInv, CountInv, IRQ_clear, Storing, Second, Counted, Value, Taken, Elements
<1> QED
  BY <1>2, <1>4 DEF ClockInv

LEMMA IncrementInv == ClockInv /\ Increment => ClockInv'
<1> SUFFICES ASSUME ClockInv, Increment PROVE ClockInv'
  OBVIOUS
<1>0. due' = due
  <2>1. ClockTypes /\ Handle("add")
    BY DEF ClockInv, Increment
  <2>2. "add" # "clear" => due' = due
    BY <2>1, DueUntilClear, Zenon
  <2> QED
    BY <2>2
<1>1. isr' = First /\ isr = "add" /\ First \in Elements
  BY DEF Increment, Handle, sys_timer_irqhandler, First, ClockInv, ClockTypes, Elements
<1>2. Value(m_time) < MaxTicks /\ Value(m_time) + 1 = Taken
  BY <1>1, ValueIsInt, WordAssumption DEF ClockInv, ClockTypes, CountInv, Taken, MaxTicks
<1>3. sum' \in Time /\ Value(sum') = Taken
  BY <1>2, Plus1IsNext DEF Increment, ClockInv, ClockTypes
<1>4. ClockTypes'
  BY <1>0, <1>1, <1>3 DEF ClockInv, ClockTypes, Increment, First
<1>5. CountInv'
  BY <1>0, <1>1, <1>2, <1>3 DEF ClockInv, CountInv, Increment, Storing, Second, Counted, Value, Taken, Elements, First
<1> QED
  BY <1>4, <1>5 DEF ClockInv

LEMMA StoreInv == ClockInv /\ Store => ClockInv'
<1> SUFFICES ASSUME ClockInv, Store PROVE ClockInv'
  OBVIOUS
<1>1. isr \in Elements /\ m_time' = Put(m_time, isr, sum) /\ UNCHANGED <<access, sum, ticks, OVF_IT_FLAG, due, thread>>
  BY DueUntilClear DEF ClockInv, ClockTypes, Store, Handle, Elements
<1>2. isr' = Following(isr, "enable")
  BY DEF Store, Handle, sys_timer_irqhandler, Following, ClockInv, ClockTypes
<1>3. m_time' \in Time
  BY <1>1, PutInTime DEF ClockInv, ClockTypes, Elements
<1>4. ClockTypes'
  BY <1>1, <1>2, <1>3 DEF ClockInv, ClockTypes, Store, Following
<1>5. CASE Following(isr, "enable") = "enable"
  <2>1. m_time' = sum
    BY <1>1, <1>5, StoredIsNew DEF ClockInv, ClockTypes, CountInv, Storing, Second, First, Following, Elements
  <2> QED
    BY <1>1, <1>2, <1>4, <1>5, <2>1 DEF ClockInv, ClockTypes, CountInv, Storing, Second, First, Counted, Taken, Elements, Value
<1>6. CASE Following(isr, "enable") # "enable"
  <2>1. isr = First /\ isr' \in {"lo", "hi"} /\ isr' # First
    BY <1>1, <1>2, <1>6 DEF ClockInv, ClockTypes, First, Following, Elements
  <2>2. isr' = "hi" => m_time'.lo = sum'.lo
    BY <1>1, <2>1 DEF ClockInv, ClockTypes, First, Put, Time, Elements
  <2>3. isr' = "lo" => m_time'.hi = sum'.hi
    BY <1>1, <2>1 DEF ClockInv, ClockTypes, First, Put, Time, Elements
  <2> QED
    BY <1>1, <1>4, <2>1, <2>2, <2>3 DEF ClockInv, ClockTypes, CountInv, Storing, Second, First, Counted, Taken, Elements, Value
<1> QED
  BY <1>5, <1>6

\* The other steps of the handler, and masking, leave the count alone.
LEMMA ControlInv ==
    ASSUME ClockInv, \/ Interrupt \/ IRQ_disable \/ IRQ_enable \/ Unmask
                 \/ sys_interrupt_disable \/ sys_interrupt_enable
    PROVE  ClockInv'
<1> USE DEF ClockInv, ClockTypes, CountInv, Storing, Second, First, Counted, Taken, Elements, Value, Handle, sys_timer_irqhandler
<1>1. CASE Interrupt
  BY <1>1 DEF Interrupt
<1>2. CASE IRQ_disable
  BY <1>2 DEF IRQ_disable
<1>3. CASE IRQ_enable
  BY <1>3 DEF IRQ_enable
<1>4. CASE Unmask
  BY <1>4 DEF Unmask
<1>5. CASE sys_interrupt_disable
  BY <1>5 DEF sys_interrupt_disable, Free
<1>6. CASE sys_interrupt_enable
  BY <1>6 DEF sys_interrupt_enable, Free
<1> QED
  BY <1>1, <1>2, <1>3, <1>4, <1>5, <1>6

LEMMA FirstIsElement == ClockTypes => First \in Elements
BY DEF ClockTypes, First, Elements

\* The thread changes nothing but itself.
LEMMA ThreadInv ==
    ASSUME ClockInv, delay_ms \/ Delaying
    PROVE  ClockInv'
<1> USE DEF ClockInv, ClockTypes
<1>1. UNCHANGED <<access, handling, ticks>>
  BY DEF delay_ms, Delaying, LoadWord, KeepStart, Compare
<1>2. CountInv'
  BY <1>1 DEF CountInv, handling, Storing, Second, First, Counted, Taken, Elements, Value
<1>3. Value(m_time) \in Int
  BY ValueIsInt
<1> DEFINE Threads == [pc : {"idle", "start", "poll", "done"}, todo : Elements \union {"none"}, got : Time,
                       from : Int, ms : Int, start : Int, begin : Int]
<1>4. \A t \in Threads : get_ms(t) \in Threads
  BY <1>3, FirstIsElement DEF get_ms
<1>5. thread' \in Threads
  <2>1. CASE delay_ms
    <3>1. PICK ms \in 1..Word - 1 :
             thread' = get_ms(Thread("start", ms, Value(m_time)))
      BY <2>1 DEF delay_ms
    <3>2. Zero \in Time
      BY WordAssumption DEF Zero, Time
    <3>3. Thread("start", ms, Value(m_time)) \in Threads
      BY <1>3, <3>2, WordAssumption DEF Thread
    <3> QED
      BY <1>4, <3>1, <3>3
  <2>2. CASE LoadWord
    <3>1. thread.todo \in Elements
      BY <2>2 DEF LoadWord
    <3>2. Put(thread.got, thread.todo, m_time) \in Time
      BY <3>1, PutInTime DEF Elements
    <3>3. Following(thread.todo, "none") \in Elements \union {"none"}
      BY DEF Following, Elements
    <3> QED
      BY <2>2, <3>2, <3>3 DEF LoadWord, Load
  <2>3. CASE KeepStart
    <3>1. Start(Value(thread.got)) \in Int
      BY ValueIsInt, WordAssumption DEF Start
    <3>2. [thread EXCEPT !.pc = "poll", !.start = Start(Value(thread.got))] \in Threads
      BY <3>1
    <3> QED
      BY <1>4, <2>3, <3>2 DEF KeepStart
  <2>4. CASE Compare
    BY <1>4, <2>4 DEF Compare
  <2> QED
    BY <2>1, <2>2, <2>3, <2>4 DEF Delaying
<1> QED
  BY <1>1, <1>2, <1>5 DEF handling

LEMMA ClockStep == ClockInv /\ [SNext]_svars => ClockInv'
<1> SUFFICES ASSUME ClockInv, [SNext]_svars PROVE ClockInv'
  OBVIOUS
<1>1. CASE UNCHANGED svars
  BY <1>1 DEF svars, ClockInv, ClockTypes, CountInv, Storing, Second, First, Counted, Taken, Elements, Value
<1> QED
  BY <1>1, OverflowInv, ClearInv, IncrementInv, StoreInv, ControlInv, ThreadInv DEF SNext, Handler

LEMMA ClockInductive == SysTimerSpec => []ClockInv
BY ClockInit, ClockStep, PTL DEF SysTimerSpec

-----------------------------------------------------------------------------
(* What the thread has read. *)

LEMMA NowIsInt == (ClockInv => Now \in Int) /\ (ClockInv' => Now' \in Int)
BY WordAssumption DEF ClockInv, ClockTypes, Now, Taken, MaxTicks

\* When the thread runs, m_time is the present time.
LEMMA ThreadSeesNow ==
    ASSUME ClockInv, isr = "none"
    PROVE  Now = Value(m_time) /\ Now \in 0..MaxTicks /\ Now \div Word = m_time.hi /\ Now % Word = m_time.lo
<1>1. Now = Value(m_time)
  BY DEF ClockInv, ClockTypes, CountInv, Now, Storing, Elements, Counted
<1> QED
  BY <1>1, ValueWords DEF ClockInv, ClockTypes

\* Time does not go back.
LEMMA NowGrows ==
    ASSUME ClockInv, ClockInv', Overflow \/ Handler \/ sys_interrupt_disable \/ sys_interrupt_enable
    PROVE  Now' >= Now /\ UNCHANGED <<access, thread>>
<1> USE DEF Now, Storing, Elements, Handle, sys_timer_irqhandler
<1>0. ticks \in Int /\ (OVF_IT_FLAG \in BOOLEAN) /\ Taken \in Int
  BY WordAssumption DEF ClockInv, ClockTypes, Taken, MaxTicks
<1>1. CASE Overflow
  BY <1>0, <1>1 DEF Overflow, Taken, ClockInv, CountInv
<1>2. CASE Interrupt
  BY <1>0, <1>2 DEF Interrupt, Taken
<1>3. CASE IRQ_disable
  BY <1>0, <1>3 DEF IRQ_disable, Taken
<1>4. CASE IRQ_clear
  BY <1>0, <1>4 DEF IRQ_clear, Taken, ClockInv, CountInv
<1>5. CASE Increment
  BY <1>0, <1>5, FirstIsElement DEF Increment, Taken, ClockInv
<1>6. CASE Store
  BY <1>0, <1>6 DEF Store, Taken, Following
<1>7. CASE IRQ_enable \/ Unmask
  BY <1>0, <1>7 DEF IRQ_enable, Unmask, Taken
<1>8. CASE sys_interrupt_disable \/ sys_interrupt_enable
  BY <1>0, <1>8 DEF sys_interrupt_disable, sys_interrupt_enable, Free, Taken
<1> QED
  BY <1>1, <1>2, <1>3, <1>4, <1>5, <1>6, <1>7, <1>8 DEF Handler

\* What has been read stays good while time goes on.
LEMMA ReadKept ==
    ASSUME ClockInv, ClockInv', ReadInv, DelayInv, Now' >= Now, UNCHANGED <<access, thread>>
    PROVE  ReadInv' /\ DelayInv'
<1>1. Now \in Int /\ Now' \in Int
  BY NowIsInt
<1>2. thread.from \in Int /\ thread.from' = thread.from /\ thread' = thread /\ Value(thread.got) \in Int
      /\ thread.begin \in Int /\ thread.ms \in Int
  BY ValueIsInt DEF ClockInv, ClockTypes
<1>3. thread.from <= Now /\ Same(thread.from)' => Same(thread.from) /\ Now % Word <= Now' % Word
  <2>1. SUFFICES ASSUME thread.from <= Now, thread.from \div Word = Now' \div Word
                 PROVE  thread.from \div Word = Now \div Word /\ Now % Word <= Now' % Word
    BY <1>2 DEF Same
  <2>2. thread.from \div Word <= Now \div Word /\ Now \div Word <= Now' \div Word
    BY <1>1, <1>2, <2>1, Monotone
  <2>3. thread.from \div Word \in Int /\ Now \div Word \in Int
    BY <1>1, <1>2, Division
  <2>4. thread.from \div Word = Now \div Word
    BY <2>1, <2>2, <2>3
  <2> QED
    BY <1>1, <2>1, <2>4, SameHigh
<1>4. Now % Word \in Int /\ Now' % Word \in Int /\ thread.from % Word \in Int
  BY <1>1, <1>2, Division
<1>5. ReadInv'
  <2>1. SUFFICES ASSUME thread.pc \notin {"idle", "done"} PROVE ReadInv'
    BY <1>2 DEF ReadInv
  <2>2. thread.from \in 0..Now /\ thread.from \in 0..Now'
    BY <1>1, <1>2, <2>1 DEF ReadInv
  <2>3. thread.todo = "none" /\ (access = "both" \/ Same(thread.from)') => Value(thread.got) \in thread.from..Now'
    BY <1>1, <1>2, <1>3, <2>1, <2>2 DEF ReadInv
  <2>4. thread.todo = "hi" /\ access = "lowFirst" /\ Same(thread.from)' =>
           thread.got.lo \in thread.from % Word..Now' % Word
    BY <1>1, <1>2, <1>3, <1>4, <2>1, <2>2 DEF ReadInv, ClockInv, ClockTypes, Time
  <2>5. thread.todo = "lo" /\ access = "highFirst" /\ Same(thread.from)' => thread.got.hi = Now' \div Word
    BY <1>1, <1>2, <1>3, <2>1, <2>2 DEF ReadInv, Same
  <2> QED
    BY <1>2, <2>1, <2>2, <2>3, <2>4, <2>5 DEF ReadInv, Value
<1>6. DelayInv'
  BY <1>1, <1>2, WordAssumption DEF DelayInv
<1> QED
  BY <1>5, <1>6

LEMMA CarryStep ==
    ASSUME ClockInv, ClockInv', CarryInv, [SNext]_svars
    PROVE  CarryInv'
<1> USE DEF CarryInv, Storing, Second, First, Elements
<1>1. CASE Increment
  <2>1. isr' = First /\ m_time' = m_time /\ access' = access /\ sum' = Plus1(m_time) /\ m_time \in Time
    BY <1>1 DEF Increment, Handle, sys_timer_irqhandler, ClockInv, ClockTypes
  <2> QED
    BY <2>1, WordAssumption DEF Plus1, Time
<1>2. CASE Store
  <2>1. isr \in Elements /\ m_time' = Put(m_time, isr, sum) /\ UNCHANGED <<access, sum>>
        /\ isr' = Following(isr, "enable")
    BY <1>2 DEF Store, Handle, sys_timer_irqhandler, Following, ClockInv, ClockTypes
  <2>2. CASE isr = First
    <3>1. CASE isr = "both"
      BY <2>1, <3>1 DEF Following
    <3>2. CASE isr = "lo"
      <4>1. m_time'.hi = m_time.hi /\ isr' = "hi" /\ sum' = sum
        BY <2>1, <2>2, <3>2 DEF Put, Following, ClockInv, ClockTypes, Time
      <4>2. access = "lowFirst" /\ access' = "lowFirst"
        BY <2>1, <2>2, <3>2 DEF ClockInv, ClockTypes
      <4>3. sum.lo # 0 => m_time.hi = sum.hi
        BY <2>1, <3>2 DEF ClockInv, ClockTypes, Time
      <4> QED
        BY <4>1, <4>2, <4>3
    <3>3. CASE isr = "hi"
      <4>1. m_time'.hi = sum.hi /\ m_time'.lo = m_time.lo /\ isr' = "lo" /\ sum' = sum
        BY <2>1, <2>2, <3>3 DEF Put, Following, ClockInv, ClockTypes, Time
      <4> QED
        BY <2>1, <2>2, <3>3, <4>1 DEF ClockInv, ClockTypes
    <3> QED
      BY <2>1, <3>1, <3>2, <3>3
  <2>3. CASE isr # First
    BY <2>1, <2>3 DEF Following, ClockInv, ClockTypes
  <2> QED
    BY <2>2, <2>3
<1>3. CASE Interrupt \/ IRQ_disable \/ IRQ_clear \/ IRQ_enable \/ Unmask
  BY <1>3 DEF Interrupt, IRQ_disable, IRQ_clear, IRQ_enable, Unmask, Handle, sys_timer_irqhandler
<1>4. CASE Overflow \/ sys_interrupt_disable \/ sys_interrupt_enable
  BY <1>4 DEF Overflow, sys_interrupt_disable, sys_interrupt_enable
<1>5. CASE delay_ms \/ Delaying \/ UNCHANGED svars
  BY <1>5 DEF delay_ms, Delaying, LoadWord, KeepStart, Compare, handling, svars
<1> QED
  BY <1>1, <1>2, <1>3, <1>4, <1>5 DEF SNext, Handler

\* A step of the thread.
LEMMA ReadStep ==
    ASSUME ClockInv, ClockInv', ReadInv, DelayInv, delay_ms \/ Delaying
    PROVE  ReadInv' /\ DelayInv'
<1>1. UNCHANGED <<access, handling, ticks>> /\ isr = "none"
  BY DEF delay_ms, Delaying, LoadWord, KeepStart, Compare, Free
<1>2. Now' = Now /\ Now = Value(m_time) /\ Now \in 0..MaxTicks
      /\ Now \div Word = m_time.hi /\ Now % Word = m_time.lo /\ m_time \in Time
  BY <1>1, ThreadSeesNow DEF handling, Now, Storing, Elements, Taken, ClockInv, ClockTypes
<1>3. /\ First \in Elements
      /\ First = "both" => access = "both"
      /\ First \in {"lo", "hi"} => access # "both"
      /\ First = "hi" => access # "lowFirst"
      /\ First = "lo" => access # "highFirst"
  BY FirstIsElement DEF First, ClockInv, ClockTypes
<1>4. thread \in [pc : {"idle", "start", "poll", "done"}, todo : Elements \union {"none"}, got : Time,
                 from : Int, ms : Int, start : Int, begin : Int]
  BY DEF ClockInv, ClockTypes
<1>5. MaxTicks \in Nat /\ Now \in Int /\ Word \in Int
  BY <1>2, WordAssumption DEF MaxTicks
<1>10. access' = access /\ First # "none"
  <2>1. access' = access
    BY DEF delay_ms, Delaying, LoadWord, KeepStart, Compare
  <2>2. First # "none"
    BY <1>3 DEF Elements
  <2> QED
    BY <2>1, <2>2
<1>11. Now \in 0..Now'
  <2>1. Now' = Now
    BY <1>2
  <2>2. Now \in Int /\ 0 <= Now
    BY <1>2, <1>5
  <2>3. Now \in 0..Now
    BY <2>2
  <2> QED
    BY <2>1, <2>3
<1>6. CASE delay_ms
  <2>1. PICK ms \in 1..Word - 1 : thread' = get_ms(Thread("start", ms, Value(m_time)))
    BY <1>6 DEF delay_ms
  <2>2. /\ thread'.pc = "start" /\ thread'.todo = First /\ thread'.from = Now
        /\ thread'.ms = ms /\ thread'.begin = Now
    BY <1>2, <2>1 DEF get_ms, Thread
  <2>3. First # "none" /\ access' = access /\ thread'.from \in 0..Now'
    BY <1>10, <1>11, <2>2
  <2>4. ReadInv'
    BY <1>3, <2>2, <2>3 DEF ReadInv, ClockInv, ClockTypes
  <2>5. DelayInv'
    BY <1>2, <1>5, <2>2 DEF DelayInv
  <2> QED
    BY <2>4, <2>5
<1>7. CASE LoadWord
  <2>1. /\ thread.todo \in Elements /\ thread.pc \in {"start", "poll"}
        /\ thread' = [thread EXCEPT !.got = Put(@, thread.todo, m_time), !.todo = Following(@, "none")]
    BY <1>4, <1>7 DEF LoadWord, Load, ReadInv
  <2>2. /\ thread'.got = Put(thread.got, thread.todo, m_time) /\ thread'.todo = Following(thread.todo, "none")
        /\ thread'.pc = thread.pc /\ thread'.from = thread.from /\ thread'.ms = thread.ms
        /\ thread'.start = thread.start /\ thread'.begin = thread.begin
    BY <1>4, <2>1
  <2>3. DelayInv'
    BY <1>2, <2>1, <2>2 DEF DelayInv
  <2>4. thread.from \in 0..Now /\ thread.from \in Int
    BY <1>4, <2>1 DEF ReadInv
  <2>5. CASE access = "both"
    <3>1. thread.todo = "both" /\ thread'.todo = "none"
      BY <2>1, <2>2, <2>5 DEF ReadInv, Elements, Following
    <3>2. thread'.got = m_time
      BY <2>2, <3>1 DEF Put
    <3>3. Value(thread'.got) = Now
      BY <1>2, <3>2
    <3> QED
      BY <1>1, <1>2, <2>1, <2>2, <2>3, <2>4, <3>1, <3>3 DEF ReadInv, Value
  <2>6. CASE access = "lowFirst"
    <3>1. CASE thread.todo = "lo"
      <4>1. thread'.todo = "hi" /\ thread'.got.lo = m_time.lo
        BY <1>2, <1>4, <2>2, <2>6, <3>1 DEF Following, Put, Time
      <4>2. Same(thread.from) => Now % Word \in thread.from % Word..Now % Word
        <5>1. thread.from <= Now /\ Now % Word \in Int /\ thread.from % Word \in Int
          BY <1>5, <2>4, Division
        <5> QED
          BY <1>5, <2>4, <5>1, SameHigh DEF Same
      <4> QED
        BY <1>1, <1>2, <2>1, <2>2, <2>3, <2>4, <2>6, <4>1, <4>2 DEF ReadInv, Same
    <3>2. CASE thread.todo = "hi"
      <4>1. thread'.todo = "none" /\ thread'.got.hi = m_time.hi /\ thread'.got.lo = thread.got.lo
            /\ thread'.got \in Time
        BY <1>2, <1>4, <2>2, <2>6, <3>2 DEF Following, Put, Time
      <4>2. Same(thread.from) => Value(thread'.got) \in thread.from..Now
        <5>1. SUFFICES ASSUME Same(thread.from) PROVE Value(thread'.got) \in thread.from..Now
          OBVIOUS
        <5>2. thread'.got.lo \in thread.from % Word..Now % Word
          BY <2>1, <2>6, <3>2, <4>1, <5>1 DEF ReadInv
        <5>3. Value(thread'.got) \div Word = Now \div Word /\ Value(thread'.got) % Word = thread'.got.lo
              /\ Value(thread'.got) \in Int
          BY <1>2, <4>1, ValueWords, ValueIsInt
        <5>4. thread.from % Word \in Int /\ Now % Word \in Int
          BY <1>5, <2>4, Division
        <5>5. thread.from <= Value(thread'.got)
          BY <2>4, <5>1, <5>2, <5>3, <5>4, SameHigh DEF Same
        <5>6. Value(thread'.got) <= Now
          BY <1>5, <5>2, <5>3, <5>4, SameHigh
        <5> QED
          BY <1>5, <2>4, <5>3, <5>5, <5>6
      <4> QED
        BY <1>1, <1>2, <2>1, <2>2, <2>3, <2>4, <2>6, <4>1, <4>2 DEF ReadInv, Same, Value
    <3> QED
      BY <2>1, <2>6, <3>1, <3>2 DEF ReadInv, Elements
  <2>7. CASE access = "highFirst"
    <3>1. CASE thread.todo = "hi"
      <4>1. thread'.todo = "lo" /\ thread'.got.hi = m_time.hi
        BY <1>2, <1>4, <2>2, <2>7, <3>1 DEF Following, Put, Time
      <4> QED
        BY <1>1, <1>2, <2>1, <2>2, <2>3, <2>4, <2>7, <4>1 DEF ReadInv, Same
    <3>2. CASE thread.todo = "lo"
      <4>1. thread'.todo = "none" /\ thread'.got.lo = m_time.lo /\ thread'.got.hi = thread.got.hi
            /\ thread'.got \in Time
        BY <1>2, <1>4, <2>2, <2>7, <3>2 DEF Following, Put, Time
      <4>2. Same(thread.from) => Value(thread'.got) = Now
        BY <1>2, <2>1, <2>7, <3>2, <4>1 DEF ReadInv, Value
      <4> QED
        BY <1>1, <1>2, <1>5, <2>1, <2>2, <2>3, <2>4, <2>7, <4>1, <4>2 DEF ReadInv, Same, Value
    <3> QED
      BY <2>1, <2>7, <3>1, <3>2 DEF ReadInv, Elements
  <2> QED
    BY <2>5, <2>6, <2>7 DEF ClockInv, ClockTypes
<1>8. CASE KeepStart
  <2>1. thread.pc = "start" /\ thread.todo = "none" /\ thread.from \in 0..Now
    BY <1>8 DEF KeepStart, Loaded, ReadInv
  <2>2. /\ thread'.pc = "poll" /\ thread'.todo = First /\ thread'.from = Now /\ thread'.ms = thread.ms
        /\ thread'.start = Value(thread.got) % Word /\ thread'.begin = thread.begin
    BY <1>2, <1>4, <1>8 DEF KeepStart, get_ms, Start
  <2>3. First # "none" /\ access' = access /\ thread'.from \in 0..Now'
    BY <1>10, <1>11, <2>2
  <2>4. ReadInv'
    BY <1>3, <2>2, <2>3 DEF ReadInv, ClockInv, ClockTypes
  <2>5. thread'.start \in 0..Word - 1
    BY <1>4, <2>2, ValueIsInt, Division
  <2>6. Now < Word => thread'.start \in thread.from..Now
    <3>1. SUFFICES ASSUME Now < Word PROVE thread'.start \in thread.from..Now
      OBVIOUS
    <3>2. Now \div Word = 0 /\ thread.from \div Word = 0
      BY <1>2, <1>5, <2>1, <3>1, Small
    <3>3. Value(thread.got) \in thread.from..Now
      BY <2>1, <3>2 DEF ReadInv, Same
    <3>4. Value(thread.got) % Word = Value(thread.got)
      BY <1>2, <1>5, <2>1, <3>1, <3>3, Small
    <3> QED
      BY <2>2, <3>3, <3>4
  <2>7. DelayInv'
    BY <1>2, <1>4, <1>5, <2>1, <2>2, <2>5, <2>6 DEF DelayInv
  <2> QED
    BY <2>4, <2>7
<1>9. CASE Compare
  <2>1. thread.pc = "poll" /\ thread.todo = "none" /\ thread.from \in 0..Now
    BY <1>9 DEF Compare, Loaded, ReadInv
  <2> DEFINE d == (Value(thread.got) - thread.start) % (Word * Word)
  <2>2. CASE d < thread.ms
    <3>1. /\ thread'.pc = "poll" /\ thread'.todo = First /\ thread'.from = Now /\ thread'.ms = thread.ms
          /\ thread'.start = thread.start /\ thread'.begin = thread.begin
      BY <1>2, <1>4, <1>9, <2>1, <2>2 DEF Compare, get_ms
    <3>2. First # "none" /\ access' = access /\ thread'.from \in 0..Now'
      BY <1>10, <1>11, <3>1
    <3>3. ReadInv'
      BY <1>3, <3>1, <3>2 DEF ReadInv, ClockInv, ClockTypes
    <3>4. DelayInv'
      BY <1>2, <1>4, <1>5, <2>1, <3>1 DEF DelayInv
    <3> QED
      BY <3>3, <3>4
  <2>3. CASE ~(d < thread.ms)
    <3>1. /\ thread'.pc = "done" /\ thread'.todo = "none" /\ thread'.ms = thread.ms /\ thread'.begin = thread.begin
      BY <1>4, <1>9, <2>1, <2>3 DEF Compare
    <3>2. Now < Word => Now - thread.begin >= thread.ms
      <4>1. SUFFICES ASSUME Now < Word PROVE Now - thread.begin >= thread.ms
        OBVIOUS
      <4>2. Now \div Word = 0 /\ thread.from \div Word = 0
        BY <1>2, <1>5, <2>1, <4>1, Small
      <4>3. Value(thread.got) \in thread.from..Now
        BY <2>1, <4>2 DEF ReadInv, Same
      <4>4. thread.start \in thread.begin..thread.from /\ thread.begin \in 0..thread.from /\ thread.ms \in 1..Word - 1
        BY <2>1, <4>1 DEF DelayInv
      <4>5. Value(thread.got) - thread.start \in 0..MaxTicks
        BY <1>2, <1>5, <2>1, <4>3, <4>4
      <4>6. d = Value(thread.got) - thread.start
        BY <4>5, SmallSquare
      <4> QED
        BY <1>2, <1>5, <2>1, <2>3, <4>3, <4>4, <4>6
    <3>3. DelayInv'
      BY <1>2, <1>4, <1>5, <2>1, <3>1, <3>2 DEF DelayInv
    <3> QED
      BY <3>1, <3>3 DEF ReadInv
  <2> QED
    BY <2>2, <2>3
<1> QED
  BY <1>6, <1>7, <1>8, <1>9 DEF Delaying

-----------------------------------------------------------------------------
(* The properties. *)

\* Every variable keeps its type, and the two words stay words.
THEOREM ClockTypeCorrect == SysTimerSpec => []STypeOK
<1>1. ClockInv => STypeOK
  BY DEF ClockInv, ClockTypes, STypeOK, Time, sys_timer_irqhandler
<1> QED
  BY <1>1, ClockInductive, PTL

\* No overflow is lost or counted twice, for words of any size.
THEOREM TicksAreCounted == SysTimerSpec => []TicksCounted
<1>1. ClockInv => TicksCounted
  BY DEF ClockInv, CountInv, TicksCounted, Counted, Taken
<1> QED
  BY <1>1, ClockInductive, PTL

LEMMA AllStep == ClockInv /\ CarryInv /\ ReadInv /\ DelayInv /\ [SNext]_svars
                 => ClockInv' /\ CarryInv' /\ ReadInv' /\ DelayInv'
<1> SUFFICES ASSUME ClockInv, CarryInv, ReadInv, DelayInv, [SNext]_svars
             PROVE  ClockInv' /\ CarryInv' /\ ReadInv' /\ DelayInv'
  OBVIOUS
<1>1. ClockInv'
  BY ClockStep
<1>2. CarryInv'
  BY <1>1, CarryStep
<1>3. CASE Overflow \/ Handler \/ sys_interrupt_disable \/ sys_interrupt_enable
  BY <1>1, <1>2, <1>3, NowGrows, ReadKept
<1>4. CASE delay_ms \/ Delaying
  BY <1>1, <1>2, <1>4, ReadStep
<1>5. CASE UNCHANGED svars
  <2>1. Now' = Now /\ UNCHANGED <<access, thread>>
    BY <1>5 DEF svars, Now, Storing, Taken
  <2> QED
    BY <1>1, <1>2, <2>1, NowIsInt, ReadKept
<1> QED
  BY <1>3, <1>4, <1>5 DEF SNext

LEMMA AllInductive == SysTimerSpec => [](ClockInv /\ CarryInv /\ ReadInv /\ DelayInv)
<1>1. SInit => CarryInv /\ ReadInv /\ DelayInv
  BY DEF SInit, Thread, CarryInv, ReadInv, DelayInv, Storing, Elements
<1> QED
  BY <1>1, ClockInit, AllStep, PTL DEF SysTimerSpec

\* The clock that is read is the clock, unless the build loads or stores it word
\* by word and the high word changes.
THEOREM TimeIsReadRight == SysTimerSpec => []TimeIsRead
<1>1. ClockInv /\ CarryInv /\ ReadInv => TimeIsRead
  <2> SUFFICES ASSUME ClockInv, CarryInv, ReadInv PROVE TimeIsRead
    OBVIOUS
  <2>1. ASSUME isr = "none", Loaded
        PROVE  \/ Value(thread.got) \in thread.from..Value(m_time)
               \/ access # "both" /\ thread.from \div Word # m_time.hi
    BY <2>1, ThreadSeesNow DEF ReadInv, Loaded, Same
  <2>2. ASSUME isr # "none"
        PROVE  \/ Value(m_time) \in ticks - 2..ticks
               \/ access # "both" /\ sum.lo = 0
    <3>1. Value(m_time) \in Int /\ Value(sum) \in Int /\ ticks \in Int /\ Taken \in {ticks - 1, ticks}
          /\ m_time \in Time /\ sum \in Time
      BY ValueIsInt, WordAssumption DEF ClockInv, ClockTypes, Taken, MaxTicks
    <3>2. CASE ~Second
      BY <2>2, <3>1, <3>2 DEF ClockInv, ClockTypes, CountInv, Storing, Elements, Counted
    <3>3. CASE Second /\ sum.lo # 0
      <4>1. access # "both"
        BY <3>3 DEF Second, Storing, Elements, First, ClockInv, ClockTypes
      <4>2. m_time.hi = sum.hi /\ m_time.lo \in {sum.lo, sum.lo - 1}
        BY <3>3, <3>1 DEF CarryInv, Second, ClockInv, CountInv
      <4>3. sum.hi * Word \in Int /\ sum.lo \in Int
        BY <3>1, WordAssumption DEF Time
      <4>4. Value(m_time) \in {Value(sum), Value(sum) - 1}
        BY <4>2, <4>3 DEF Value
      <4>5. Value(sum) = Taken
        BY <3>3 DEF Second, ClockInv, CountInv
      <4> QED
        BY <3>1, <4>4, <4>5
    <3>4. CASE Second /\ sum.lo = 0
      BY <3>4 DEF Second, Storing, Elements, First, ClockInv, ClockTypes
    <3> QED
      BY <3>2, <3>3, <3>4
  <2> QED
    BY <2>1, <2>2 DEF TimeIsRead
<1> QED
  BY <1>1, AllInductive, PTL

\* A delay that ends within the first 2^32 ms lasts as many ticks as asked.
THEOREM DelayIsLong == SysTimerSpec => []DelayWaits
<1>1. ClockInv /\ DelayInv => DelayWaits
  BY ThreadSeesNow DEF DelayInv, DelayWaits
<1> QED
  BY <1>1, AllInductive, PTL

-----------------------------------------------------------------------------
(* The configuration: HwTimer. *)

\* The registers, and what may be on its way to them.
WordRegs  == {"TCRR", "TLDR", "TMAR", "TTGR"}
Regs   == [TCLR : SUBSET Bits, TCRR : Count, TLDR : Count, TMAR : Count, TTGR : {0}, TIER : BOOLEAN]
Writes == [reg : {"TCLR"}, val : SUBSET Bits] \union [reg : WordRegs \ {"TTGR"}, val : Count] \union [reg : {"TTGR"}, val : {0}]

Asking == [mode : Modes, scale : SUBSET {"PRE", "PTV"}, gpo : SUBSET {"GPO"}, reload : Count,
           compare : Count, irq : BOOLEAN, counter : Count, running : BOOLEAN,
           known : SUBSET Values, early : SUBSET Values]

\* The counter is as asked.
Fresh == "TCRR" \in asked.known

\* Type correctness; without posted writes nothing is ever on its way.
TimerTypes ==
    /\ POSTED \in BOOLEAN /\ reg \in Regs /\ m_context \in Regs
    /\ pend \subseteq Writes /\ (~POSTED => pend = {})
    /\ asked \in Asking /\ (Fresh => ~asked.running)
    /\ ~POSTED => {"TLDR", "TMAR"} \subseteq asked.known /\ asked.early = {}
    /\ power \in {"on", "saved", "off"}

\* What a register can end up with: the writes on their way, if there are any.
Final(r) == IF Pending(r) THEN {w.val : w \in {x \in pend : x.reg = r}} ELSE {reg[r]}

Ends(r, v) == \A x \in Final(r) : x = v

\* The bits of TCLR the calls have asked for.
Asked == asked.mode \union asked.scale \union asked.gpo

\* All values in V have the bits asked for, but for those in free, which the rest
\* of the method determines.
Kept(V, free) == \A v \in V :
    /\ \A b \in {"CE", "PRE", "GPO"} \ free : b \in v <=> b \in Asked
    /\ "AR" \in asked.mode \ free => "AR" \in v
    /\ ~POSTED => \A b \in {"AR", "PTV"} \ free : (b \in v <=> b \in Asked)

\* ST is set in no value of V while the timer is not to run; it is set in all
\* while it is to run and reloads itself.
Stopped(V) == ~asked.running => \A v \in V : "ST" \notin v
Going(V)   == asked.running /\ "AR" \in asked.mode => \A v \in V : "ST" \in v
\* No value of V has any of bits.
Off(V, bits) == \A v \in V : v \intersect bits = {}

\* TLDR, TMAR and TIER end up as asked, where that is certain.
LoadEnds  == "TLDR" \in asked.known => Ends("TLDR", asked.reload)
MatchEnds == "TMAR" \in asked.known => Ends("TMAR", asked.compare)
Limits    == LoadEnds /\ MatchEnds /\ reg.TIER = asked.irq

\* The counter ends up as asked: by what a trigger loads or by a write to TCRR.
CounterEnds == IF Pending("TTGR") THEN ~Pending("TCRR") /\ ~Pending("TLDR") /\ reg.TLDR = asked.counter
          ELSE Ends("TCRR", asked.counter)

\* The counter is or will be what was asked, and nothing counts.
Counter == Fresh => CounterEnds /\ Off(Readable("TCLR"), {"ST"})

\* The values TCLR may end up with.
TCLR == Final("TCLR")

\* Everything ends up as asked, once what is on its way has landed.
Steady == Limits /\ Counter /\ Kept(TCLR, {}) /\ Stopped(TCLR) /\ Going(TCLR)

\* context_save() has stored what was asked, if it was there to be read.
InTime(q) == q \in asked.known \ asked.early
ContextLoad    == InTime("TLDR") => m_context.TLDR = asked.reload
ContextMatch   == InTime("TMAR") => m_context.TMAR = asked.compare
ContextLimits  == ContextLoad /\ ContextMatch /\ m_context.TIER = asked.irq
ContextCounter == InTime("TCRR") => m_context.TCRR = asked.counter
ContextBits == LET V == {m_context.TCLR} IN Kept(V, {}) /\ Stopped(V) /\ Going(V)
ContextOk == ContextLimits /\ ContextCounter /\ ContextBits

\* Between methods.
AtRest ==
    /\ todo = <<>>
    /\ power # "off" => Steady
    /\ power = "saved" => ContextOk
    /\ power = "off" => reg = Cleared /\ ContextOk /\ pend = {}

\* For every method: what holds before each of its accesses.
Enabling ==
    /\ asked.running /\ power = "on" /\ Limits /\ Kept(TCLR, {})
    /\ \/ todo = <<Wait("TCLR"), Set({"ST"})>>
       \/ todo = <<Set({"ST"})>> /\ ~Pending("TCLR")

Disabling ==
    /\ ~asked.running /\ power = "on" /\ Limits /\ Counter /\ Kept(TCLR, {})
    /\ \/ todo = <<Wait("TCLR"), Reset({"ST"})>>
       \/ todo = <<Reset({"ST"})>> /\ ~Pending("TCLR")

Configuring == ~asked.running /\ power = "on" /\ Stopped(TCLR)

\* The second of two resets in a row may bring AR back, but not if nothing is posted.
AfterAR(V) == ~POSTED => Off(V, {"AR"})

ModeConfiguring ==
    LET m == asked.mode IN
    /\ Configuring /\ Limits /\ Counter /\ Kept(TCLR, ModeBits)
    /\ \/ todo = mode_configure(m)
       \/ todo = <<Reset({"AR"}), Reset({"CE"}), Wait("TCLR"), Set(m)>> /\ ~Pending("TCLR")
       \/ /\ todo = <<Reset({"CE"}), Wait("TCLR"), Set(m)>>
          /\ Kept(Readable("TCLR"), ModeBits) /\ Stopped(Readable("TCLR")) /\ AfterAR(TCLR)
       \/ todo = <<Wait("TCLR"), Set(m)>> /\ Off(TCLR, {"CE"}) /\ AfterAR(TCLR)
       \/ todo = <<Set(m)>> /\ Off(TCLR, {"CE"}) /\ AfterAR(TCLR) /\ ~Pending("TCLR")

Scaling ==
    LET ptv == asked.scale \ {"PRE"} IN
    /\ Configuring /\ Limits /\ Counter /\ "PRE" \in asked.scale /\ Kept(TCLR, {"PRE", "PTV"})
    /\ \/ todo = prescaler_clk_enable(ptv)
       \/ todo = <<Reset({"PTV"}), Wait("TCLR"), Set(ptv), Set({"PRE"})>> /\ ~Pending("TCLR")
       \/ todo = <<Wait("TCLR"), Set(ptv), Set({"PRE"})>> /\ Off(TCLR, {"PTV"})
       \/ todo = <<Set(ptv), Set({"PRE"})>> /\ Off(TCLR, {"PTV"}) /\ ~Pending("TCLR")
       \/ /\ todo = <<Set({"PRE"})>>
          /\ Kept(Readable("TCLR"), {"PRE", "PTV"}) /\ Stopped(Readable("TCLR")) /\ (~POSTED => Kept(TCLR, {"PRE"}))

Unscaling ==
    /\ Configuring /\ Limits /\ Counter /\ "PRE" \notin asked.scale /\ Kept(TCLR, {"PRE"})
    /\ \/ todo = <<Wait("TCLR"), Reset({"PRE"})>>
       \/ todo = <<Reset({"PRE"})>> /\ ~Pending("TCLR")

GpoConfiguring ==
    LET gpo == asked.gpo IN
    /\ Configuring /\ Limits /\ Counter /\ Kept(TCLR, {"GPO"})
    /\ \/ todo = <<Wait("TCLR"), Reset({"GPO"}), Wait("TCLR"), Set(gpo)>>
       \/ todo = <<Reset({"GPO"}), Wait("TCLR"), Set(gpo)>> /\ ~Pending("TCLR")
       \/ todo = <<Wait("TCLR"), Set(gpo)>> /\ Off(TCLR, {"GPO"})
       \/ todo = <<Set(gpo)>> /\ Off(TCLR, {"GPO"}) /\ ~Pending("TCLR")

\* A method that leaves TCLR alone.
Still == power = "on" /\ Kept(TCLR, {}) /\ Stopped(TCLR) /\ Going(TCLR)

CounterSetting ==
    /\ Still /\ Limits /\ (Fresh => Off(Readable("TCLR"), {"ST"}) /\ ~Pending("TTGR"))
    /\ \/ todo = <<Wait("TCRR"), Assign("TCRR", asked.counter)>>
       \/ todo = <<Assign("TCRR", asked.counter)>>

Triggering ==
    /\ Still /\ Limits
    /\ Fresh => /\ Off(Readable("TCLR"), {"ST"}) /\ ~Pending("TLDR") /\ ~Pending("TCRR")
                /\ reg.TLDR = asked.counter
    /\ \/ todo = <<Wait("TTGR"), Assign("TTGR", 0)>>
       \/ todo = <<Assign("TTGR", 0)>>

ReloadSetting ==
    /\ Still /\ Counter /\ MatchEnds /\ reg.TIER = asked.irq /\ (Fresh => ~Pending("TTGR"))
    /\ \/ todo = <<Wait("TLDR"), Assign("TLDR", asked.reload)>>
       \/ todo = <<Assign("TLDR", asked.reload)>>

CompareSetting ==
    /\ Still /\ Counter /\ LoadEnds /\ reg.TIER = asked.irq
    /\ \/ todo = <<Wait("TMAR"), Assign("TMAR", asked.compare)>>
       \/ todo = <<Assign("TMAR", asked.compare)>>

IrqSetting ==
    /\ Still /\ Counter /\ LoadEnds /\ MatchEnds
    /\ todo = <<Assign("TIER", asked.irq)>>

\* No write on its way comes too late for the context.
NoneLate ==
    /\ InTime("TLDR") => ~Pending("TLDR")
    /\ InTime("TMAR") => ~Pending("TMAR")
    /\ InTime("TCRR") => ~Pending("TTGR")

\* The registers saved so far.
Saving ==
    /\ power = "saved" /\ Steady /\ NoneLate
    /\ \/ todo = context_save
       \/ /\ ContextLoad
          /\ \/ todo = <<Save("TMAR"), Save("TIER"), Wait("TCRR"), Save("TCRR"), Wait("TCLR"), Save("TCLR")>>
             \/ /\ ContextMatch
                /\ \/ todo = <<Save("TIER"), Wait("TCRR"), Save("TCRR"), Wait("TCLR"), Save("TCLR")>>
                   \/ /\ m_context.TIER = asked.irq
                      /\ \/ todo = <<Wait("TCRR"), Save("TCRR"), Wait("TCLR"), Save("TCLR")>>
                         \/ /\ ~Pending("TCRR")
                            /\ \/ todo = <<Save("TCRR"), Wait("TCLR"), Save("TCLR")>>
                               \/ ContextCounter /\ todo = <<Wait("TCLR"), Save("TCLR")>>
                               \/ ContextCounter /\ todo = <<Save("TCLR")>> /\ ~Pending("TCLR")

\* The registers restored so far; TCLR comes last, so nothing counts meanwhile.
Restoring ==
    /\ power = "on" /\ ContextOk /\ ~Pending("TCLR") /\ ~Pending("TTGR") /\ reg.TCLR = {}
    /\ asked.known \intersect asked.early = {}
    /\ \/ todo = context_restore
       \/ todo = <<Restore("TLDR"), Wait("TMAR"), Restore("TMAR"), Restore("TIER"),
                     Wait("TCRR"), Restore("TCRR"), Wait("TCLR"), Restore("TCLR")>>
       \/ /\ LoadEnds
          /\ \/ todo = <<Wait("TMAR"), Restore("TMAR"), Restore("TIER"),
                     Wait("TCRR"), Restore("TCRR"), Wait("TCLR"), Restore("TCLR")>>
             \/ todo = <<Restore("TMAR"), Restore("TIER"),
                     Wait("TCRR"), Restore("TCRR"), Wait("TCLR"), Restore("TCLR")>>
             \/ /\ MatchEnds
                /\ \/ todo = <<Restore("TIER"), Wait("TCRR"), Restore("TCRR"), Wait("TCLR"), Restore("TCLR")>>
                   \/ /\ reg.TIER = asked.irq
                      /\ \/ todo = <<Wait("TCRR"), Restore("TCRR"), Wait("TCLR"), Restore("TCLR")>>
                         \/ todo = <<Restore("TCRR"), Wait("TCLR"), Restore("TCLR")>>
                         \/ /\ Fresh => Ends("TCRR", asked.counter)
                            /\ \/ todo = <<Wait("TCLR"), Restore("TCLR")>>
                               \/ todo = <<Restore("TCLR")>>

\* The inductive invariant: the timer is at rest or in a method.
Situation ==
    \/ AtRest \/ Enabling \/ Disabling \/ ModeConfiguring \/ Scaling \/ Unscaling \/ GpoConfiguring
    \/ CounterSetting \/ Triggering \/ ReloadSetting \/ CompareSetting \/ IrqSetting
    \/ Saving \/ Restoring

TimerInv == TimerTypes /\ Situation

\* Sequences of one and two steps.
LEMMA Tail1 == ASSUME NEW a PROVE Head(<<a>>) = a /\ Tail(<<a>>) = <<>>
OBVIOUS
LEMMA Tail2 == ASSUME NEW a, NEW b PROVE Head(<<a, b>>) = a /\ Tail(<<a, b>>) = <<b>>
OBVIOUS

\* Initially the timer is at rest, and cleared.
LEMMA InitRest == ASSUME TimerAssumption, Init PROVE TimerInv
BY DEF Asking, Values, Fresh, LoadEnds, MatchEnds, TimerAssumption, Init, TimerInv, TimerTypes, Situation, AtRest, Steady, Limits, LoadEnds, MatchEnds, Fresh, Counter, CounterEnds, Kept, Stopped, Going, Off, TCLR, Final, Ends, Readable, Pending, Cleared, Asked, Regs, Writes, WordRegs, Count, Modes, ModeBits, Bits

\* A write that lands is of its register's type.
LEMMA LandTypes == ASSUME TimerTypes, Land PROVE TimerTypes'
BY DEF TimerTypes, Fresh, Land, Landed, Regs, Writes, WordRegs

\* A write that lands narrows what a register may end up with.
LEMMA LandFinal ==
    ASSUME TimerTypes, Land
    PROVE  /\ \A r \in {"TCLR", "TCRR", "TLDR", "TMAR", "TTGR"} : Pending(r)' => Pending(r)
           /\ TCLR' \subseteq TCLR /\ Readable("TCLR")' \subseteq Readable("TCLR")
           /\ Final("TLDR")' \subseteq Final("TLDR") /\ Final("TMAR")' \subseteq Final("TMAR")
           /\ ~Pending("TTGR") => Final("TCRR")' \subseteq Final("TCRR")
           /\ reg'.TIER = reg.TIER
           /\ ~Pending("TLDR") => reg'.TLDR = reg.TLDR
           /\ ~Pending("TCLR") => reg'.TCLR = reg.TCLR
           /\ UNCHANGED <<POSTED, todo, m_is_paused, m_context, asked, power, calls>>
<1> USE DEF Pending, Land, Landed, TimerTypes, Regs, Writes, WordRegs
<1>1. \A r : Pending(r)' => Pending(r)
  OBVIOUS
<1>2. TCLR' \subseteq TCLR
  BY DEF TCLR, Final
<1>3. Readable("TCLR")' \subseteq Readable("TCLR")
  BY DEF Readable
<1>4. Final("TLDR")' \subseteq Final("TLDR") /\ Final("TMAR")' \subseteq Final("TMAR")
  BY DEF Final
<1>5. ~Pending("TTGR") => Final("TCRR")' \subseteq Final("TCRR")
  BY DEF Final
<1> QED BY <1>1, <1>2, <1>3, <1>4, <1>5

\* What is said of final and readable values survives a landing.
LEMMA LandBlocks ==
    ASSUME TimerTypes, Land
    PROVE  /\ \A f : Kept(TCLR, f) => Kept(TCLR, f)'
           /\ \A f : Kept(Readable("TCLR"), f) => Kept(Readable("TCLR"), f)'
           /\ \A f : Off(TCLR, f) => Off(TCLR, f)'
           /\ \A f : Off(Readable("TCLR"), f) => Off(Readable("TCLR"), f)'
           /\ Stopped(TCLR) => Stopped(TCLR)'
           /\ Stopped(Readable("TCLR")) => Stopped(Readable("TCLR"))'
           /\ Going(TCLR) => Going(TCLR)'
           /\ \A v : Ends("TLDR", v) => Ends("TLDR", v)'
           /\ \A v : Ends("TMAR", v) => Ends("TMAR", v)'
           /\ \A v : ~Pending("TTGR") /\ Ends("TCRR", v) => Ends("TCRR", v)'
           /\ (LoadEnds => LoadEnds') /\ (MatchEnds => MatchEnds')
           /\ (Limits => Limits') /\ (Fresh' <=> Fresh)
BY LandFinal DEF Kept, Off, Stopped, Going, Ends, LoadEnds, MatchEnds, Limits, Asked, Fresh

\* So does the counter, a trigger's load included.
LEMMA LandCounter == ASSUME TimerTypes, Land, Counter PROVE Counter'
<1>1. SUFFICES ASSUME Fresh PROVE CounterEnds'
  BY LandFinal, LandBlocks DEF Counter
<1>2. CASE ~Pending("TTGR")
  BY <1>1, <1>2, LandFinal, LandBlocks DEF Counter, CounterEnds
<1>3. CASE Pending("TTGR") /\ Pending("TTGR")'
  BY <1>1, <1>3, LandFinal, LandBlocks DEF Counter, CounterEnds
<1>4. CASE Pending("TTGR") /\ ~Pending("TTGR")'
  BY <1>1, <1>4, LandFinal DEF Counter, CounterEnds, Ends, Final, Pending, Land, Landed, TimerTypes, Regs, Writes, WordRegs
<1> QED BY <1>2, <1>3, <1>4

\* A landing leaves every method where it is.
LEMMA LandSituation == ASSUME TimerTypes, Land, Situation PROVE Situation'
<1> USE LandFinal, LandBlocks, LandCounter
<1>1. CASE AtRest BY <1>1 DEF AtRest, Steady, Situation, ContextOk, ContextLimits, ContextLoad, ContextMatch, ContextCounter, InTime, ContextBits, Kept, Stopped, Going, Asked, Land
<1>2. CASE Enabling BY <1>2 DEF Enabling, Situation
<1>3. CASE Disabling BY <1>3 DEF Disabling, Situation
<1>4. CASE ModeConfiguring BY <1>4 DEF ModeConfiguring, Configuring, AfterAR, Situation
<1>5. CASE Scaling BY <1>5 DEF Scaling, Configuring, Situation
<1>6. CASE Unscaling BY <1>6 DEF Unscaling, Configuring, Situation
<1>7. CASE GpoConfiguring BY <1>7 DEF GpoConfiguring, Configuring, Situation
<1>8. CASE CounterSetting BY <1>8 DEF CounterSetting, Still, Situation
<1>9. CASE Triggering BY <1>9 DEF Triggering, Still, Situation
<1>10. CASE ReloadSetting BY <1>10 DEF ReloadSetting, Still, Situation
<1>11. CASE CompareSetting BY <1>11 DEF CompareSetting, Still, Situation
<1>12. CASE IrqSetting BY <1>12 DEF IrqSetting, Still, Situation
<1>13. CASE Saving BY <1>13 DEF Saving, Steady, NoneLate, InTime, ContextLoad, ContextMatch, ContextCounter, Situation
<1>14. CASE Restoring BY <1>14 DEF Restoring, Situation, ContextOk, ContextLimits, ContextLoad, ContextMatch, ContextCounter, InTime, ContextBits, Kept, Stopped, Going, Asked
<1> QED BY <1>1, <1>2, <1>3, <1>4, <1>5, <1>6, <1>7, <1>8, <1>9, <1>10, <1>11, <1>12, <1>13, <1>14 DEF Situation

\* Counting stays within 0..Top and takes at most ST from TCLR.
LEMMA CountingTypes == ASSUME TimerAssumption, TimerTypes, Counting PROVE TimerTypes'
<1> Top \in Nat
  BY DEF TimerAssumption
<1>1. reg' \in Regs
  <2> reg \in Regs /\ "ST" \in reg.TCLR
    BY DEF TimerTypes, Counting
  <2>1. CASE reg.TCRR < Top /\ reg' = [reg EXCEPT !.TCRR = @ + 1]
    <3> reg.TCRR + 1 \in Count
      BY <2>1 DEF Regs, Count
    <3> QED
      BY <2>1 DEF Regs
  <2>2. CASE reg' = [reg EXCEPT !.TCRR = reg.TLDR]
    BY <2>2 DEF Regs
  <2>3. CASE reg' = [reg EXCEPT !.TCRR = 0, !.TCLR = @ \ {"ST"}]
    <3> 0 \in Count /\ reg.TCLR \ {"ST"} \in SUBSET Bits
      BY DEF Regs, Count
    <3> QED
      BY <2>3 DEF Regs
  <2> QED
    BY <2>1, <2>2, <2>3 DEF Counting
<1> QED
  BY <1>1 DEF TimerTypes, Fresh, Counting

\* A timer that counts has ST set, so nothing fresh is lost, and ST goes only in one shot.
LEMMA CountingBlocks ==
    ASSUME TimerTypes, Counting
    PROVE  /\ UNCHANGED <<POSTED, pend, todo, m_is_paused, m_context, asked, power, calls>>
           /\ \A r : Pending(r)' <=> Pending(r)
           /\ \A f : Kept(TCLR, f) => Kept(TCLR, f)'
           /\ \A f : Kept(Readable("TCLR"), f) => Kept(Readable("TCLR"), f)'
           /\ \A f : Off(TCLR, f) => Off(TCLR, f)'
           /\ Stopped(TCLR) => Stopped(TCLR)'
           /\ Stopped(Readable("TCLR")) => Stopped(Readable("TCLR"))'
           /\ Going(TCLR) /\ Kept(TCLR, {}) => Going(TCLR)'
           /\ \A v : Ends("TLDR", v) => Ends("TLDR", v)'
           /\ \A v : Ends("TMAR", v) => Ends("TMAR", v)'
           /\ (LoadEnds => LoadEnds') /\ (MatchEnds => MatchEnds')
           /\ (Limits => Limits') /\ (Fresh' <=> Fresh)
           /\ reg'.TIER = reg.TIER /\ reg'.TLDR = reg.TLDR
           /\ Counter => ~Fresh /\ Counter'
           /\ ~Off(Readable("TCLR"), {"ST"})
           /\ reg.TCLR # {} /\ reg # Cleared
<1> DEFINE C == reg' = [reg EXCEPT !.TCRR = reg'.TCRR]
           D == "AR" \notin reg.TCLR /\ reg' = [reg EXCEPT !.TCRR = reg'.TCRR, !.TCLR = @ \ {"ST"}]
<1>1. (C \/ D) /\ "ST" \in reg.TCLR /\ UNCHANGED <<POSTED, pend, todo, m_is_paused, m_context, asked, power, calls>>
  BY DEF Counting, TimerTypes, Regs
<1>2. \A r : Pending(r)' <=> Pending(r)
  BY <1>1 DEF Pending
<1>3. /\ reg'.TLDR = reg.TLDR /\ reg'.TMAR = reg.TMAR /\ reg'.TIER = reg.TIER
      /\ reg'.TCLR = reg.TCLR \/ ("AR" \notin reg.TCLR /\ reg'.TCLR = reg.TCLR \ {"ST"})
  BY <1>1 DEF TimerTypes, Regs
<1> HIDE DEF C, D
<1>4. /\ \A v : Ends("TLDR", v) => Ends("TLDR", v)'
      /\ \A v : Ends("TMAR", v) => Ends("TMAR", v)'
      /\ (LoadEnds => LoadEnds') /\ (MatchEnds => MatchEnds')
      /\ (Limits => Limits') /\ (Fresh' <=> Fresh)
  BY <1>1, <1>2, <1>3 DEF Ends, Final, Pending, LoadEnds, MatchEnds, Limits, Fresh
<1>5. ~Off(Readable("TCLR"), {"ST"}) /\ reg.TCLR # {} /\ reg # Cleared
  BY <1>1 DEF Off, Readable, Cleared
<1>6. Counter => ~Fresh /\ Counter'
  BY <1>1, <1>5 DEF Counter, Fresh
<1>7. \A v \in TCLR' : v \in TCLR \/ (v \union {"ST"} \in TCLR /\ "AR" \notin v /\ "ST" \notin v)
  BY <1>1, <1>2, <1>3 DEF TCLR, Final, Pending
<1>8. \A v \in Readable("TCLR")' : v \in Readable("TCLR") \/ (v \union {"ST"} \in Readable("TCLR") /\ "AR" \notin v /\ "ST" \notin v)
  BY <1>1, <1>2, <1>3 DEF Readable, Pending
<1>9. \A f : Kept(TCLR, f) => Kept(TCLR, f)'
  <2> SUFFICES ASSUME NEW f, Kept(TCLR, f), NEW v \in TCLR'
               PROVE  /\ \A b \in {"CE", "PRE", "GPO"} \ f : b \in v <=> b \in Asked
                      /\ "AR" \in asked.mode \ f => "AR" \in v
                      /\ ~POSTED => \A b \in {"AR", "PTV"} \ f : (b \in v <=> b \in Asked)
    BY <1>1 DEF Kept, Asked
  <2>1. PICK u \in TCLR : u = v \/ (u = v \union {"ST"} /\ "AR" \notin v)
    BY <1>7
  <2> QED
    BY <2>1 DEF Kept
<1>10. \A f : Kept(Readable("TCLR"), f) => Kept(Readable("TCLR"), f)'
  <2> SUFFICES ASSUME NEW f, Kept(Readable("TCLR"), f), NEW v \in Readable("TCLR")'
               PROVE  /\ \A b \in {"CE", "PRE", "GPO"} \ f : b \in v <=> b \in Asked
                      /\ "AR" \in asked.mode \ f => "AR" \in v
                      /\ ~POSTED => \A b \in {"AR", "PTV"} \ f : (b \in v <=> b \in Asked)
    BY <1>1 DEF Kept, Asked
  <2>1. PICK u \in Readable("TCLR") : u = v \/ (u = v \union {"ST"} /\ "AR" \notin v)
    BY <1>8
  <2> QED
    BY <2>1 DEF Kept
<1>11. \A f : Off(TCLR, f) => Off(TCLR, f)'
  <2> SUFFICES ASSUME NEW f, Off(TCLR, f), NEW v \in TCLR' PROVE v \intersect f = {}
    BY DEF Off
  <2> QED BY <1>7 DEF Off
<1>12. Stopped(TCLR) => Stopped(TCLR)'
  BY <1>1, <1>7 DEF Stopped
<1>13. Stopped(Readable("TCLR")) => Stopped(Readable("TCLR"))'
  BY <1>1, <1>8 DEF Stopped
<1>14. Going(TCLR) /\ Kept(TCLR, {}) => Going(TCLR)'
  <2> SUFFICES ASSUME Going(TCLR), Kept(TCLR, {}), asked.running, "AR" \in asked.mode, NEW v \in TCLR'
               PROVE  "ST" \in v
    BY <1>1 DEF Going
  <2>1. PICK u \in TCLR : u = v \/ (u = v \union {"ST"} /\ "AR" \notin v)
    BY <1>7
  <2>2. "AR" \in u
    BY DEF Kept
  <2> QED
    BY <2>1, <2>2 DEF Going
<1> QED BY <1>1, <1>2, <1>3, <1>4, <1>5, <1>6, <1>9, <1>10, <1>11, <1>12, <1>13, <1>14

\* Counting leaves every method where it is.
LEMMA CountingSituation == ASSUME TimerTypes, Counting, Situation PROVE Situation'
<1> USE CountingBlocks
<1>1. CASE AtRest
  <2>1. ContextOk => ContextOk'
    BY DEF ContextOk, ContextLimits, ContextLoad, ContextMatch, ContextCounter, InTime, ContextBits, Kept, Stopped, Going, Asked
  <2>2. Steady => Steady'
    BY DEF Steady
  <2> QED
    BY <1>1, <2>1, <2>2 DEF AtRest, Situation
<1>2. CASE Enabling BY <1>2 DEF Enabling, Situation
<1>3. CASE Disabling BY <1>3 DEF Disabling, Situation
<1>4. CASE ModeConfiguring BY <1>4 DEF ModeConfiguring, Configuring, AfterAR, Situation
<1>5. CASE Scaling BY <1>5 DEF Scaling, Configuring, Situation
<1>6. CASE Unscaling BY <1>6 DEF Unscaling, Configuring, Situation
<1>7. CASE GpoConfiguring BY <1>7 DEF GpoConfiguring, Configuring, Situation
<1>8. CASE CounterSetting BY <1>8 DEF CounterSetting, Still, Situation
<1>9. CASE Triggering BY <1>9 DEF Triggering, Still, Situation
<1>10. CASE ReloadSetting BY <1>10 DEF ReloadSetting, Still, Situation
<1>11. CASE CompareSetting BY <1>11 DEF CompareSetting, Still, Situation
<1>12. CASE IrqSetting BY <1>12 DEF IrqSetting, Still, Situation
<1>13. CASE Saving BY <1>13 DEF Saving, Steady, NoneLate, InTime, ContextLoad, ContextMatch, ContextCounter, Situation
<1>14. CASE Restoring BY <1>14 DEF Restoring
<1> QED BY <1>1, <1>2, <1>3, <1>4, <1>5, <1>6, <1>7, <1>8, <1>9, <1>10, <1>11, <1>12, <1>13, <1>14 DEF Situation

\* The context holds everything when power goes.
LEMMA PowerLossStep == ASSUME TimerAssumption, TimerInv, PowerLoss PROVE TimerInv'
<1> Top \in Nat
  BY DEF TimerAssumption
<1>1. TimerTypes'
  BY DEF TimerInv, TimerTypes, Fresh, PowerLoss, Cleared, Regs, Count
<1>2. AtRest
 BY DEF TimerInv, PowerLoss, Resting, Situation, AtRest, Enabling, Disabling, ModeConfiguring, mode_configure, Scaling, prescaler_clk_enable, Unscaling, GpoConfiguring, CounterSetting, Triggering, ReloadSetting, CompareSetting, IrqSetting, Saving, context_save, Restoring, context_restore
<1>3. AtRest'
 BY <1>2 DEF PowerLoss, AtRest, ContextOk, ContextLimits, ContextLoad, ContextMatch, ContextCounter, InTime, ContextBits, Kept, Stopped, Going, Asked, Cleared
<1> QED BY <1>1, <1>3 DEF TimerInv, Situation

\* No method is under way only at rest.
LEMMA RestingIsAtRest == ASSUME Situation, Resting PROVE AtRest
BY DEF Resting, Situation, AtRest, Enabling, Disabling, ModeConfiguring, mode_configure, Scaling, prescaler_clk_enable, Unscaling, GpoConfiguring, CounterSetting, Triggering, ReloadSetting, CompareSetting, IrqSetting, Saving, context_save, Restoring, context_restore

\* A call changes no register: only todo, asked and power.
LEMMA CallBlocks ==
    ASSUME UNCHANGED <<POSTED, reg, pend, m_context>>
    PROVE  /\ TCLR' = TCLR /\ Readable("TCLR")' = Readable("TCLR")
           /\ \A r : Pending(r)' <=> Pending(r)
           /\ Final("TLDR")' = Final("TLDR") /\ Final("TMAR")' = Final("TMAR") /\ Final("TCRR")' = Final("TCRR")
BY DEF TCLR, Final, Readable, Pending

\* A call begins at rest and changes no register.
LEMMA RunStarts ==
    ASSUME TimerInv, NEW seq, NEW after, Run(seq, after)
    PROVE  /\ AtRest /\ Steady /\ TimerTypes
           /\ UNCHANGED <<POSTED, reg, pend, m_context>> /\ todo' = seq /\ power' = after
BY RestingIsAtRest DEF TimerInv, Run, AtRest

\* What an asked bit says of the values of TCLR stays, if the bits asked do.
LEMMA KeptStays ==
    ASSUME UNCHANGED <<POSTED, reg, pend, m_context>>, Asked' = Asked, asked'.mode = asked.mode, NEW f, Kept(TCLR, f)
    PROVE  Kept(TCLR, f)'
BY CallBlocks DEF Kept

\* Each call establishes what its method's first access needs.

\* A counter that stands stays so: TCLR and what is on its way to it have no ST.
LEMMA StandsStill ==
    ASSUME TimerTypes, Stands, Stopped(TCLR)
    PROVE  Off(Readable("TCLR"), {"ST"})
BY DEF Stands, Stopped, Off, TCLR, Final, Readable, Pending

LEMMA EnableStep == ASSUME TimerInv, Enable PROVE TimerInv'
<1> USE CallBlocks, RunStarts
<1>0. Asked' = Asked /\ asked'.mode = asked.mode /\ asked'.running = TRUE /\ asked'.reload = asked.reload
      /\ asked'.compare = asked.compare /\ asked'.irq = asked.irq /\ asked'.counter = asked.counter
      /\ asked'.known = asked.known \ {"TCRR"} /\ asked'.early = asked.early
  BY DEF Enable, TimerTypes, Asked
<1>1. Enabling'
  BY <1>0, KeptStays DEF Enable, Enabling, Steady, Limits, LoadEnds, MatchEnds, Ends, Fresh, Kept, Asked, TimerTypes
<1>2. TimerTypes'
  <2>1. asked' \in Asking
    BY DEF Enable, TimerTypes, Asking
  <2> QED BY <1>0, <2>1 DEF Enable, TimerTypes, Fresh
<1> QED BY <1>1, <1>2 DEF TimerInv, Situation

LEMMA DisableStep == ASSUME TimerInv, Disable PROVE TimerInv'
<1> USE CallBlocks, RunStarts
<1>0. Asked' = Asked /\ asked'.mode = asked.mode /\ asked'.running = FALSE /\ asked'.reload = asked.reload
      /\ asked'.compare = asked.compare /\ asked'.irq = asked.irq /\ asked'.counter = asked.counter
      /\ asked'.known = asked.known /\ asked'.early = asked.early
  BY DEF Disable, TimerTypes, Asked
<1>1. Disabling'
  BY <1>0, KeptStays DEF Disable, Disabling, Steady, Limits, LoadEnds, MatchEnds, Ends, Fresh, Kept, Asked, TimerTypes, Counter, CounterEnds, Off
<1>2. TimerTypes'
  <2>1. asked' \in Asking
    BY DEF Disable, TimerTypes, Asking
  <2> QED BY <1>0, <2>1 DEF Disable, TimerTypes
<1> QED BY <1>1, <1>2 DEF TimerInv, Situation

LEMMA ModeStep == ASSUME TimerInv, ModeConfigure PROVE TimerInv'
<1> USE CallBlocks, RunStarts
<1>0. PICK mode \in Modes : Configure(mode_configure(mode)) /\ asked' = [asked EXCEPT !.mode = mode]
  BY DEF ModeConfigure
<1>1. ModeConfiguring'
  BY <1>0 DEF Configure, Call, Configuring, Stopped, ModeConfiguring, mode_configure, Steady, Limits, LoadEnds, MatchEnds, Ends, Fresh, Kept, Asked, TimerTypes, Asking, Counter, CounterEnds, Off, ModeBits, Modes
<1>2. TimerTypes'
  BY <1>0 DEF Configure, Call, TimerTypes, Asking, Fresh, Values
<1> QED BY <1>1, <1>2 DEF TimerInv, Situation

LEMMA ScaleStep == ASSUME TimerInv, PrescalerClkEnable PROVE TimerInv'
<1> USE CallBlocks, RunStarts
<1>0. PICK ptv \in {{}, {"PTV"}} : Configure(prescaler_clk_enable(ptv)) /\ asked' = [asked EXCEPT !.scale = {"PRE"} \union ptv]
  BY DEF PrescalerClkEnable
<1>b. /\ Asked' = asked.mode \union {"PRE"} \union ptv \union asked.gpo /\ asked'.mode = asked.mode
      /\ asked'.scale = {"PRE"} \union ptv /\ asked'.scale \ {"PRE"} = ptv
  BY <1>0 DEF Asked, TimerInv, TimerTypes
<1>c. Kept(TCLR, {"PRE", "PTV"})'
  BY <1>0, <1>b DEF Kept, Steady, TimerTypes, Asking, Asked, Configure, Call, Fresh, Values
<1>f. /\ asked'.reload = asked.reload /\ asked'.compare = asked.compare /\ asked'.irq = asked.irq
      /\ asked'.counter = asked.counter /\ asked'.known = asked.known /\ asked'.running = asked.running
  BY <1>0 DEF TimerInv, TimerTypes, Asking
<1>r. Run(prescaler_clk_enable(ptv), "on") /\ ~asked.running /\ UNCHANGED m_is_paused
  BY <1>0 DEF Configure, Call
<1>g. Limits'
  BY <1>r, <1>f DEF Steady, Limits, LoadEnds, MatchEnds, Ends
<1>h. Counter'
  BY <1>r, <1>f DEF Steady, Counter, CounterEnds, Ends, Fresh, Off
<1>i. Configuring'
  BY <1>r, <1>f DEF Configuring, Steady, Stopped
<1>d. Configuring' /\ Limits' /\ Counter' /\ todo' = prescaler_clk_enable(asked'.scale \ {"PRE"}) /\ "PRE" \in asked'.scale
  BY <1>r, <1>b, <1>g, <1>h, <1>i
<1>1. Scaling'
  BY <1>c, <1>d DEF Scaling, prescaler_clk_enable
<1>2. TimerTypes'
  BY <1>0 DEF Configure, Call, TimerTypes, Asking, Fresh, Values
<1> QED BY <1>1, <1>2 DEF TimerInv, Situation

LEMMA UnscaleStep == ASSUME TimerInv, PrescalerClkDisable PROVE TimerInv'
<1> USE CallBlocks, RunStarts
<1>1. Unscaling'
  BY DEF PrescalerClkDisable, Configure, Call, Configuring, Stopped, Unscaling, Steady, Limits, LoadEnds, MatchEnds, Ends, Fresh, Kept, Asked, TimerTypes, Asking, Counter, CounterEnds, Off, ModeBits, Modes
<1>2. TimerTypes'
  BY DEF PrescalerClkDisable, Configure, Call, TimerTypes, Asking, Fresh, Values
<1> QED BY <1>1, <1>2 DEF TimerInv, Situation

LEMMA GpoStep == ASSUME TimerInv, GPO_configure PROVE TimerInv'
<1> USE CallBlocks, RunStarts
<1>0. PICK gpo \in {{}, {"GPO"}} : Configure(<<Wait("TCLR"), Reset({"GPO"}), Wait("TCLR"), Set(gpo)>>) /\ asked' = [asked EXCEPT !.gpo = gpo]
  BY DEF GPO_configure
<1>1. GpoConfiguring'
  BY <1>0 DEF Configure, Call, Configuring, Stopped, GpoConfiguring, Steady, Limits, LoadEnds, MatchEnds, Ends, Fresh, Kept, Asked, TimerTypes, Asking, Counter, CounterEnds, Off, ModeBits, Modes
<1>2. TimerTypes'
  BY <1>0 DEF Configure, Call, TimerTypes, Asking, Fresh, Values
<1> QED BY <1>1, <1>2 DEF TimerInv, Situation

\* A call that leaves TCLR alone asks the same of it.
LEMMA StillStarts ==
    ASSUME TimerInv, NEW seq, Call(seq), Asked' = Asked, asked'.mode = asked.mode, asked'.running = asked.running
    PROVE  Still' /\ todo' = seq
BY CallBlocks, RunStarts, KeptStays DEF Call, Still, Steady, Stopped, Going

LEMMA CounterStep == ASSUME TimerInv, CounterSet PROVE TimerInv'
<1>0. PICK v \in Count :
         /\ Call(<<Wait("TCRR"), Assign("TCRR", v)>>)
         /\ asked' = [asked EXCEPT !.counter = v, !.known = Known(Stands /\ ~Pending("TTGR"), "TCRR")]
  BY Zenon DEF CounterSet
<1> USE CallBlocks, RunStarts
<1>1. Run(<<Wait("TCRR"), Assign("TCRR", v)>>, "on")
  BY <1>0 DEF Call
<1>2. asked \in Asking /\ Known(Stands /\ ~Pending("TTGR"), "TCRR") \in SUBSET Values
  BY DEF TimerInv, TimerTypes, Known, Asking, Values
<1>3. /\ asked' \in Asking /\ Asked' = Asked /\ asked'.mode = asked.mode /\ asked'.running = asked.running
      /\ asked'.reload = asked.reload /\ asked'.compare = asked.compare /\ asked'.irq = asked.irq
      /\ asked'.counter = v /\ asked'.early = asked.early
      /\ asked'.known = Known(Stands /\ ~Pending("TTGR"), "TCRR")
  BY <1>0, <1>2 DEF Asking, Asked
<1>4. /\ \A r \in {"TLDR", "TMAR"} : r \in asked'.known <=> r \in asked.known
      /\ Fresh' => Stands /\ ~Pending("TTGR")
  BY <1>3 DEF Known, Fresh
<1>5. Fresh' => Off(Readable("TCLR"), {"ST"})
  BY <1>1, <1>4, StandsStill DEF TimerInv, Steady
<1>6. Limits'
  BY <1>1, <1>3, <1>4 DEF Steady, Limits, LoadEnds, MatchEnds, Ends
<1>7. CounterSetting'
  BY <1>0, <1>1, <1>3, <1>4, <1>5, <1>6, StillStarts DEF CounterSetting, Off
<1>8. TimerTypes'
  BY <1>1, <1>3, <1>4 DEF TimerInv, TimerTypes, Stands
<1> QED BY <1>7, <1>8 DEF TimerInv, Situation

LEMMA TriggerStep == ASSUME TimerInv, TriggerSet PROVE TimerInv'
<1> USE CallBlocks, RunStarts
<1> DEFINE certain == Stands /\ "TLDR" \in asked.known /\ ~Pending("TLDR") /\ ~Pending("TCRR")
<1>0. /\ Call(<<Wait("TTGR"), Assign("TTGR", 0)>>)
      /\ asked' = [asked EXCEPT !.counter = asked.reload, !.known = Known(certain, "TCRR")]
  BY DEF TriggerSet
<1>1. Run(<<Wait("TTGR"), Assign("TTGR", 0)>>, "on")
  BY <1>0 DEF Call
<1>2. asked \in Asking /\ Known(certain, "TCRR") \in SUBSET Values
  BY DEF TimerInv, TimerTypes, Known, Asking, Values
<1>3. /\ asked' \in Asking /\ Asked' = Asked /\ asked'.mode = asked.mode /\ asked'.running = asked.running
      /\ asked'.reload = asked.reload /\ asked'.compare = asked.compare /\ asked'.irq = asked.irq
      /\ asked'.counter = asked.reload /\ asked'.early = asked.early
      /\ asked'.known = Known(certain, "TCRR")
  BY <1>0, <1>2 DEF Asking, Asked
<1>4. /\ \A r \in {"TLDR", "TMAR"} : r \in asked'.known <=> r \in asked.known
      /\ Fresh' => certain
  BY <1>3 DEF Known, Fresh
<1>5. Fresh' => Off(Readable("TCLR"), {"ST"})
  BY <1>1, <1>4, StandsStill DEF TimerInv, Steady
<1>6. Limits'
  BY <1>1, <1>3, <1>4 DEF Steady, Limits, LoadEnds, MatchEnds, Ends
<1>7. Fresh' => reg.TLDR = asked.reload
  BY <1>1, <1>4 DEF Steady, Limits, LoadEnds, Ends, Final
<1>8. Triggering'
  BY <1>0, <1>1, <1>3, <1>4, <1>5, <1>6, <1>7, StillStarts DEF Triggering, Off
<1>9. TimerTypes'
  BY <1>1, <1>3, <1>4 DEF TimerInv, TimerTypes, Stands
<1> QED BY <1>8, <1>9 DEF TimerInv, Situation

LEMMA ReloadStep == ASSUME TimerInv, ReloadSet PROVE TimerInv'
<1> DEFINE sure == Known(TRUE, "TLDR") \ (IF Pending("TTGR") THEN {"TCRR"} ELSE {})
<1>0. PICK v \in Count : /\ Call(<<Wait("TLDR"), Assign("TLDR", v)>>)
                         /\ asked' = [asked EXCEPT !.reload = v, !.known = sure]
  BY Zenon DEF ReloadSet
<1> USE CallBlocks, RunStarts
<1>1. Run(<<Wait("TLDR"), Assign("TLDR", v)>>, "on")
  BY <1>0 DEF Call
<1>2. asked \in Asking /\ sure \in SUBSET Values
  BY DEF TimerInv, TimerTypes, Known, Asking, Values
<1>3. /\ asked' \in Asking /\ Asked' = Asked /\ asked'.mode = asked.mode /\ asked'.running = asked.running
      /\ asked'.reload = v /\ asked'.compare = asked.compare /\ asked'.irq = asked.irq
      /\ asked'.counter = asked.counter /\ asked'.early = asked.early /\ asked'.known = sure
  BY <1>0, <1>2 DEF Asking, Asked
<1>4. /\ "TLDR" \in asked'.known /\ ("TMAR" \in asked'.known <=> "TMAR" \in asked.known)
      /\ Fresh' => Fresh /\ ~Pending("TTGR")
  BY <1>3 DEF Known, Fresh
<1>5. MatchEnds' /\ reg'.TIER = asked'.irq
  BY <1>1, <1>3, <1>4 DEF Steady, Limits, MatchEnds, Ends
<1>6. Counter'
  BY <1>1, <1>3, <1>4 DEF Steady, Counter, CounterEnds, Ends, Off
<1>7. ReloadSetting'
  BY <1>0, <1>1, <1>3, <1>4, <1>5, <1>6, StillStarts DEF ReloadSetting
<1>8. TimerTypes'
  BY <1>1, <1>3, <1>4 DEF TimerInv, TimerTypes
<1> QED BY <1>7, <1>8 DEF TimerInv, Situation

LEMMA CompareStep == ASSUME TimerInv, CompareSet PROVE TimerInv'
<1>0. PICK v \in Count : /\ Call(<<Wait("TMAR"), Assign("TMAR", v)>>)
                         /\ asked' = [asked EXCEPT !.compare = v, !.known = Known(TRUE, "TMAR")]
  BY Zenon DEF CompareSet
<1> USE CallBlocks, RunStarts
<1>1. Run(<<Wait("TMAR"), Assign("TMAR", v)>>, "on")
  BY <1>0 DEF Call
<1>2. asked \in Asking /\ Known(TRUE, "TMAR") \in SUBSET Values
  BY DEF TimerInv, TimerTypes, Known, Asking, Values
<1>3. /\ asked' \in Asking /\ Asked' = Asked /\ asked'.mode = asked.mode /\ asked'.running = asked.running
      /\ asked'.reload = asked.reload /\ asked'.compare = v /\ asked'.irq = asked.irq
      /\ asked'.counter = asked.counter /\ asked'.early = asked.early
      /\ asked'.known = asked.known \union {"TMAR"}
  BY <1>0, <1>2 DEF Asking, Asked, Known
<1>4. ("TLDR" \in asked'.known <=> "TLDR" \in asked.known) /\ (Fresh' <=> Fresh)
  BY <1>3 DEF Fresh
<1>5. LoadEnds' /\ reg'.TIER = asked'.irq
  BY <1>1, <1>3, <1>4 DEF Steady, Limits, LoadEnds, Ends
<1>6. Counter'
  BY <1>1, <1>3, <1>4 DEF Steady, Counter, CounterEnds, Ends, Off
<1>7. CompareSetting'
  BY <1>0, <1>1, <1>3, <1>5, <1>6, StillStarts DEF CompareSetting
<1>8. TimerTypes'
  BY <1>1, <1>3, <1>4 DEF TimerInv, TimerTypes
<1> QED BY <1>7, <1>8 DEF TimerInv, Situation

LEMMA IrqSetStep == ASSUME TimerInv, IrqSet PROVE TimerInv'
<1> USE CallBlocks, RunStarts
<1>0. PICK on \in BOOLEAN : Call(<<Assign("TIER", on)>>) /\ asked' = [asked EXCEPT !.irq = on]
  BY DEF IrqSet
<1>1. Run(<<Assign("TIER", on)>>, "on") /\ asked \in Asking
  BY <1>0 DEF Call, TimerInv, TimerTypes
<1>2. /\ asked' \in Asking /\ Asked' = Asked /\ asked'.mode = asked.mode /\ asked'.running = asked.running
      /\ asked'.reload = asked.reload /\ asked'.compare = asked.compare /\ asked'.irq = on
      /\ asked'.counter = asked.counter /\ asked'.early = asked.early /\ asked'.known = asked.known
  BY <1>0, <1>1 DEF Asking, Asked
<1>3. LoadEnds' /\ MatchEnds' /\ Counter' /\ (Fresh' <=> Fresh)
  BY <1>1, <1>2 DEF Steady, Limits, LoadEnds, MatchEnds, Counter, CounterEnds, Ends, Off, Fresh
<1>4. IrqSetting'
  BY <1>0, <1>2, <1>3, StillStarts DEF IrqSetting
<1>5. TimerTypes'
  BY <1>1, <1>2, <1>3 DEF TimerInv, TimerTypes
<1> QED BY <1>4, <1>5 DEF TimerInv, Situation

LEMMA SaveStep == ASSUME TimerInv, ContextSave PROVE TimerInv'
<1> USE CallBlocks, RunStarts
<1> DEFINE late == {q \in {"TLDR", "TMAR"} : Pending(q)} \union (IF Pending("TTGR") THEN {"TCRR"} ELSE {})
<1>0. Run(context_save, "saved") /\ asked' = [asked EXCEPT !.early = late]
  BY DEF ContextSave
<1>1. asked \in Asking /\ late \in SUBSET Values
  BY DEF TimerInv, TimerTypes, Values
<1>2. /\ asked' \in Asking /\ Asked' = Asked /\ asked'.mode = asked.mode /\ asked'.running = asked.running
      /\ asked'.reload = asked.reload /\ asked'.compare = asked.compare /\ asked'.irq = asked.irq
      /\ asked'.counter = asked.counter /\ asked'.known = asked.known /\ asked'.early = late
  BY <1>0, <1>1 DEF Asking, Asked
<1>3. Limits' /\ Counter' /\ (Fresh' <=> Fresh)
  BY <1>0, <1>2 DEF Steady, Limits, LoadEnds, MatchEnds, Counter, CounterEnds, Ends, Off, Fresh
<1>4. Kept(TCLR, {})' /\ Stopped(TCLR)' /\ Going(TCLR)'
  BY <1>0, <1>2, KeptStays DEF Steady, Stopped, Going
<1>5. NoneLate'
  BY <1>0, <1>2 DEF NoneLate, InTime
<1>6. Saving'
  BY <1>0, <1>3, <1>4, <1>5 DEF Saving, Steady
<1>7. ~POSTED => late = {}
  BY DEF TimerInv, TimerTypes, Pending
<1>8. TimerTypes'
  BY <1>0, <1>2, <1>3, <1>7 DEF TimerInv, TimerTypes
<1> QED BY <1>6, <1>8 DEF TimerInv, Situation

LEMMA RestoreStep == ASSUME TimerInv, ContextRestore PROVE TimerInv'
<1>0. AtRest
  BY DEF TimerInv, ContextRestore, Situation, Enabling, Disabling, Configuring, ModeConfiguring, Scaling, Unscaling, GpoConfiguring, Still, CounterSetting, Triggering, ReloadSetting, CompareSetting, IrqSetting, Saving, Restoring
<1>1. Restoring'
  BY <1>0 DEF ContextRestore, AtRest, Restoring, ContextOk, ContextLimits, ContextLoad, ContextMatch, ContextCounter, InTime, ContextBits, Kept, Stopped, Going, Asked, Cleared, Pending
<1>2. /\ asked' = [asked EXCEPT !.known = asked.known \ asked.early] /\ asked \in Asking
      /\ UNCHANGED <<POSTED, reg, pend, m_context>> /\ power' = "on"
  BY DEF TimerInv, ContextRestore, TimerTypes
<1>3. /\ asked' \in Asking /\ asked'.running = asked.running /\ asked'.early = asked.early
      /\ asked'.known = asked.known \ asked.early
  BY <1>2 DEF Asking
<1>4. TimerTypes'
  BY <1>2, <1>3 DEF TimerInv, TimerTypes, Fresh
<1> QED BY <1>1, <1>4 DEF TimerInv, Situation

\* A write of a value of the register's type.
LEMMA WriteTypes ==
    ASSUME TimerTypes, NEW r, NEW v, [reg |-> r, val |-> v] \in Writes, Write(r, v),
           UNCHANGED <<POSTED, asked, power, m_context>>
    PROVE  TimerTypes'
<1>1. CASE POSTED /\ r # "TIER"
  BY <1>1 DEF TimerTypes, Fresh, Write
<1>2. CASE ~(POSTED /\ r # "TIER")
  <2>1. pend' = pend /\ reg' = Landed(reg, r, v)
    BY <1>2 DEF Write
  <2>2. reg' \in Regs
    BY <2>1 DEF TimerTypes, Landed, Writes, WordRegs, Regs
  <2> QED BY <2>1, <2>2 DEF TimerTypes, Fresh
<1> QED BY <1>1, <1>2

\* The registers but r stay as they are.
Others(r) == \A q \in {"TCLR", "TCRR", "TLDR", "TMAR", "TTGR"} \ {r} :
                Final(q)' = Final(q) /\ (Pending(q)' <=> Pending(q)) /\ reg'[q] = reg[q]

\* A write to one register leaves the others, and is what it ends up with.
LEMMA WriteBlocks ==
    ASSUME TimerTypes, NEW r \in {"TCLR", "TCRR", "TLDR", "TMAR"}, NEW v, Write(r, v), UNCHANGED <<POSTED>>
    PROVE  /\ Final(r)' = {v} 
           /\ Readable(r)' \subseteq {v, reg[r]}
           /\ ~POSTED => Readable(r)' = {v}
           /\ Others(r)
           /\ reg'.TIER = reg.TIER
           /\ r # "TCLR" => Readable("TCLR")' = Readable("TCLR")
<1>1. CASE POSTED
  <2>1. pend' = {w \in pend : w.reg # r} \union {[reg |-> r, val |-> v]} /\ reg' = reg
    BY <1>1 DEF Write
  <2>2. Pending(r)' /\ Final(r)' = {v} /\ Readable(r)' = {v, reg[r]}
    <3> DEFINE n == [reg |-> r, val |-> v]
    <3>1. n \in pend' /\ n.reg = r /\ n.val = v /\ \A x \in pend' : x.reg = r => x = n
      BY <2>1
    <3> HIDE DEF n
    <3>2. Pending(r)'
      BY <3>1 DEF Pending
    <3>3. \A y : y \in {w.val : w \in {x \in pend' : x.reg = r}} <=> y = v
      BY <3>1
    <3>4. {w.val : w \in {x \in pend' : x.reg = r}} = {v}
      BY <3>3
    <3> QED BY <2>1, <3>2, <3>4 DEF Final, Readable
  <2>3. Others(r)
    <3>1. \A q \in {"TCLR", "TCRR", "TLDR", "TMAR", "TTGR"} \ {r} :
             {x \in pend' : x.reg = q} = {x \in pend : x.reg = q} /\ (Pending(q)' <=> Pending(q))
      BY <2>1 DEF Pending
    <3> QED BY <2>1, <3>1 DEF Others, Final
  <2>4. r # "TCLR" => Readable("TCLR")' = Readable("TCLR")
    BY <2>1 DEF Readable
  <2> QED BY <1>1, <2>1, <2>2, <2>3, <2>4
<1>2. CASE ~POSTED
  <2>1. pend' = {} /\ pend = {} /\ reg' = [reg EXCEPT ![r] = v]
    BY <1>2 DEF Write, Landed, TimerTypes
  <2> QED BY <1>2, <2>1 DEF TimerTypes, Final, Readable, Pending, Others, Regs
<1> QED BY <1>1, <1>2

\* What each kind of access does.
LEMMA WaitAccess ==
    ASSUME TimerTypes, NEW r, Head(todo) = Wait(r), Access
    PROVE  /\ ~Pending(r)' /\ ~Pending(r)
           /\ UNCHANGED <<POSTED, reg, pend, asked, power, m_context>> /\ todo' = Tail(todo) /\ TimerTypes'
BY DEF Access, Wait, m_wait_for_write, Pending, TimerTypes, Fresh

LEMMA AssignAccess == ASSUME NEW r, NEW v, Head(todo) = Assign(r, v), Access
    PROVE  /\ Write(r, v) 
           /\ UNCHANGED <<POSTED, asked, power, m_context>> /\ todo' = Tail(todo)
BY DEF Access, Assign, Write, Landed

LEMMA ResetAccess == ASSUME NEW bits, Head(todo) = Reset(bits), Access, TimerTypes
    PROVE  /\ \E x \in Readable("TCLR") : 
                 /\ TCLR' = {x \ bits}
                 /\ Readable("TCLR")' \subseteq {x \ bits, reg.TCLR}
                 /\ ~POSTED => Readable("TCLR")' = {x \ bits}
           /\ Others("TCLR") /\ reg'.TIER = reg.TIER
           /\ UNCHANGED <<POSTED, asked, power, m_context>> /\ todo' = Tail(todo)
           /\ TimerTypes'
<1>1. PICK x \in Readable("TCLR") : Write("TCLR", x \ bits) /\ UNCHANGED <<POSTED, asked, power, m_context>> /\ todo' = Tail(todo)
  BY DEF Access, Reset, Write, Landed
<1>2. [reg |-> "TCLR", val |-> x \ bits] \in Writes
  BY DEF Readable, TimerTypes, Regs, Writes, WordRegs
<1> QED BY <1>1, <1>2, WriteTypes, WriteBlocks DEF TCLR

LEMMA SetAccess == ASSUME NEW bits \in SUBSET Bits, Head(todo) = Set(bits), Access, TimerTypes
    PROVE  /\ \E x \in Readable("TCLR") : 
                 /\ TCLR' = {x \union bits}
                 /\ Readable("TCLR")' \subseteq {x \union bits, reg.TCLR}
                 /\ ~POSTED => Readable("TCLR")' = {x \union bits}
           /\ Others("TCLR") /\ reg'.TIER = reg.TIER
           /\ UNCHANGED <<POSTED, asked, power, m_context>> /\ todo' = Tail(todo)
           /\ TimerTypes'
<1>1. PICK x \in Readable("TCLR") : Write("TCLR", x \union bits) /\ UNCHANGED <<POSTED, asked, power, m_context>> /\ todo' = Tail(todo)
  BY DEF Access, Set, Write, Landed
<1>2. [reg |-> "TCLR", val |-> x \union bits] \in Writes
  BY DEF Readable, TimerTypes, Regs, Writes, WordRegs
<1> QED BY <1>1, <1>2, WriteTypes, WriteBlocks DEF TCLR

LEMMA SaveAccess == ASSUME NEW r \in {"TLDR", "TMAR", "TIER", "TCRR", "TCLR"}, Head(todo) = Save(r), Access, TimerTypes
    PROVE  /\ ~Pending(r) => m_context'[r] = reg[r]
           /\ \A q \in {"TLDR", "TMAR", "TIER", "TCRR", "TCLR"} \ {r} : m_context'[q] = m_context[q]
           /\ UNCHANGED <<POSTED, reg, pend, asked, power>> /\ todo' = Tail(todo)
           /\ TimerTypes'
<1>1. PICK v \in Readable(r) : m_context' = [m_context EXCEPT ![r] = v] /\ UNCHANGED <<POSTED, reg, pend, asked, power>> /\ todo' = Tail(todo)
  BY DEF Access, Save
<1>2. ~Pending(r) => v = reg[r]
  BY DEF Readable, Pending
<1>3. m_context' \in Regs
  BY <1>1 DEF TimerTypes, Readable, Writes, WordRegs, Regs
<1> QED BY <1>1, <1>2, <1>3 DEF TimerTypes, Regs, Fresh

LEMMA RestoreAccess == ASSUME NEW r \in {"TLDR", "TMAR", "TIER", "TCRR", "TCLR"}, Head(todo) = Restore(r), Access, TimerTypes
    PROVE  /\ Write(r, m_context[r]) 
           /\ UNCHANGED <<POSTED, asked, power, m_context>> /\ todo' = Tail(todo)
BY DEF Access, Restore, Write, Landed

\* After a wait a read gives the register.
LEMMA WaitTCLR ==
    ASSUME ~Pending("TCLR")
    PROVE  TCLR = {reg.TCLR} /\ Readable("TCLR") = {reg.TCLR}
BY DEF TCLR, Final, Readable, Pending

\* The parts of the invariant depend on these variables only.
LEMMA UnchangedBlocks ==
    ASSUME UNCHANGED <<POSTED, reg, pend, asked, power, m_context>>
    PROVE  /\ TCLR' = TCLR /\ Readable("TCLR")' = Readable("TCLR")
           /\ \A r : (Pending(r)' <=> Pending(r)) /\ Final(r)' = Final(r)
           /\ \A f : Kept(TCLR, f)' <=> Kept(TCLR, f)
           /\ \A f : Kept(Readable("TCLR"), f)' <=> Kept(Readable("TCLR"), f)
           /\ \A f : Off(TCLR, f)' <=> Off(TCLR, f)
           /\ \A f : Off(Readable("TCLR"), f)' <=> Off(Readable("TCLR"), f)
           /\ Stopped(TCLR)' <=> Stopped(TCLR)
           /\ Stopped(Readable("TCLR"))' <=> Stopped(Readable("TCLR"))
           /\ Going(TCLR)' <=> Going(TCLR)
           /\ Counter' <=> Counter
           /\ Fresh' <=> Fresh
           /\ LoadEnds' <=> LoadEnds
           /\ MatchEnds' <=> MatchEnds
           /\ Limits' <=> Limits
           /\ ContextLoad' <=> ContextLoad
           /\ ContextMatch' <=> ContextMatch
           /\ ContextCounter' <=> ContextCounter
           /\ NoneLate' <=> NoneLate
BY DEF ContextLoad, ContextMatch, ContextCounter, NoneLate, InTime, Fresh, LoadEnds, MatchEnds, TCLR, Final, Readable, Pending, Kept, Off, Stopped, Going, Counter, CounterEnds, Limits, Ends, Asked

\* Each method, access by access, ends with the timer at rest again.
LEMMA EnablingAccess == ASSUME TimerTypes, Enabling, Access PROVE TimerInv'
<1>1. CASE todo = <<Wait("TCLR"), Set({"ST"})>>
  <2>1. Head(todo) = Wait("TCLR") /\ Tail(todo) = <<Set({"ST"})>>
    BY <1>1
  <2>2. Enabling' /\ TimerTypes'
    BY <2>1, WaitAccess, UnchangedBlocks DEF Enabling
  <2> QED BY <2>2 DEF TimerInv, Situation
<1>2. CASE todo = <<Set({"ST"})>> /\ ~Pending("TCLR")
  <2>1. Head(todo) = Set({"ST"}) /\ Tail(todo) = <<>> /\ {"ST"} \in SUBSET Bits
    BY <1>2 DEF Bits
  <2>2. /\ TCLR' = {reg.TCLR \union {"ST"}} /\ TCLR = {reg.TCLR}
        /\ Others("TCLR") /\ reg'.TIER = reg.TIER
        /\ UNCHANGED <<POSTED, asked, power, m_context>> /\ todo' = <<>>
        /\ TimerTypes'
    BY <1>2, <2>1, SetAccess, WaitTCLR
  <2>3. AtRest'
    BY <2>2 DEF Enabling, AtRest, Steady, Limits, LoadEnds, MatchEnds, Fresh, Counter, Others, Kept, Stopped, Going, Asked, TimerTypes, Ends
  <2> QED BY <2>2, <2>3 DEF TimerInv, Situation
<1> QED BY <1>1, <1>2 DEF Enabling

LEMMA DisablingAccess == ASSUME TimerTypes, Disabling, Access PROVE TimerInv'
<1>1. CASE todo = <<Wait("TCLR"), Reset({"ST"})>>
  <2>1. Head(todo) = Wait("TCLR") /\ Tail(todo) = <<Reset({"ST"})>>
    BY <1>1
  <2>2. Disabling' /\ TimerTypes'
    BY <2>1, WaitAccess, UnchangedBlocks DEF Disabling
  <2> QED BY <2>2 DEF TimerInv, Situation
<1>2. CASE todo = <<Reset({"ST"})>> /\ ~Pending("TCLR")
  <2>1. Head(todo) = Reset({"ST"}) /\ Tail(todo) = <<>>
    BY <1>2
  <2>2. /\ TCLR' = {reg.TCLR \ {"ST"}} /\ TCLR = {reg.TCLR} /\ Readable("TCLR")' \subseteq {reg.TCLR \ {"ST"}, reg.TCLR}
        /\ Readable("TCLR") = {reg.TCLR}
        /\ Others("TCLR") /\ reg'.TIER = reg.TIER
        /\ UNCHANGED <<POSTED, asked, power, m_context>> /\ todo' = <<>>
        /\ TimerTypes'
    BY <1>2, <2>1, ResetAccess, WaitTCLR
  <2>3. Limits' /\ Counter' 
    BY <2>2 DEF Disabling, Limits, LoadEnds, MatchEnds, Fresh, Counter, CounterEnds, Others, Off, Ends
  <2>4. Kept(TCLR, {})' /\ Stopped(TCLR)' /\ Going(TCLR)'
    BY <2>2 DEF Disabling, Kept, Stopped, Going, Asked
  <2>5. AtRest'
    BY <2>2, <2>3, <2>4 DEF Disabling, AtRest, Steady
  <2> QED BY <2>2, <2>5 DEF TimerInv, Situation
<1> QED BY <1>1, <1>2 DEF Disabling

LEMMA ModeAccess == ASSUME TimerTypes, ModeConfiguring, Access PROVE TimerInv'
<1> DEFINE m == asked.mode
<1>0. m \in SUBSET Bits /\ m \subseteq {"AR", "CE"}
  BY DEF TimerTypes, Asking, Modes, ModeBits, Bits
<1>1. CASE todo = mode_configure(m)
  <2>1. Head(todo) = Wait("TCLR") /\ Tail(todo) = <<Reset({"AR"}), Reset({"CE"}), Wait("TCLR"), Set(m)>>
    BY <1>1 DEF mode_configure
  <2>2. ModeConfiguring' /\ TimerTypes'
    BY <2>1, WaitAccess, UnchangedBlocks DEF ModeConfiguring, Configuring
  <2> QED BY <2>2 DEF TimerInv, Situation
<1>2. CASE todo = <<Reset({"AR"}), Reset({"CE"}), Wait("TCLR"), Set(m)>> /\ ~Pending("TCLR")
  <2>1. Head(todo) = Reset({"AR"}) /\ Tail(todo) = <<Reset({"CE"}), Wait("TCLR"), Set(m)>>
    BY <1>2
  <2>2. /\ TCLR' = {reg.TCLR \ {"AR"}} /\ TCLR = {reg.TCLR} /\ Readable("TCLR")' \subseteq {reg.TCLR \ {"AR"}, reg.TCLR}
        /\ ~POSTED => Readable("TCLR")' = {reg.TCLR \ {"AR"}}
        /\ Readable("TCLR") = {reg.TCLR}
        /\ Others("TCLR") /\ reg'.TIER = reg.TIER
        /\ UNCHANGED <<POSTED, asked, power, m_context>> /\ todo' = <<Reset({"CE"}), Wait("TCLR"), Set(m)>>
        /\ TimerTypes'
    BY <1>2, <2>1, ResetAccess, WaitTCLR
  <2>3. Limits' /\ Counter' 
    BY <2>2 DEF ModeConfiguring, Limits, LoadEnds, MatchEnds, Fresh, Counter, CounterEnds, Others, Off, Ends
  <2>4. Kept(TCLR, ModeBits)' /\ Stopped(TCLR)' /\ Kept(Readable("TCLR"), ModeBits)' /\ Stopped(Readable("TCLR"))' /\ AfterAR(TCLR)'
    BY <2>2 DEF ModeConfiguring, Configuring, Kept, Stopped, Asked, ModeBits, AfterAR, Off
  <2>5. ModeConfiguring'
    BY <2>2, <2>3, <2>4 DEF ModeConfiguring, Configuring
  <2> QED BY <2>2, <2>5 DEF TimerInv, Situation
<1>3. CASE /\ todo = <<Reset({"CE"}), Wait("TCLR"), Set(m)>>
           /\ Kept(Readable("TCLR"), ModeBits) /\ Stopped(Readable("TCLR")) /\ AfterAR(TCLR)
  <2>1. Head(todo) = Reset({"CE"}) /\ Tail(todo) = <<Wait("TCLR"), Set(m)>>
    BY <1>3
  <2>2. PICK x \in Readable("TCLR") : 
        /\ TCLR' = {x \ {"CE"}} /\ Readable("TCLR")' \subseteq {x \ {"CE"}, reg.TCLR}
    BY <1>3, <2>1, ResetAccess
  <2>3. /\ Others("TCLR") /\ reg'.TIER = reg.TIER
        /\ UNCHANGED <<POSTED, asked, power, m_context>> /\ todo' = <<Wait("TCLR"), Set(m)>>
        /\ TimerTypes'
    BY <1>3, <2>1, ResetAccess
  <2>4. ~POSTED => Readable("TCLR") = TCLR
    BY DEF TimerTypes, Readable, TCLR, Final, Pending
  <2>5. reg.TCLR \in Readable("TCLR")
    BY DEF Readable
  <2>6. Limits' /\ Counter' 
    BY <2>2, <2>3, <2>5 DEF ModeConfiguring, Limits, LoadEnds, MatchEnds, Fresh, Counter, CounterEnds, Others, Off, Ends
  <2>7. Kept(TCLR, ModeBits)' /\ Stopped(TCLR)' /\ AfterAR(TCLR)' /\ Off(TCLR, {"CE"})'
    BY <1>3, <2>2, <2>3, <2>4 DEF ModeConfiguring, Configuring, Kept, Stopped, Asked, ModeBits, AfterAR, Off
  <2>8. ModeConfiguring'
    BY <2>3, <2>6, <2>7 DEF ModeConfiguring, Configuring
  <2> QED BY <2>3, <2>8 DEF TimerInv, Situation
<1>4. CASE todo = <<Wait("TCLR"), Set(m)>> /\ Off(TCLR, {"CE"}) /\ AfterAR(TCLR)
  <2>1. Head(todo) = Wait("TCLR") /\ Tail(todo) = <<Set(m)>>
    BY <1>4
  <2>2. ModeConfiguring' /\ TimerTypes'
    BY <1>4, <2>1, WaitAccess, UnchangedBlocks DEF ModeConfiguring, Configuring, AfterAR
  <2> QED BY <2>2 DEF TimerInv, Situation
<1>5. CASE todo = <<Set(m)>> /\ Off(TCLR, {"CE"}) /\ AfterAR(TCLR) /\ ~Pending("TCLR")
  <2>1. Head(todo) = Set(m) /\ Tail(todo) = <<>>
    BY <1>5
  <2>2. /\ TCLR' = {reg.TCLR \union m} /\ TCLR = {reg.TCLR} /\ Readable("TCLR")' \subseteq {reg.TCLR \union m, reg.TCLR}
        /\ Readable("TCLR") = {reg.TCLR}
        /\ Others("TCLR") /\ reg'.TIER = reg.TIER
        /\ UNCHANGED <<POSTED, asked, power, m_context>> /\ todo' = <<>>
        /\ TimerTypes'
    BY <1>0, <1>5, <2>1, SetAccess, WaitTCLR
  <2>3. Limits' /\ Counter' 
    BY <1>0, <2>2 DEF ModeConfiguring, Limits, LoadEnds, MatchEnds, Fresh, Counter, CounterEnds, Others, Off, Ends
  <2>4. Kept(TCLR, {})' /\ Stopped(TCLR)' /\ Going(TCLR)'
    <3>1. Stopped(TCLR)' /\ Going(TCLR)'
      BY <1>0, <2>2 DEF ModeConfiguring, Configuring, Stopped, Going
    <3>2. Asked' = Asked /\ asked.mode \subseteq Asked
      BY <2>2 DEF Asked
    <3>3. \A b \in {"CE", "PRE", "GPO"} : b \in reg.TCLR \union m <=> b \in Asked
      BY <1>0, <1>5, <2>2 DEF ModeConfiguring, Kept, ModeBits, Off, Asked, TimerTypes, Asking
    <3>4. ~POSTED => \A b \in {"AR", "PTV"} : b \in reg.TCLR \union m <=> b \in Asked
      BY <1>0, <1>5, <2>2 DEF ModeConfiguring, Kept, ModeBits, AfterAR, Off, Asked, TimerTypes, Asking
    <3> QED BY <2>2, <3>1, <3>2, <3>3, <3>4 DEF Kept
  <2>5. AtRest'
    BY <2>2, <2>3, <2>4 DEF ModeConfiguring, Configuring, AtRest, Steady
  <2> QED BY <2>2, <2>5 DEF TimerInv, Situation
<1> QED BY <1>1, <1>2, <1>3, <1>4, <1>5 DEF ModeConfiguring

\* Unposted, a read gives what was written last.
LEMMA ReadWhole == ASSUME TimerTypes PROVE (~POSTED => Readable("TCLR") = TCLR) /\ reg.TCLR \in Readable("TCLR")
BY DEF TimerTypes, Readable, TCLR, Final, Pending

LEMMA ScalingAccess == ASSUME TimerTypes, Scaling, Access PROVE TimerInv'
<1> DEFINE ptv == asked.scale \ {"PRE"}
<1>0. ptv \subseteq {"PTV"} /\ ptv \in SUBSET Bits /\ {"PRE"} \in SUBSET Bits
  BY DEF TimerTypes, Asking, Bits
<1>1. CASE todo = prescaler_clk_enable(ptv)
  <2>1. Head(todo) = Wait("TCLR") /\ Tail(todo) = <<Reset({"PTV"}), Wait("TCLR"), Set(ptv), Set({"PRE"})>>
    BY <1>1 DEF prescaler_clk_enable
  <2>2. Scaling' /\ TimerTypes'
    BY <2>1, WaitAccess, UnchangedBlocks DEF Scaling, Configuring
  <2> QED BY <2>2 DEF TimerInv, Situation
<1>2. CASE todo = <<Reset({"PTV"}), Wait("TCLR"), Set(ptv), Set({"PRE"})>> /\ ~Pending("TCLR")
  <2>1. Head(todo) = Reset({"PTV"}) /\ Tail(todo) = <<Wait("TCLR"), Set(ptv), Set({"PRE"})>>
    BY <1>2
  <2>2. /\ TCLR' = {reg.TCLR \ {"PTV"}} /\ TCLR = {reg.TCLR} /\ Readable("TCLR")' \subseteq {reg.TCLR \ {"PTV"}, reg.TCLR}
        /\ Readable("TCLR") = {reg.TCLR}
        /\ Others("TCLR") /\ reg'.TIER = reg.TIER
        /\ UNCHANGED <<POSTED, asked, power, m_context>> /\ todo' = <<Wait("TCLR"), Set(ptv), Set({"PRE"})>>
        /\ TimerTypes'
    BY <1>2, <2>1, ResetAccess, WaitTCLR
  <2>3. Limits' /\ Counter'
    BY <2>2 DEF Scaling, Limits, LoadEnds, MatchEnds, Fresh, Counter, CounterEnds, Others, Off, Ends
  <2>4. Kept(TCLR, {"PRE", "PTV"})' /\ Stopped(TCLR)' /\ Off(TCLR, {"PTV"})'
    BY <2>2 DEF Scaling, Configuring, Kept, Stopped, Asked, Off
  <2>5. Scaling'
    BY <2>2, <2>3, <2>4 DEF Scaling, Configuring
  <2> QED BY <2>2, <2>5 DEF TimerInv, Situation
<1>3. CASE todo = <<Wait("TCLR"), Set(ptv), Set({"PRE"})>> /\ Off(TCLR, {"PTV"})
  <2>1. Head(todo) = Wait("TCLR") /\ Tail(todo) = <<Set(ptv), Set({"PRE"})>>
    BY <1>3
  <2>2. Scaling' /\ TimerTypes'
    BY <1>3, <2>1, WaitAccess, UnchangedBlocks DEF Scaling, Configuring
  <2> QED BY <2>2 DEF TimerInv, Situation
<1>4. CASE todo = <<Set(ptv), Set({"PRE"})>> /\ Off(TCLR, {"PTV"}) /\ ~Pending("TCLR")
  <2>1. Head(todo) = Set(ptv) /\ Tail(todo) = <<Set({"PRE"})>>
    BY <1>4
  <2>2. /\ TCLR' = {reg.TCLR \union ptv} /\ TCLR = {reg.TCLR} /\ Readable("TCLR")' \subseteq {reg.TCLR \union ptv, reg.TCLR}
        /\ Readable("TCLR") = {reg.TCLR}
        /\ Others("TCLR") /\ reg'.TIER = reg.TIER
        /\ UNCHANGED <<POSTED, asked, power, m_context>> /\ todo' = <<Set({"PRE"})>>
        /\ TimerTypes'
    BY <1>0, <1>4, <2>1, SetAccess, WaitTCLR
  <2>3. Limits' /\ Counter'
    BY <1>0, <2>2 DEF Scaling, Limits, LoadEnds, MatchEnds, Fresh, Counter, CounterEnds, Others, Off, Ends
  <2>4. Kept(TCLR, {"PRE", "PTV"})' /\ Stopped(TCLR)' /\ Kept(Readable("TCLR"), {"PRE", "PTV"})' /\ Stopped(Readable("TCLR"))'
    BY <1>0, <2>2 DEF Scaling, Configuring, Kept, Stopped, Asked
  <2>5. (~POSTED => Kept(TCLR, {"PRE"}))'
    <3>1. Asked' = Asked /\ ("PTV" \in Asked <=> "PTV" \in ptv)
      BY <2>2 DEF Asked, TimerTypes, Asking, Modes, ModeBits
    <3>2. ~POSTED => ("PTV" \in reg.TCLR \union ptv <=> "PTV" \in ptv)
      BY <1>4, <2>2 DEF Off
    <3> QED BY <2>2, <2>4, <3>1, <3>2 DEF Kept
  <2>6. Scaling'
    BY <2>2, <2>3, <2>4, <2>5 DEF Scaling, Configuring
  <2> QED BY <2>2, <2>6 DEF TimerInv, Situation
<1>5. CASE /\ todo = <<Set({"PRE"})>>
           /\ Kept(Readable("TCLR"), {"PRE", "PTV"}) /\ Stopped(Readable("TCLR")) /\ (~POSTED => Kept(TCLR, {"PRE"}))
  <2>1. Head(todo) = Set({"PRE"}) /\ Tail(todo) = <<>>
    BY <1>5
  <2>2. PICK x \in Readable("TCLR") :
        /\ TCLR' = {x \union {"PRE"}} /\ Readable("TCLR")' \subseteq {x \union {"PRE"}, reg.TCLR}
    BY <1>0, <1>5, <2>1, SetAccess
  <2>3. /\ Others("TCLR") /\ reg'.TIER = reg.TIER
        /\ UNCHANGED <<POSTED, asked, power, m_context>> /\ todo' = <<>>
        /\ TimerTypes'
    BY <1>0, <1>5, <2>1, SetAccess
  <2>4. ~POSTED => Kept({x}, {"PRE"})
    BY <1>5, <2>2, ReadWhole DEF Kept
  <2>6. Limits' /\ Counter'
    BY <2>2, <2>3, ReadWhole DEF Scaling, Limits, LoadEnds, MatchEnds, Fresh, Counter, CounterEnds, Others, Off, Ends
  <2>7. Kept(TCLR, {})'
    <3>1. Asked' = Asked /\ "PRE" \in Asked
      BY <2>3 DEF Asked, Scaling
    <3> QED BY <1>5, <2>2, <2>3, <2>4, <3>1 DEF Kept
  <2>8. Stopped(TCLR)' /\ Going(TCLR)'
    BY <1>5, <2>2, <2>3 DEF Scaling, Configuring, Stopped, Going
  <2>9. AtRest'
    BY <2>3, <2>6, <2>7, <2>8 DEF Scaling, Configuring, AtRest, Steady
  <2> QED BY <2>3, <2>9 DEF TimerInv, Situation
<1> QED BY <1>1, <1>2, <1>3, <1>4, <1>5 DEF Scaling

LEMMA UnscalingAccess == ASSUME TimerTypes, Unscaling, Access PROVE TimerInv'
<1>1. CASE todo = <<Wait("TCLR"), Reset({"PRE"})>>
  <2>1. Head(todo) = Wait("TCLR") /\ Tail(todo) = <<Reset({"PRE"})>>
    BY <1>1
  <2>2. Unscaling' /\ TimerTypes'
    BY <2>1, WaitAccess, UnchangedBlocks DEF Unscaling, Configuring
  <2> QED BY <2>2 DEF TimerInv, Situation
<1>2. CASE todo = <<Reset({"PRE"})>> /\ ~Pending("TCLR")
  <2>1. Head(todo) = Reset({"PRE"}) /\ Tail(todo) = <<>>
    BY <1>2
  <2>2. /\ TCLR' = {reg.TCLR \ {"PRE"}} /\ TCLR = {reg.TCLR} /\ Readable("TCLR")' \subseteq {reg.TCLR \ {"PRE"}, reg.TCLR}
        /\ Readable("TCLR") = {reg.TCLR}
        /\ Others("TCLR") /\ reg'.TIER = reg.TIER
        /\ UNCHANGED <<POSTED, asked, power, m_context>> /\ todo' = <<>>
        /\ TimerTypes'
    BY <1>2, <2>1, ResetAccess, WaitTCLR
  <2>3. Limits' /\ Counter'
    BY <2>2 DEF Unscaling, Limits, LoadEnds, MatchEnds, Fresh, Counter, CounterEnds, Others, Off, Ends
  <2>4. Kept(TCLR, {})'
    <3>1. Asked' = Asked /\ "PRE" \notin Asked
      BY <2>2 DEF Asked, Unscaling, TimerTypes, Asking, Modes, ModeBits
    <3> QED BY <2>2, <3>1 DEF Unscaling, Kept
  <2>5. Stopped(TCLR)' /\ Going(TCLR)'
    BY <2>2 DEF Unscaling, Configuring, Stopped, Going
  <2>6. AtRest'
    BY <2>2, <2>3, <2>4, <2>5 DEF Unscaling, Configuring, AtRest, Steady
  <2> QED BY <2>2, <2>6 DEF TimerInv, Situation
<1> QED BY <1>1, <1>2 DEF Unscaling

LEMMA GpoAccess == ASSUME TimerTypes, GpoConfiguring, Access PROVE TimerInv'
<1> DEFINE gpo == asked.gpo
<1>0. gpo \in SUBSET Bits /\ gpo \subseteq {"GPO"}
  BY DEF TimerTypes, Asking, Bits
<1>1. CASE todo = <<Wait("TCLR"), Reset({"GPO"}), Wait("TCLR"), Set(gpo)>>
  <2>1. Head(todo) = Wait("TCLR") /\ Tail(todo) = <<Reset({"GPO"}), Wait("TCLR"), Set(gpo)>>
    BY <1>1
  <2>2. GpoConfiguring' /\ TimerTypes'
    BY <2>1, WaitAccess, UnchangedBlocks DEF GpoConfiguring, Configuring
  <2> QED BY <2>2 DEF TimerInv, Situation
<1>2. CASE todo = <<Reset({"GPO"}), Wait("TCLR"), Set(gpo)>> /\ ~Pending("TCLR")
  <2>1. Head(todo) = Reset({"GPO"}) /\ Tail(todo) = <<Wait("TCLR"), Set(gpo)>>
    BY <1>2
  <2>2. /\ TCLR' = {reg.TCLR \ {"GPO"}} /\ TCLR = {reg.TCLR} /\ Readable("TCLR")' \subseteq {reg.TCLR \ {"GPO"}, reg.TCLR}
        /\ Readable("TCLR") = {reg.TCLR}
        /\ Others("TCLR") /\ reg'.TIER = reg.TIER
        /\ UNCHANGED <<POSTED, asked, power, m_context>> /\ todo' = <<Wait("TCLR"), Set(gpo)>>
        /\ TimerTypes'
    BY <1>2, <2>1, ResetAccess, WaitTCLR
  <2>3. Limits' /\ Counter'
    BY <2>2 DEF GpoConfiguring, Limits, LoadEnds, MatchEnds, Fresh, Counter, CounterEnds, Others, Off, Ends
  <2>4. Kept(TCLR, {"GPO"})' /\ Stopped(TCLR)' /\ Off(TCLR, {"GPO"})'
    BY <2>2 DEF GpoConfiguring, Configuring, Kept, Stopped, Asked, Off
  <2>5. GpoConfiguring'
    BY <2>2, <2>3, <2>4 DEF GpoConfiguring, Configuring
  <2> QED BY <2>2, <2>5 DEF TimerInv, Situation
<1>3. CASE todo = <<Wait("TCLR"), Set(gpo)>> /\ Off(TCLR, {"GPO"})
  <2>1. Head(todo) = Wait("TCLR") /\ Tail(todo) = <<Set(gpo)>>
    BY <1>3
  <2>2. GpoConfiguring' /\ TimerTypes'
    BY <1>3, <2>1, WaitAccess, UnchangedBlocks DEF GpoConfiguring, Configuring
  <2> QED BY <2>2 DEF TimerInv, Situation
<1>4. CASE todo = <<Set(gpo)>> /\ Off(TCLR, {"GPO"}) /\ ~Pending("TCLR")
  <2>1. Head(todo) = Set(gpo) /\ Tail(todo) = <<>>
    BY <1>4
  <2>2. /\ TCLR' = {reg.TCLR \union gpo} /\ TCLR = {reg.TCLR} /\ Readable("TCLR")' \subseteq {reg.TCLR \union gpo, reg.TCLR}
        /\ Readable("TCLR") = {reg.TCLR}
        /\ Others("TCLR") /\ reg'.TIER = reg.TIER
        /\ UNCHANGED <<POSTED, asked, power, m_context>> /\ todo' = <<>>
        /\ TimerTypes'
    BY <1>0, <1>4, <2>1, SetAccess, WaitTCLR
  <2>3. Limits' /\ Counter'
    BY <1>0, <2>2 DEF GpoConfiguring, Limits, LoadEnds, MatchEnds, Fresh, Counter, CounterEnds, Others, Off, Ends
  <2>4. Kept(TCLR, {})'
    <3>1. Asked' = Asked /\ ("GPO" \in Asked <=> "GPO" \in gpo)
      BY <2>2 DEF Asked, TimerTypes, Asking, Modes, ModeBits
    <3>2. "GPO" \in reg.TCLR \union gpo <=> "GPO" \in gpo
      BY <1>4, <2>2 DEF Off
    <3> QED BY <1>0, <2>2, <3>1, <3>2 DEF GpoConfiguring, Kept
  <2>5. Stopped(TCLR)' /\ Going(TCLR)'
    BY <1>0, <2>2 DEF GpoConfiguring, Configuring, Stopped, Going
  <2>6. AtRest'
    BY <2>2, <2>3, <2>4, <2>5 DEF GpoConfiguring, Configuring, AtRest, Steady
  <2> QED BY <2>2, <2>6 DEF TimerInv, Situation
<1> QED BY <1>1, <1>2, <1>3, <1>4 DEF GpoConfiguring

\* A method that sets a register to what is asked.
LEMMA SettingAccess == ASSUME TimerTypes, CounterSetting \/ ReloadSetting \/ CompareSetting, Access PROVE TimerInv'
<1>0. \A r \in {"TCRR", "TLDR", "TMAR"} : \A v \in Count : [reg |-> r, val |-> v] \in Writes
  BY DEF Writes, WordRegs
<1>1. CASE CounterSetting
  <2>0. asked.counter \in Count
    BY DEF TimerTypes, Asking
  <2>1. CASE todo = <<Wait("TCRR"), Assign("TCRR", asked.counter)>>
    <3>1. Head(todo) = Wait("TCRR") /\ Tail(todo) = <<Assign("TCRR", asked.counter)>>
      BY <2>1
    <3>2. CounterSetting' /\ TimerTypes'
      BY <1>1, <3>1, WaitAccess, UnchangedBlocks DEF CounterSetting, Still
    <3> QED BY <3>2 DEF TimerInv, Situation
  <2>2. CASE todo = <<Assign("TCRR", asked.counter)>>
    <3>1. Head(todo) = Assign("TCRR", asked.counter) /\ Tail(todo) = <<>>
      BY <2>2
    <3>2. Write("TCRR", asked.counter) /\ UNCHANGED <<POSTED, asked, power, m_context>> /\ todo' = <<>>
      BY <3>1, AssignAccess
    <3>3. TimerTypes'
      BY <1>0, <2>0, <3>2, WriteTypes
    <3>4. /\ Final("TCRR")' = {asked.counter} /\ Others("TCRR") /\ reg'.TIER = reg.TIER
          /\ Readable("TCLR")' = Readable("TCLR")
      BY <3>2, WriteBlocks
    <3>5. TCLR' = TCLR /\ (Fresh' => ~Pending("TTGR")')
      BY <1>1, <3>2, <3>4 DEF Others, TCLR, CounterSetting, Fresh
    <3>6. Limits' /\ Counter'
      BY <1>1, <3>2, <3>4, <3>5 DEF CounterSetting, Limits, LoadEnds, MatchEnds, Fresh, Counter, CounterEnds, Others, Off, Ends
    <3>7. Kept(TCLR, {})' /\ Stopped(TCLR)' /\ Going(TCLR)'
      BY <1>1, <3>2, <3>5 DEF CounterSetting, Still, Kept, Stopped, Going, Asked
    <3>8. AtRest'
      BY <1>1, <3>2, <3>6, <3>7 DEF CounterSetting, Still, AtRest, Steady
    <3> QED BY <3>3, <3>8 DEF TimerInv, Situation
  <2> QED BY <1>1, <2>1, <2>2 DEF CounterSetting
<1>2. CASE ReloadSetting
  <2>0. asked.reload \in Count
    BY DEF TimerTypes, Asking
  <2>1. CASE todo = <<Wait("TLDR"), Assign("TLDR", asked.reload)>>
    <3>1. Head(todo) = Wait("TLDR") /\ Tail(todo) = <<Assign("TLDR", asked.reload)>>
      BY <2>1
    <3>2. ReloadSetting' /\ TimerTypes'
      BY <1>2, <3>1, WaitAccess, UnchangedBlocks DEF ReloadSetting, Still
    <3> QED BY <3>2 DEF TimerInv, Situation
  <2>2. CASE todo = <<Assign("TLDR", asked.reload)>>
    <3>1. Head(todo) = Assign("TLDR", asked.reload) /\ Tail(todo) = <<>>
      BY <2>2
    <3>2. Write("TLDR", asked.reload) /\ UNCHANGED <<POSTED, asked, power, m_context>> /\ todo' = <<>>
      BY <3>1, AssignAccess
    <3>3. TimerTypes'
      BY <1>0, <2>0, <3>2, WriteTypes
    <3>4. /\ Final("TLDR")' = {asked.reload} /\ Others("TLDR") /\ reg'.TIER = reg.TIER
          /\ Readable("TCLR")' = Readable("TCLR")
      BY <3>2, WriteBlocks
    <3>5. TCLR' = TCLR /\ (Fresh' => ~Pending("TTGR")')
      BY <1>2, <3>2, <3>4 DEF Others, TCLR, ReloadSetting, Fresh
    <3>6. Limits' /\ Counter'
      BY <1>2, <3>2, <3>4, <3>5 DEF ReloadSetting, Limits, LoadEnds, MatchEnds, Fresh, Counter, CounterEnds, Others, Off, Ends
    <3>7. Kept(TCLR, {})' /\ Stopped(TCLR)' /\ Going(TCLR)'
      BY <1>2, <3>2, <3>5 DEF ReloadSetting, Still, Kept, Stopped, Going, Asked
    <3>8. AtRest'
      BY <1>2, <3>2, <3>6, <3>7 DEF ReloadSetting, Still, AtRest, Steady
    <3> QED BY <3>3, <3>8 DEF TimerInv, Situation
  <2> QED BY <1>2, <2>1, <2>2 DEF ReloadSetting
<1>3. CASE CompareSetting
  <2>0. asked.compare \in Count
    BY DEF TimerTypes, Asking
  <2>1. CASE todo = <<Wait("TMAR"), Assign("TMAR", asked.compare)>>
    <3>1. Head(todo) = Wait("TMAR") /\ Tail(todo) = <<Assign("TMAR", asked.compare)>>
      BY <2>1
    <3>2. CompareSetting' /\ TimerTypes'
      BY <1>3, <3>1, WaitAccess, UnchangedBlocks DEF CompareSetting, Still
    <3> QED BY <3>2 DEF TimerInv, Situation
  <2>2. CASE todo = <<Assign("TMAR", asked.compare)>>
    <3>1. Head(todo) = Assign("TMAR", asked.compare) /\ Tail(todo) = <<>>
      BY <2>2
    <3>2. Write("TMAR", asked.compare) /\ UNCHANGED <<POSTED, asked, power, m_context>> /\ todo' = <<>>
      BY <3>1, AssignAccess
    <3>3. TimerTypes'
      BY <1>0, <2>0, <3>2, WriteTypes
    <3>4. /\ Final("TMAR")' = {asked.compare} /\ Others("TMAR") /\ reg'.TIER = reg.TIER
          /\ Readable("TCLR")' = Readable("TCLR")
      BY <3>2, WriteBlocks
    <3>5. TCLR' = TCLR
      BY <3>4 DEF Others, TCLR
    <3>6. Limits' /\ Counter'
      BY <1>3, <3>2, <3>4, <3>5 DEF CompareSetting, Limits, LoadEnds, MatchEnds, Fresh, Counter, CounterEnds, Others, Off, Ends
    <3>7. Kept(TCLR, {})' /\ Stopped(TCLR)' /\ Going(TCLR)'
      BY <1>3, <3>2, <3>5 DEF CompareSetting, Still, Kept, Stopped, Going, Asked
    <3>8. AtRest'
      BY <1>3, <3>2, <3>6, <3>7 DEF CompareSetting, Still, AtRest, Steady
    <3> QED BY <3>3, <3>8 DEF TimerInv, Situation
  <2> QED BY <1>3, <2>1, <2>2 DEF CompareSetting
<1> QED BY <1>1, <1>2, <1>3

\* A trigger takes the counter from TLDR, at once or when it lands.
LEMMA TriggeringAccess == ASSUME TimerTypes, Triggering, Access PROVE TimerInv'
<1>1. CASE todo = <<Wait("TTGR"), Assign("TTGR", 0)>>
  <2>1. Head(todo) = Wait("TTGR") /\ Tail(todo) = <<Assign("TTGR", 0)>>
    BY <1>1
  <2>2. Triggering' /\ TimerTypes'
    BY <2>1, WaitAccess, UnchangedBlocks DEF Triggering, Still
  <2> QED BY <2>2 DEF TimerInv, Situation
<1>2. CASE todo = <<Assign("TTGR", 0)>>
  <2>1. Head(todo) = Assign("TTGR", 0) /\ Tail(todo) = <<>>
    BY <1>2
  <2>2. Write("TTGR", 0) /\ UNCHANGED <<POSTED, asked, power, m_context>> /\ todo' = <<>>
    BY <2>1, AssignAccess
  <2>3. TimerTypes'
    BY <2>2, WriteTypes DEF Writes
  <2>4. /\ Fresh' <=> Fresh
        /\ Fresh => ~Pending("TLDR") /\ ~Pending("TCRR") /\ reg.TLDR = asked.counter
    BY <2>2 DEF Triggering, Fresh
  <2>5. /\ TCLR' = TCLR /\ Readable("TCLR")' = Readable("TCLR") /\ (Fresh => CounterEnds')
        /\ Final("TLDR")' = Final("TLDR") /\ Final("TMAR")' = Final("TMAR") /\ reg'.TIER = reg.TIER
    <3>1. CASE POSTED
      <4>1. pend' = {w \in pend : w.reg # "TTGR"} \union {[reg |-> "TTGR", val |-> 0]} /\ reg' = reg
        BY <2>2, <3>1 DEF Write
      <4>n. [reg |-> "TTGR", val |-> 0] \in pend' /\ \A w \in pend' : w \in pend \/ w.reg = "TTGR"
        BY <4>1
      <4>p. Pending("TTGR")' /\ (Fresh => ~Pending("TCRR")' /\ ~Pending("TLDR")')
        BY <2>4, <4>n DEF Pending
      <4>2. Fresh => CounterEnds'
        BY <2>2, <2>4, <4>1, <4>p DEF CounterEnds
      <4>3. TCLR' = TCLR /\ Final("TLDR")' = Final("TLDR") /\ Final("TMAR")' = Final("TMAR")
        <5>1. \A q \in {"TCLR", "TLDR", "TMAR"} :
                 {x \in pend' : x.reg = q} = {x \in pend : x.reg = q} /\ (Pending(q)' <=> Pending(q))
          BY <4>1 DEF Pending
        <5> QED BY <4>1, <5>1 DEF TCLR, Final
      <4>4. Readable("TCLR")' = Readable("TCLR")
        BY <4>1 DEF Readable
      <4> QED BY <4>1, <4>2, <4>3, <4>4
    <3>2. CASE ~POSTED
      <4>1. pend' = {} /\ pend = {} /\ reg' = [reg EXCEPT !.TCRR = reg.TLDR]
        <5>1. pend = {}
          BY <3>2 DEF TimerTypes
        <5>2. UNCHANGED pend /\ reg' = Landed(reg, "TTGR", 0)
          BY <2>2, <3>2 DEF Write
        <5> QED BY <5>1, <5>2 DEF Landed
      <4>2. /\ reg'.TLDR = reg.TLDR /\ reg'.TMAR = reg.TMAR /\ reg'.TCLR = reg.TCLR /\ reg'.TIER = reg.TIER
            /\ Fresh => reg'.TCRR = asked'.counter
        BY <2>2, <2>4, <4>1 DEF TimerTypes, Regs
      <4> QED BY <4>1, <4>2 DEF TCLR, Final, Readable, Pending, CounterEnds, Ends
    <3> QED BY <3>1, <3>2
  <2>6. Limits' /\ Counter'
    BY <2>2, <2>4, <2>5 DEF Triggering, Limits, LoadEnds, MatchEnds, Fresh, Counter, Off, Ends
  <2>7. Kept(TCLR, {})' /\ Stopped(TCLR)' /\ Going(TCLR)'
    BY <2>2, <2>5 DEF Triggering, Still, Kept, Stopped, Going, Asked
  <2>8. AtRest'
    BY <2>2, <2>6, <2>7 DEF Triggering, Still, AtRest, Steady
  <2> QED BY <2>3, <2>8 DEF TimerInv, Situation
<1> QED BY <1>1, <1>2 DEF Triggering

\* TIER is never posted.
LEMMA TierWrite == ASSUME TimerTypes, NEW v \in BOOLEAN, Write("TIER", v), UNCHANGED <<POSTED, asked, power, m_context>>
   PROVE  /\ TimerTypes' /\ TCLR' = TCLR /\ Readable("TCLR")' = Readable("TCLR")
          /\ \A r : Pending(r)' <=> Pending(r)
          /\ \A r \in {"TCLR", "TCRR", "TLDR", "TMAR"} : Final(r)' = Final(r) /\ reg'[r] = reg[r]
          /\ reg'.TIER = v
<1>1. pend' = pend /\ reg' = [reg EXCEPT !.TIER = v]
  BY DEF Write, Landed
<1>2. TimerTypes'
  BY <1>1 DEF TimerTypes, Fresh, Regs
<1> QED BY <1>1, <1>2 DEF TimerTypes, Regs, TCLR, Final, Readable, Pending

LEMMA IrqAccess == ASSUME TimerTypes, IrqSetting, Access PROVE TimerInv'
<1>0. asked.irq \in BOOLEAN
  BY DEF TimerTypes, Asking
<1>1. Head(todo) = Assign("TIER", asked.irq) /\ Tail(todo) = <<>>
  BY DEF IrqSetting
<1>2. Write("TIER", asked.irq) /\ UNCHANGED <<POSTED, asked, power, m_context>> /\ todo' = <<>>
  BY <1>1, AssignAccess
<1>3. Limits' /\ Counter'
  BY <1>0, <1>2, TierWrite DEF IrqSetting, Limits, LoadEnds, MatchEnds, Fresh, Counter, CounterEnds, Off, Ends
<1>4. Kept(TCLR, {})' /\ Stopped(TCLR)' /\ Going(TCLR)'
  BY <1>0, <1>2, TierWrite DEF IrqSetting, Still, Kept, Stopped, Going, Asked
<1>5. AtRest'
  BY <1>2, <1>3, <1>4 DEF IrqSetting, Still, AtRest, Steady
<1> QED BY <1>0, <1>2, <1>5, TierWrite DEF TimerInv, Situation

LEMMA SavingAccess == ASSUME TimerTypes, Saving, Access PROVE TimerInv'
<1>0. power = "saved" /\ Steady /\ NoneLate
  BY DEF Saving
<1>a. /\ InTime("TLDR") => ~Pending("TLDR") /\ reg.TLDR = asked.reload
      /\ InTime("TMAR") => ~Pending("TMAR") /\ reg.TMAR = asked.compare
      /\ reg.TIER = asked.irq /\ ~Pending("TIER")
  BY <1>0 DEF Steady, NoneLate, InTime, Limits, LoadEnds, MatchEnds, Ends, Final, TimerTypes, Writes, WordRegs, Pending
<1>s. ASSUME UNCHANGED <<POSTED, reg, pend, asked, power>>
      PROVE  power' = "saved" /\ Steady' /\ NoneLate' /\ \A r : Pending(r)' <=> Pending(r)
  BY <1>0, <1>s DEF Steady, NoneLate, InTime, Fresh, LoadEnds, MatchEnds, Limits, Counter, CounterEnds, Kept,
                    Stopped, Going, TCLR, Final, Ends, Pending, Readable, Off, Asked
\* A save of one register keeps what was saved of the others.
<1>t. ASSUME NEW r \in {"TLDR", "TMAR", "TIER", "TCRR", "TCLR"}, Head(todo) = Save(r)
      PROVE  /\ todo' = Tail(todo) /\ TimerTypes' /\ UNCHANGED <<POSTED, reg, pend, asked, power>>
             /\ ~Pending(r) => m_context'[r] = reg[r]
             /\ \A q \in {"TLDR", "TMAR", "TIER", "TCRR", "TCLR"} \ {r} : m_context'[q] = m_context[q]
  BY <1>t, SaveAccess
<1>1. CASE todo = context_save
  <2>1. Head(todo) = Save("TLDR")
        /\ Tail(todo) = <<Save("TMAR"), Save("TIER"), Wait("TCRR"), Save("TCRR"), Wait("TCLR"), Save("TCLR")>>
    BY <1>1 DEF context_save
  <2>2. ContextLoad'
    BY <1>a, <1>t, <2>1 DEF ContextLoad, InTime
  <2>3. Saving'
    BY <1>s, <1>t, <2>1, <2>2 DEF Saving
  <2> QED BY <1>t, <2>1, <2>3 DEF TimerInv, Situation
<1>2. CASE /\ ContextLoad
           /\ todo = <<Save("TMAR"), Save("TIER"), Wait("TCRR"), Save("TCRR"), Wait("TCLR"), Save("TCLR")>>
  <2>1. Head(todo) = Save("TMAR")
        /\ Tail(todo) = <<Save("TIER"), Wait("TCRR"), Save("TCRR"), Wait("TCLR"), Save("TCLR")>>
    BY <1>2
  <2>2. ContextLoad' /\ ContextMatch'
    BY <1>a, <1>t, <1>2, <2>1 DEF ContextLoad, ContextMatch, InTime
  <2>3. Saving'
    BY <1>s, <1>t, <2>1, <2>2 DEF Saving
  <2> QED BY <1>t, <2>1, <2>3 DEF TimerInv, Situation
<1>3. CASE /\ ContextLoad /\ ContextMatch
           /\ todo = <<Save("TIER"), Wait("TCRR"), Save("TCRR"), Wait("TCLR"), Save("TCLR")>>
  <2>1. Head(todo) = Save("TIER")
        /\ Tail(todo) = <<Wait("TCRR"), Save("TCRR"), Wait("TCLR"), Save("TCLR")>>
    BY <1>3
  <2>2. ContextLoad' /\ ContextMatch' /\ m_context'.TIER = asked'.irq
    BY <1>a, <1>t, <1>3, <2>1 DEF ContextLoad, ContextMatch, InTime
  <2>3. Saving'
    BY <1>s, <1>t, <2>1, <2>2 DEF Saving
  <2> QED BY <1>t, <2>1, <2>3 DEF TimerInv, Situation
<1>4. CASE /\ ContextLoad /\ ContextMatch /\ m_context.TIER = asked.irq
           /\ todo = <<Wait("TCRR"), Save("TCRR"), Wait("TCLR"), Save("TCLR")>>
  <2>1. Head(todo) = Wait("TCRR") /\ Tail(todo) = <<Save("TCRR"), Wait("TCLR"), Save("TCLR")>>
    BY <1>4
  <2>2. Saving' /\ TimerTypes'
    BY <1>s, <1>4, <2>1, WaitAccess, UnchangedBlocks DEF Saving
  <2> QED BY <2>2 DEF TimerInv, Situation
<1>5. CASE /\ ContextLoad /\ ContextMatch /\ m_context.TIER = asked.irq /\ ~Pending("TCRR")
           /\ todo = <<Save("TCRR"), Wait("TCLR"), Save("TCLR")>>
  <2>1. Head(todo) = Save("TCRR") /\ Tail(todo) = <<Wait("TCLR"), Save("TCLR")>>
    BY <1>5
  <2>2. InTime("TCRR") => reg.TCRR = asked.counter
    BY <1>0, <1>5 DEF Steady, NoneLate, InTime, Fresh, Counter, CounterEnds, Ends, Final
  <2>3. ContextCounter' /\ ContextLoad' /\ ContextMatch' /\ m_context'.TIER = asked'.irq
    BY <1>t, <1>5, <2>1, <2>2 DEF ContextCounter, ContextLoad, ContextMatch, InTime
  <2>4. ~Pending("TCRR")' /\ todo' = <<Wait("TCLR"), Save("TCLR")>>
    BY <1>s, <1>t, <1>5, <2>1
  <2>5. Saving'
    BY <1>s, <1>t, <2>1, <2>3, <2>4 DEF Saving
  <2> QED BY <1>t, <2>1, <2>5 DEF TimerInv, Situation
<1>6. CASE /\ ContextLoad /\ ContextMatch /\ m_context.TIER = asked.irq /\ ~Pending("TCRR")
           /\ ContextCounter /\ todo = <<Wait("TCLR"), Save("TCLR")>>
  <2>1. Head(todo) = Wait("TCLR") /\ Tail(todo) = <<Save("TCLR")>>
    BY <1>6
  <2>2. Saving' /\ TimerTypes'
    BY <1>s, <1>6, <2>1, WaitAccess, UnchangedBlocks DEF Saving
  <2> QED BY <2>2 DEF TimerInv, Situation
<1>7. CASE /\ ContextLoad /\ ContextMatch /\ m_context.TIER = asked.irq
           /\ ContextCounter /\ todo = <<Save("TCLR")>> /\ ~Pending("TCLR")
  <2>1. Head(todo) = Save("TCLR") /\ Tail(todo) = <<>>
    BY <1>7
  <2>2. m_context'.TCLR = reg.TCLR /\ TCLR = {reg.TCLR}
    BY <1>t, <1>7, <2>1, WaitTCLR
  <2>3. ContextBits'
    BY <1>0, <1>t, <2>1, <2>2 DEF ContextBits, Steady, Kept, Stopped, Going, Asked
  <2>4. ContextLimits' /\ ContextCounter'
    BY <1>t, <1>7, <2>1 DEF ContextLimits, ContextLoad, ContextMatch, ContextCounter, InTime
  <2>5. AtRest'
    BY <1>s, <1>t, <2>1, <2>3, <2>4 DEF AtRest, ContextOk
  <2> QED BY <1>t, <2>1, <2>5 DEF TimerInv, Situation
<1> QED BY <1>1, <1>2, <1>3, <1>4, <1>5, <1>6, <1>7 DEF Saving

\* The registers are being restored: the context is right and TCLR still clear.
Powered == power = "on" /\ ContextOk /\ ~Pending("TCLR") /\ ~Pending("TTGR") /\ reg.TCLR = {}
           /\ asked.known \intersect asked.early = {}

\* While the context is restored nothing counts.
LEMMA PoweredWait == ASSUME TimerTypes, Powered, NEW r, Head(todo) = Wait(r), Access PROVE
  /\ Powered' /\ TimerTypes' /\ todo' = Tail(todo) /\ UNCHANGED <<POSTED, reg, pend, asked, power, m_context>>
  /\ \A q : Final(q)' = Final(q)
BY WaitAccess, UnchangedBlocks DEF Powered, ContextOk, ContextLimits, ContextLoad, ContextMatch, ContextCounter, InTime, ContextBits, Kept, Stopped, Going, Asked

LEMMA PoweredRestore == ASSUME TimerTypes, Powered, NEW r \in {"TLDR", "TMAR", "TCRR"}, Head(todo) = Restore(r), Access PROVE
  /\ Powered' /\ TimerTypes' /\ todo' = Tail(todo) /\ UNCHANGED <<POSTED, asked, power, m_context>>
  /\ Final(r)' = {m_context[r]} /\ Others(r) /\ reg'.TIER = reg.TIER
<1>1. Write(r, m_context[r]) /\ UNCHANGED <<POSTED, asked, power, m_context>> /\ todo' = Tail(todo)
  BY RestoreAccess
<1>2. [reg |-> r, val |-> m_context[r]] \in Writes
  BY DEF TimerTypes, Regs, Writes, WordRegs
<1>3. /\ TimerTypes' /\ Final(r)' = {m_context[r]} /\ Others(r) /\ reg'.TIER = reg.TIER
  BY <1>1, <1>2, WriteTypes, WriteBlocks
<1>4. Powered'
  BY <1>1, <1>3 DEF Powered, Others, ContextOk, ContextLimits, ContextLoad, ContextMatch, ContextCounter, InTime, ContextBits, Kept, Stopped, Going, Asked
<1> QED BY <1>1, <1>3, <1>4

LEMMA RestoringAccess == ASSUME TimerTypes, Restoring, Access PROVE TimerInv'
<1>0. Powered
  BY DEF Powered, Restoring
<1>a. /\ "TLDR" \in asked.known => m_context.TLDR = asked.reload
      /\ "TMAR" \in asked.known => m_context.TMAR = asked.compare
      /\ m_context.TIER = asked.irq
      /\ Fresh => m_context.TCRR = asked.counter
  BY DEF Restoring, ContextOk, ContextLimits, ContextLoad, ContextMatch, ContextCounter, InTime, Fresh
<1>1. CASE todo = context_restore
  <2>1. Head(todo) = Wait("TLDR")
        /\ Tail(todo) = <<Restore("TLDR"), Wait("TMAR"), Restore("TMAR"), Restore("TIER"),
                     Wait("TCRR"), Restore("TCRR"), Wait("TCLR"), Restore("TCLR")>>
    BY <1>1 DEF context_restore
  <2>2. Restoring' /\ TimerTypes'
    BY <1>0, <2>1, PoweredWait DEF Restoring, Powered
  <2> QED BY <2>2 DEF TimerInv, Situation
<1>2. CASE todo = <<Restore("TLDR"), Wait("TMAR"), Restore("TMAR"), Restore("TIER"),
                     Wait("TCRR"), Restore("TCRR"), Wait("TCLR"), Restore("TCLR")>>
  <2>1. Head(todo) = Restore("TLDR")
        /\ Tail(todo) = <<Wait("TMAR"), Restore("TMAR"), Restore("TIER"),
                     Wait("TCRR"), Restore("TCRR"), Wait("TCLR"), Restore("TCLR")>>
    BY <1>2
  <2>2. Restoring' /\ TimerTypes'
    BY <1>0, <1>a, <2>1, PoweredRestore DEF Restoring, Powered, LoadEnds, MatchEnds, Fresh, Ends
  <2> QED BY <2>2 DEF TimerInv, Situation
<1>3. CASE /\ LoadEnds
           /\ todo = <<Wait("TMAR"), Restore("TMAR"), Restore("TIER"),
                     Wait("TCRR"), Restore("TCRR"), Wait("TCLR"), Restore("TCLR")>>
  <2>1. Head(todo) = Wait("TMAR")
        /\ Tail(todo) = <<Restore("TMAR"), Restore("TIER"),
                     Wait("TCRR"), Restore("TCRR"), Wait("TCLR"), Restore("TCLR")>>
    BY <1>3
  <2>2. Restoring' /\ TimerTypes'
    BY <1>0, <1>3, <2>1, PoweredWait DEF Restoring, Powered, LoadEnds, MatchEnds, Fresh, Ends
  <2> QED BY <2>2 DEF TimerInv, Situation
<1>4. CASE /\ LoadEnds
           /\ todo = <<Restore("TMAR"), Restore("TIER"),
                     Wait("TCRR"), Restore("TCRR"), Wait("TCLR"), Restore("TCLR")>>
  <2>1. Head(todo) = Restore("TMAR")
        /\ Tail(todo) = <<Restore("TIER"), Wait("TCRR"), Restore("TCRR"), Wait("TCLR"), Restore("TCLR")>>
    BY <1>4
  <2>2. Restoring' /\ TimerTypes'
    BY <1>0, <1>a, <1>4, <2>1, PoweredRestore DEF Restoring, Powered, LoadEnds, MatchEnds, Fresh, Ends, Others
  <2> QED BY <2>2 DEF TimerInv, Situation
<1>5. CASE /\ LoadEnds /\ MatchEnds
           /\ todo = <<Restore("TIER"), Wait("TCRR"), Restore("TCRR"), Wait("TCLR"), Restore("TCLR")>>
  <2>1. Head(todo) = Restore("TIER")
        /\ Tail(todo) = <<Wait("TCRR"), Restore("TCRR"), Wait("TCLR"), Restore("TCLR")>>
    BY <1>5
  <2>2. Write("TIER", m_context.TIER) /\ UNCHANGED <<POSTED, asked, power, m_context>> /\ todo' = Tail(todo)
    BY <2>1, RestoreAccess
  <2>3. m_context.TIER \in BOOLEAN
    BY DEF TimerTypes, Regs
  <2>4. Powered' /\ reg'.TIER = asked'.irq /\ LoadEnds' /\ MatchEnds' /\ TimerTypes'
    BY <1>0, <1>a, <1>5, <2>2, <2>3, TierWrite DEF Powered, LoadEnds, MatchEnds, Fresh, Ends, ContextOk, ContextLimits, ContextLoad, ContextMatch, ContextCounter, InTime, ContextBits, Kept, Stopped, Going, Asked
  <2>5. Restoring'
    BY <2>1, <2>2, <2>4 DEF Restoring, Powered
  <2> QED BY <2>4, <2>5 DEF TimerInv, Situation
<1>6. CASE /\ LoadEnds /\ MatchEnds /\ reg.TIER = asked.irq
           /\ todo = <<Wait("TCRR"), Restore("TCRR"), Wait("TCLR"), Restore("TCLR")>>
  <2>1. Head(todo) = Wait("TCRR") /\ Tail(todo) = <<Restore("TCRR"), Wait("TCLR"), Restore("TCLR")>>
    BY <1>6
  <2>2. Restoring' /\ TimerTypes'
    BY <1>0, <1>6, <2>1, PoweredWait DEF Restoring, Powered, LoadEnds, MatchEnds, Fresh, Ends
  <2> QED BY <2>2 DEF TimerInv, Situation
<1>7. CASE /\ LoadEnds /\ MatchEnds /\ reg.TIER = asked.irq
           /\ todo = <<Restore("TCRR"), Wait("TCLR"), Restore("TCLR")>>
  <2>1. Head(todo) = Restore("TCRR") /\ Tail(todo) = <<Wait("TCLR"), Restore("TCLR")>>
    BY <1>7
  <2>2. /\ Powered' /\ TimerTypes' /\ todo' = <<Wait("TCLR"), Restore("TCLR")>> /\ UNCHANGED <<POSTED, asked, power, m_context>>
        /\ Final("TCRR")' = {m_context.TCRR} /\ Others("TCRR") /\ reg'.TIER = reg.TIER
    BY <1>0, <2>1, PoweredRestore
  <2>3. LoadEnds' /\ MatchEnds' /\ (Fresh => Ends("TCRR", asked.counter))'
    BY <1>a, <1>7, <2>2 DEF LoadEnds, MatchEnds, Fresh, Ends, Others
  <2>4. Restoring'
    BY <1>7, <2>2, <2>3 DEF Restoring, Powered
  <2> QED BY <2>2, <2>4 DEF TimerInv, Situation
<1>8. CASE /\ LoadEnds /\ MatchEnds /\ reg.TIER = asked.irq
           /\ Fresh => Ends("TCRR", asked.counter)
           /\ todo = <<Wait("TCLR"), Restore("TCLR")>>
  <2>1. Head(todo) = Wait("TCLR") /\ Tail(todo) = <<Restore("TCLR")>>
    BY <1>8
  <2>2. Restoring' /\ TimerTypes'
    BY <1>0, <1>8, <2>1, PoweredWait DEF Restoring, Powered, LoadEnds, MatchEnds, Fresh, Ends
  <2> QED BY <2>2 DEF TimerInv, Situation
<1>9. CASE /\ LoadEnds /\ MatchEnds /\ reg.TIER = asked.irq
           /\ Fresh => Ends("TCRR", asked.counter)
           /\ todo = <<Restore("TCLR")>>
  <2>1. Head(todo) = Restore("TCLR") /\ Tail(todo) = <<>>
    BY <1>9
  <2>2. Write("TCLR", m_context.TCLR) /\ UNCHANGED <<POSTED, asked, power, m_context>> /\ todo' = <<>>
    BY <2>1, RestoreAccess
  <2>3. [reg |-> "TCLR", val |-> m_context.TCLR] \in Writes
    BY DEF TimerTypes, Regs, Writes, WordRegs
  <2>4. /\ TimerTypes' /\ TCLR' = {m_context.TCLR} /\ Others("TCLR") /\ reg'.TIER = reg.TIER
        /\ Readable("TCLR")' \subseteq {m_context.TCLR, reg.TCLR}
    BY <2>2, <2>3, WriteTypes, WriteBlocks DEF TCLR
  <2>5. ContextBits /\ ContextBits'
    BY <1>0, <2>2 DEF Powered, ContextOk, ContextBits, Kept, Stopped, Going, Asked
  <2>6. Kept(TCLR, {})' /\ Stopped(TCLR)' /\ Going(TCLR)'
    BY <2>2, <2>4, <2>5 DEF ContextBits, Kept, Stopped, Going
  <2>7. Fresh => Off({m_context.TCLR, reg.TCLR}, {"ST"})
    BY <1>0, <2>5 DEF Powered, ContextBits, Stopped, TimerTypes, Off
  <2>8. Limits'
    BY <1>9, <2>2, <2>4 DEF Limits, LoadEnds, MatchEnds, Ends, Others
  <2>9. Counter'
    <3>1. Fresh' <=> Fresh
      BY <2>2 DEF Fresh
    <3>2. Fresh => CounterEnds'
      <4>1. /\ Pending("TTGR")' <=> Pending("TTGR")
            /\ Pending("TCRR")' <=> Pending("TCRR")
            /\ Pending("TLDR")' <=> Pending("TLDR")
            /\ reg'.TLDR = reg.TLDR /\ Final("TCRR")' = Final("TCRR")
        BY <2>4 DEF Others
      <4>2. asked'.counter = asked.counter
        BY <2>2
      <4>3. Fresh => CounterEnds
        BY <1>9 DEF Restoring, Powered, CounterEnds
      <4> QED BY <4>1, <4>2, <4>3 DEF CounterEnds, Ends
    <3>3. Fresh => Off(Readable("TCLR"), {"ST"})'
      BY <2>4, <2>7 DEF Off
    <3> QED BY <3>1, <3>2, <3>3 DEF Counter
  <2>10. AtRest'
    BY <1>0, <2>2, <2>6, <2>8, <2>9 DEF AtRest, Steady, Powered
  <2> QED BY <2>4, <2>10 DEF TimerInv, Situation
<1> QED BY <1>1, <1>2, <1>3, <1>4, <1>5, <1>6, <1>7, <1>8, <1>9 DEF Restoring

\* Every access of every method.
LEMMA AccessStep == ASSUME TimerInv, Access PROVE TimerInv'
<1>1. ~AtRest
  BY DEF Access, AtRest
<1> QED
  BY <1>1, EnablingAccess, DisablingAccess, ModeAccess, ScalingAccess, UnscalingAccess, GpoAccess,
     SettingAccess, TriggeringAccess, IrqAccess, SavingAccess, RestoringAccess DEF TimerInv, Situation

\* The invariant is inductive.
LEMMA TimerStep == ASSUME TimerAssumption, TimerInv, [Next]_tvars PROVE TimerInv'
<1>1. CASE UNCHANGED tvars
  <2> UNCHANGED <<POSTED, reg, pend, asked, power, m_context>> /\ todo' = todo
    BY <1>1 DEF tvars
  <2>1. TimerTypes'
    BY DEF TimerInv, TimerTypes, Fresh
  <2>2. Situation'
    <3> USE UnchangedBlocks
    <3> Situation
      BY DEF TimerInv
    <3>0. /\ ContextOk' <=> ContextOk
          /\ Steady' <=> Steady
          /\ AfterAR(TCLR)' <=> AfterAR(TCLR)
          /\ Configuring' <=> Configuring
          /\ \A r, v : Ends(r, v)' <=> Ends(r, v)
      BY DEF ContextOk, ContextLimits, ContextLoad, ContextMatch, ContextCounter, InTime, ContextBits, Kept, Stopped, Going, Asked, Steady, AfterAR,
             Configuring, Ends
    <3>1. CASE AtRest BY <3>0, <3>1 DEF AtRest, Situation
    <3>2. CASE Enabling BY <3>2 DEF Enabling, Situation
    <3>3. CASE Disabling BY <3>3 DEF Disabling, Situation
    <3>4. CASE ModeConfiguring BY <3>0, <3>4 DEF ModeConfiguring, Situation
    <3>5. CASE Scaling BY <3>0, <3>5 DEF Scaling, Situation
    <3>6. CASE Unscaling BY <3>0, <3>6 DEF Unscaling, Situation
    <3>7. CASE GpoConfiguring BY <3>0, <3>7 DEF GpoConfiguring, Situation
    <3>8. CASE CounterSetting BY <3>0, <3>8 DEF CounterSetting, Still, Situation
    <3>9. CASE Triggering BY <3>0, <3>9 DEF Triggering, Still, Situation
    <3>10. CASE ReloadSetting BY <3>0, <3>10 DEF ReloadSetting, Still, Situation
    <3>11. CASE CompareSetting BY <3>0, <3>11 DEF CompareSetting, Still, Situation
    <3>12. CASE IrqSetting BY <3>0, <3>12 DEF IrqSetting, Still, Situation
    <3>13. CASE Saving BY <3>0, <3>13 DEF Saving, Situation
    <3>14. CASE Restoring BY <3>0, <3>14 DEF Restoring, Situation
    <3> QED BY <3>1, <3>2, <3>3, <3>4, <3>5, <3>6, <3>7, <3>8, <3>9, <3>10, <3>11, <3>12, <3>13, <3>14 DEF Situation
  <2> QED BY <2>1, <2>2 DEF TimerInv
<1>2. CASE Next
  BY <1>2, EnableStep, DisableStep, ModeStep, ScaleStep, UnscaleStep, GpoStep, CounterStep, ReloadStep, CompareStep,
     TriggerStep, IrqSetStep, SaveStep, RestoreStep, AccessStep, LandTypes, LandSituation, CountingTypes, CountingSituation,
     PowerLossStep DEF Next, TimerInv
<1> QED BY <1>1, <1>2

\* At rest with nothing on its way, the registers are what was asked.
LEMMA SettledTakesEffect == ASSUME TimerInv PROVE TakesEffect
<1> SUFFICES ASSUME Settled PROVE TakesEffect
  BY DEF TakesEffect
<1>1. Steady
  BY RestingIsAtRest DEF TimerInv, Settled, AtRest
<1>2. \A r : ~Pending(r)
  BY DEF Settled, Pending
<1>3. Limits /\ Kept({reg.TCLR}, {}) /\ Stopped({reg.TCLR}) /\ Going({reg.TCLR}) /\ ("TCRR" \in asked.known => reg.TCRR = asked.counter)
  BY <1>1, <1>2, WaitTCLR DEF Steady, Fresh, Counter, CounterEnds, Ends, Final
<1>4. /\ "TLDR" \in asked.known => reg.TLDR = asked.reload
      /\ "TMAR" \in asked.known => reg.TMAR = asked.compare
      /\ reg.TIER = asked.irq
  BY <1>2, <1>3 DEF Limits, LoadEnds, MatchEnds, Ends, Final
<1>5. "PRE" \in Asked <=> "PRE" \in asked.scale
  BY DEF TimerInv, TimerTypes, Asking, Asked, Modes, ModeBits
<1>6. "CE" \in Asked <=> "CE" \in asked.mode
  BY DEF TimerInv, TimerTypes, Asking, Asked, Modes, ModeBits
<1>7. "GPO" \in Asked <=> asked.gpo # {}
  BY DEF TimerInv, TimerTypes, Asking, Asked, Modes, ModeBits
<1>8. asked.mode \subseteq reg.TCLR
  BY <1>3, <1>6 DEF Kept, TimerInv, TimerTypes, Asking, Modes, ModeBits
<1>9. ~POSTED => reg.TCLR \ {"ST"} = Asked
  <2> SUFFICES ASSUME ~POSTED PROVE \A b \in Bits \ {"ST"} : b \in reg.TCLR <=> b \in Asked
    BY DEF TimerInv, TimerTypes, Asking, Regs, Bits, ModeBits, Modes, Asked
  <2> QED BY <1>3 DEF Kept, Bits, ModeBits
<1>10. ~POSTED => {"TLDR", "TMAR"} \subseteq asked.known
  BY DEF TimerInv, TimerTypes
<1> QED BY <1>3, <1>4, <1>5, <1>6, <1>7, <1>8, <1>9, <1>10 DEF TakesEffect, Kept, Stopped, Going, Asked

\* What the configuration calls have asked for is what the timer ends up with,
\* across power loss, for every counter width and any number of calls, whatever
\* writes were on their way at each of them.  Left open are only the values not
\* in asked.known: TLDR and TMAR saved before a write to them had landed, and a
\* counter that counts or whose loads were on their way together.
THEOREM TimerTakesEffect == Spec => []TakesEffect
<1>1. Init => TimerInv
  BY InitRest, TimerAssumption
<1>2. TimerInv /\ [Next]_tvars => TimerInv'
  BY TimerStep, TimerAssumption
<1>3. TimerInv => TakesEffect
  BY SettledTakesEffect
<1> QED BY <1>1, <1>2, <1>3, PTL DEF Spec
=============================================================================
