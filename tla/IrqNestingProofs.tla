-------------------------- MODULE IrqNestingProofs ---------------------------
(***************************************************************************)
(* What IrqNesting guarantees for any number of sources and any priorities *)
(* up to 127.                                                              *)
(*                                                                         *)
(* The argument.  From Enter to Return the threshold is the word the       *)
(* innermost handler read (ThresholdInv), so a source the INTC presents    *)
(* meanwhile is more urgent, and, unless that handler is spurious, nobody  *)
(* can take it down before it is entered (FreshInv): only the foreground   *)
(* and the source's own routine could.  Hence the new frame is genuine and *)
(* more urgent than the one below it.                                      *)
(***************************************************************************)
EXTENDS IrqNesting, SequenceTheorems, TLAPS

\* The handler entered last has not written NEWIRQAGR yet.
Owed ==
    /\ frames # <<>>
    /\ \/ top.step = "entered"
       \/ top.priority = 0 /\ top.step \in {"agreed", "isr", "served", "exit"}

ThresholdInv ==
    /\ threshold = IF InForeground THEN PRIORITY_THRESHOLD ELSE top.priority
    /\ frames # <<>> => frames[1].saved = PRIORITY_THRESHOLD
    /\ \A k \in 2..Len(frames) : frames[k].saved = frames[k-1].priority

FrameInv ==
    \A k \in 1..Len(frames) :
        /\ frames[k].priority \in {Priority[frames[k].irq], Priority[frames[k].irq] + SpuriousFlag}
        /\ k < Len(frames) => frames[k].step \in {"isr", "served"} /\ frames[k].priority # 0

MaskInv ==
    frames # <<>> /\ ~irqDisabled => top.step \in {"isr", "served"} /\ top.priority # 0

OwedInv == Owed => active = top.irq

FreshInv ==
    ~Owed /\ active # NoIrq =>
        /\ Priority[active] < threshold
        /\ frames # <<>> /\ IsGenuine(top) => active \in asserted \ masked

DepthInv ==
    \A k \in 1..Len(frames) :
        \/ \A j \in 1..k : ~IsGenuine(frames[j])
        \/ \E s \in 0..k-1 : /\ \A j \in 1..k : j <= s <=> ~IsGenuine(frames[j])
                             /\ frames[k].priority + (k - s) <= MaxPriority + 1

IInv == /\ TypeOK /\ ThresholdInv /\ FrameInv /\ MaskInv /\ OwedInv /\ FreshInv
        /\ NestingByPriority /\ DepthInv

-----------------------------------------------------------------------------
(* The stack. *)

LEMMA PriorityTyped ==
  /\ MaxPriority \in Nat /\ MaxPriority <= 127
  /\ \A irq \in Irqs : Priority[irq] \in Nat /\ Priority[irq] <= MaxPriority
BY PriorityAssumption

LEMMA FrameTyped ==
  ASSUME NEW f \in Frames
  PROVE  /\ f.irq \in Irqs /\ f.priority \in 0..255 /\ f.saved \in 0..255 /\ f.step \in Steps
         /\ \A s \in Steps : [f EXCEPT !.step = s] \in Frames
BY DEF Frames

\* A step of the innermost handler changes its step and nothing else.
LEMMA StepToFacts ==
  ASSUME frames \in Seq(Frames), frames # <<>>, NEW s \in Steps, StepTo(s)
  PROVE  /\ frames' \in Seq(Frames) /\ frames' # <<>> /\ Len(frames') = Len(frames)
         /\ \A k \in 1..Len(frames) :
               /\ frames'[k].irq = frames[k].irq
               /\ frames'[k].priority = frames[k].priority
               /\ frames'[k].saved = frames[k].saved
               /\ frames'[k].step = IF k = Len(frames) THEN s ELSE frames[k].step
<1> DEFINE n == Len(frames)
<1>1. n \in Nat \ {0} /\ n \in DOMAIN frames /\ DOMAIN frames = 1..n
  OBVIOUS
<1>2. \A k \in 1..n : frames[k] \in Frames
  OBVIOUS
<1>3. frames' = [frames EXCEPT ![n] = [frames[n] EXCEPT !.step = s]]
  BY DEF StepTo
<1>4. [frames[n] EXCEPT !.step = s] \in Frames
  BY <1>1, <1>2, FrameTyped
<1>5. frames' \in Seq(Frames) /\ Len(frames') = n
  BY <1>1, <1>3, <1>4
<1>6. \A k \in 1..n : frames'[k] = IF k = n THEN [frames[n] EXCEPT !.step = s] ELSE frames[k]
  BY <1>1, <1>3
<1>7. frames' # <<>>
  BY <1>1, <1>5
<1>8. ASSUME NEW k \in 1..n
      PROVE  /\ frames'[k].irq = frames[k].irq
             /\ frames'[k].priority = frames[k].priority
             /\ frames'[k].saved = frames[k].saved
             /\ frames'[k].step = IF k = n THEN s ELSE frames[k].step
  BY <1>2, <1>6, <1>8 DEF Frames
<1> QED
  BY <1>5, <1>7, <1>8

LEMMA EnterFacts ==
  ASSUME TypeOK, Enter
  PROVE  /\ IRQ_PRIORITY \in 0..255
         /\ frames' \in Seq(Frames) /\ frames' # <<>> /\ Len(frames') = Len(frames) + 1
         /\ \A k \in 1..Len(frames) : frames'[k] = frames[k]
         /\ frames'[Len(frames) + 1] = [irq |-> active, priority |-> IRQ_PRIORITY,
                                        saved |-> threshold, step |-> "entered"]
<1> DEFINE new == [irq |-> active, priority |-> IRQ_PRIORITY, saved |-> threshold, step |-> "entered"]
<1>1. active \in Irqs /\ frames \in Seq(Frames) /\ threshold \in 0..255
  BY DEF TypeOK, Enter
<1>2. IRQ_PRIORITY \in 0..255
  <2>1. Priority[active] \in Nat /\ Priority[active] <= 127
    BY <1>1, PriorityTyped
  <2> QED
    BY <2>1 DEF IRQ_PRIORITY, SpuriousFlag
<1>3. new \in Frames
  BY <1>1, <1>2 DEF Frames, Steps
<1>4. frames' = Append(frames, new)
  BY DEF Enter
<1> HIDE DEF new
<1>5. /\ frames' \in Seq(Frames) /\ frames' # <<>> /\ Len(frames') = Len(frames) + 1
      /\ \A k \in 1..Len(frames) : frames'[k] = frames[k]
      /\ frames'[Len(frames) + 1] = new
  BY <1>1, <1>3, <1>4
<1> QED
  BY <1>2, <1>5 DEF new

LEMMA ReturnFacts ==
  ASSUME frames \in Seq(Frames), Return
  PROVE  /\ Len(frames) \in Nat \ {0}
         /\ frames' \in Seq(Frames) /\ Len(frames') = Len(frames) - 1
         /\ \A k \in 1..Len(frames) - 1 : frames'[k] = frames[k]
<1>1. frames # <<>> /\ frames' = SubSeq(frames, 1, Len(frames) - 1)
  BY DEF Return, TopAt
<1> DEFINE n == Len(frames)
<1>2. n \in Nat /\ n >= 1 /\ \A k \in 1..n : frames[k] \in Frames
  BY <1>1
<1>3. Len(frames') = n - 1 /\ \A k \in 1..n-1 : frames'[k] = frames[k]
  <2>1. \A k \in 1..n-1 : frames[k] \in Frames
    BY <1>2
  <2>2. n - 1 \in Int /\ 1 \in Int
    BY <1>2
  <2>3. /\ Len(SubSeq(frames, 1, n-1)) = IF 1 <= n-1 THEN n-1-1+1 ELSE 0
        /\ \A i \in 1..n-1-1+1 : SubSeq(frames, 1, n-1)[i] = frames[1+i-1]
    BY <2>1, <2>2, SubSeqProperties
  <2> HIDE DEF n
  <2>4. frames' = SubSeq(frames, 1, n-1)
    BY <1>1 DEF n
  <2> QED
    BY <1>2, <2>3, <2>4
<1>4. frames' \in Seq(Frames)
  BY <1>1, <1>2, <1>3
<1> QED
  BY <1>2, <1>3, <1>4

-----------------------------------------------------------------------------
(* IInv holds initially and is preserved. *)

LEMMA InitIInv == Init => IInv
<1> SUFFICES ASSUME Init PROVE IInv
  OBVIOUS
<1>1. frames = <<>> /\ Len(frames) = 0
  BY DEF Init
<1>2. TypeOK
  BY <1>1 DEF Init, TypeOK, PRIORITY_THRESHOLD
<1>3. ThresholdInv /\ FrameInv /\ MaskInv /\ OwedInv /\ FreshInv
  BY <1>1 DEF Init, ThresholdInv, FrameInv, MaskInv, OwedInv, Owed, FreshInv, InForeground
<1>4. NestingByPriority /\ DepthInv
  BY <1>1 DEF NestingByPriority, DepthInv
<1> QED
  BY <1>2, <1>3, <1>4 DEF IInv

\* The foreground and the sources leave the stack, the threshold and active.
LEMMA QuietStep ==
  ASSUME IInv, UNCHANGED <<threshold, active, frames>>,
         asserted' \in SUBSET Irqs, masked' \in SUBSET Irqs, irqDisabled' \in BOOLEAN,
         InForeground \/ irqDisabled' = irqDisabled,
         InForeground \/ (active \in asserted \ masked => active \in asserted' \ masked')
  PROVE  IInv'
<1>1. TypeOK'
  BY DEF IInv, TypeOK
<1>2. ThresholdInv' /\ FrameInv' /\ OwedInv' /\ NestingByPriority' /\ DepthInv'
  BY DEF IInv, ThresholdInv, FrameInv, OwedInv, Owed, InForeground, top, NestingByPriority, DepthInv, IsGenuine
<1>3. MaskInv'
  BY DEF IInv, MaskInv, InForeground, top
<1>4. FreshInv'
  BY DEF IInv, FreshInv, Owed, InForeground, top, IsGenuine
<1> QED
  BY <1>1, <1>2, <1>3, <1>4 DEF IInv

\* A step of the innermost handler leaves what the stack says of priorities.
LEMMA StackKept ==
  ASSUME IInv, frames # <<>>, NEW s \in Steps, StepTo(s), threshold' = threshold
  PROVE  ThresholdInv' /\ FrameInv' /\ NestingByPriority' /\ DepthInv'
<1> DEFINE n == Len(frames)
<1>1. frames \in Seq(Frames) /\ n \in Nat /\ n >= 1
  BY DEF IInv, TypeOK
<1>2. /\ frames' # <<>> /\ Len(frames') = n
      /\ \A k \in 1..n : /\ frames'[k].irq = frames[k].irq
                         /\ frames'[k].priority = frames[k].priority
                         /\ frames'[k].saved = frames[k].saved
                         /\ frames'[k].step = IF k = n THEN s ELSE frames[k].step
  BY <1>1, StepToFacts
<1>3. ThresholdInv'
  <2>1. threshold = frames[n].priority /\ frames[1].saved = PRIORITY_THRESHOLD
        /\ \A k \in 2..n : frames[k].saved = frames[k-1].priority
    BY DEF IInv, ThresholdInv, InForeground, top
  <2>2. threshold' = frames'[n].priority /\ frames'[1].saved = PRIORITY_THRESHOLD
    BY <1>1, <1>2, <2>1
  <2>3. \A k \in 2..n : frames'[k].saved = frames'[k-1].priority
    BY <1>1, <1>2, <2>1
  <2> QED
    BY <1>2, <2>2, <2>3 DEF ThresholdInv, InForeground, top
<1>4. FrameInv'
  BY <1>1, <1>2 DEF IInv, FrameInv
<1>5. NestingByPriority'
  BY <1>1, <1>2 DEF IInv, NestingByPriority, IsGenuine
<1>6. DepthInv'
  <2>1. ASSUME NEW k \in 1..n
        PROVE  \/ \A j \in 1..k : ~(frames'[j].priority < SpuriousFlag)
               \/ \E e \in 0..k-1 : /\ \A j \in 1..k : j <= e <=> ~(frames'[j].priority < SpuriousFlag)
                                    /\ frames'[k].priority + (k - e) <= MaxPriority + 1
    <3>1. \/ \A j \in 1..k : ~(frames[j].priority < SpuriousFlag)
          \/ \E e \in 0..k-1 : /\ \A j \in 1..k : j <= e <=> ~(frames[j].priority < SpuriousFlag)
                               /\ frames[k].priority + (k - e) <= MaxPriority + 1
      BY <2>1 DEF IInv, DepthInv, IsGenuine
    <3>2. \A j \in 1..k : frames'[j].priority = frames[j].priority
      BY <1>1, <1>2, <2>1
    <3> QED
      BY <2>1, <3>1, <3>2
  <2> QED
    BY <1>2, <2>1 DEF DepthInv, IsGenuine
<1> QED
  BY <1>3, <1>4, <1>5, <1>6

LEMMA SortStep == IInv /\ Sort => IInv'
<1> SUFFICES ASSUME IInv, Sort PROVE IInv'
  OBVIOUS
<1>1. PICK irq \in Irqs : Passes(irq) /\ active' = irq
  BY DEF Sort
<1>2. active = NoIrq /\ UNCHANGED <<asserted, masked, threshold, irqDisabled, frames>>
  BY DEF Sort, intcVars
<1>3. ~Owed
  <2>1. frames # <<>> => top.irq \in Irqs
    BY FrameTyped DEF IInv, TypeOK, top
  <2> QED
    BY <1>2, <2>1, NoIrqAssumption DEF IInv, OwedInv, Owed
<1>4. TypeOK' /\ ThresholdInv' /\ FrameInv' /\ MaskInv' /\ NestingByPriority' /\ DepthInv'
  BY <1>1, <1>2 DEF IInv, TypeOK, ThresholdInv, FrameInv, MaskInv, NestingByPriority, DepthInv,
                    InForeground, top, IsGenuine
<1>5. ~Owed'
  BY <1>2, <1>3 DEF Owed, top
<1>6. FreshInv'
  BY <1>1, <1>2 DEF FreshInv, Passes
<1> QED
  BY <1>4, <1>5, <1>6 DEF IInv, OwedInv

LEMMA EnterStep == IInv /\ Enter => IInv'
<1> SUFFICES ASSUME IInv, Enter PROVE IInv'
  OBVIOUS
<1> DEFINE n == Len(frames)
<1>1. /\ active \in Irqs /\ ~irqDisabled /\ irqDisabled' = TRUE
      /\ UNCHANGED <<asserted, masked, active>> /\ threshold' = IRQ_PRIORITY
  BY DEF Enter, IInv, TypeOK
<1>2. frames \in Seq(Frames) /\ n \in Nat /\ (frames # <<>> <=> n >= 1)
  BY DEF IInv, TypeOK
<1>3. /\ IRQ_PRIORITY \in 0..255
      /\ frames' \in Seq(Frames) /\ frames' # <<>> /\ Len(frames') = n + 1
      /\ \A k \in 1..n : frames'[k] = frames[k]
      /\ frames'[n+1] = [irq |-> active, priority |-> IRQ_PRIORITY, saved |-> threshold, step |-> "entered"]
  BY EnterFacts DEF IInv
<1>4. n >= 1 => frames[n].step \in {"isr", "served"} /\ frames[n].priority # 0
  BY <1>1, <1>2 DEF IInv, MaskInv, top
<1>5. /\ Priority[active] < threshold
      /\ n >= 1 /\ IsGenuine(frames[n]) => active \in asserted \ masked
  BY <1>1, <1>2, <1>4, NoIrqAssumption DEF IInv, FreshInv, Owed, top
<1>6. /\ threshold = IF n = 0 THEN PRIORITY_THRESHOLD ELSE frames[n].priority
      /\ n >= 1 => frames[1].saved = PRIORITY_THRESHOLD
      /\ \A k \in 2..n : frames[k].saved = frames[k-1].priority
  BY <1>2 DEF IInv, ThresholdInv, InForeground, top
<1>7. /\ Priority[active] \in Nat /\ Priority[active] <= MaxPriority /\ MaxPriority <= 127 /\ MaxPriority \in Nat
      /\ IRQ_PRIORITY = IF active \in asserted \ masked THEN Priority[active] ELSE Priority[active] + 128
  BY <1>1, PriorityTyped DEF IRQ_PRIORITY, SpuriousFlag
<1>8. ASSUME NEW k \in 1..n PROVE frames[k].priority \in Nat
  <2>1. frames[k] \in Frames
    BY <1>2, <1>8
  <2>2. frames[k].priority \in 0..255
    BY <2>1, FrameTyped
  <2>3. \A x \in 0..255 : x \in Nat
    OBVIOUS
  <2> QED
    BY <2>2, <2>3, Zenon
<1>9. TypeOK'
  BY <1>1, <1>3 DEF IInv, TypeOK
<1>10. ThresholdInv'
  <2>1. frames'[1].saved = PRIORITY_THRESHOLD
    BY <1>2, <1>3, <1>6
  <2>2. ASSUME NEW k \in 2..(n+1) PROVE frames'[k].saved = frames'[k-1].priority
    <3>1. CASE k = n + 1
      BY <1>2, <1>3, <1>6, <2>2, <3>1
    <3>2. CASE k \in 2..n
      BY <1>2, <1>3, <1>6, <3>2
    <3> QED
      BY <1>2, <2>2, <3>1, <3>2
  <2> QED
    BY <1>1, <1>2, <1>3, <2>1, <2>2 DEF ThresholdInv, InForeground, top
<1>11. FrameInv'
  <2>1. ASSUME NEW k \in 1..(n+1)
        PROVE  /\ frames'[k].priority \in {Priority[frames'[k].irq], Priority[frames'[k].irq] + SpuriousFlag}
               /\ k < n + 1 => frames'[k].step \in {"isr", "served"} /\ frames'[k].priority # 0
    <3>1. CASE k = n + 1
      BY <1>2, <1>3, <1>7, <3>1 DEF SpuriousFlag
    <3>2. CASE k \in 1..n
      <4>1. /\ frames[k].priority \in {Priority[frames[k].irq], Priority[frames[k].irq] + SpuriousFlag}
            /\ k < n => frames[k].step \in {"isr", "served"} /\ frames[k].priority # 0
        BY <3>2 DEF IInv, FrameInv
      <4> QED
        BY <1>2, <1>3, <1>4, <3>2, <4>1
    <3> QED
      BY <1>2, <2>1, <3>1, <3>2
  <2> QED
    BY <1>3, <2>1 DEF FrameInv
<1>12. MaskInv' /\ OwedInv' /\ FreshInv'
  BY <1>1, <1>2, <1>3 DEF MaskInv, OwedInv, FreshInv, Owed, top
<1>13. NestingByPriority'
  <2>1. ASSUME NEW j \in 1..(n+1), NEW k \in j+1..(n+1), frames'[j].priority < 128
        PROVE  frames'[k].priority < 128 /\ frames'[k].priority < frames'[j].priority
    <3>1. j \in 1..n /\ frames'[j] = frames[j] /\ n >= 1
      BY <1>2, <1>3, <2>1
    <3>2. j < n => frames[n].priority < 128 /\ frames[n].priority < frames[j].priority
      BY <1>2, <2>1, <3>1 DEF IInv, NestingByPriority, IsGenuine, SpuriousFlag
    <3>3. CASE k = n + 1
      <4>0. frames[n].priority \in Nat /\ frames[j].priority \in Nat
        <5>1. n \in 1..n
          BY <1>2, <3>1
        <5> HIDE DEF n
        <5> QED
          BY <1>8, <3>1, <5>1
      <4>1. frames[n].priority < 128 /\ frames[n].priority <= frames[j].priority
        <5>1. CASE j < n
          BY <3>2, <4>0, <5>1
        <5>2. CASE j = n
          BY <2>1, <3>1, <4>0, <5>2
        <5> QED
          BY <1>2, <3>1, <5>1, <5>2
      <4>2. active \in asserted \ masked
        BY <1>5, <3>1, <4>1 DEF IsGenuine, SpuriousFlag
      <4>3. frames'[k].priority = Priority[active] /\ Priority[active] < frames[n].priority
        BY <1>3, <1>5, <1>6, <1>7, <1>2, <3>1, <3>3, <4>2
      <4> QED
        BY <1>7, <3>1, <4>0, <4>1, <4>3
    <3>4. CASE k \in 1..n
      <4>1. frames'[k] = frames[k]
        BY <1>3, <3>4
      <4> QED
        BY <1>2, <2>1, <3>1, <3>4, <4>1 DEF IInv, NestingByPriority, IsGenuine, SpuriousFlag
    <3> QED
      BY <1>2, <2>1, <3>1, <3>3, <3>4
  <2> QED
    BY <1>3, <2>1 DEF NestingByPriority, IsGenuine, SpuriousFlag
<1>14. DepthInv'
  <2> DEFINE Spurious(k) == ~(frames'[k].priority < 128)
             Deep(k) == \/ \A j \in 1..k : Spurious(j)
                        \/ \E e \in 0..k-1 : /\ \A j \in 1..k : j <= e <=> Spurious(j)
                                             /\ frames'[k].priority + (k - e) <= MaxPriority + 1
  <2>1. ASSUME NEW k \in 1..n PROVE Deep(k)
    <3>1. \A j \in 1..k : frames'[j] = frames[j]
      BY <1>2, <1>3, <2>1
    <3>2. \/ \A j \in 1..k : ~(frames[j].priority < 128)
          \/ \E e \in 0..k-1 : /\ \A j \in 1..k : j <= e <=> ~(frames[j].priority < 128)
                               /\ frames[k].priority + (k - e) <= MaxPriority + 1
      BY <2>1 DEF IInv, DepthInv, IsGenuine, SpuriousFlag
    <3>3. k \in 1..k
      BY <2>1
    <3> QED
      BY <3>1, <3>2, <3>3
  <2>2. Deep(n+1)
    <3>1. CASE \A j \in 1..n : Spurious(j)
      <4>1. CASE Spurious(n+1)
        BY <1>2, <3>1, <4>1
      <4>2. CASE ~Spurious(n+1)
        <5>1. frames'[n+1].priority <= MaxPriority
          BY <1>3, <1>7, <4>2
        <5>2. \A j \in 1..(n+1) : j <= n <=> Spurious(j)
          BY <1>2, <3>1, <4>2
        <5>3. n \in 0..(n+1)-1 /\ frames'[n+1].priority + ((n+1) - n) <= MaxPriority + 1
          BY <1>2, <1>3, <1>7, <5>1
        <5> QED
          BY <5>2, <5>3
      <4> QED
        BY <4>1, <4>2
    <3>2. CASE ~\A j \in 1..n : Spurious(j)
      <4>1. n >= 1 /\ n \in 1..n
        BY <1>2, <3>2
      <4>2. PICK e \in 0..n-1 : /\ \A j \in 1..n : j <= e <=> Spurious(j)
                                /\ frames'[n].priority + (n - e) <= MaxPriority + 1
        BY <2>1, <3>2, <4>1
      <4>3. frames'[n].priority < 128 /\ frames'[n] = frames[n]
        BY <1>2, <1>3, <4>1, <4>2
      <4>4. active \in asserted \ masked
        BY <1>5, <4>1, <4>3 DEF IsGenuine, SpuriousFlag
      <4>5. frames'[n+1].priority = Priority[active] /\ Priority[active] < frames'[n].priority
        BY <1>2, <1>3, <1>5, <1>6, <1>7, <4>1, <4>3, <4>4
      <4>6. \A j \in 1..(n+1) : j <= e <=> Spurious(j)
        BY <1>2, <1>7, <4>2, <4>5
      <4>7. e \in 0..(n+1)-1 /\ frames'[n+1].priority + ((n+1) - e) <= MaxPriority + 1
        <5>1. frames'[n].priority \in Nat
          BY <1>8, <4>1, <4>3
        <5>0. e \in Int /\ 0 <= e /\ e <= n - 1
          BY <1>2, <4>2
        <5>2. frames'[n].priority + (n - e) <= MaxPriority + 1
          BY <4>2
        <5>3. frames'[n+1].priority \in Nat /\ frames'[n+1].priority < frames'[n].priority
          BY <1>7, <4>5
        <5> QED
          BY <1>2, <1>7, <5>0, <5>1, <5>2, <5>3
      <4> QED
        BY <4>6, <4>7
    <3> QED
      BY <3>1, <3>2
  <2>3. \A k \in 1..(n+1) : Deep(k)
    <3>1. \A k \in 1..(n+1) : k \in 1..n \/ k = n + 1
      BY <1>2
    <3> HIDE DEF Deep
    <3> QED
      BY <2>1, <2>2, <3>1
  <2> QED
    BY <1>3, <2>3 DEF DepthInv, IsGenuine, SpuriousFlag
<1> QED
  BY <1>9, <1>10, <1>11, <1>12, <1>13, <1>14 DEF IInv

\* What every step of the innermost handler needs to know of its frame.
LEMMA TopFacts ==
  ASSUME IInv, frames # <<>>
  PROVE  /\ frames \in Seq(Frames) /\ Len(frames) \in Nat /\ Len(frames) >= 1
         /\ top.irq \in Irqs /\ top.priority \in 0..255 /\ top.saved \in 0..255 /\ top.step \in Steps
         /\ threshold = top.priority
         /\ IsGenuine(top) => top.priority = Priority[top.irq]
<1>1. frames \in Seq(Frames) /\ Len(frames) \in Nat /\ Len(frames) >= 1
  BY DEF IInv, TypeOK
<1>2. top \in Frames
  BY <1>1 DEF top
<1>3. threshold = top.priority
  BY DEF IInv, ThresholdInv, InForeground
<1>4. top.priority \in {Priority[top.irq], Priority[top.irq] + SpuriousFlag}
  BY <1>1 DEF IInv, FrameInv, top
<1>5. Priority[top.irq] \in Nat
  BY <1>2, FrameTyped, PriorityTyped
<1> QED
  BY <1>1, <1>2, <1>3, <1>4, <1>5, FrameTyped DEF IsGenuine, SpuriousFlag

\* After a step of the innermost handler.
LEMMA TopAfter ==
  ASSUME IInv, frames # <<>>, NEW s \in Steps, StepTo(s)
  PROVE  /\ frames' \in Seq(Frames) /\ frames' # <<>>
         /\ top'.irq = top.irq /\ top'.priority = top.priority /\ top'.step = s
<1>1. frames \in Seq(Frames) /\ Len(frames) \in 1..Len(frames)
  BY DEF IInv, TypeOK
<1> QED
  BY <1>1, StepToFacts DEF top

LEMMA HandlerIInv == IInv /\ (Agree \/ ToSystemMode \/ Serve \/ ToIrqMode \/ AgreeAtExit) => IInv'
<1> SUFFICES ASSUME IInv PROVE Agree \/ ToSystemMode \/ Serve \/ ToIrqMode \/ AgreeAtExit => IInv'
  OBVIOUS
<1>1. ASSUME Agree PROVE IInv'
  <2>1. frames # <<>> /\ top.step = "entered" /\ StepTo("agreed") /\ "agreed" \in Steps
        /\ UNCHANGED <<asserted, masked, threshold, irqDisabled>>
        /\ active' = IF top.priority = 0 THEN active ELSE NoIrq
    BY <1>1 DEF Agree, TopAt, Steps, intcVars
  <2>2. ThresholdInv' /\ FrameInv' /\ NestingByPriority' /\ DepthInv'
    BY <2>1, StackKept
  <2>3. frames' \in Seq(Frames) /\ frames' # <<>> /\ top'.irq = top.irq /\ top'.priority = top.priority
        /\ top'.step = "agreed"
    BY <2>1, TopAfter
  <2>4. active = top.irq /\ irqDisabled
    BY <2>1 DEF IInv, OwedInv, Owed, MaskInv
  <2>5. TypeOK'
    BY <2>1, <2>3 DEF IInv, TypeOK
  <2>6. MaskInv' /\ OwedInv' /\ FreshInv'
    BY <2>1, <2>3, <2>4 DEF MaskInv, OwedInv, FreshInv, Owed
  <2> QED
    BY <2>2, <2>5, <2>6 DEF IInv
<1>2. ASSUME ToSystemMode PROVE IInv'
  <2>1. frames # <<>> /\ top.step = "agreed" /\ StepTo("isr") /\ "isr" \in Steps
        /\ UNCHANGED <<asserted, masked, threshold, active>> /\ irqDisabled' = (top.priority = 0)
    BY <1>2 DEF ToSystemMode, TopAt, Steps, intcVars
  <2>2. ThresholdInv' /\ FrameInv' /\ NestingByPriority' /\ DepthInv'
    BY <2>1, StackKept
  <2>3. frames' \in Seq(Frames) /\ frames' # <<>> /\ top'.irq = top.irq /\ top'.priority = top.priority
        /\ top'.step = "isr"
    BY <2>1, TopAfter
  <2>4. irqDisabled' \in BOOLEAN
    BY <2>1
  <2>5. TypeOK'
    BY <2>1, <2>3, <2>4 DEF IInv, TypeOK
  <2>6. Owed' <=> Owed
    BY <2>1, <2>3 DEF Owed
  <2>7. OwedInv'
    BY <2>1, <2>3, <2>6 DEF IInv, OwedInv
  <2>8. FreshInv'
    BY <2>1, <2>3, <2>6 DEF IInv, FreshInv, IsGenuine
  <2>9. MaskInv'
    BY <2>1, <2>3 DEF MaskInv
  <2> QED
    BY <2>2, <2>5, <2>7, <2>8, <2>9 DEF IInv
<1>3. ASSUME Serve PROVE IInv'
  <2>1. frames # <<>> /\ top.step = "isr" /\ StepTo("served") /\ "served" \in Steps
        /\ UNCHANGED <<masked, threshold, active, irqDisabled>> /\ asserted' = asserted \ {top.irq}
    BY <1>3 DEF Serve, TopAt, Steps, intcVars
  <2>2. ThresholdInv' /\ FrameInv' /\ NestingByPriority' /\ DepthInv'
    BY <2>1, StackKept
  <2>3. frames' \in Seq(Frames) /\ frames' # <<>> /\ top'.irq = top.irq /\ top'.priority = top.priority
        /\ top'.step = "served"
    BY <2>1, TopAfter
  <2>4. TypeOK'
    BY <2>1, <2>3 DEF IInv, TypeOK
  <2>5. Owed' <=> Owed
    BY <2>1, <2>3 DEF Owed
  <2>6. OwedInv'
    BY <2>1, <2>3, <2>5 DEF IInv, OwedInv
  <2>7. ASSUME ~Owed, active # NoIrq, IsGenuine(top)
        PROVE  active \in asserted' \ masked'
    <3>1. Priority[active] < threshold /\ active \in asserted \ masked /\ active \in Irqs
      BY <2>1, <2>7 DEF IInv, FreshInv, TypeOK
    <3>2. threshold = Priority[top.irq]
      BY <2>1, <2>7, TopFacts
    <3>3. Priority[active] \in Nat
      BY <3>1, PriorityTyped
    <3>4. active # top.irq
      BY <3>1, <3>2, <3>3
    <3> QED
      BY <2>1, <3>1, <3>4
  <2>8. FreshInv'
    BY <2>1, <2>3, <2>5, <2>7 DEF IInv, FreshInv, IsGenuine
  <2>9. MaskInv'
    BY <2>1, <2>3 DEF IInv, MaskInv
  <2> QED
    BY <2>2, <2>4, <2>6, <2>8, <2>9 DEF IInv
<1>4. ASSUME ToIrqMode PROVE IInv'
  <2>1. frames # <<>> /\ top.step = "served" /\ StepTo("exit") /\ "exit" \in Steps
        /\ UNCHANGED <<asserted, masked, threshold, active>> /\ irqDisabled' = TRUE
    BY <1>4 DEF ToIrqMode, TopAt, Steps, intcVars
  <2>2. ThresholdInv' /\ FrameInv' /\ NestingByPriority' /\ DepthInv'
    BY <2>1, StackKept
  <2>3. frames' \in Seq(Frames) /\ frames' # <<>> /\ top'.irq = top.irq /\ top'.priority = top.priority
        /\ top'.step = "exit"
    BY <2>1, TopAfter
  <2>4. TypeOK'
    BY <2>1, <2>3 DEF IInv, TypeOK
  <2>5. Owed' <=> Owed
    BY <2>1, <2>3 DEF Owed
  <2>6. OwedInv' /\ MaskInv'
    BY <2>1, <2>3, <2>5 DEF IInv, OwedInv, MaskInv
  <2>7. FreshInv'
    BY <2>1, <2>3, <2>5 DEF IInv, FreshInv, IsGenuine
  <2> QED
    BY <2>2, <2>4, <2>6, <2>7 DEF IInv
<1>5. ASSUME AgreeAtExit PROVE IInv'
  <2>1. frames # <<>> /\ top.step = "exit" /\ StepTo("acknowledged") /\ "acknowledged" \in Steps
        /\ UNCHANGED <<asserted, masked, threshold, irqDisabled>>
        /\ active' = IF threshold = 0 THEN NoIrq ELSE active
    BY <1>5 DEF AgreeAtExit, TopAt, Steps, intcVars
  <2>2. ThresholdInv' /\ FrameInv' /\ NestingByPriority' /\ DepthInv'
    BY <2>1, StackKept
  <2>3. frames' \in Seq(Frames) /\ frames' # <<>> /\ top'.irq = top.irq /\ top'.priority = top.priority
        /\ top'.step = "acknowledged"
    BY <2>1, TopAfter
  <2>4. TypeOK'
    BY <2>1, <2>3 DEF IInv, TypeOK
  <2>5. ~Owed' /\ (Owed <=> threshold = 0)
    BY <2>1, <2>3, TopFacts DEF Owed
  <2>6. irqDisabled
    BY <2>1 DEF IInv, MaskInv
  <2>7. OwedInv' /\ MaskInv'
    BY <2>1, <2>5, <2>6 DEF OwedInv, MaskInv
  <2>8. FreshInv'
    BY <2>1, <2>3, <2>5 DEF IInv, FreshInv, IsGenuine
  <2> QED
    BY <2>2, <2>4, <2>7, <2>8 DEF IInv
<1> QED
  BY <1>1, <1>2, <1>3, <1>4, <1>5

LEMMA ReturnStep == IInv /\ Return => IInv'
<1> SUFFICES ASSUME IInv, Return PROVE IInv'
  OBVIOUS
<1> DEFINE n == Len(frames)
<1>1. frames # <<>> /\ top.step = "acknowledged" /\ irqDisabled' = FALSE
      /\ threshold' = top.saved /\ UNCHANGED <<asserted, masked, active>>
  BY DEF Return, TopAt
<1>2. frames \in Seq(Frames) /\ n \in Nat /\ n >= 1
  BY <1>1, TopFacts
<1>0. n = 1 \/ n >= 2
  <2> HIDE DEF n
  <2> QED
    BY <1>2
<1>3. frames' \in Seq(Frames) /\ Len(frames') = n - 1 /\ \A k \in 1..n-1 : frames'[k] = frames[k]
  BY <1>2, ReturnFacts
<1>4. frames' # <<>> <=> n >= 2
  BY <1>2, <1>3
<1>5. n >= 2 => /\ top' = frames[n-1] /\ frames[n-1] \in Frames
                /\ frames[n-1].step \in {"isr", "served"} /\ frames[n-1].priority # 0
  BY <1>2, <1>3, <1>4 DEF IInv, FrameInv, top
<1>6. /\ n = 1 => threshold' = PRIORITY_THRESHOLD
      /\ n >= 2 => threshold' = frames[n-1].priority
  <2>1. frames[1].saved = PRIORITY_THRESHOLD /\ \A k \in 2..n : frames[k].saved = frames[k-1].priority
    BY <1>1 DEF IInv, ThresholdInv
  <2>2. threshold' = frames[n].saved
    BY <1>1 DEF top
  <2>3. n >= 2 => n \in 2..n
    BY <1>2
  <2> HIDE DEF n
  <2> QED
    BY <2>1, <2>2, <2>3
<1>7. TypeOK'
  BY <1>1, <1>3, TopFacts DEF IInv, TypeOK
<1>8. ThresholdInv'
  <2>1. n >= 2 => frames'[1].saved = PRIORITY_THRESHOLD
    BY <1>1, <1>2, <1>3 DEF IInv, ThresholdInv
  <2>2. \A k \in 2..(n-1) : frames'[k].saved = frames'[k-1].priority
    BY <1>2, <1>3 DEF IInv, ThresholdInv
  <2>3. threshold' = IF InForeground' THEN PRIORITY_THRESHOLD ELSE top'.priority
    <3>1. CASE n = 1
      BY <1>4, <1>6, <3>1 DEF InForeground
    <3>2. CASE n >= 2
      BY <1>4, <1>5, <1>6, <3>2 DEF InForeground
    <3> QED
      BY <1>0, <3>1, <3>2
  <2> QED
    BY <1>2, <1>3, <1>4, <2>1, <2>2, <2>3 DEF ThresholdInv
<1>9. FrameInv'
  <2>1. ASSUME NEW k \in 1..(n-1)
        PROVE  /\ frames'[k].priority \in {Priority[frames'[k].irq],
                                          Priority[frames'[k].irq] + SpuriousFlag}
               /\ k < n - 1 => frames'[k].step \in {"isr", "served"} /\ frames'[k].priority # 0
    <3>1. frames'[k] = frames[k] /\ k \in 1..n /\ (k < n - 1 => k < n)
      BY <1>2, <1>3
    <3> QED
      BY <3>1 DEF IInv, FrameInv
  <2> QED
    BY <1>3, <2>1 DEF FrameInv
<1>10. ~Owed' /\ ~Owed /\ MaskInv' /\ OwedInv'
  BY <1>1, <1>2, <1>4, <1>5 DEF MaskInv, OwedInv, Owed
<1>11. NestingByPriority'
  BY <1>2, <1>3 DEF IInv, NestingByPriority
<1>12. DepthInv'
  <2>1. ASSUME NEW k \in 1..(n-1)
        PROVE  \/ \A j \in 1..k : ~IsGenuine(frames'[j])
               \/ \E e \in 0..k-1 : /\ \A j \in 1..k : j <= e <=> ~IsGenuine(frames'[j])
                                    /\ frames'[k].priority + (k - e) <= MaxPriority + 1
    <3>1. k \in 1..n /\ \A j \in 1..k : frames'[j] = frames[j]
      BY <1>2, <1>3, <2>1
    <3>2. \/ \A j \in 1..k : ~IsGenuine(frames[j])
          \/ \E e \in 0..k-1 : /\ \A j \in 1..k : j <= e <=> ~IsGenuine(frames[j])
                               /\ frames[k].priority + (k - e) <= MaxPriority + 1
      BY <3>1 DEF IInv, DepthInv
    <3>3. k \in 1..k
      BY <2>1
    <3> QED
      BY <3>1, <3>2, <3>3
  <2> QED
    BY <1>3, <2>1 DEF DepthInv
<1>13. FreshInv'
  <2>1. SUFFICES ASSUME active # NoIrq
                 PROVE  /\ Priority[active] < threshold'
                        /\ frames' # <<>> /\ IsGenuine(top') => active \in asserted \ masked
    BY <1>1 DEF FreshInv
  <2>2. active \in Irqs /\ Priority[active] \in Nat /\ Priority[active] <= 127
    BY <2>1, PriorityTyped DEF IInv, TypeOK
  <2>3. /\ Priority[active] < top.priority
        /\ IsGenuine(top) => active \in asserted \ masked
    BY <1>1, <1>10, <2>1, TopFacts DEF IInv, FreshInv
  <2>4. CASE n = 1
    BY <1>2, <1>4, <1>6, <2>2, <2>4 DEF PRIORITY_THRESHOLD
  <2>5. CASE n >= 2
    <3> DEFINE below == frames[n-1]
    <3>1. IsGenuine(below) => IsGenuine(top) /\ top.priority < below.priority
      BY <1>2, <2>5 DEF IInv, NestingByPriority, top
    <3>2. below.priority \in 0..255 /\ top.priority \in 0..255
      BY <1>1, <1>5, <2>5, TopFacts, FrameTyped
    <3>3. threshold' = below.priority /\ top' = below
      BY <1>5, <1>6, <2>5
    <3> HIDE DEF below
    <3> DEFINE p == below.priority
               q == top.priority
               a == Priority[active]
    <3>6. p \in 0..255 /\ q \in 0..255 /\ a \in Nat /\ a <= 127 /\ a < q /\ threshold' = p
      BY <2>2, <2>3, <3>2, <3>3
    <3>4. CASE IsGenuine(below)
      <4>1. IsGenuine(top) /\ q < p
        BY <3>1, <3>4
      <4>2. a < p
        <5> HIDE DEF a, p, q
        <5> QED
          BY <3>6, <4>1
      <4> QED
        BY <2>3, <3>6, <4>1, <4>2
    <3>5. CASE ~IsGenuine(below)
      <4>1. ~(p < 128)
        BY <3>5 DEF IsGenuine, SpuriousFlag
      <4>2. a < p
        <5> HIDE DEF a, p, q
        <5> QED
          BY <3>6, <4>1
      <4>3. ~IsGenuine(top')
        BY <3>3, <3>5
      <4> QED
        BY <3>6, <4>2, <4>3
    <3> QED
      BY <3>4, <3>5
  <2> QED
    BY <1>0, <2>4, <2>5
<1> QED
  BY <1>7, <1>8, <1>9, <1>10, <1>11, <1>12, <1>13 DEF IInv

LEMMA StepIInv == IInv /\ [Next]_vars => IInv'
<1> SUFFICES ASSUME IInv, [Next]_vars PROVE IInv'
  OBVIOUS
<1>1. asserted \in SUBSET Irqs /\ masked \in SUBSET Irqs /\ irqDisabled \in BOOLEAN
  BY DEF IInv, TypeOK
<1>2. ASSUME NEW irq \in Irqs, Raise(irq) PROVE IInv'
  <2>1. asserted' = asserted \union {irq} /\ UNCHANGED <<threshold, masked, active, irqDisabled, frames>>
    BY <1>2 DEF Raise, intcVars
  <2>2. asserted' \in SUBSET Irqs /\ (active \in asserted \ masked => active \in asserted' \ masked')
    BY <1>1, <2>1
  <2> QED
    BY <1>1, <2>1, <2>2, QuietStep
<1>3. CASE Foreground
  <2>1. CASE master_IRQ_enable \/ master_IRQ_disable
    <3>1. InForeground /\ UNCHANGED <<threshold, active, frames>> /\ asserted' = asserted /\ masked' = masked
      BY <2>1 DEF master_IRQ_enable, master_IRQ_disable, intcVars
    <3>2. irqDisabled' \in BOOLEAN
      BY <2>1 DEF master_IRQ_enable, master_IRQ_disable
    <3> QED
      BY <1>1, <3>1, <3>2, QuietStep
  <2>2. ASSUME NEW irq \in Irqs, unmask_interrupt(irq) \/ mask_interrupt(irq) \/ Withdraw(irq)
        PROVE  IInv'
    <3>1. InForeground /\ UNCHANGED <<threshold, active, frames>> /\ irqDisabled' = irqDisabled
          /\ asserted' \in SUBSET Irqs /\ masked' \in SUBSET Irqs
      BY <1>1, <2>2 DEF unmask_interrupt, mask_interrupt, Withdraw, intcVars
    <3> QED
      BY <1>1, <3>1, QuietStep
  <2> QED
    BY <1>3, <2>1, <2>2 DEF Foreground
<1>4. CASE UNCHANGED vars
  BY <1>1, <1>4, QuietStep DEF vars, intcVars
<1> QED
  BY <1>2, <1>3, <1>4, SortStep, EnterStep, ReturnStep, HandlerIInv DEF Next, HandlerStep

THEOREM InductiveInvariant == Spec => []IInv
BY InitIInv, StepIInv, PTL DEF Spec

-----------------------------------------------------------------------------
(* The properties. *)

\* Types are kept.
THEOREM IrqTypeOK == Spec => []TypeOK
<1>1. IInv => TypeOK
  BY DEF IInv
<1> QED
  BY InductiveInvariant, <1>1, PTL

\* A genuine handler is interrupted only by more urgent, genuine ones.
THEOREM IrqNestingByPriority == Spec => []NestingByPriority
<1>1. IInv => NestingByPriority
  BY DEF IInv
<1> QED
  BY InductiveInvariant, <1>1, PTL

\* The stack holds at most one frame of every priority over the spurious ones.
THEOREM IrqStackBounded == Spec => []StackBounded
<1>1. IInv => StackBounded
  <2> SUFFICES ASSUME IInv, NEW k \in 1..Len(frames), ~\A j \in 1..k : ~IsGenuine(frames[j])
               PROVE  \E s \in 0..k-1 : /\ \A j \in 1..k : j <= s <=> ~IsGenuine(frames[j])
                                        /\ k - s <= MaxPriority + 1
    BY DEF StackBounded
  <2>1. PICK s \in 0..k-1 : /\ \A j \in 1..k : j <= s <=> ~IsGenuine(frames[j])
                            /\ frames[k].priority + (k - s) <= MaxPriority + 1
    BY DEF IInv, DepthInv
  <2>2. frames[k] \in Frames
    BY DEF IInv, TypeOK
  <2> DEFINE p == frames[k].priority
  <2>3. p \in 0..255 /\ p + (k - s) <= MaxPriority + 1
    BY <2>1, <2>2, FrameTyped
  <2>4. k \in Int /\ s \in Int
    BY DEF IInv, TypeOK
  <2> HIDE DEF p
  <2>5. k - s <= MaxPriority + 1
    BY <2>3, <2>4, PriorityTyped
  <2> QED
    BY <2>1, <2>5
<1> QED
  BY InductiveInvariant, <1>1, PTL

\* The foreground always finds the threshold off.
THEOREM IrqForegroundIsOpen == Spec => []ForegroundIsOpen
<1>1. IInv => ForegroundIsOpen
  BY DEF IInv, ThresholdInv, ForegroundIsOpen
<1> QED
  BY InductiveInvariant, <1>1, PTL

\* NEWIRQAGR releases the interrupt the handler was entered for, once.
THEOREM IrqAcknowledgesOwn == Spec => AcknowledgesOwn
<1> DEFINE Own == active # NoIrq /\ active' = NoIrq
                    => frames # <<>> /\ active = top.irq
                       /\ top.step = (IF top.priority = 0 THEN "exit" ELSE "entered")
<1>1. IInv /\ [Next]_vars => [Own]_vars
  <2> SUFFICES ASSUME IInv, Next, active # NoIrq, active' = NoIrq
               PROVE  frames # <<>> /\ active = top.irq
                      /\ top.step = (IF top.priority = 0 THEN "exit" ELSE "entered")
    OBVIOUS
  <2>1. Agree \/ AgreeAtExit
    BY DEF Next, Foreground, HandlerStep, Raise, Sort, master_IRQ_enable, master_IRQ_disable,
           unmask_interrupt, mask_interrupt, Withdraw, Enter, ToSystemMode, Serve, ToIrqMode, Return
  <2>2. CASE Agree
    BY <2>2 DEF Agree, TopAt, IInv, OwedInv, Owed
  <2>3. CASE AgreeAtExit
    <3>1. frames # <<>> /\ top.step = "exit" /\ threshold = 0
      BY <2>3 DEF AgreeAtExit, TopAt
    <3>2. top.priority = 0
      BY <3>1, TopFacts
    <3> QED
      BY <3>1, <3>2 DEF IInv, OwedInv, Owed
  <2> QED
    BY <2>1, <2>2, <2>3
<1> QED
  BY InductiveInvariant, <1>1, PTL DEF Spec, AcknowledgesOwn
=============================================================================
