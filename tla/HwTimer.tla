------------------------------ MODULE HwTimer ------------------------------
(***************************************************************************)
(* HAL::TIMERS::hwTimer: the configuration of a dual-mode timer.           *)
(*                                                                         *)
(* With TSICR.POSTED set a write is acknowledged before it has reached the *)
(* timer's clock domain.  Until then a read of the same register may give  *)
(* the old value or the new one, and a further write discards the one on   *)
(* its way; TWPS tells which registers have a write pending (DMTIMER.hpp:  *)
(* 212; docs/refman/20.1 DMTimer.docx, 20.1.3.10.1).  A method is the      *)
(* sequence of waits and accesses it makes; the timer counts and lets      *)
(* writes land between any two of them.  The next method may be called     *)
(* with writes of the last ones still on their way: no method waits for    *)
(* any register but its own, and what that leaves open is in asked.known.  *)
(***************************************************************************)
EXTENDS Naturals, Sequences, FiniteSets

CONSTANTS PostedModes,    \* the values of TSICR.POSTED to consider
          Top,            \* the counter overflows after Top
          MaxCalls        \* bound: configuration calls

ASSUME TimerAssumption == PostedModes \subseteq BOOLEAN /\ {Top, MaxCalls} \subseteq Nat \ {0}

VARIABLES
    POSTED,
    reg,         \* the registers, as the timer sees them; TCLR is the set of its bits
    pend,        \* posted writes on their way: register and value
    todo,        \* the rest of the method under way
    m_is_paused,
    m_context,   \* what context_save() stored
    asked,       \* ghost: what the calls so far have asked for, and for which registers for certain
    power,       \* "on", "saved" right after context_save(), "off" until context_restore()
    calls        \* the configuration calls made

tvars == <<POSTED, reg, pend, todo, m_is_paused, m_context, asked, power, calls>>

Count == 0..Top

\* e_DMTIMER_mode: auto-reload or one shot, with or without compare.  The
\* prescaler's ratio, PTV, is divide by two or another one.
ModeBits == {"AR", "CE"}
Modes    == SUBSET ModeBits
Bits     == ModeBits \union {"ST", "PRE", "PTV", "GPO"}

\* The registers of a value, and all that may be left open.
Values == {"TCRR", "TLDR", "TMAR"}

Cleared == [TCLR |-> {}, TCRR |-> 0, TLDR |-> 0, TMAR |-> 0, TTGR |-> 0, TIER |-> FALSE]

Init ==
    /\ POSTED \in PostedModes
    /\ reg = Cleared /\ pend = {} /\ todo = <<>>
    /\ m_is_paused = TRUE /\ m_context = Cleared
    /\ asked = [mode |-> {}, scale |-> {}, gpo |-> {}, reload |-> 0, compare |-> 0, irq |-> FALSE,
                counter |-> 0, running |-> FALSE, known |-> Values, early |-> {}]
    /\ power = "on" /\ calls = 0

-----------------------------------------------------------------------------
(* Accesses. *)

Pending(r) == \E w \in pend : w.reg = r

\* What a read of a register may give.
Readable(r) == {reg[r]} \union {w.val : w \in {x \in pend : x.reg = r}}

\* A write reaching the timer; TTGR loads the counter.
Landed(regs, r, v) ==
    IF r = "TTGR" THEN [regs EXCEPT !.TCRR = regs.TLDR] ELSE [regs EXCEPT ![r] = v]

Write(r, v) ==
    IF POSTED /\ r # "TIER"
    THEN pend' = {w \in pend : w.reg # r} \union {[reg |-> r, val |-> v]} /\ UNCHANGED reg
    ELSE reg' = Landed(reg, r, v) /\ UNCHANGED pend

\* Mutant: nothing waits.
m_wait_for_write_Never(r) == TRUE

m_wait_for_write(r) == POSTED => ~Pending(r)

Wait(r)       == [op |-> "wait", reg |-> r, arg |-> 0]
Assign(r, v)  == [op |-> "assign", reg |-> r, arg |-> v]
Reset(bits)   == [op |-> "reset", reg |-> "TCLR", arg |-> bits]
Set(bits)     == [op |-> "set", reg |-> "TCLR", arg |-> bits]
Save(r)       == [op |-> "save", reg |-> r, arg |-> 0]
Restore(r)    == [op |-> "restore", reg |-> r, arg |-> 0]

\* A read-modify-write of TCLR is one step: the timer itself changes TCLR only
\* when a one-shot ends, and then the methods called write ST and nothing else.
Access ==
    /\ todo # <<>>
    /\ LET o == Head(todo) IN
       \/ /\ o.op = "wait" /\ m_wait_for_write(o.reg)
          /\ UNCHANGED <<reg, pend, m_context>>
       \/ /\ o.op = "assign" /\ Write(o.reg, o.arg)
          /\ UNCHANGED m_context
       \/ /\ o.op = "reset" /\ \E v \in Readable("TCLR") : Write("TCLR", v \ o.arg)
          /\ UNCHANGED m_context
       \/ /\ o.op = "set" /\ \E v \in Readable("TCLR") : Write("TCLR", v \union o.arg)
          /\ UNCHANGED m_context
       \/ /\ o.op = "save" /\ \E v \in Readable(o.reg) : m_context' = [m_context EXCEPT ![o.reg] = v]
          /\ UNCHANGED <<reg, pend>>
       \/ /\ o.op = "restore" /\ Write(o.reg, m_context[o.reg])
          /\ UNCHANGED m_context
    /\ todo' = Tail(todo)
    /\ UNCHANGED <<POSTED, m_is_paused, asked, power, calls>>

-----------------------------------------------------------------------------
(* Methods, called by one thread.  "The timer must be configured before it *)
(* is started": the bits of TCLR are changed only while it is to be        *)
(* stopped.                                                                *)

Resting == todo = <<>>

\* A method begins; the power mode it leaves is "saved" or "on".
Run(seq, after) ==
    /\ Resting /\ power # "off" /\ calls < MaxCalls
    /\ todo' = seq /\ power' = after /\ calls' = calls + 1
    /\ UNCHANGED <<POSTED, reg, pend, m_context>>

Call(seq)      == Run(seq, "on") /\ UNCHANGED m_is_paused
Configure(seq) == ~asked.running /\ Call(seq)

Enable == /\ Run(<<Wait("TCLR"), Set({"ST"})>>, "on")
          /\ m_is_paused' = FALSE
          /\ asked' = [asked EXCEPT !.running = TRUE, !.known = @ \ {"TCRR"}]

Disable == /\ Run(<<Wait("TCLR"), Reset({"ST"})>>, "on")
           /\ m_is_paused' = TRUE
           /\ asked' = [asked EXCEPT !.running = FALSE]

check_busy == m_is_paused

mode_configure(mode) ==
    <<Wait("TCLR"), Reset({"AR"}), Reset({"CE"}), Wait("TCLR"), Set(mode)>>

ModeConfigure == \E mode \in Modes : /\ Configure(mode_configure(mode))
                                     /\ asked' = [asked EXCEPT !.mode = mode]

\* ptv is {} for divide by two.
prescaler_clk_enable(ptv) ==
    <<Wait("TCLR"), Reset({"PTV"}), Wait("TCLR"), Set(ptv), Set({"PRE"})>>

PrescalerClkEnable ==
    \E ptv \in {{}, {"PTV"}} : /\ Configure(prescaler_clk_enable(ptv))
                               /\ asked' = [asked EXCEPT !.scale = {"PRE"} \union ptv]

PrescalerClkDisable ==
    /\ Configure(<<Wait("TCLR"), Reset({"PRE"})>>)
    /\ asked' = [asked EXCEPT !.scale = asked.scale \ {"PRE"}]

GPO_configure ==
    \E gpo \in {{}, {"GPO"}} :
       /\ Configure(<<Wait("TCLR"), Reset({"GPO"}), Wait("TCLR"), Set(gpo)>>)
       /\ asked' = [asked EXCEPT !.gpo = gpo]

\* Asked for certain, or not: nothing orders the writes of two registers.
Known(certain, r) == IF certain THEN asked.known \union {r} ELSE asked.known \ {r}

\* Nothing counts, and nothing on its way lets the counter go.
Stands == ~asked.running /\ "ST" \notin reg.TCLR

\* A trigger that is on its way, or a count, may come after the load.
CounterSet == \E v \in Count :
    /\ Call(<<Wait("TCRR"), Assign("TCRR", v)>>)
    /\ asked' = [asked EXCEPT !.counter = v, !.known = Known(Stands /\ ~Pending("TTGR"), "TCRR")]

\* A trigger that is on its way loads the old value or the new one.
ReloadSet == \E v \in Count :
    /\ Call(<<Wait("TLDR"), Assign("TLDR", v)>>)
    /\ asked' = [asked EXCEPT !.reload = v,
                  !.known = Known(TRUE, "TLDR") \ (IF Pending("TTGR") THEN {"TCRR"} ELSE {})]

CompareSet == \E v \in Count :
    /\ Call(<<Wait("TMAR"), Assign("TMAR", v)>>)
    /\ asked' = [asked EXCEPT !.compare = v, !.known = Known(TRUE, "TMAR")]

\* It waits for TTGR alone: what it loads may still be on its way, and a write
\* to the counter may come after it.
TriggerSet ==
    /\ Call(<<Wait("TTGR"), Assign("TTGR", 0)>>)
    /\ LET certain == /\ Stands /\ "TLDR" \in asked.known
                      /\ ~Pending("TLDR") /\ ~Pending("TCRR")
       IN  asked' = [asked EXCEPT !.counter = asked.reload, !.known = Known(certain, "TCRR")]

IrqSet == \E on \in BOOLEAN : /\ Call(<<Assign("TIER", on)>>)
                              /\ asked' = [asked EXCEPT !.irq = on]

context_save == <<Save("TLDR"), Save("TMAR"), Save("TIER"), Wait("TCRR"), Save("TCRR"),
                  Wait("TCLR"), Save("TCLR")>>

\* It waits for TCRR and TCLR only: what else is on its way may come too late.
ContextSave ==
    /\ Run(context_save, "saved") /\ UNCHANGED m_is_paused
    /\ asked' = [asked EXCEPT !.early = {r \in {"TLDR", "TMAR"} : Pending(r)}
                                        \union (IF Pending("TTGR") THEN {"TCRR"} ELSE {})]

context_restore == <<Wait("TLDR"), Restore("TLDR"), Wait("TMAR"), Restore("TMAR"), Restore("TIER"),
                     Wait("TCRR"), Restore("TCRR"), Wait("TCLR"), Restore("TCLR")>>

ContextRestore ==
    /\ power = "off" /\ power' = "on" /\ todo' = context_restore
    /\ asked' = [asked EXCEPT !.known = @ \ asked.early]
    /\ UNCHANGED <<POSTED, reg, pend, m_is_paused, m_context, calls>>

-----------------------------------------------------------------------------
(* The timer. *)

Land == \E w \in pend : /\ reg' = Landed(reg, w.reg, w.val)
                        /\ pend' = pend \ {w}
                        /\ UNCHANGED <<POSTED, todo, m_is_paused, m_context, asked, power, calls>>

\* A one-shot stops itself.
Counting ==
    /\ "ST" \in reg.TCLR
    /\ reg' = IF reg.TCRR < Top THEN [reg EXCEPT !.TCRR = @ + 1]
              ELSE IF "AR" \in reg.TCLR THEN [reg EXCEPT !.TCRR = reg.TLDR]
              ELSE [reg EXCEPT !.TCRR = 0, !.TCLR = @ \ {"ST"}]
    /\ UNCHANGED <<POSTED, pend, todo, m_is_paused, m_context, asked, power, calls>>

\* Power goes after a save and before anything else is called, and with it the
\* writes on their way.
PowerLoss ==
    /\ Resting /\ power = "saved"
    /\ power' = "off" /\ reg' = Cleared /\ pend' = {}
    /\ UNCHANGED <<POSTED, todo, m_is_paused, m_context, asked, calls>>

Next ==
    \/ Enable \/ Disable \/ ModeConfigure \/ PrescalerClkEnable \/ PrescalerClkDisable
    \/ GPO_configure \/ CounterSet \/ ReloadSet \/ CompareSet \/ TriggerSet \/ IrqSet
    \/ ContextSave \/ ContextRestore
    \/ Access \/ Land \/ Counting \/ PowerLoss

Spec == Init /\ [][Next]_tvars

-----------------------------------------------------------------------------
(* Properties. *)

\* No method under way, no write on its way.
Settled == Resting /\ pend = {} /\ power # "off"

\* What the calls have asked for is what the timer ends up with, whatever was
\* on its way when they were made and across a loss of power: modes, clock,
\* output, interrupt, the running, and every limit and counter that the calls
\* have not left open: TLDR or TMAR saved with a write to it on its way, and
\* lost; the counter once the timer may count, or where a trigger and what it
\* loads, or another load, were on their way together, or saved so.  Without
\* posted writes only counting leaves anything open.  Auto-reload and the
\* clock's ratio are certain to be left only without them, too (ModeIsAsked).
TakesEffect ==
    Settled =>
        /\ asked.mode \subseteq reg.TCLR /\ ("CE" \in reg.TCLR) = ("CE" \in asked.mode)
        /\ ("PRE" \in reg.TCLR) = ("PRE" \in asked.scale)
        /\ ("GPO" \in reg.TCLR) = (asked.gpo # {})
        /\ "TLDR" \in asked.known => reg.TLDR = asked.reload
        /\ "TMAR" \in asked.known => reg.TMAR = asked.compare
        /\ "TCRR" \in asked.known => reg.TCRR = asked.counter
        /\ reg.TIER = asked.irq
        /\ "ST" \in reg.TCLR => asked.running
        /\ asked.running /\ "AR" \in asked.mode => "ST" \in reg.TCLR
        /\ ~POSTED => /\ reg.TCLR \ {"ST"} = asked.mode \union asked.scale \union asked.gpo
                      /\ {"TLDR", "TMAR"} \subseteq asked.known

\* hwTimer.cpp:49-60: mode_configure() leaves the mode it is given, so
\* "MODE_ONESHOT_NOCMP_ENABLE - One shot enabled, compare mode disabled".
ModeIsAsked == Settled => reg.TCLR \intersect ModeBits = asked.mode

\* The limits end up as asked for whenever the context was saved.
LimitsAreAsked == Settled => reg.TLDR = asked.reload /\ reg.TMAR = asked.compare

\* hwTimer.hpp:79-83: check_busy() returns "true - timer is enabled".
BusyIsEnabled == Resting => check_busy = asked.running
=============================================================================
