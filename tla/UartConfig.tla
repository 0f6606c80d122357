----------------------------- MODULE UartConfig -----------------------------
(***************************************************************************)
(* uart_base's and uart's configuration of the UART (UART.cpp, UART.hpp).  *)
(* Several registers share an address, and LCR decides which of them an    *)
(* access reaches: every method changes LCR on its way and has to leave it *)
(* as the line needs it, while the receive interrupt may come between any  *)
(* two accesses.                                                           *)
(*                                                                         *)
(* A method is the sequence of register states it goes through: only the   *)
(* foreground writes these registers, so the whole sequence follows from   *)
(* the state in which the method begins.  now is the present state, ahead  *)
(* the ones still to come.                                                 *)
(***************************************************************************)
EXTENDS Naturals, Sequences, SequencesExt

CONSTANTS Baudrates,    \* as members of e_BAUDRATE: from KBPS_480_8 on, 13x
          Level         \* trigger levels of DMAConfig; 0 are the reset ones

ASSUME ConfigAssumption == Baudrates \subseteq 0..16 /\ Level \in 1..63

VARIABLES now, ahead,
          rxfifo        \* the receive FIFO holds a byte

cvars == <<now, ahead, rxfifo>>

\* LCR by value: bits 0..5 are the frame format, 3 is 8N1.
CONFIG_MODE_A    == 128
CONFIG_MODE_B    == 191
OPERATIONAL_MODE == 127    \* a mask
Format8N1        == 3

Window(lcr) == IF lcr = CONFIG_MODE_B THEN "B"
               ELSE IF lcr >= CONFIG_MODE_A THEN "A" ELSE "operational"

\* The windows in which an address is the register meant.
WindowsOf(r) ==
    CASE r \in {"THR", "RHR", "IER"} -> {"operational"}
      [] r \in {"FCR", "MCR", "LSR"} -> {"operational", "A"}
      [] r = "DL"                    -> {"A", "B"}
      [] r = "EFR"                   -> {"B"}
      [] OTHER                       -> {"operational", "A", "B"}

BaudMode(b) == IF b >= 13 THEN "13x" ELSE "16x"
Divisor(b)  == b + 1    \* what set_baud() looks up; never 0

\* SYSC.SOFTRESET, as far as these registers go.
ResetState(u) == [u EXCEPT !.LCR = 0, !.EFR = FALSE, !.MCR = FALSE, !.TLR = 0, !.SCR = FALSE,
                           !.FCR = [trig |-> 0, rxClear |-> FALSE], !.DL = 0, !.IER = {},
                           !.MDR1 = "disabled", !.touched = "SYSC", !.wrote = TRUE,
                           !.cleared = FALSE]

\* EFR is ENHANCEDEN, MCR is TCRTLR, TLR the trigger levels' high part, SCR the
\* DMA mode, DL the two divisor latches, INTC whether the source is unmasked.
CInit ==
    /\ now \in {[LCR |-> 0, EFR |-> FALSE, MCR |-> FALSE, TLR |-> 0, SCR |-> FALSE,
                 FCR |-> [trig |-> 0, rxClear |-> FALSE], DL |-> 0, IER |-> {},
                 MDR1 |-> "disabled", INTC |-> FALSE, touched |-> "none", wrote |-> FALSE,
                 shadow |-> 0, io_mode |-> "UNINITIALIZED", baud_mode |-> "16x",
                 baudrate |-> b, cleared |-> FALSE] : b \in Baudrates}
    /\ ahead = <<>> /\ rxfifo = FALSE

-----------------------------------------------------------------------------
(* The methods: a sequence of states, continued. *)

Put(s, r, v)   == Append(s, [Last(s) EXCEPT ![r] = v, !.touched = r, !.wrote = TRUE])
Look(s, r)     == Append(s, [Last(s) EXCEPT !.touched = r, !.wrote = FALSE])
Store(s, f, v) == Append(s, [Last(s) EXCEPT ![f] = v, !.touched = "none", !.wrote = FALSE])

switch_reg_config_mode(s, mode, enh) ==
    LET l == Put(s, "LCR", IF mode = OPERATIONAL_MODE THEN Last(s).LCR % 128 ELSE mode) IN
    IF ~enh THEN l
    ELSE Put(Put(Put(l, "LCR", CONFIG_MODE_B), "EFR", TRUE), "LCR", Last(l).LCR)

\* By way of 0, the 16x mode.
switch_operating_mode(s, mode) == Put(Put(s, "MDR1", "16x"), "MDR1", mode)

divisor_latch_get(s) ==
    LET o == Look(switch_reg_config_mode(s, OPERATIONAL_MODE, TRUE), "IER") IN
    Look(switch_reg_config_mode(o, CONFIG_MODE_A, FALSE), "DL")

\* Mutant: the operating mode is not left while the divisor changes.
divisor_latch_set_Running(s, d) ==
    LET o == Look(switch_reg_config_mode(s, OPERATIONAL_MODE, TRUE), "IER")
        b == switch_reg_config_mode(o, CONFIG_MODE_B, TRUE) IN
    Put(Put(b, "DL", d), "LCR", Last(s).LCR)

\* The divisor may change in the disabled mode only.  IER.SLEEPMODE, which both
\* divisor methods look at, is set by nobody.
divisor_latch_set(s, d) ==
    LET modf == Last(s).MDR1
        o == Look(switch_reg_config_mode(s, OPERATIONAL_MODE, TRUE), "IER")
        b == switch_reg_config_mode(o, CONFIG_MODE_B, TRUE)
        m == IF modf # "disabled" THEN switch_operating_mode(b, "disabled") ELSE b
        r == Put(Put(m, "DL", d), "LCR", Last(s).LCR) IN
    IF modf # "disabled" THEN switch_operating_mode(r, modf) ELSE r

\* Leaves the window in which FCR was written, A.
FIFO_register_write(s, trig, rxClear) ==
    LET g == divisor_latch_get(s)
        z == IF Last(g).DL # 0 THEN divisor_latch_set(g, 0) ELSE g
        a == switch_reg_config_mode(z, CONFIG_MODE_A, TRUE)
        f == Store(Put(a, "FCR", [trig |-> trig, rxClear |-> rxClear]), "shadow", trig) IN
    IF Last(g).DL # 0 THEN divisor_latch_set(f, Last(g).DL) ELSE f

\* Mutant: LCR is left as FIFO_register_write() leaves it.
FIFO_configure_KeepsWindow(s, level) ==
    LET b == switch_reg_config_mode(s, CONFIG_MODE_B, FALSE)
        a == switch_reg_config_mode(Put(b, "EFR", TRUE), CONFIG_MODE_A, FALSE)
        t == Put(Put(Put(a, "MCR", TRUE), "SCR", TRUE), "TLR", level) IN
    FIFO_register_write(t, level, TRUE)

FIFO_configure(s, level) ==
    LET b == Look(switch_reg_config_mode(s, CONFIG_MODE_B, FALSE), "EFR")
        a == switch_reg_config_mode(Put(b, "EFR", TRUE), CONFIG_MODE_A, FALSE)
        t == Put(Put(Put(Look(a, "MCR"), "MCR", TRUE), "SCR", TRUE), "TLR", level)
        f == FIFO_register_write(t, level, TRUE)
        e == Put(switch_reg_config_mode(f, CONFIG_MODE_B, FALSE), "EFR", TRUE)
        c == Put(switch_reg_config_mode(e, CONFIG_MODE_A, FALSE), "MCR", Last(s).MCR)
        r == Put(switch_reg_config_mode(c, CONFIG_MODE_B, FALSE), "EFR", Last(s).EFR) IN
    Put(r, "LCR", Last(s).LCR)

int_enable(s) ==
    LET o == Look(switch_reg_config_mode(s, OPERATIONAL_MODE, TRUE), "IER")
        r == Put(switch_reg_config_mode(o, OPERATIONAL_MODE, FALSE), "LCR", Last(s).LCR) IN
    Put(r, "IER", {"RECEIVE"})

int_disable(s) ==
    LET o == Put(switch_reg_config_mode(s, OPERATIONAL_MODE, TRUE), "IER", {}) IN
    Put(switch_reg_config_mode(o, OPERATIONAL_MODE, FALSE), "LCR", Last(s).LCR)

DMA_disable(s) == Put(s, "SCR", FALSE)

modem_control_set(s) == Look(switch_reg_config_mode(s, CONFIG_MODE_A, TRUE), "MCR")

divisor_latch_disable(s) == Put(s, "LCR", Last(s).LCR % 128)

\* Character length, stop bits and parity; bits 6 and 7 stay.
data_format_set(s) == Put(s, "LCR", 64 * (Last(s).LCR \div 64) + Format8N1)

config_baudrate(s) ==
    LET r == Append(s, ResetState(Last(s)))
        m == modem_control_set(switch_operating_mode(r, "disabled"))
        f == FIFO_register_write(m, 0, TRUE)
        b == Store(f, "baud_mode", BaudMode(Last(s).baudrate))
        d == divisor_latch_set(b, Divisor(Last(s).baudrate)) IN
    data_format_set(divisor_latch_disable(d))

finish_common_init(s) ==
    LET o == switch_reg_config_mode(s, OPERATIONAL_MODE, FALSE) IN
    switch_operating_mode(o, Last(o).baud_mode)

setup_interrupts(s) ==
    LET o == switch_reg_config_mode(int_enable(s), OPERATIONAL_MODE, FALSE) IN
    Store(switch_operating_mode(o, Last(o).baud_mode), "INTC", TRUE)

\* Mutant: the source is masked last.
cleanup_interrupts_MasksLast(s) == Store(int_disable(s), "INTC", FALSE)

cleanup_interrupts(s) == int_disable(Store(s, "INTC", FALSE))

deinit(s) ==
    IF Last(s).io_mode = "UNINITIALIZED" THEN s
    ELSE LET c == IF Last(s).io_mode = "INTERRUPT" THEN cleanup_interrupts(s)
                  ELSE Store(s, "INTC", FALSE) IN
         Store(DMA_disable(c), "io_mode", "UNINITIALIZED")

init_polling(s) ==
    LET c == int_disable(DMA_disable(config_baudrate(deinit(s)))) IN
    Store(finish_common_init(c), "io_mode", "POLLING")

init_interrupt(s) == Store(setup_interrupts(init_polling(s)), "io_mode", "INTERRUPT")

\* FIFO_configure() refuses levels out of range; the threshold of the transmit
\* requests or the DMA backend may be refused after it.
init_dma(s, failure) ==
    LET c == Store(int_disable(config_baudrate(deinit(s))), "INTC", FALSE)
        f == IF failure = "levels" THEN c ELSE FIFO_configure(c, Level) IN
    IF failure # "none" THEN init_polling(f)
    ELSE Store(finish_common_init(f), "io_mode", "DMA")

FIFO_clear(s, rxClear) == FIFO_register_write(s, Last(s).shadow, rxClear)

put_char(s) == Look(Look(Look(s, "LSR"), "THR"), "LSR")

get_char(s) ==
    LET o == switch_reg_config_mode(s, OPERATIONAL_MODE, FALSE) IN
    Put(Look(Look(o, "LSR"), "RHR"), "LCR", Last(s).LCR)

-----------------------------------------------------------------------------
(* The program. *)

Resting == ahead = <<>>

\* The UART requests its receive interrupt and the INTC lets it through.
Pending == rxfifo /\ now.INTC /\ "RECEIVE" \in now.IER

\* cleared lasts from a FIFO_clear() to the next reset of the UART.
Run(m) == /\ Resting
          /\ now' = Head(m) /\ ahead' = Tail(m)
          /\ UNCHANGED rxfifo
From == <<[now EXCEPT !.touched = "none", !.wrote = FALSE]>>

InitPolling   == Run(init_polling(From))
InitInterrupt == Run(init_interrupt(From))
InitDma       == \E failure \in {"none", "levels", "later"} : Run(init_dma(From, failure))
Deinit        == Run(deinit(From))

SetBaudrate == \E b \in Baudrates : Run(init_polling(Store(From, "baudrate", b)))

\* The callers of FIFO_clear() initialise the UART next.
FifoClear ==
    /\ now.io_mode # "UNINITIALIZED" /\ ~Pending
    /\ \E rxClear \in BOOLEAN :
          Run(FIFO_clear(<<[From[1] EXCEPT !.cleared = TRUE]>>, rxClear))

InUse   == now.io_mode # "UNINITIALIZED" /\ ~now.cleared
PutChar == InUse /\ Run(put_char(From))
GetChar == InUse /\ rxfifo /\ Run(get_char(From))

\* The next access of the method in progress.
Access ==
    /\ ~Resting
    /\ now' = Head(ahead) /\ ahead' = Tail(ahead)
    /\ rxfifo' = IF \/ now'.touched \in {"SYSC", "RHR"}
                    \/ now'.touched = "FCR" /\ now'.FCR.rxClear
                 THEN FALSE ELSE rxfifo

\* A byte arrives.  The peer is silent while the FIFO is cleared under an
\* enabled receive interrupt.
LineByte ==
    /\ now.MDR1 # "disabled" /\ now.DL # 0
    /\ ~(now.cleared /\ now.INTC)
    /\ rxfifo' = TRUE /\ UNCHANGED <<now, ahead>>

\* handle_uart_irq() empties the FIFO.
ReceiveInterrupt == Pending /\ rxfifo' = FALSE /\ UNCHANGED <<now, ahead>>

CNext ==
    \/ InitPolling \/ InitInterrupt \/ InitDma \/ Deinit \/ SetBaudrate
    \/ FifoClear \/ PutChar \/ GetChar
    \/ Access \/ LineByte \/ ReceiveInterrupt

ConfigSpec == CInit /\ [][CNext]_cvars

-----------------------------------------------------------------------------
(* Properties. *)

\* Every access reaches the register it means and takes effect: LCR shows that
\* register, the divisor changes in the disabled mode, FCR's FIFO_EN with the
\* baud clock stopped, and what is guarded by EFR[4] and MCR[6] with these set.
AccessTakesEffect ==
    LET r == now.touched IN
    /\ r # "LCR" => Window(now.LCR) \in WindowsOf(r)
    /\ now.wrote =>
        /\ r = "DL" => now.MDR1 = "disabled"
        /\ r = "FCR" => now.DL = 0 /\ now.EFR
        /\ r = "MCR" => now.EFR
        /\ r = "TLR" => now.EFR /\ now.MCR

\* Whenever the receive interrupt can be taken, its handler reads IIR and RHR
\* and not EFR, a divisor latch or the next character to send.
HandlerSeesData == Pending => Window(now.LCR) = "operational"

\* Between calls an initialised UART is what its I/O mode needs, whatever was
\* called before and whichever step of an initialisation failed: frame format,
\* divisor, operating mode, trigger levels, DMA mode, interrupts; m_FCR_shadow
\* tells the truth about the write-only FCR.  FIFO_clear() keeps all of it but
\* the window.
LineIsConfigured ==
    Resting /\ now.io_mode # "UNINITIALIZED" =>
        /\ now.LCR = IF now.cleared THEN CONFIG_MODE_A ELSE Format8N1
        /\ now.DL = Divisor(now.baudrate) /\ now.MDR1 = BaudMode(now.baudrate)
        /\ now.shadow = now.FCR.trig
        /\ now.TLR = now.FCR.trig /\ now.SCR = (now.io_mode = "DMA")
        /\ now.FCR.trig = IF now.io_mode = "DMA" THEN Level ELSE 0
        /\ now.INTC = ("RECEIVE" \in now.IER) /\ now.INTC = (now.io_mode = "INTERRUPT")
=============================================================================
