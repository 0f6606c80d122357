-------------------------- MODULE UartConfigProofs --------------------------
(***************************************************************************)
(* Proofs about UartConfig for any set of baud rates and any trigger       *)
(* levels.                                                                 *)
(*                                                                         *)
(* A method is a sequence of register states, and what the properties say  *)
(* of every state the program goes through is shown when the sequence is   *)
(* made: Trace says that each of its states is Good, and one lemma per     *)
(* method says what the last one is, from what the method begins with.     *)
(* The invariant of the program is then that now and ahead are the rest of *)
(* such a sequence.                                                        *)
(***************************************************************************)
EXTENDS UartConfig, TLAPS

-----------------------------------------------------------------------------
(* The register states. *)

\* The ranges of the fields, and the states they make.
Lcrs     == 0..255
Levels   == 0..63
Divisors == 0..17
Ints     == SUBSET {"RECEIVE"}
Fcrs     == [trig : Levels, rxClear : BOOLEAN]
MdrModes == {"disabled", "13x", "16x"}
IoModes  == {"UNINITIALIZED", "POLLING", "INTERRUPT", "DMA"}
Rates    == 0..16
Touches  == {"none", "SYSC", "LCR", "EFR", "MCR", "TLR", "SCR", "FCR", "DL", "IER", "MDR1", "LSR", "THR", "RHR"}

Types == [LCR |-> Lcrs, EFR |-> BOOLEAN, MCR |-> BOOLEAN, TLR |-> Levels, SCR |-> BOOLEAN, FCR |-> Fcrs, DL |-> Divisors,
          IER |-> Ints, MDR1 |-> MdrModes, INTC |-> BOOLEAN, touched |-> Touches, wrote |-> BOOLEAN, shadow |-> Levels,
          io_mode |-> IoModes, baud_mode |-> MdrModes, baudrate |-> Rates, cleared |-> BOOLEAN]

State == [LCR : Lcrs, EFR : BOOLEAN, MCR : BOOLEAN, TLR : Levels, SCR : BOOLEAN, FCR : Fcrs, DL : Divisors, IER : Ints,
          MDR1 : MdrModes, INTC : BOOLEAN, touched : Touches, wrote : BOOLEAN, shadow : Levels, io_mode : IoModes,
          baud_mode : MdrModes, baudrate : Rates, cleared : BOOLEAN]

\* The fields but those that only describe the access.
Fields == {"LCR", "EFR", "MCR", "TLR", "SCR", "FCR", "DL", "IER", "MDR1", "INTC", "shadow", "io_mode", "baud_mode",
           "baudrate", "cleared"}
Registers == {"LCR", "EFR", "MCR", "TLR", "SCR", "FCR", "DL", "IER", "MDR1"}

\* u has the fields of x, but for those in F.
Keeps(u, x, F) == \A f \in Fields \ F : u[f] = x[f]

\* A register state with one field changed is one, and differs in that field only.
LEMMA ExceptState ==
    ASSUME NEW x \in State, NEW f \in Fields \union {"touched", "wrote"}, NEW v \in Types[f]
    PROVE  /\ [x EXCEPT ![f] = v] \in State
           /\ [x EXCEPT ![f] = v][f] = v
           /\ \A g \in (Fields \union {"touched", "wrote"}) \ {f} : [x EXCEPT ![f] = v][g] = x[g]
<1>0. DOMAIN x = Fields \union {"touched", "wrote"}
  BY DEF State, Fields
<1>1. [x EXCEPT ![f] = v] \in State
  <2>1. CASE f = "LCR" BY <2>1 DEF Types, State
  <2>2. CASE f = "EFR" BY <2>2 DEF Types, State
  <2>3. CASE f = "MCR" BY <2>3 DEF Types, State
  <2>4. CASE f = "TLR" BY <2>4 DEF Types, State
  <2>5. CASE f = "SCR" BY <2>5 DEF Types, State
  <2>6. CASE f = "FCR" BY <2>6 DEF Types, State
  <2>7. CASE f = "DL" BY <2>7 DEF Types, State
  <2>8. CASE f = "IER" BY <2>8 DEF Types, State
  <2>9. CASE f = "MDR1" BY <2>9 DEF Types, State
  <2>10. CASE f = "INTC" BY <2>10 DEF Types, State
  <2>11. CASE f = "touched" BY <2>11 DEF Types, State
  <2>12. CASE f = "wrote" BY <2>12 DEF Types, State
  <2>13. CASE f = "shadow" BY <2>13 DEF Types, State
  <2>14. CASE f = "io_mode" BY <2>14 DEF Types, State
  <2>15. CASE f = "baud_mode" BY <2>15 DEF Types, State
  <2>16. CASE f = "baudrate" BY <2>16 DEF Types, State
  <2>17. CASE f = "cleared" BY <2>17 DEF Types, State
  <2> QED BY <2>1, <2>2, <2>3, <2>4, <2>5, <2>6, <2>7, <2>8, <2>9, <2>10, <2>11, <2>12, <2>13, <2>14, <2>15, <2>16, <2>17 DEF Fields
<1>2. [x EXCEPT ![f] = v][f] = v /\ \A g \in (Fields \union {"touched", "wrote"}) \ {f} : [x EXCEPT ![f] = v][g] = x[g]
  BY <1>0
<1> QED BY <1>1, <1>2

\* The same for wrote, for either value.
LEMMA ExceptWrote ==
    ASSUME NEW x \in State, NEW b \in BOOLEAN
    PROVE  /\ [x EXCEPT !["wrote"] = b] \in State
           /\ [x EXCEPT !["wrote"] = b].wrote = b
           /\ \A g \in Fields \union {"touched"} : [x EXCEPT !["wrote"] = b][g] = x[g]
BY DEF State, Fields

-----------------------------------------------------------------------------
(* What is to hold of every state, and of a sequence of them. *)

\* AccessTakesEffect, of the state u.
Reaches(u) ==
    LET r == u.touched IN
    /\ r # "LCR" => Window(u.LCR) \in WindowsOf(r)
    /\ u.wrote =>
        /\ r = "DL" => u.MDR1 = "disabled"
        /\ r = "FCR" => u.DL = 0 /\ u.EFR
        /\ r = "MCR" => u.EFR
        /\ r = "TLR" => u.EFR /\ u.MCR

\* The UART's receive interrupt would be taken; Good is HandlerSeesData as well.
\* Held is a FIFO cleared with the interrupt on, during which the peer is silent,
\* and which no method may enter on its way.
Listening(u) == u.INTC /\ "RECEIVE" \in u.IER
Good(u) == Reaches(u) /\ (Listening(u) /\ ~u.cleared => Window(u.LCR) = "operational")
Held(u) == Listening(u) /\ u.cleared
Quiet(u) == Listening(u) => u.cleared

\* s begins in h and is a course the program may take.
Trace(s, h) ==
    /\ s \in Seq(State) /\ s # <<>> /\ s[1] = h
    /\ \A i \in 1..Len(s) : Good(s[i])
    /\ \A i \in 1..Len(s) - 1 : Held(s[i + 1]) => Held(s[i])

\* A sequence goes on with any state that is good.
LEMMA AppendTrace ==
    ASSUME NEW s, NEW h, NEW u \in State, Trace(s, h), Good(u), Held(u) => Held(Last(s))
    PROVE  Trace(Append(s, u), h) /\ Last(Append(s, u)) = u
<1> s \in Seq(State) /\ s # <<>> /\ Len(s) \in Nat /\ Len(s) > 0
  BY DEF Trace
<1> DEFINE t == Append(s, u)
<1>1. t \in Seq(State) /\ Len(t) = Len(s) + 1 /\ t[Len(s) + 1] = u /\ \A i \in 1..Len(s) : t[i] = s[i]
  OBVIOUS
<1>2. t[1] = h /\ t # <<>> /\ Last(t) = u
  BY <1>1 DEF Trace, Last
<1>3. \A i \in 1..Len(t) : Good(t[i])
  BY <1>1 DEF Trace
<1>4. \A i \in 1..Len(t) - 1 : Held(t[i + 1]) => Held(t[i])
  BY <1>1 DEF Trace, Last
<1> QED BY <1>1, <1>2, <1>3, <1>4 DEF Trace

\* The last state of a sequence is a good one.
LEMMA LastInState == ASSUME NEW s, NEW h, Trace(s, h) PROVE Last(s) \in State /\ Good(Last(s))
BY DEF Trace, Last

-----------------------------------------------------------------------------
(* The three steps methods are made of. *)

\* When a register may be written and looked at, and a variable stored.
MayWrite(x, r, v) ==
    /\ r = "LCR" => Quiet(x) \/ v < CONFIG_MODE_A
    /\ r # "LCR" => Window(x.LCR) \in WindowsOf(r)
    /\ r = "DL" => x.MDR1 = "disabled"
    /\ r = "FCR" => x.DL = 0 /\ x.EFR
    /\ r = "MCR" => x.EFR
    /\ r = "TLR" => x.EFR /\ x.MCR
    /\ r = "IER" => v = {} \/ (~x.cleared /\ Window(x.LCR) = "operational")
MayStore(x, f, v) == f = "INTC" => v = FALSE \/ (~x.cleared /\ Window(x.LCR) = "operational")

\* A permitted write goes to a good state that differs in the register written.
LEMMA PutTrace ==
    ASSUME NEW s, NEW h, Trace(s, h), NEW r \in Registers, NEW v \in Types[r], MayWrite(Last(s), r, v)
    PROVE  LET u == Last(Put(s, r, v)) IN
           Trace(Put(s, r, v), h) /\ u \in State /\ Keeps(u, Last(s), {r}) /\ u[r] = v
<1> DEFINE x == Last(s)
           y == [x EXCEPT ![r] = v]
           z == [y EXCEPT !["touched"] = r]
           u == [z EXCEPT !["wrote"] = TRUE]
<1>0. x \in State /\ Good(x)
  BY LastInState
<1>1. /\ r \in Fields \union {"touched", "wrote"} /\ "touched" \in Fields \union {"touched", "wrote"} /\ "wrote" \in Fields \union {"touched", "wrote"}
      /\ r \in Types["touched"] /\ TRUE \in Types["wrote"] /\ r # "touched" /\ r # "wrote" /\ r \in Fields
  BY DEF Fields, Registers, Types, Touches
<1>2. y \in State /\ y[r] = v /\ \A g \in (Fields \union {"touched", "wrote"}) \ {r} : y[g] = x[g]
  BY <1>0, <1>1, ExceptState
<1> HIDE DEF x, y
<1>3. z \in State /\ z["touched"] = r /\ \A g \in (Fields \union {"touched", "wrote"}) \ {"touched"} : z[g] = y[g]
  BY <1>1, <1>2, ExceptState
<1> HIDE DEF z
<1>4. u \in State /\ u.wrote = TRUE /\ \A g \in Fields \union {"touched"} : u[g] = z[g]
  BY <1>3, ExceptWrote
<1> HIDE DEF u
<1>5. u \in State /\ u[r] = v /\ u.touched = r /\ u.wrote = TRUE /\ Keeps(u, x, {r})
  BY <1>1, <1>2, <1>3, <1>4 DEF Keeps, Fields
<1>6. Put(s, r, v) = Append(s, u)
  BY DEF Put, x, y, z, u
<1>7. r # "LCR" => u.LCR = x.LCR
  BY <1>5 DEF Keeps, Fields
<1>8. u.cleared = x.cleared /\ u.INTC = x.INTC
  BY <1>5 DEF Keeps, Fields, Registers
<1>9. Reaches(u)
  <2>1. /\ r = "DL" => u.MDR1 = x.MDR1
        /\ r = "FCR" => u.DL = x.DL /\ u.EFR = x.EFR
        /\ r = "MCR" => u.EFR = x.EFR
        /\ r = "TLR" => u.EFR = x.EFR /\ u.MCR = x.MCR
    BY <1>5 DEF Keeps, Fields
  <2>2. MayWrite(x, r, v)
    BY DEF x
  <2>3. r # "LCR" => Window(u.LCR) \in WindowsOf(r)
    BY <1>7, <2>2 DEF MayWrite
  <2>4. /\ r = "DL" => u.MDR1 = "disabled"
        /\ r = "FCR" => u.DL = 0 /\ u.EFR
        /\ r = "MCR" => u.EFR
        /\ r = "TLR" => u.EFR /\ u.MCR
    BY <2>1, <2>2 DEF MayWrite
  <2> QED BY <1>5, <2>3, <2>4 DEF Reaches
<1>10. Listening(u) /\ ~u.cleared => Window(u.LCR) = "operational"
  <2>1. CASE r = "LCR"
    BY <1>0, <1>5, <1>8, <2>1 DEF MayWrite, x, Quiet, Listening, Keeps, Fields, Window, CONFIG_MODE_A, CONFIG_MODE_B, Types, Lcrs
  <2>2. CASE r = "IER"
    BY <1>0, <1>5, <1>7, <2>2 DEF MayWrite, x, Listening
  <2>3. CASE r # "LCR" /\ r # "IER"
    BY <1>0, <1>5, <1>7, <1>8, <2>3 DEF Good, Listening, Keeps, Fields
  <2> QED BY <2>1, <2>2, <2>3
<1>11. Held(u) => Held(x)
  BY <1>5, <1>8 DEF Held, Listening, MayWrite, x, Keeps, Fields
<1> QED BY <1>5, <1>6, <1>9, <1>10, <1>11, AppendTrace DEF Good, x

\* A read through the right window changes nothing.
LEMMA LookTrace ==
    ASSUME NEW s, NEW h, Trace(s, h), NEW r \in Touches, Window(Last(s).LCR) \in WindowsOf(r)
    PROVE  LET u == Last(Look(s, r)) IN
           Trace(Look(s, r), h) /\ u \in State /\ Keeps(u, Last(s), {})
<1> DEFINE x == Last(s)
           z == [x EXCEPT !["touched"] = r]
           u == [z EXCEPT !["wrote"] = FALSE]
<1>0. x \in State /\ Good(x)
  BY LastInState
<1>1. /\ "touched" \in Fields \union {"touched", "wrote"} /\ "wrote" \in Fields \union {"touched", "wrote"}
      /\ r \in Types["touched"] /\ FALSE \in Types["wrote"]
  BY DEF Fields, Types
<1> HIDE DEF x
<1>3. z \in State /\ z["touched"] = r /\ \A g \in (Fields \union {"touched", "wrote"}) \ {"touched"} : z[g] = x[g]
  BY <1>0, <1>1, ExceptState
<1> HIDE DEF z
<1>4. u \in State /\ u.wrote = FALSE /\ \A g \in Fields \union {"touched"} : u[g] = z[g]
  BY <1>3, ExceptWrote
<1> HIDE DEF u
<1>5. u \in State /\ u.touched = r /\ ~u.wrote /\ Keeps(u, x, {})
  BY <1>3, <1>4 DEF Keeps, Fields
<1>6. Look(s, r) = Append(s, u)
  BY DEF Look, x, z, u
<1>7. u.LCR = x.LCR /\ u.cleared = x.cleared /\ u.INTC = x.INTC /\ u.IER = x.IER
  BY <1>5 DEF Keeps, Fields
<1>8. Window(u.LCR) \in WindowsOf(r)
  BY <1>7 DEF x
<1>9. Reaches(u)
  BY <1>5, <1>8 DEF Reaches
<1>10. (Listening(u) /\ ~u.cleared => Window(u.LCR) = "operational") /\ (Held(u) => Held(x))
  BY <1>0, <1>7 DEF Good, Listening, Held
<1> QED BY <1>5, <1>6, <1>9, <1>10, AppendTrace DEF Good, x

\* A permitted assignment, or a write to the INTC, goes to a good state.
LEMMA StoreTrace ==
    ASSUME NEW s, NEW h, Trace(s, h), NEW f \in Fields \ Registers, f # "cleared", NEW v \in Types[f], MayStore(Last(s), f, v)
    PROVE  LET u == Last(Store(s, f, v)) IN
           Trace(Store(s, f, v), h) /\ u \in State /\ Keeps(u, Last(s), {f}) /\ u[f] = v
<1> DEFINE x == Last(s)
           y == [x EXCEPT ![f] = v]
           z == [y EXCEPT !["touched"] = "none"]
           u == [z EXCEPT !["wrote"] = FALSE]
<1>0. x \in State /\ Good(x)
  BY LastInState
<1>1. /\ f \in Fields \union {"touched", "wrote"} /\ "touched" \in Fields \union {"touched", "wrote"} /\ "wrote" \in Fields \union {"touched", "wrote"}
      /\ "none" \in Types["touched"] /\ FALSE \in Types["wrote"] /\ f # "touched" /\ f # "wrote"
      /\ f # "LCR" /\ f # "IER"
  BY DEF Fields, Registers, Types, Touches
<1>2. y \in State /\ y[f] = v /\ \A g \in (Fields \union {"touched", "wrote"}) \ {f} : y[g] = x[g]
  BY <1>0, <1>1, ExceptState
<1> HIDE DEF x, y
<1>3. z \in State /\ z["touched"] = "none" /\ \A g \in (Fields \union {"touched", "wrote"}) \ {"touched"} : z[g] = y[g]
  BY <1>1, <1>2, ExceptState
<1> HIDE DEF z
<1>4. u \in State /\ u.wrote = FALSE /\ \A g \in Fields \union {"touched"} : u[g] = z[g]
  BY <1>3, ExceptWrote
<1> HIDE DEF u
<1>5. u \in State /\ u[f] = v /\ u.touched = "none" /\ ~u.wrote /\ Keeps(u, x, {f})
  BY <1>1, <1>2, <1>3, <1>4 DEF Keeps, Fields
<1>6. Store(s, f, v) = Append(s, u)
  BY DEF Store, x, y, z, u
<1>7. u.LCR = x.LCR /\ u.IER = x.IER /\ u.cleared = x.cleared /\ (f # "INTC" => u.INTC = x.INTC)
  BY <1>1, <1>5 DEF Keeps, Fields
<1>8. Reaches(u)
  BY <1>5 DEF Reaches, WindowsOf, Window
<1>9. (Listening(u) /\ ~u.cleared => Window(u.LCR) = "operational") /\ (Held(u) => Held(x))
  <2>1. CASE f # "INTC"
    BY <1>0, <1>7, <2>1 DEF Good, Listening, Held
  <2>2. CASE f = "INTC"
    BY <1>5, <1>7, <2>2 DEF MayStore, Listening, Held, x
  <2> QED BY <2>1, <2>2
<1> QED BY <1>5, <1>6, <1>8, <1>9, AppendTrace DEF Good, x

\* What masking LCR with 127 does.
LEMMA LCRMod == \A v \in Lcrs : v % 128 \in Lcrs /\ v % 128 < 128 /\ Window(v % 128) = "operational" /\ (v < 128 => v % 128 = v)
BY DEF Lcrs, Window, CONFIG_MODE_A, CONFIG_MODE_B

\* Changes add up.
LEMMA KeepsTrans ==
    ASSUME NEW x, NEW y, NEW z, NEW F, NEW G, NEW H, Keeps(y, x, F), Keeps(z, y, G), F \union G \subseteq H
    PROVE  Keeps(z, x, H)
BY DEF Keeps

\* No interrupt can come if none could and its enables are not touched.
LEMMA KeepsQuiet ==
    ASSUME NEW x, NEW y, NEW F, Keeps(y, x, F), F \intersect {"INTC", "IER", "cleared"} = {}, Quiet(x)
    PROVE  Quiet(y)
BY DEF Keeps, Quiet, Listening, Fields

\* What a switch of the window leaves LCR with.
Switched(x, mode) == IF mode = OPERATIONAL_MODE THEN x.LCR % 128 ELSE mode

\* Switched for each of the three windows.
LEMMA SwitchedTo ==
    ASSUME NEW x
    PROVE  /\ Switched(x, CONFIG_MODE_A) = CONFIG_MODE_A /\ Switched(x, CONFIG_MODE_B) = CONFIG_MODE_B
           /\ Switched(x, OPERATIONAL_MODE) = x.LCR % 128
BY DEF Switched, CONFIG_MODE_A, CONFIG_MODE_B, OPERATIONAL_MODE

\* switch_operating_mode() is two writes to MDR1, from any window.
LEMMA ModeTrace ==
    ASSUME NEW s, NEW h, Trace(s, h), NEW mode \in MdrModes
    PROVE  LET t == switch_operating_mode(s, mode)
               u == Last(t)
           IN  Trace(t, h) /\ u \in State /\ Keeps(u, Last(s), {"MDR1"}) /\ u.MDR1 = mode
<1> DEFINE z == Put(s, "MDR1", "16x")
           t == Put(z, "MDR1", mode)
<1>0. switch_operating_mode(s, mode) = t
  BY DEF switch_operating_mode
<1>1. "MDR1" \in Registers /\ "16x" \in Types["MDR1"] /\ mode \in Types["MDR1"]
  BY DEF Registers, Types, MdrModes
<1>2. \A x : \A m \in MdrModes : MayWrite(x, "MDR1", m)
  BY DEF MayWrite, Window, WindowsOf
<1>3. Trace(z, h) /\ Keeps(Last(z), Last(s), {"MDR1"})
  BY <1>1, <1>2, PutTrace DEF Types
<1> HIDE DEF z
<1>4. Trace(t, h) /\ Last(t) \in State /\ Keeps(Last(t), Last(z), {"MDR1"}) /\ Last(t)["MDR1"] = mode
  BY <1>1, <1>2, <1>3, PutTrace
<1>5. Keeps(Last(t), Last(s), {"MDR1"})
  BY <1>3, <1>4 DEF Keeps
<1> QED BY <1>0, <1>4, <1>5

\* switch_reg_config_mode() without the enhanced functions.
LEMMA SwitchTrace ==
    ASSUME NEW s, NEW h, Trace(s, h), NEW mode \in {CONFIG_MODE_A, CONFIG_MODE_B, OPERATIONAL_MODE}, Quiet(Last(s))
    PROVE  LET t == switch_reg_config_mode(s, mode, FALSE)
               u == Last(t)
           IN  Trace(t, h) /\ u \in State /\ Keeps(u, Last(s), {"LCR"}) /\ u.LCR = Switched(Last(s), mode)
<1> DEFINE v == Switched(Last(s), mode)
<1>1. v \in Lcrs
  BY LastInState, LCRMod DEF State, Switched, Lcrs, CONFIG_MODE_A, CONFIG_MODE_B
<1>2. switch_reg_config_mode(s, mode, FALSE) = Put(s, "LCR", v)
  BY DEF switch_reg_config_mode, Switched
<1>3. "LCR" \in Registers /\ v \in Types["LCR"] /\ MayWrite(Last(s), "LCR", v)
  BY <1>1 DEF Registers, Types, MayWrite
<1> HIDE DEF v
<1>4. LET u == Last(Put(s, "LCR", v)) IN
      Trace(Put(s, "LCR", v), h) /\ u \in State /\ Keeps(u, Last(s), {"LCR"}) /\ u["LCR"] = v
  BY <1>3, PutTrace
<1> QED BY <1>2, <1>4 DEF v

\* switch_reg_config_mode() that enables them sets EFR and leaves the window asked for.
LEMMA EnhancedTrace ==
    ASSUME NEW s, NEW h, Trace(s, h), NEW mode \in {CONFIG_MODE_A, CONFIG_MODE_B, OPERATIONAL_MODE}, Quiet(Last(s))
    PROVE  LET t == switch_reg_config_mode(s, mode, TRUE)
               u == Last(t)
           IN  Trace(t, h) /\ u \in State /\ Keeps(u, Last(s), {"LCR", "EFR"}) /\ u.LCR = Switched(Last(s), mode) /\ u.EFR = TRUE
<1> DEFINE l == switch_reg_config_mode(s, mode, FALSE)
           b == Put(l, "LCR", CONFIG_MODE_B)
           e == Put(b, "EFR", TRUE)
           r == Put(e, "LCR", Last(l).LCR)
<1>0. switch_reg_config_mode(s, mode, TRUE) = r
  BY DEF switch_reg_config_mode
<1>1. Trace(l, h) /\ Keeps(Last(l), Last(s), {"LCR"}) /\ Last(l).LCR = Switched(Last(s), mode) /\ Last(l).LCR \in Lcrs /\ Quiet(Last(l))
  BY SwitchTrace, KeepsQuiet DEF State
<1> HIDE DEF l
<1>2. Trace(b, h) /\ Keeps(Last(b), Last(l), {"LCR"}) /\ Last(b).LCR = CONFIG_MODE_B
  BY <1>1, PutTrace DEF Registers, Types, MayWrite, Lcrs, CONFIG_MODE_B
<1>3. Quiet(Last(b))
  BY <1>1, <1>2, KeepsQuiet
<1> HIDE DEF b
<1>4. Trace(e, h) /\ Keeps(Last(e), Last(b), {"EFR"}) /\ Last(e).EFR = TRUE
  BY <1>2, PutTrace DEF Registers, Types, MayWrite, Window, WindowsOf
<1>5. Quiet(Last(e))
  BY <1>3, <1>4, KeepsQuiet
<1> HIDE DEF e
<1>6. Trace(r, h) /\ Last(r) \in State /\ Keeps(Last(r), Last(e), {"LCR"}) /\ Last(r).LCR = Last(l).LCR
  BY <1>1, <1>4, <1>5, PutTrace DEF Registers, Types, MayWrite
<1> HIDE DEF r
<1>7. Last(r).EFR = TRUE /\ Keeps(Last(r), Last(s), {"LCR", "EFR"})
  BY <1>1, <1>2, <1>4, <1>6 DEF Keeps, Fields
<1> QED BY <1>0, <1>1, <1>6, <1>7

\* From a sequence that ends in x, a method has continued it to t and kept the fields of x but for those in F.
Reached(t, h, x, F) == Trace(t, h) /\ Last(t) \in State /\ Keeps(Last(t), x, F)

\* How divisor_latch_get(), divisor_latch_set() and int_enable() begin.
LEMMA LookIer ==
    ASSUME NEW s, NEW h, Trace(s, h), Quiet(Last(s))
    PROVE  LET t == Look(switch_reg_config_mode(s, OPERATIONAL_MODE, TRUE), "IER") IN
           Reached(t, h, Last(s), {"LCR", "EFR"}) /\ Last(t).LCR = Last(s).LCR % 128 /\ Last(t).EFR = TRUE
<1> DEFINE e == switch_reg_config_mode(s, OPERATIONAL_MODE, TRUE)
           t == Look(e, "IER")
           x == Last(s)
<1>0. x \in State /\ x.LCR \in Lcrs
  BY LastInState DEF State
<1>1. Trace(e, h) /\ Keeps(Last(e), x, {"LCR", "EFR"}) /\ Last(e).LCR = x.LCR % 128 /\ Last(e).EFR = TRUE
  BY EnhancedTrace, SwitchedTo
<1> HIDE DEF e
<1>2. Window(Last(e).LCR) \in WindowsOf("IER") /\ "IER" \in Touches
  BY <1>0, <1>1, LCRMod DEF WindowsOf, Touches
<1>3. Trace(t, h) /\ Last(t) \in State /\ Keeps(Last(t), Last(e), {})
  BY <1>1, <1>2, LookTrace
<1> HIDE DEF t
<1>4. Last(t).LCR = Last(e).LCR /\ Last(t).EFR = Last(e).EFR
  BY <1>3 DEF Keeps, Fields
<1>5. Keeps(Last(t), x, {"LCR", "EFR"})
  BY <1>1, <1>3, KeepsTrans
<1> HIDE DEF x
<1>6. Reached(t, h, x, {"LCR", "EFR"}) /\ Last(t).LCR = x.LCR % 128 /\ Last(t).EFR = TRUE
  BY <1>1, <1>3, <1>4, <1>5 DEF Reached
<1> QED BY <1>6 DEF t, e, x

\* divisor_latch_get() leaves window A and the enhanced functions on.
LEMMA DivisorGet ==
    ASSUME NEW s, NEW h, Trace(s, h), Quiet(Last(s))
    PROVE  LET t == divisor_latch_get(s) IN
           Reached(t, h, Last(s), {"LCR", "EFR"}) /\ Last(t).LCR = CONFIG_MODE_A /\ Last(t).EFR = TRUE
<1> DEFINE x == Last(s)
           o == Look(switch_reg_config_mode(s, OPERATIONAL_MODE, TRUE), "IER")
           a == switch_reg_config_mode(o, CONFIG_MODE_A, FALSE)
           t == Look(a, "DL")
<1>1. Trace(o, h) /\ Keeps(Last(o), x, {"LCR", "EFR"}) /\ Last(o).EFR = TRUE
  BY LookIer DEF Reached
<1> HIDE DEF o, x
<1>2. Quiet(x)
  BY DEF x
<1>3. Quiet(Last(o))
  BY <1>1, <1>2, KeepsQuiet
<1>4. Trace(a, h) /\ Keeps(Last(a), Last(o), {"LCR"}) /\ Last(a).LCR = CONFIG_MODE_A
  BY <1>1, <1>3, SwitchTrace, SwitchedTo
<1> HIDE DEF a
<1>5. Window(Last(a).LCR) \in WindowsOf("DL") /\ "DL" \in Touches
  BY <1>4 DEF Window, WindowsOf, CONFIG_MODE_A, CONFIG_MODE_B, Touches
<1>6. Trace(t, h) /\ Last(t) \in State /\ Keeps(Last(t), Last(a), {})
  BY <1>4, <1>5, LookTrace
<1> HIDE DEF t
<1>7. Last(t).LCR = CONFIG_MODE_A /\ Last(t).EFR = TRUE
  BY <1>1, <1>4, <1>6 DEF Keeps, Fields
<1>8. Keeps(Last(t), x, {"LCR", "EFR"})
  BY <1>1, <1>4, <1>6 DEF Keeps
<1>9. Reached(t, h, x, {"LCR", "EFR"})
  BY <1>6, <1>8 DEF Reached
<1> QED BY <1>7, <1>9 DEF t, a, o, x, divisor_latch_get

\* divisor_latch_set() restores LCR and the operating mode it left.
LEMMA DivisorSet ==
    ASSUME NEW s, NEW h, Trace(s, h), Quiet(Last(s)), NEW d \in Divisors
    PROVE  LET t == divisor_latch_set(s, d) IN
           Reached(t, h, Last(s), {"EFR", "DL"}) /\ Last(t).DL = d /\ Last(t).EFR = TRUE
<1> DEFINE x == Last(s)
           modf == x.MDR1
           o == Look(switch_reg_config_mode(s, OPERATIONAL_MODE, TRUE), "IER")
           b == switch_reg_config_mode(o, CONFIG_MODE_B, TRUE)
           m == IF modf # "disabled" THEN switch_operating_mode(b, "disabled") ELSE b
           l == Put(m, "DL", d)
           r == Put(l, "LCR", x.LCR)
           t == IF modf # "disabled" THEN switch_operating_mode(r, modf) ELSE r
<1>0. divisor_latch_set(s, d) = t
  BY DEF divisor_latch_set
<1>1. Trace(o, h) /\ Keeps(Last(o), x, {"LCR", "EFR"})
  BY LookIer DEF Reached
<1>2. x \in State /\ Quiet(x) /\ x.LCR \in Lcrs /\ x.MDR1 \in MdrModes
  BY LastInState DEF State
<1> HIDE DEF o, x
<1>3. Quiet(Last(o))
  BY <1>1, <1>2, KeepsQuiet
<1>4. Trace(b, h) /\ Last(b) \in State /\ Keeps(Last(b), Last(o), {"LCR", "EFR"}) /\ Last(b).LCR = CONFIG_MODE_B /\ Last(b).EFR = TRUE
  BY <1>1, <1>3, EnhancedTrace, SwitchedTo
<1> HIDE DEF b
<1>5. Last(b).MDR1 = modf
  BY <1>1, <1>4 DEF Keeps, Fields
<1>6. Trace(m, h) /\ Keeps(Last(m), Last(b), {"MDR1"}) /\ Last(m).MDR1 = "disabled"
  <2>1. CASE modf = "disabled"
    BY <1>4, <1>5, <2>1 DEF Keeps
  <2>2. CASE modf # "disabled"
    <3>1. m = switch_operating_mode(b, "disabled") /\ "disabled" \in MdrModes
      BY <2>2 DEF MdrModes
    <3> QED BY <1>4, <3>1, ModeTrace
  <2> QED BY <2>1, <2>2
<1>7. Quiet(Last(m)) /\ Last(m).LCR = CONFIG_MODE_B
  <2>1. Quiet(Last(b))
    BY <1>3, <1>4, KeepsQuiet
  <2>2. Quiet(Last(m))
    BY <1>6, <2>1, KeepsQuiet
  <2> QED BY <1>4, <1>6, <2>2 DEF Keeps, Fields
<1> HIDE DEF m
<1>8. Trace(l, h) /\ Keeps(Last(l), Last(m), {"DL"}) /\ Last(l).DL = d
  <2>1. "DL" \in Registers /\ d \in Types["DL"] /\ MayWrite(Last(m), "DL", d)
    BY <1>6, <1>7 DEF Registers, Types, MayWrite, Window, WindowsOf
  <2> QED BY <1>6, <2>1, PutTrace
<1> HIDE DEF l
<1>9. Quiet(Last(l))
  BY <1>7, <1>8, KeepsQuiet
<1>10. Trace(r, h) /\ Last(r) \in State /\ Keeps(Last(r), Last(l), {"LCR"}) /\ Last(r).LCR = x.LCR
  <2>1. "LCR" \in Registers /\ x.LCR \in Types["LCR"] /\ MayWrite(Last(l), "LCR", x.LCR)
    BY <1>2, <1>9 DEF Registers, Types, MayWrite
  <2> QED BY <1>8, <2>1, PutTrace
<1> HIDE DEF r
<1>11. Trace(t, h) /\ Last(t) \in State /\ Keeps(Last(t), Last(r), {"MDR1"}) /\ Last(t).MDR1 = modf
  <2>1. CASE modf = "disabled"
    <3>1. Last(r).MDR1 = "disabled"
      BY <1>6, <1>8, <1>10 DEF Keeps, Fields
    <3> QED BY <1>10, <2>1, <3>1 DEF Keeps
  <2>2. CASE modf # "disabled"
    <3>1. t = switch_operating_mode(r, modf)
      BY <2>2
    <3> QED BY <1>2, <1>10, <3>1, ModeTrace
  <2> QED BY <2>1, <2>2
<1> HIDE DEF t
<1>12. Last(t).DL = d /\ Last(t).EFR = TRUE /\ Last(t).LCR = x.LCR
  BY <1>4, <1>6, <1>8, <1>10, <1>11 DEF Keeps, Fields
<1>13. Keeps(Last(t), x, {"EFR", "DL", "LCR", "MDR1"})
  BY <1>1, <1>4, <1>6, <1>8, <1>10, <1>11 DEF Keeps
<1>14. Keeps(Last(t), x, {"EFR", "DL"})
  BY <1>11, <1>12, <1>13 DEF Keeps
<1>15. Reached(t, h, x, {"EFR", "DL"})
  BY <1>11, <1>14 DEF Reached
<1> QED BY <1>0, <1>12, <1>15 DEF x

\* FIFO_register_write() writes FCR and its shadow and puts the divisor back.
LEMMA RegisterWrite ==
    ASSUME NEW s, NEW h, Trace(s, h), Quiet(Last(s)), NEW trig \in Levels, NEW rxClear \in BOOLEAN
    PROVE  LET t == FIFO_register_write(s, trig, rxClear) IN
           /\ Reached(t, h, Last(s), {"LCR", "EFR", "FCR", "shadow"})
           /\ Last(t).LCR = CONFIG_MODE_A /\ Last(t).EFR = TRUE /\ Last(t).FCR.trig = trig /\ Last(t).shadow = trig
<1> DEFINE x == Last(s)
           g == divisor_latch_get(s)
           z == IF Last(g).DL # 0 THEN divisor_latch_set(g, 0) ELSE g
           a == switch_reg_config_mode(z, CONFIG_MODE_A, TRUE)
           v == [trig |-> trig, rxClear |-> rxClear]
           p == Put(a, "FCR", v)
           f == Store(p, "shadow", trig)
           t == IF Last(g).DL # 0 THEN divisor_latch_set(f, Last(g).DL) ELSE f
<1>0. FIFO_register_write(s, trig, rxClear) = t
  BY DEF FIFO_register_write
<1>1. Trace(g, h) /\ Last(g) \in State /\ Keeps(Last(g), x, {"LCR", "EFR"}) /\ Quiet(x)
  BY DivisorGet DEF Reached
<1> HIDE DEF g, x
<1>2. Quiet(Last(g)) /\ Last(g).DL = x.DL /\ Last(g).DL \in Divisors /\ 0 \in Divisors
  <2>1. Quiet(Last(g))
    BY <1>1, KeepsQuiet
  <2>2. Last(g).DL = x.DL
    BY <1>1 DEF Keeps, Fields
  <2> QED BY <1>1, <2>1, <2>2 DEF State, Divisors
<1>3. Trace(z, h) /\ Last(z) \in State /\ Keeps(Last(z), Last(g), {"EFR", "DL"}) /\ Last(z).DL = 0
  <2>1. CASE Last(g).DL # 0
    <3>1. z = divisor_latch_set(g, 0)
      BY <2>1
    <3> QED BY <1>1, <1>2, <3>1, DivisorSet DEF Reached
  <2>2. CASE Last(g).DL = 0
    BY <1>1, <2>2 DEF Keeps
  <2> QED BY <2>1, <2>2
<1> HIDE DEF z
<1>4. Quiet(Last(z))
  BY <1>2, <1>3, KeepsQuiet
<1>5. Trace(a, h) /\ Last(a) \in State /\ Keeps(Last(a), Last(z), {"LCR", "EFR"}) /\ Last(a).LCR = CONFIG_MODE_A /\ Last(a).EFR = TRUE
  BY <1>3, <1>4, EnhancedTrace, SwitchedTo
<1> HIDE DEF a
<1>6. Quiet(Last(a)) /\ Last(a).DL = 0
  <2>1. Quiet(Last(a))
    BY <1>4, <1>5, KeepsQuiet
  <2>2. Last(a).DL = Last(z).DL
    BY <1>5 DEF Keeps, Fields
  <2> QED BY <1>3, <2>1, <2>2
<1>7. v.trig = trig /\ v \in Fcrs
  BY DEF Fcrs
<1> HIDE DEF v
<1>8. Trace(p, h) /\ Keeps(Last(p), Last(a), {"FCR"}) /\ Last(p).FCR = v
  <2>1. "FCR" \in Registers /\ v \in Types["FCR"] /\ MayWrite(Last(a), "FCR", v)
    BY <1>5, <1>6, <1>7 DEF Registers, Types, MayWrite, Window, WindowsOf, CONFIG_MODE_A, CONFIG_MODE_B
  <2> QED BY <1>5, <2>1, PutTrace
<1> HIDE DEF p
<1>9. Trace(f, h) /\ Last(f) \in State /\ Keeps(Last(f), Last(p), {"shadow"}) /\ Last(f).shadow = trig
  <2>1. "shadow" \in Fields \ Registers /\ trig \in Types["shadow"] /\ MayStore(Last(p), "shadow", trig)
    BY DEF Fields, Registers, Types, MayStore
  <2> QED BY <1>8, <2>1, StoreTrace
<1> HIDE DEF f
<1>10. Quiet(Last(f))
  <2>1. Quiet(Last(p))
    BY <1>6, <1>8, KeepsQuiet
  <2> QED BY <1>9, <2>1, KeepsQuiet
<1>11. Last(f).LCR = CONFIG_MODE_A /\ Last(f).EFR = TRUE /\ Last(f).FCR = v /\ Last(f).DL = 0
  BY <1>5, <1>6, <1>8, <1>9 DEF Keeps, Fields
<1>12. Trace(t, h) /\ Last(t) \in State /\ Keeps(Last(t), Last(f), {"EFR", "DL"}) /\ Last(t).DL = x.DL /\ Last(t).EFR = TRUE
  <2>1. CASE Last(g).DL # 0
    <3>1. t = divisor_latch_set(f, Last(g).DL)
      BY <2>1
    <3> QED BY <1>2, <1>9, <1>10, <3>1, DivisorSet DEF Reached
  <2>2. CASE Last(g).DL = 0
    BY <1>2, <1>9, <1>11, <2>2 DEF Keeps
  <2> QED BY <2>1, <2>2
<1> HIDE DEF t
<1>13. Last(t).LCR = CONFIG_MODE_A /\ Last(t).FCR = v /\ Last(t).shadow = trig
  BY <1>9, <1>11, <1>12 DEF Keeps, Fields
<1>14. Keeps(Last(t), x, {"LCR", "EFR", "FCR", "shadow", "DL"})
  BY <1>1, <1>3, <1>5, <1>8, <1>9, <1>12 DEF Keeps
<1>15. Reached(t, h, x, {"LCR", "EFR", "FCR", "shadow"})
  BY <1>12, <1>14 DEF Reached, Keeps
<1> QED BY <1>0, <1>7, <1>12, <1>13, <1>15 DEF x

\* Window B and a write to EFR.
LEMMA WriteEfr ==
    ASSUME NEW s, NEW h, Trace(s, h), Quiet(Last(s)), NEW v \in BOOLEAN
    PROVE  LET t == Put(switch_reg_config_mode(s, CONFIG_MODE_B, FALSE), "EFR", v) IN
           Reached(t, h, Last(s), {"LCR", "EFR"}) /\ Last(t).EFR = v
<1> DEFINE x == Last(s)
           b == switch_reg_config_mode(s, CONFIG_MODE_B, FALSE)
           t == Put(b, "EFR", v)
<1>1. Trace(b, h) /\ Keeps(Last(b), x, {"LCR"}) /\ Last(b).LCR = CONFIG_MODE_B
  BY SwitchTrace, SwitchedTo
<1> HIDE DEF b, x
<1>2. "EFR" \in Registers /\ v \in Types["EFR"] /\ MayWrite(Last(b), "EFR", v)
  BY <1>1 DEF Registers, Types, MayWrite, Window, WindowsOf
<1>3. Trace(t, h) /\ Last(t) \in State /\ Keeps(Last(t), Last(b), {"EFR"}) /\ Last(t).EFR = v
  BY <1>1, <1>2, PutTrace
<1> HIDE DEF t
<1>4. Reached(t, h, x, {"LCR", "EFR"})
  BY <1>1, <1>3 DEF Reached, Keeps
<1> QED BY <1>3, <1>4 DEF t, b, x

\* Window A and a write to MCR, with the enhanced functions on.
LEMMA WriteMcr ==
    ASSUME NEW s, NEW h, Trace(s, h), Quiet(Last(s)), Last(s).EFR, NEW v \in BOOLEAN
    PROVE  LET t == Put(switch_reg_config_mode(s, CONFIG_MODE_A, FALSE), "MCR", v) IN
           Reached(t, h, Last(s), {"LCR", "MCR"}) /\ Last(t).MCR = v
<1> DEFINE x == Last(s)
           b == switch_reg_config_mode(s, CONFIG_MODE_A, FALSE)
           t == Put(b, "MCR", v)
<1>1. Trace(b, h) /\ Keeps(Last(b), x, {"LCR"}) /\ Last(b).LCR = CONFIG_MODE_A
  BY SwitchTrace, SwitchedTo
<1>2. Last(b).EFR
  BY <1>1 DEF Keeps, Fields
<1> HIDE DEF b, x
<1>3. "MCR" \in Registers /\ v \in Types["MCR"] /\ MayWrite(Last(b), "MCR", v)
  BY <1>1, <1>2 DEF Registers, Types, MayWrite, Window, WindowsOf, CONFIG_MODE_A, CONFIG_MODE_B
<1>4. Trace(t, h) /\ Last(t) \in State /\ Keeps(Last(t), Last(b), {"MCR"}) /\ Last(t).MCR = v
  BY <1>1, <1>3, PutTrace
<1> HIDE DEF t
<1>5. Reached(t, h, x, {"LCR", "MCR"})
  BY <1>1, <1>4 DEF Reached, Keeps
<1> QED BY <1>4, <1>5 DEF t, b, x

\* How FIFO_configure() begins, up to the trigger levels in TLR.
LEMMA SetLevels ==
    ASSUME NEW s, NEW h, Trace(s, h), Quiet(Last(s)), NEW level \in Levels
    PROVE  LET b == Look(switch_reg_config_mode(s, CONFIG_MODE_B, FALSE), "EFR")
               a == switch_reg_config_mode(Put(b, "EFR", TRUE), CONFIG_MODE_A, FALSE)
               t == Put(Put(Put(Look(a, "MCR"), "MCR", TRUE), "SCR", TRUE), "TLR", level)
           IN  /\ Reached(t, h, Last(s), {"LCR", "EFR", "MCR", "SCR", "TLR"})
               /\ Last(t).SCR = TRUE /\ Last(t).TLR = level
<1> DEFINE x == Last(s)
           w == switch_reg_config_mode(s, CONFIG_MODE_B, FALSE)
           b == Look(w, "EFR")
           e == Put(b, "EFR", TRUE)
           a == switch_reg_config_mode(e, CONFIG_MODE_A, FALSE)
           l == Look(a, "MCR")
           m == Put(l, "MCR", TRUE)
           c == Put(m, "SCR", TRUE)
           t == Put(c, "TLR", level)
<1>1. Trace(w, h) /\ Keeps(Last(w), x, {"LCR"}) /\ Last(w).LCR = CONFIG_MODE_B /\ Quiet(x)
  BY SwitchTrace, SwitchedTo
<1> HIDE DEF w, x
<1>2. Trace(b, h) /\ Keeps(Last(b), Last(w), {})
  <2>1. "EFR" \in Touches /\ Window(Last(w).LCR) \in WindowsOf("EFR")
    BY <1>1 DEF Touches, Window, WindowsOf
  <2> QED BY <1>1, <2>1, LookTrace
<1> HIDE DEF b
<1>3. Last(b).LCR = CONFIG_MODE_B
  BY <1>1, <1>2 DEF Keeps, Fields
<1>4. Trace(e, h) /\ Keeps(Last(e), Last(b), {"EFR"}) /\ Last(e).EFR = TRUE
  <2>1. "EFR" \in Registers /\ TRUE \in Types["EFR"] /\ MayWrite(Last(b), "EFR", TRUE)
    BY <1>3 DEF Registers, Types, MayWrite, Window, WindowsOf
  <2> QED BY <1>2, <2>1, PutTrace
<1> HIDE DEF e
<1>5. Keeps(Last(e), x, {"LCR", "EFR"})
  BY <1>1, <1>2, <1>4 DEF Keeps
<1>6. Quiet(Last(e))
  BY <1>1, <1>5, KeepsQuiet
<1>7. Trace(a, h) /\ Keeps(Last(a), Last(e), {"LCR"}) /\ Last(a).LCR = CONFIG_MODE_A
  BY <1>4, <1>6, SwitchTrace, SwitchedTo
<1> HIDE DEF a
<1>8. Trace(l, h) /\ Keeps(Last(l), Last(a), {})
  <2>1. "MCR" \in Touches /\ Window(Last(a).LCR) \in WindowsOf("MCR")
    BY <1>7 DEF Touches, Window, WindowsOf, CONFIG_MODE_A, CONFIG_MODE_B
  <2> QED BY <1>7, <2>1, LookTrace
<1> HIDE DEF l
<1>9. Last(l).LCR = CONFIG_MODE_A /\ Last(l).EFR = TRUE
  BY <1>4, <1>7, <1>8 DEF Keeps, Fields
<1>10. Trace(m, h) /\ Keeps(Last(m), Last(l), {"MCR"}) /\ Last(m).MCR = TRUE
  <2>1. "MCR" \in Registers /\ TRUE \in Types["MCR"] /\ MayWrite(Last(l), "MCR", TRUE)
    <3>1. Window(Last(l).LCR) \in WindowsOf("MCR")
      BY <1>9 DEF Window, WindowsOf, CONFIG_MODE_A, CONFIG_MODE_B
    <3> QED BY <1>9, <3>1 DEF Registers, Types, MayWrite
  <2> QED BY <1>8, <2>1, PutTrace
<1> HIDE DEF m
<1>11. Trace(c, h) /\ Keeps(Last(c), Last(m), {"SCR"}) /\ Last(c).SCR = TRUE
  <2>1. "SCR" \in Registers /\ TRUE \in Types["SCR"] /\ MayWrite(Last(m), "SCR", TRUE)
    BY DEF Registers, Types, MayWrite, Window, WindowsOf
  <2> QED BY <1>10, <2>1, PutTrace
<1> HIDE DEF c
<1>12. Last(c).EFR = TRUE /\ Last(c).MCR = TRUE
  BY <1>9, <1>10, <1>11 DEF Keeps, Fields
<1>13. Trace(t, h) /\ Last(t) \in State /\ Keeps(Last(t), Last(c), {"TLR"}) /\ Last(t).TLR = level
  <2>1. "TLR" \in Registers /\ level \in Types["TLR"] /\ MayWrite(Last(c), "TLR", level)
    BY <1>12 DEF Registers, Types, MayWrite, Window, WindowsOf
  <2> QED BY <1>11, <2>1, PutTrace
<1> HIDE DEF t
<1>14. Last(t).SCR = TRUE
  BY <1>11, <1>13 DEF Keeps, Fields
<1>15. Keeps(Last(t), x, {"LCR", "EFR", "MCR", "SCR", "TLR"})
  BY <1>5, <1>7, <1>8, <1>10, <1>11, <1>13 DEF Keeps
<1>16. Reached(t, h, x, {"LCR", "EFR", "MCR", "SCR", "TLR"})
  BY <1>13, <1>15 DEF Reached
<1> QED BY <1>13, <1>14, <1>16 DEF t, c, m, l, a, e, b, w, x

\* FIFO_configure() sets the trigger levels and the DMA mode, and restores LCR, EFR and MCR.
LEMMA FifoConfigure ==
    ASSUME NEW s, NEW h, Trace(s, h), Quiet(Last(s)), NEW level \in Levels
    PROVE  LET t == FIFO_configure(s, level) IN
           /\ Reached(t, h, Last(s), {"SCR", "TLR", "FCR", "shadow"})
           /\ Last(t).SCR = TRUE /\ Last(t).TLR = level /\ Last(t).FCR.trig = level /\ Last(t).shadow = level
<1> DEFINE x == Last(s)
           b == Look(switch_reg_config_mode(s, CONFIG_MODE_B, FALSE), "EFR")
           a == switch_reg_config_mode(Put(b, "EFR", TRUE), CONFIG_MODE_A, FALSE)
           t == Put(Put(Put(Look(a, "MCR"), "MCR", TRUE), "SCR", TRUE), "TLR", level)
           f == FIFO_register_write(t, level, TRUE)
           e == Put(switch_reg_config_mode(f, CONFIG_MODE_B, FALSE), "EFR", TRUE)
           c == Put(switch_reg_config_mode(e, CONFIG_MODE_A, FALSE), "MCR", x.MCR)
           r == Put(switch_reg_config_mode(c, CONFIG_MODE_B, FALSE), "EFR", x.EFR)
           q == Put(r, "LCR", x.LCR)
<1>0. FIFO_configure(s, level) = q
  BY DEF FIFO_configure
<1>1. Reached(t, h, x, {"LCR", "EFR", "MCR", "SCR", "TLR"}) /\ Last(t).SCR = TRUE /\ Last(t).TLR = level
  BY SetLevels
<1>2. x \in State /\ x.LCR \in Lcrs /\ x.EFR \in BOOLEAN /\ x.MCR \in BOOLEAN /\ Quiet(x)
  BY LastInState DEF State
<1> HIDE DEF x, t
<1>3. Trace(t, h) /\ Quiet(Last(t)) /\ Keeps(Last(t), x, {"LCR", "EFR", "MCR", "SCR", "TLR"})
  BY <1>1, <1>2, KeepsQuiet DEF Reached
<1>4. Reached(f, h, Last(t), {"LCR", "EFR", "FCR", "shadow"}) /\ Last(f).FCR.trig = level /\ Last(f).shadow = level
  BY <1>3, RegisterWrite
<1> HIDE DEF f
<1>5. Trace(f, h) /\ Quiet(Last(f)) /\ Keeps(Last(f), Last(t), {"LCR", "EFR", "FCR", "shadow"})
  BY <1>3, <1>4, KeepsQuiet DEF Reached
<1>6. Reached(e, h, Last(f), {"LCR", "EFR"}) /\ Last(e).EFR = TRUE
  BY <1>5, WriteEfr
<1> HIDE DEF e
<1>7. Trace(e, h) /\ Quiet(Last(e)) /\ Keeps(Last(e), Last(f), {"LCR", "EFR"})
  BY <1>5, <1>6, KeepsQuiet DEF Reached
<1>8. Reached(c, h, Last(e), {"LCR", "MCR"}) /\ Last(c).MCR = x.MCR
  BY <1>2, <1>6, <1>7, WriteMcr
<1> HIDE DEF c
<1>9. Trace(c, h) /\ Quiet(Last(c)) /\ Keeps(Last(c), Last(e), {"LCR", "MCR"})
  BY <1>7, <1>8, KeepsQuiet DEF Reached
<1>10. Reached(r, h, Last(c), {"LCR", "EFR"}) /\ Last(r).EFR = x.EFR
  BY <1>2, <1>9, WriteEfr
<1> HIDE DEF r
<1>11. Trace(r, h) /\ Quiet(Last(r)) /\ Keeps(Last(r), Last(c), {"LCR", "EFR"})
  BY <1>9, <1>10, KeepsQuiet DEF Reached
<1>12. Trace(q, h) /\ Last(q) \in State /\ Keeps(Last(q), Last(r), {"LCR"}) /\ Last(q).LCR = x.LCR
  <2>1. "LCR" \in Registers /\ x.LCR \in Types["LCR"] /\ MayWrite(Last(r), "LCR", x.LCR)
    BY <1>2, <1>11 DEF Registers, Types, MayWrite
  <2> QED BY <1>11, <2>1, PutTrace
<1> HIDE DEF q
<1>13. Last(q).EFR = x.EFR /\ Last(q).MCR = x.MCR
  BY <1>8, <1>10, <1>11, <1>12 DEF Keeps, Fields
<1>14. Last(q).SCR = TRUE /\ Last(q).TLR = level /\ Last(q).FCR.trig = level /\ Last(q).shadow = level
  <2>1. Last(f).SCR = TRUE /\ Last(f).TLR = level
    BY <1>1, <1>5 DEF Keeps, Fields
  <2>2. Last(q).SCR = Last(f).SCR /\ Last(q).TLR = Last(f).TLR /\ Last(q).FCR = Last(f).FCR /\ Last(q).shadow = Last(f).shadow
    BY <1>7, <1>9, <1>11, <1>12 DEF Keeps, Fields
  <2> QED BY <1>4, <2>1, <2>2
<1>15. Keeps(Last(q), Last(t), {"LCR", "EFR", "MCR", "FCR", "shadow"})
  BY <1>5, <1>7, <1>9, <1>11, <1>12 DEF Keeps
<1>16. Keeps(Last(q), x, {"LCR", "EFR", "MCR", "SCR", "TLR", "FCR", "shadow"})
  BY <1>3, <1>15 DEF Keeps
<1>17. Keeps(Last(q), x, {"SCR", "TLR", "FCR", "shadow"})
  BY <1>12, <1>13, <1>16 DEF Keeps
<1>18. Reached(q, h, x, {"SCR", "TLR", "FCR", "shadow"})
  BY <1>12, <1>17 DEF Reached
<1> QED BY <1>0, <1>14, <1>18 DEF x

\* int_enable() restores LCR before the interrupt is enabled.
LEMMA IntEnable ==
    ASSUME NEW s, NEW h, Trace(s, h), Quiet(Last(s)), ~Last(s).cleared, Window(Last(s).LCR) = "operational"
    PROVE  LET t == int_enable(s) IN Reached(t, h, Last(s), {"EFR", "IER"}) /\ Last(t).IER = {"RECEIVE"}
<1> DEFINE x == Last(s)
           o == Look(switch_reg_config_mode(s, OPERATIONAL_MODE, TRUE), "IER")
           w == switch_reg_config_mode(o, OPERATIONAL_MODE, FALSE)
           r == Put(w, "LCR", x.LCR)
           t == Put(r, "IER", {"RECEIVE"})
<1>0. int_enable(s) = t
  BY DEF int_enable
<1>1. Trace(o, h) /\ Keeps(Last(o), x, {"LCR", "EFR"})
  BY LookIer DEF Reached
<1>2. x.LCR \in Lcrs /\ Quiet(x) /\ ~x.cleared /\ Window(x.LCR) = "operational"
  BY LastInState DEF State
<1> HIDE DEF o, x
<1>3. Quiet(Last(o))
  BY <1>1, <1>2, KeepsQuiet
<1>4. Trace(w, h) /\ Keeps(Last(w), Last(o), {"LCR"})
  BY <1>1, <1>3, SwitchTrace
<1> HIDE DEF w
<1>5. Quiet(Last(w))
  BY <1>3, <1>4, KeepsQuiet
<1>6. Trace(r, h) /\ Keeps(Last(r), Last(w), {"LCR"}) /\ Last(r).LCR = x.LCR
  <2>1. "LCR" \in Registers /\ x.LCR \in Types["LCR"] /\ MayWrite(Last(w), "LCR", x.LCR)
    BY <1>2, <1>5 DEF Registers, Types, MayWrite
  <2> QED BY <1>4, <2>1, PutTrace
<1> HIDE DEF r
<1>7. Last(r).cleared = x.cleared
  BY <1>1, <1>4, <1>6 DEF Keeps, Fields
<1>8. Trace(t, h) /\ Last(t) \in State /\ Keeps(Last(t), Last(r), {"IER"}) /\ Last(t).IER = {"RECEIVE"}
  <2>1. "IER" \in Registers /\ {"RECEIVE"} \in Types["IER"]
    BY DEF Registers, Types, Ints
  <2>2. MayWrite(Last(r), "IER", {"RECEIVE"})
    BY <1>2, <1>6, <1>7 DEF MayWrite, WindowsOf
  <2> QED BY <1>6, <2>1, <2>2, PutTrace
<1> HIDE DEF t
<1>9. Last(t).LCR = x.LCR
  BY <1>6, <1>8 DEF Keeps, Fields
<1>10. Keeps(Last(t), x, {"LCR", "EFR", "IER"})
  BY <1>1, <1>4, <1>6, <1>8 DEF Keeps
<1>11. Reached(t, h, x, {"EFR", "IER"})
  BY <1>8, <1>9, <1>10 DEF Reached, Keeps
<1> QED BY <1>0, <1>8, <1>11 DEF x

\* int_disable() restores LCR.
LEMMA IntDisable ==
    ASSUME NEW s, NEW h, Trace(s, h), Quiet(Last(s))
    PROVE  LET t == int_disable(s) IN Reached(t, h, Last(s), {"EFR", "IER"}) /\ Last(t).IER = {}
<1> DEFINE x == Last(s)
           e == switch_reg_config_mode(s, OPERATIONAL_MODE, TRUE)
           o == Put(e, "IER", {})
           w == switch_reg_config_mode(o, OPERATIONAL_MODE, FALSE)
           t == Put(w, "LCR", x.LCR)
<1>0. int_disable(s) = t
  BY DEF int_disable
<1>1. x.LCR \in Lcrs /\ Quiet(x)
  BY LastInState DEF State
<1>2. Trace(e, h) /\ Keeps(Last(e), x, {"LCR", "EFR"}) /\ Last(e).LCR = x.LCR % 128
  BY EnhancedTrace, SwitchedTo
<1> HIDE DEF e, x
<1>3. Trace(o, h) /\ Keeps(Last(o), Last(e), {"IER"}) /\ Last(o).IER = {}
  <2>1. Window(Last(e).LCR) \in WindowsOf("IER")
    BY <1>1, <1>2, LCRMod DEF WindowsOf
  <2>2. "IER" \in Registers /\ {} \in Types["IER"]
    BY DEF Registers, Types, Ints
  <2>3. MayWrite(Last(e), "IER", {})
    BY <2>1 DEF MayWrite
  <2> QED BY <1>2, <2>2, <2>3, PutTrace
<1> HIDE DEF o
<1>4. Quiet(Last(o))
  BY <1>3 DEF Quiet, Listening
<1>5. Trace(w, h) /\ Keeps(Last(w), Last(o), {"LCR"})
  BY <1>3, <1>4, SwitchTrace
<1> HIDE DEF w
<1>6. Quiet(Last(w))
  BY <1>4, <1>5, KeepsQuiet
<1>7. Trace(t, h) /\ Last(t) \in State /\ Keeps(Last(t), Last(w), {"LCR"}) /\ Last(t).LCR = x.LCR
  <2>1. "LCR" \in Registers /\ x.LCR \in Types["LCR"] /\ MayWrite(Last(w), "LCR", x.LCR)
    BY <1>1, <1>6 DEF Registers, Types, MayWrite
  <2> QED BY <1>5, <2>1, PutTrace
<1> HIDE DEF t
<1>8. Last(t).IER = {}
  BY <1>3, <1>5, <1>7 DEF Keeps, Fields
<1>9. Keeps(Last(t), x, {"LCR", "EFR", "IER"})
  BY <1>2, <1>3, <1>5, <1>7 DEF Keeps
<1>10. Reached(t, h, x, {"EFR", "IER"})
  BY <1>7, <1>9 DEF Reached, Keeps
<1> QED BY <1>0, <1>8, <1>10 DEF x

\* modem_control_set() writes nothing but LCR and EFR.
LEMMA ModemControlSet ==
    ASSUME NEW s, NEW h, Trace(s, h), Quiet(Last(s))
    PROVE  Reached(modem_control_set(s), h, Last(s), {"LCR", "EFR"})
<1> DEFINE e == switch_reg_config_mode(s, CONFIG_MODE_A, TRUE)
           t == Look(e, "MCR")
<1>1. Trace(e, h) /\ Keeps(Last(e), Last(s), {"LCR", "EFR"}) /\ Last(e).LCR = CONFIG_MODE_A
  BY EnhancedTrace, SwitchedTo
<1> HIDE DEF e
<1>2. "MCR" \in Touches /\ Window(Last(e).LCR) \in WindowsOf("MCR")
  BY <1>1 DEF Touches, Window, WindowsOf, CONFIG_MODE_A, CONFIG_MODE_B
<1>3. Trace(t, h) /\ Last(t) \in State /\ Keeps(Last(t), Last(e), {})
  BY <1>1, <1>2, LookTrace
<1> HIDE DEF t
<1>4. Reached(t, h, Last(s), {"LCR", "EFR"})
  BY <1>1, <1>3 DEF Reached, Keeps
<1> QED BY <1>4 DEF t, e, modem_control_set

\* divisor_latch_disable() and then data_format_set().
LEMMA FormatSet ==
    ASSUME NEW s, NEW h, Trace(s, h), Quiet(Last(s)), Last(s).LCR = CONFIG_MODE_A
    PROVE  LET t == data_format_set(divisor_latch_disable(s)) IN
           Reached(t, h, Last(s), {"LCR"}) /\ Last(t).LCR = Format8N1
<1> DEFINE x == Last(s)
           b == Put(s, "LCR", x.LCR % 128)
           t == Put(b, "LCR", 64 * (Last(b).LCR \div 64) + Format8N1)
<1>0. data_format_set(divisor_latch_disable(s)) = t
  BY DEF data_format_set, divisor_latch_disable
<1>1. x.LCR % 128 = 0 /\ Quiet(x)
  BY DEF CONFIG_MODE_A
<1>2. Trace(b, h) /\ Keeps(Last(b), x, {"LCR"}) /\ Last(b).LCR = 0
  <2>1. "LCR" \in Registers /\ 0 \in Types["LCR"] /\ MayWrite(x, "LCR", 0)
    BY <1>1 DEF Registers, Types, Lcrs, MayWrite
  <2>2. b = Put(s, "LCR", 0)
    BY <1>1
  <2> QED BY <2>1, <2>2, PutTrace
<1> HIDE DEF x, b
<1>3. Quiet(Last(b))
  BY <1>1, <1>2, KeepsQuiet
<1>4. t = Put(b, "LCR", Format8N1)
  <2>1. 64 * (0 \div 64) + Format8N1 = Format8N1
    BY DEF Format8N1
  <2> QED BY <1>2, <2>1
<1>5. Trace(t, h) /\ Last(t) \in State /\ Keeps(Last(t), Last(b), {"LCR"}) /\ Last(t).LCR = Format8N1
  <2>1. "LCR" \in Registers /\ Format8N1 \in Types["LCR"] /\ MayWrite(Last(b), "LCR", Format8N1)
    BY <1>3 DEF Registers, Types, Lcrs, MayWrite, Format8N1
  <2> QED BY <1>2, <1>4, <2>1, PutTrace
<1> HIDE DEF t
<1>6. Reached(t, h, x, {"LCR"})
  BY <1>2, <1>5 DEF Reached, Keeps
<1> QED BY <1>0, <1>5, <1>6 DEF x

\* The UART's reset may come in any state.
LEMMA ResetTrace ==
    ASSUME NEW s, NEW h, Trace(s, h)
    PROVE  LET t == Append(s, ResetState(Last(s)))
               u == Last(t)
           IN  /\ Trace(t, h) /\ u \in State /\ Keeps(u, Last(s), Registers \union {"cleared"})
               /\ u.TLR = 0 /\ u.SCR = FALSE /\ u.IER = {} /\ u.cleared = FALSE
<1> DEFINE x == Last(s)
           u == ResetState(x)
<1>1. x \in State
  BY LastInState
<1> HIDE DEF x
<1>2. u \in State
  <2>1. 0 \in Lcrs /\ 0 \in Levels /\ 0 \in Divisors /\ {} \in Ints /\ "disabled" \in MdrModes /\ "SYSC" \in Touches
        /\ [trig |-> 0, rxClear |-> FALSE] \in Fcrs
    BY DEF Lcrs, Levels, Divisors, Ints, MdrModes, Touches, Fcrs
  <2> QED BY <1>1, <2>1 DEF ResetState, State
<1>3. u.LCR = 0 /\ u.TLR = 0 /\ u.SCR = FALSE /\ u.IER = {} /\ u.cleared = FALSE /\ u.touched = "SYSC"
  BY <1>1 DEF ResetState, State
<1>4. Keeps(u, x, Registers \union {"cleared"})
  <2>1. u.INTC = x.INTC /\ u.shadow = x.shadow /\ u.io_mode = x.io_mode /\ u.baud_mode = x.baud_mode /\ u.baudrate = x.baudrate
    BY <1>1 DEF ResetState, State
  <2> HIDE DEF u
  <2>2. \A f \in Fields \ (Registers \union {"cleared"}) : f \in {"INTC", "shadow", "io_mode", "baud_mode", "baudrate"}
    BY DEF Fields, Registers
  <2> QED BY <2>1, <2>2 DEF Keeps
<1> HIDE DEF u
<1>5. Reaches(u)
  BY <1>3 DEF Reaches, Window, WindowsOf
<1>6. ~Listening(u)
  BY <1>3 DEF Listening
<1>7. Good(u) /\ ~Held(u)
  BY <1>5, <1>6 DEF Good, Held
<1>8. Trace(Append(s, u), h) /\ Last(Append(s, u)) = u
  BY <1>2, <1>7, AppendTrace
<1> QED BY <1>2, <1>3, <1>4, <1>8 DEF u, x

\* The line's format, speed and levels.
Line(u, trig) == /\ u.LCR = Format8N1 /\ u.DL = Divisor(u.baudrate) /\ ~u.cleared
                 /\ u.TLR = trig /\ u.FCR.trig = trig /\ u.shadow = trig /\ u.baud_mode = BaudMode(u.baudrate)

\* Line depends on its fields only.
LEMMA LineKept ==
    ASSUME NEW u, NEW x, NEW F, Keeps(u, x, F), NEW trig, Line(x, trig),
           F \intersect {"LCR", "DL", "cleared", "TLR", "FCR", "shadow", "baud_mode", "baudrate"} = {}
    PROVE  Line(u, trig)
<1>1. /\ u.LCR = x.LCR /\ u.DL = x.DL /\ u.cleared = x.cleared /\ u.TLR = x.TLR /\ u.FCR = x.FCR /\ u.shadow = x.shadow
      /\ u.baud_mode = x.baud_mode /\ u.baudrate = x.baudrate
  BY DEF Keeps, Fields
<1> QED BY <1>1 DEF Line

\* The divisors and modes of the baud rates.
LEMMA BaudrateTypes == \A b \in Rates : Divisor(b) \in Divisors /\ BaudMode(b) \in MdrModes /\ Divisor(b) # 0
BY DEF Rates, Divisors, Divisor, BaudMode, MdrModes

\* config_baudrate() resets the UART and sets the line up, from whatever it was.
LEMMA ConfigBaudrate ==
    ASSUME NEW s, NEW h, Trace(s, h)
    PROVE  LET t == config_baudrate(s)
               u == Last(t)
           IN  /\ Trace(t, h) /\ u \in State /\ Line(u, 0) /\ u.IER = {}
               /\ u.io_mode = Last(s).io_mode /\ u.baudrate = Last(s).baudrate /\ u.INTC = Last(s).INTC
<1> DEFINE x == Last(s)
           r == Append(s, ResetState(x))
           w == switch_operating_mode(r, "disabled")
           m == modem_control_set(w)
           f == FIFO_register_write(m, 0, TRUE)
           b == Store(f, "baud_mode", BaudMode(x.baudrate))
           d == divisor_latch_set(b, Divisor(x.baudrate))
           t == data_format_set(divisor_latch_disable(d))
           rate == x.baudrate
<1>0. config_baudrate(s) = t
  BY DEF config_baudrate
<1>1. rate \in Rates
  BY LastInState DEF State
<1>2. /\ Trace(r, h) /\ Keeps(Last(r), x, Registers \union {"cleared"})
      /\ Last(r).TLR = 0 /\ Last(r).SCR = FALSE /\ Last(r).IER = {} /\ Last(r).cleared = FALSE
  BY ResetTrace
<1> HIDE DEF x, r
<1>3. Quiet(Last(r)) /\ Last(r).INTC = x.INTC /\ Last(r).io_mode = x.io_mode /\ Last(r).baudrate = rate
  BY <1>2 DEF Quiet, Listening, Keeps, Fields, Registers
<1> HIDE DEF rate
<1>4. Trace(w, h) /\ Keeps(Last(w), Last(r), {"MDR1"})
  <2>1. "disabled" \in MdrModes
    BY DEF MdrModes
  <2> QED BY <1>2, <2>1, ModeTrace
<1> HIDE DEF w
<1>5. Quiet(Last(w))
  BY <1>3, <1>4, KeepsQuiet
<1>6. Trace(m, h) /\ Keeps(Last(m), Last(w), {"LCR", "EFR"})
  BY <1>4, <1>5, ModemControlSet DEF Reached
<1> HIDE DEF m
<1>7. Quiet(Last(m))
  BY <1>5, <1>6, KeepsQuiet
<1>8. /\ Trace(f, h) /\ Keeps(Last(f), Last(m), {"LCR", "EFR", "FCR", "shadow"})
      /\ Last(f).LCR = CONFIG_MODE_A /\ Last(f).FCR.trig = 0 /\ Last(f).shadow = 0
  <2>1. 0 \in Levels /\ TRUE \in BOOLEAN
    BY DEF Levels
  <2> QED BY <1>6, <1>7, <2>1, RegisterWrite DEF Reached
<1> HIDE DEF f
<1>9. Quiet(Last(f))
  BY <1>7, <1>8, KeepsQuiet
<1>10. Trace(b, h) /\ Keeps(Last(b), Last(f), {"baud_mode"}) /\ Last(b).baud_mode = BaudMode(rate)
  <2>1. BaudMode(rate) \in MdrModes
    BY <1>1, BaudrateTypes
  <2>2. "baud_mode" \in Fields \ Registers /\ BaudMode(rate) \in Types["baud_mode"] /\ MayStore(Last(f), "baud_mode", BaudMode(rate))
    BY <2>1 DEF Fields, Registers, Types, MayStore
  <2>3. b = Store(f, "baud_mode", BaudMode(rate))
    BY DEF rate
  <2> QED BY <1>8, <2>2, <2>3, StoreTrace
<1> HIDE DEF b
<1>11. Quiet(Last(b))
  BY <1>9, <1>10, KeepsQuiet
<1>12. Trace(d, h) /\ Keeps(Last(d), Last(b), {"EFR", "DL"}) /\ Last(d).DL = Divisor(rate)
  <2>1. Divisor(rate) \in Divisors /\ d = divisor_latch_set(b, Divisor(rate))
    BY <1>1, BaudrateTypes DEF rate
  <2> QED BY <1>10, <1>11, <2>1, DivisorSet DEF Reached
<1> HIDE DEF d
<1>13. Quiet(Last(d))
  BY <1>11, <1>12, KeepsQuiet
<1>14. Last(d).LCR = CONFIG_MODE_A
  BY <1>8, <1>10, <1>12 DEF Keeps, Fields
<1>15. Trace(t, h) /\ Last(t) \in State /\ Keeps(Last(t), Last(d), {"LCR"}) /\ Last(t).LCR = Format8N1
  BY <1>12, <1>13, <1>14, FormatSet DEF Reached
<1> HIDE DEF t
<1>16. /\ Last(t).DL = Divisor(rate) /\ Last(t).baud_mode = BaudMode(rate)
       /\ Last(t).FCR = Last(f).FCR /\ Last(t).shadow = 0
  BY <1>8, <1>10, <1>12, <1>15 DEF Keeps, Fields
<1>17. Keeps(Last(t), Last(r), {"MDR1", "LCR", "EFR", "FCR", "shadow", "baud_mode", "DL"})
  BY <1>4, <1>6, <1>8, <1>10, <1>12, <1>15 DEF Keeps
<1>18. /\ Last(t).TLR = 0 /\ Last(t).IER = {} /\ Last(t).cleared = FALSE
       /\ Last(t).INTC = x.INTC /\ Last(t).io_mode = x.io_mode /\ Last(t).baudrate = rate
  BY <1>2, <1>3, <1>17 DEF Keeps, Fields
<1>19. Line(Last(t), 0)
  BY <1>8, <1>15, <1>16, <1>18 DEF Line
<1> QED BY <1>0, <1>15, <1>18, <1>19 DEF rate, x

\* finish_common_init() enters the operating mode of the baud rate.
LEMMA FinishCommonInit ==
    ASSUME NEW s, NEW h, Trace(s, h), Quiet(Last(s)), NEW trig, Line(Last(s), trig)
    PROVE  LET t == finish_common_init(s)
               u == Last(t)
           IN  Trace(t, h) /\ Line(u, trig) /\ Keeps(u, Last(s), {"LCR", "MDR1"}) /\ u.MDR1 = BaudMode(u.baudrate)
<1> DEFINE x == Last(s)
           o == switch_reg_config_mode(s, OPERATIONAL_MODE, FALSE)
           mode == Last(o).baud_mode
           t == switch_operating_mode(o, mode)
<1>0. finish_common_init(s) = t
  BY DEF finish_common_init
<1>1. Trace(o, h) /\ Last(o) \in State /\ Keeps(Last(o), x, {"LCR"}) /\ Last(o).LCR = x.LCR % 128
  BY SwitchTrace, SwitchedTo
<1>2. x.LCR % 128 = x.LCR /\ Line(x, trig)
  BY DEF Line, Format8N1
<1> HIDE DEF o, x
<1>3. Keeps(Last(o), x, {})
  BY <1>1, <1>2 DEF Keeps
<1>4. Line(Last(o), trig)
  BY <1>2, <1>3, LineKept
<1>5. Trace(t, h) /\ Keeps(Last(t), Last(o), {"MDR1"}) /\ Last(t).MDR1 = mode
  <2>1. mode \in MdrModes
    BY <1>1 DEF State
  <2> QED BY <1>1, <2>1, ModeTrace
<1> HIDE DEF t
<1>6. Line(Last(t), trig)
  BY <1>4, <1>5, LineKept
<1>7. Last(t).MDR1 = BaudMode(Last(t).baudrate)
  BY <1>4, <1>5, <1>6 DEF Line, Keeps, Fields
<1>8. Keeps(Last(t), x, {"LCR", "MDR1"})
  BY <1>3, <1>5 DEF Keeps
<1> QED BY <1>0, <1>5, <1>6, <1>7, <1>8 DEF x

\* deinit() masks the source in the INTC, whatever the mode was.
LEMMA Deinitialise ==
    ASSUME NEW s, NEW h, Trace(s, h), Last(s).io_mode = "UNINITIALIZED" => ~Last(s).INTC
    PROVE  LET t == deinit(s)
               u == Last(t)
           IN  Trace(t, h) /\ u.io_mode = "UNINITIALIZED" /\ u.INTC = FALSE /\ u.baudrate = Last(s).baudrate
<1> DEFINE x == Last(s)
           o == Store(s, "INTC", FALSE)
           i == int_disable(o)
           c == IF x.io_mode = "INTERRUPT" THEN i ELSE o
           p == Put(c, "SCR", FALSE)
           t == Store(p, "io_mode", "UNINITIALIZED")
<1>1. CASE x.io_mode = "UNINITIALIZED"
  <2>1. deinit(s) = s
    BY <1>1 DEF deinit
  <2>2. x.INTC = FALSE
    BY <1>1, LastInState DEF State
  <2> QED BY <1>1, <2>1, <2>2
<1>2. CASE x.io_mode # "UNINITIALIZED"
  <2>0. deinit(s) = t
    BY <1>2 DEF deinit, cleanup_interrupts, DMA_disable
  <2> HIDE DEF x
  <2>1. Trace(o, h) /\ Keeps(Last(o), x, {"INTC"}) /\ Last(o).INTC = FALSE
    <3>1. "INTC" \in Fields \ Registers /\ FALSE \in Types["INTC"] /\ MayStore(x, "INTC", FALSE)
      BY DEF Fields, Registers, Types, MayStore
    <3> QED BY <3>1, StoreTrace DEF x
  <2> HIDE DEF o
  <2>2. Quiet(Last(o))
    BY <2>1 DEF Quiet, Listening
  <2>3. Trace(i, h) /\ Keeps(Last(i), Last(o), {"EFR", "IER"})
    BY <2>1, <2>2, IntDisable DEF Reached
  <2> HIDE DEF i
  <2>4. Trace(c, h) /\ Keeps(Last(c), Last(o), {"EFR", "IER"})
    BY <2>1, <2>3 DEF Keeps
  <2> HIDE DEF c
  <2>5. Trace(p, h) /\ Keeps(Last(p), Last(c), {"SCR"})
    <3>1. "SCR" \in Registers /\ FALSE \in Types["SCR"] /\ MayWrite(Last(c), "SCR", FALSE)
      BY DEF Registers, Types, MayWrite, Window, WindowsOf
    <3> QED BY <2>4, <3>1, PutTrace
  <2> HIDE DEF p
  <2>6. Trace(t, h) /\ Keeps(Last(t), Last(p), {"io_mode"}) /\ Last(t).io_mode = "UNINITIALIZED"
    <3>1. "io_mode" \in Fields \ Registers /\ "UNINITIALIZED" \in Types["io_mode"] /\ MayStore(Last(p), "io_mode", "UNINITIALIZED")
      BY DEF Fields, Registers, Types, IoModes, MayStore
    <3> QED BY <2>5, <3>1, StoreTrace
  <2> HIDE DEF t
  <2>7. Last(t).INTC = FALSE /\ Last(t).baudrate = x.baudrate
    BY <2>1, <2>4, <2>5, <2>6 DEF Keeps, Fields
  <2> QED BY <2>0, <2>6, <2>7 DEF x
<1> QED BY <1>1, <1>2

\* What an initialised UART is between calls (LineIsConfigured).
Configured(u) ==
    /\ u.LCR = IF u.cleared THEN CONFIG_MODE_A ELSE Format8N1
    /\ u.DL = Divisor(u.baudrate) /\ u.MDR1 = BaudMode(u.baudrate)
    /\ u.shadow = u.FCR.trig
    /\ u.TLR = u.FCR.trig /\ u.SCR = (u.io_mode = "DMA")
    /\ u.FCR.trig = IF u.io_mode = "DMA" THEN Level ELSE 0
    /\ u.INTC = ("RECEIVE" \in u.IER) /\ u.INTC = (u.io_mode = "INTERRUPT")

-----------------------------------------------------------------------------
(* The methods the program calls. *)

\* What init_polling() leaves.
LEMMA InitialisesPolling ==
    ASSUME NEW s, NEW h, Trace(s, h), Last(s).io_mode = "UNINITIALIZED" => ~Last(s).INTC
    PROVE  LET t == init_polling(s)
               u == Last(t)
           IN  /\ Trace(t, h) /\ u \in State /\ Line(u, 0) /\ u.MDR1 = BaudMode(u.baudrate) /\ u.SCR = FALSE
               /\ u.IER = {} /\ u.INTC = FALSE /\ u.io_mode = "POLLING" /\ u.baudrate = Last(s).baudrate
<1> DEFINE x == Last(s)
           d == deinit(s)
           b == config_baudrate(d)
           p == Put(b, "SCR", FALSE)
           c == int_disable(p)
           f == finish_common_init(c)
           t == Store(f, "io_mode", "POLLING")
<1>0. init_polling(s) = t
  BY DEF init_polling, DMA_disable
<1>1. Trace(d, h) /\ Last(d).INTC = FALSE /\ Last(d).baudrate = x.baudrate
  BY Deinitialise
<1> HIDE DEF d, x
<1>2. /\ Trace(b, h) /\ Line(Last(b), 0) /\ Last(b).IER = {} /\ Last(b).baudrate = x.baudrate
      /\ Last(b).INTC = FALSE
  BY <1>1, ConfigBaudrate
<1> HIDE DEF b
<1>3. Trace(p, h) /\ Keeps(Last(p), Last(b), {"SCR"}) /\ Last(p).SCR = FALSE
  <2>1. "SCR" \in Registers /\ FALSE \in Types["SCR"] /\ MayWrite(Last(b), "SCR", FALSE)
    BY DEF Registers, Types, MayWrite, Window, WindowsOf
  <2> QED BY <1>2, <2>1, PutTrace
<1> HIDE DEF p
<1>4. Last(p).INTC = FALSE
  BY <1>2, <1>3 DEF Keeps, Fields
<1>5. Trace(c, h) /\ Keeps(Last(c), Last(p), {"EFR", "IER"}) /\ Last(c).IER = {}
  <2>1. Quiet(Last(p))
    BY <1>4 DEF Quiet, Listening
  <2> QED BY <1>3, <2>1, IntDisable DEF Reached
<1> HIDE DEF c
<1>6. Line(Last(c), 0)
  <2>1. Line(Last(p), 0)
    BY <1>2, <1>3, LineKept
  <2> QED BY <1>5, <2>1, LineKept
<1>7. Trace(f, h) /\ Line(Last(f), 0) /\ Keeps(Last(f), Last(c), {"LCR", "MDR1"}) /\ Last(f).MDR1 = BaudMode(Last(f).baudrate)
  <2>1. Quiet(Last(c))
    BY <1>5 DEF Quiet, Listening
  <2> QED BY <1>5, <1>6, <2>1, FinishCommonInit
<1> HIDE DEF f
<1>8. Trace(t, h) /\ Last(t) \in State /\ Keeps(Last(t), Last(f), {"io_mode"}) /\ Last(t).io_mode = "POLLING"
  <2>1. "io_mode" \in Fields \ Registers /\ "POLLING" \in Types["io_mode"] /\ MayStore(Last(f), "io_mode", "POLLING")
    BY DEF Fields, Registers, Types, IoModes, MayStore
  <2> QED BY <1>7, <2>1, StoreTrace
<1> HIDE DEF t
<1>9. Line(Last(t), 0)
  BY <1>7, <1>8, LineKept
<1>10. Last(t).MDR1 = BaudMode(Last(t).baudrate)
  BY <1>7, <1>8 DEF Keeps, Fields
<1>11. Last(t).SCR = FALSE /\ Last(t).IER = {} /\ Last(t).INTC = FALSE /\ Last(t).baudrate = x.baudrate
  <2>1. Keeps(Last(t), Last(c), {"LCR", "MDR1", "io_mode"})
    BY <1>7, <1>8 DEF Keeps
  <2>2. Last(t).SCR = FALSE /\ Last(t).IER = {} /\ Last(t).INTC = FALSE /\ Last(t).baudrate = Last(p).baudrate
    BY <1>3, <1>4, <1>5, <2>1 DEF Keeps, Fields
  <2>3. Last(p).baudrate = x.baudrate
    BY <1>2, <1>3 DEF Keeps, Fields
  <2> QED BY <2>2, <2>3
<1> QED BY <1>0, <1>8, <1>9, <1>10, <1>11 DEF x

\* init_polling() leaves a configured UART, even of one that another call has left half set up.
LEMMA InitPollingConfigures ==
    ASSUME NEW s, NEW h, Trace(s, h), Last(s).io_mode = "UNINITIALIZED" => ~Last(s).INTC
    PROVE  Trace(init_polling(s), h) /\ Configured(Last(init_polling(s))) /\ Last(init_polling(s)).io_mode = "POLLING"
<1> DEFINE t == init_polling(s)
           u == Last(t)
<1>1. /\ Trace(t, h) /\ u \in State /\ Line(u, 0) /\ u.MDR1 = BaudMode(u.baudrate) /\ u.SCR = FALSE
      /\ u.IER = {} /\ u.INTC = FALSE /\ u.io_mode = "POLLING"
  BY InitialisesPolling
<1> HIDE DEF t
<1>2. Configured(u)
  <2>1. ("RECEIVE" \in u.IER) = FALSE /\ (u.io_mode = "DMA") = FALSE /\ (u.io_mode = "INTERRUPT") = FALSE
    BY <1>1
  <2>2. u.SCR = (u.io_mode = "DMA") /\ u.INTC = ("RECEIVE" \in u.IER) /\ u.INTC = (u.io_mode = "INTERRUPT")
    BY <1>1, <2>1
  <2>3. u.FCR.trig = IF u.io_mode = "DMA" THEN Level ELSE 0
    BY <1>1, <2>1 DEF Line
  <2> QED BY <1>1, <2>2, <2>3 DEF Line, Configured
<1> QED BY <1>1, <1>2 DEF t

\* So does init_interrupt().
LEMMA InitInterruptConfigures ==
    ASSUME NEW s, NEW h, Trace(s, h), Last(s).io_mode = "UNINITIALIZED" => ~Last(s).INTC
    PROVE  Trace(init_interrupt(s), h) /\ Configured(Last(init_interrupt(s))) /\ Last(init_interrupt(s)).io_mode = "INTERRUPT"
<1> DEFINE p == init_polling(s)
           e == int_enable(p)
           o == switch_reg_config_mode(e, OPERATIONAL_MODE, FALSE)
           mode == Last(o).baud_mode
           m == switch_operating_mode(o, mode)
           c == Store(m, "INTC", TRUE)
           t == Store(c, "io_mode", "INTERRUPT")
<1>0. init_interrupt(s) = t
  BY DEF init_interrupt, setup_interrupts
<1>1. /\ Trace(p, h) /\ Line(Last(p), 0) /\ Last(p).SCR = FALSE /\ Last(p).INTC = FALSE
  BY InitialisesPolling
<1> HIDE DEF p
<1>2. Quiet(Last(p)) /\ ~Last(p).cleared /\ Window(Last(p).LCR) = "operational"
  BY <1>1 DEF Quiet, Listening, Line, Window, CONFIG_MODE_A, CONFIG_MODE_B, Format8N1
<1>3. Trace(e, h) /\ Keeps(Last(e), Last(p), {"EFR", "IER"}) /\ Last(e).IER = {"RECEIVE"}
  BY <1>1, <1>2, IntEnable DEF Reached
<1> HIDE DEF e
<1>4. Line(Last(e), 0)
  BY <1>1, <1>3, LineKept
<1>5. Last(e).INTC = FALSE /\ Last(e).SCR = FALSE
  BY <1>1, <1>3 DEF Keeps, Fields
<1>6. Quiet(Last(e))
  BY <1>5 DEF Quiet, Listening
<1>7. Trace(o, h) /\ Last(o) \in State /\ Keeps(Last(o), Last(e), {"LCR"}) /\ Last(o).LCR = Last(e).LCR % 128
  BY <1>3, <1>6, SwitchTrace, SwitchedTo
<1> HIDE DEF o
<1>8. Keeps(Last(o), Last(e), {})
  <2>1. Last(e).LCR % 128 = Last(e).LCR
    BY <1>4 DEF Line, Format8N1
  <2> QED BY <1>7, <2>1 DEF Keeps
<1>9. Line(Last(o), 0)
  BY <1>4, <1>8, LineKept
<1>10. Trace(m, h) /\ Keeps(Last(m), Last(o), {"MDR1"}) /\ Last(m).MDR1 = mode
  <2>1. mode \in MdrModes
    BY <1>7 DEF State
  <2> QED BY <1>7, <2>1, ModeTrace
<1> HIDE DEF m
<1>11. Line(Last(m), 0)
  BY <1>9, <1>10, LineKept
<1>12. Trace(c, h) /\ Keeps(Last(c), Last(m), {"INTC"}) /\ Last(c).INTC = TRUE
  <2>1. ~Last(m).cleared /\ Window(Last(m).LCR) = "operational"
    BY <1>11 DEF Line, Window, CONFIG_MODE_A, CONFIG_MODE_B, Format8N1
  <2>2. "INTC" \in Fields \ Registers /\ TRUE \in Types["INTC"] /\ MayStore(Last(m), "INTC", TRUE)
    BY <2>1 DEF Fields, Registers, Types, MayStore
  <2> QED BY <1>10, <2>2, StoreTrace
<1> HIDE DEF c
<1>13. Line(Last(c), 0)
  BY <1>11, <1>12, LineKept
<1>14. Trace(t, h) /\ Keeps(Last(t), Last(c), {"io_mode"}) /\ Last(t).io_mode = "INTERRUPT"
  <2>1. "io_mode" \in Fields \ Registers /\ "INTERRUPT" \in Types["io_mode"] /\ MayStore(Last(c), "io_mode", "INTERRUPT")
    BY DEF Fields, Registers, Types, IoModes, MayStore
  <2> QED BY <1>12, <2>1, StoreTrace
<1> HIDE DEF t
<1>15. Line(Last(t), 0)
  BY <1>13, <1>14, LineKept
<1>16. Last(t).MDR1 = BaudMode(Last(t).baudrate)
  <2>1. Last(m).MDR1 = Last(m).baud_mode
    BY <1>10 DEF Keeps, Fields
  <2>2. Last(t).MDR1 = Last(m).MDR1 /\ Last(t).baudrate = Last(m).baudrate
    BY <1>12, <1>14 DEF Keeps, Fields
  <2> QED BY <1>11, <2>1, <2>2 DEF Line
<1>17. Last(t).IER = {"RECEIVE"} /\ Last(t).SCR = FALSE /\ Last(t).INTC = TRUE
  <2>1. Keeps(Last(t), Last(e), {"MDR1", "INTC", "io_mode"})
    BY <1>8, <1>10, <1>12, <1>14 DEF Keeps
  <2>2. Last(t).INTC = Last(c).INTC
    BY <1>14 DEF Keeps, Fields
  <2>3. Last(t).IER = Last(e).IER /\ Last(t).SCR = Last(e).SCR
    BY <2>1 DEF Keeps, Fields
  <2> QED BY <1>3, <1>5, <1>12, <2>2, <2>3
<1>18. Configured(Last(t))
  BY <1>14, <1>15, <1>16, <1>17 DEF Line, Configured
<1> QED BY <1>0, <1>14, <1>18

\* So does init_dma(), whether it succeeds or falls back to polling.
LEMMA InitDmaConfigures ==
    ASSUME NEW s, NEW h, Trace(s, h), Last(s).io_mode = "UNINITIALIZED" => ~Last(s).INTC,
           NEW failure \in {"none", "levels", "later"}
    PROVE  LET t == init_dma(s, failure) IN
           Trace(t, h) /\ Configured(Last(t)) /\ Last(t).io_mode # "UNINITIALIZED"
<1> DEFINE d == deinit(s)
           b == config_baudrate(d)
           i == int_disable(b)
           c == Store(i, "INTC", FALSE)
           g == FIFO_configure(c, Level)
           n == finish_common_init(g)
           t == Store(n, "io_mode", "DMA")
<1>0. Level \in Levels /\ Level \in Nat
  BY ConfigAssumption DEF Levels
<1>1. Trace(d, h) /\ Last(d).INTC = FALSE /\ Last(d).io_mode = "UNINITIALIZED"
  BY Deinitialise
<1> HIDE DEF d
<1>2. /\ Trace(b, h) /\ Line(Last(b), 0) /\ Last(b).IER = {}
      /\ Last(b).INTC = FALSE /\ Last(b).io_mode = "UNINITIALIZED"
  BY <1>1, ConfigBaudrate
<1> HIDE DEF b
<1>3. Quiet(Last(b))
  BY <1>2 DEF Quiet, Listening
<1>4. Trace(i, h) /\ Keeps(Last(i), Last(b), {"EFR", "IER"}) /\ Last(i).IER = {}
  BY <1>2, <1>3, IntDisable DEF Reached
<1> HIDE DEF i
<1>5. Trace(c, h) /\ Keeps(Last(c), Last(i), {"INTC"}) /\ Last(c).INTC = FALSE
  <2>1. "INTC" \in Fields \ Registers /\ FALSE \in Types["INTC"] /\ MayStore(Last(i), "INTC", FALSE)
    BY DEF Fields, Registers, Types, MayStore
  <2> QED BY <1>4, <2>1, StoreTrace
<1> HIDE DEF c
<1>6. Line(Last(c), 0)
  <2>1. Line(Last(i), 0)
    BY <1>2, <1>4, LineKept
  <2> QED BY <1>5, <2>1, LineKept
<1>7. Quiet(Last(c)) /\ Last(c).IER = {} /\ Last(c).io_mode = "UNINITIALIZED"
  <2>1. Last(c).IER = {} /\ Last(c).io_mode = "UNINITIALIZED"
    BY <1>2, <1>4, <1>5 DEF Keeps, Fields
  <2> QED BY <2>1 DEF Quiet, Listening
<1>8. /\ Trace(g, h) /\ Keeps(Last(g), Last(c), {"SCR", "TLR", "FCR", "shadow"})
      /\ Last(g).SCR = TRUE /\ Last(g).TLR = Level /\ Last(g).FCR.trig = Level /\ Last(g).shadow = Level
  BY <1>0, <1>5, <1>7, FifoConfigure DEF Reached
<1> HIDE DEF g
<1>9. Quiet(Last(g))
  BY <1>7, <1>8, KeepsQuiet
<1>10. Last(g).INTC = FALSE /\ Last(g).IER = {} /\ Last(g).io_mode = "UNINITIALIZED" /\ Line(Last(g), Level)
  <2>1. Last(g).INTC = FALSE /\ Last(g).IER = {} /\ Last(g).io_mode = "UNINITIALIZED"
    BY <1>5, <1>7, <1>8 DEF Keeps, Fields
  <2>2. /\ Last(g).LCR = Last(c).LCR /\ Last(g).DL = Last(c).DL /\ Last(g).cleared = Last(c).cleared
        /\ Last(g).baud_mode = Last(c).baud_mode /\ Last(g).baudrate = Last(c).baudrate
    BY <1>8 DEF Keeps, Fields
  <2> QED BY <1>6, <1>8, <2>1, <2>2 DEF Line
<1>11. CASE failure = "none"
  <2>0. init_dma(s, failure) = t
    BY <1>11 DEF init_dma, d, b, i, c, g
  <2>1. Trace(n, h) /\ Line(Last(n), Level) /\ Keeps(Last(n), Last(g), {"LCR", "MDR1"}) /\ Last(n).MDR1 = BaudMode(Last(n).baudrate)
    BY <1>8, <1>9, <1>10, FinishCommonInit
  <2> HIDE DEF n
  <2>2. Trace(t, h) /\ Keeps(Last(t), Last(n), {"io_mode"}) /\ Last(t).io_mode = "DMA"
    <3>1. "io_mode" \in Fields \ Registers /\ "DMA" \in Types["io_mode"] /\ MayStore(Last(n), "io_mode", "DMA")
      BY DEF Fields, Registers, Types, IoModes, MayStore
    <3> QED BY <2>1, <3>1, StoreTrace
  <2> HIDE DEF t
  <2>3. Line(Last(t), Level)
    BY <2>1, <2>2, LineKept
  <2>4. Last(t).MDR1 = BaudMode(Last(t).baudrate)
    BY <2>1, <2>2 DEF Keeps, Fields
  <2>5. Last(t).SCR = TRUE /\ Last(t).IER = {} /\ Last(t).INTC = FALSE
    BY <1>8, <1>10, <2>1, <2>2 DEF Keeps, Fields
  <2>6. Configured(Last(t))
    <3>1. ("RECEIVE" \in Last(t).IER) = FALSE /\ (Last(t).io_mode = "DMA") = TRUE /\ (Last(t).io_mode = "INTERRUPT") = FALSE
      BY <2>2, <2>5
    <3>2. /\ Last(t).SCR = (Last(t).io_mode = "DMA") /\ Last(t).INTC = ("RECEIVE" \in Last(t).IER)
          /\ Last(t).INTC = (Last(t).io_mode = "INTERRUPT")
      BY <2>5, <3>1
    <3>3. Last(t).FCR.trig = IF Last(t).io_mode = "DMA" THEN Level ELSE 0
      BY <2>2, <2>3 DEF Line
    <3> QED BY <2>3, <2>4, <3>2, <3>3 DEF Line, Configured
  <2> QED BY <2>0, <2>2, <2>6
<1>12. CASE failure = "levels"
  <2>0. init_dma(s, failure) = init_polling(c)
    BY <1>12 DEF init_dma, d, b, i, c
  <2>1. Last(c).io_mode = "UNINITIALIZED" => ~Last(c).INTC
    BY <1>5
  <2> QED BY <1>5, <2>0, <2>1, InitPollingConfigures
<1>13. CASE failure = "later"
  <2>0. init_dma(s, failure) = init_polling(g)
    BY <1>13 DEF init_dma, d, b, i, c, g
  <2>1. Last(g).io_mode = "UNINITIALIZED" => ~Last(g).INTC
    BY <1>10
  <2> QED BY <1>8, <2>0, <2>1, InitPollingConfigures
<1> QED BY <1>11, <1>12, <1>13

\* FIFO_clear() keeps a configured UART as it is, but for the window.
LEMMA FifoClearKeeps ==
    ASSUME NEW s, NEW h, Trace(s, h), Last(s).cleared, NEW y, Keeps(Last(s), y, {"cleared"}), Configured(y),
           NEW rxClear \in BOOLEAN
    PROVE  LET t == FIFO_clear(s, rxClear) IN Trace(t, h) /\ Configured(Last(t)) /\ Last(t).io_mode = y.io_mode
<1> DEFINE x == Last(s)
           t == FIFO_clear(s, rxClear)
<1>1. Quiet(x) /\ x.shadow \in Levels
  BY LastInState DEF Quiet, State
<1>2. /\ Trace(t, h) /\ Keeps(Last(t), x, {"LCR", "EFR", "FCR", "shadow"})
      /\ Last(t).LCR = CONFIG_MODE_A /\ Last(t).FCR.trig = x.shadow /\ Last(t).shadow = x.shadow
  <2>1. t = FIFO_register_write(s, x.shadow, rxClear)
    BY DEF FIFO_clear
  <2> HIDE DEF t
  <2>2. ASSUME NEW trig \in Levels
        PROVE  LET w == FIFO_register_write(s, trig, rxClear) IN
               /\ Trace(w, h) /\ Keeps(Last(w), Last(s), {"LCR", "EFR", "FCR", "shadow"})
               /\ Last(w).LCR = CONFIG_MODE_A /\ Last(w).FCR.trig = trig /\ Last(w).shadow = trig
    <3>1. Quiet(Last(s)) /\ rxClear \in BOOLEAN
      BY <1>1
    <3> DEFINE w == FIFO_register_write(s, trig, rxClear)
    <3>2. /\ Reached(w, h, Last(s), {"LCR", "EFR", "FCR", "shadow"})
          /\ Last(w).LCR = CONFIG_MODE_A /\ Last(w).FCR.trig = trig /\ Last(w).shadow = trig
      BY <2>2, <3>1, RegisterWrite, ZenonT(60)
    <3> HIDE DEF w
    <3> QED BY <3>2 DEF Reached, w
  <2> QED BY <1>1, <2>1, <2>2
<1> HIDE DEF t
<1>3. /\ Last(t).cleared = x.cleared /\ Last(t).DL = x.DL /\ Last(t).MDR1 = x.MDR1 /\ Last(t).baudrate = x.baudrate
      /\ Last(t).TLR = x.TLR /\ Last(t).SCR = x.SCR /\ Last(t).INTC = x.INTC /\ Last(t).IER = x.IER
      /\ Last(t).io_mode = x.io_mode
  BY <1>2 DEF Keeps, Fields
<1>4. /\ x.DL = y.DL /\ x.MDR1 = y.MDR1 /\ x.baudrate = y.baudrate /\ x.TLR = y.TLR /\ x.SCR = y.SCR /\ x.INTC = y.INTC
      /\ x.IER = y.IER /\ x.io_mode = y.io_mode /\ x.shadow = y.shadow /\ x.FCR = y.FCR /\ x.cleared
  BY DEF Keeps, Fields
<1> HIDE DEF x
<1>5. Configured(Last(t))
  BY <1>2, <1>3, <1>4 DEF Configured
<1> QED BY <1>2, <1>3, <1>4, <1>5 DEF t

\* Configured depends on the fields.
LEMMA ConfiguredKept ==
    ASSUME NEW u, NEW x, Keeps(u, x, {}), Configured(x)
    PROVE  Configured(u) /\ u.io_mode = x.io_mode
<1>1. /\ u.cleared = x.cleared /\ u.DL = x.DL /\ u.MDR1 = x.MDR1 /\ u.baudrate = x.baudrate /\ u.LCR = x.LCR
      /\ u.TLR = x.TLR /\ u.SCR = x.SCR /\ u.INTC = x.INTC /\ u.IER = x.IER
      /\ u.io_mode = x.io_mode /\ u.FCR = x.FCR /\ u.shadow = x.shadow
  BY DEF Keeps, Fields
<1> QED BY <1>1 DEF Configured

\* put_char() keeps a configured UART.
LEMMA PutCharKeeps ==
    ASSUME NEW s, NEW h, Trace(s, h), ~Last(s).cleared, Configured(Last(s))
    PROVE  LET t == put_char(s) IN Trace(t, h) /\ Configured(Last(t)) /\ Last(t).io_mode = Last(s).io_mode
<1> DEFINE x == Last(s)
           a == Look(s, "LSR")
           b == Look(a, "THR")
           t == Look(b, "LSR")
<1>0. put_char(s) = t
  BY DEF put_char
<1>1. Window(x.LCR) = "operational"
  BY DEF Configured, Window, CONFIG_MODE_A, CONFIG_MODE_B, Format8N1
<1>2. "LSR" \in Touches /\ "THR" \in Touches /\ "operational" \in WindowsOf("LSR") /\ "operational" \in WindowsOf("THR")
  BY DEF Touches, WindowsOf
<1>3. Trace(a, h) /\ Keeps(Last(a), x, {})
  BY <1>1, <1>2, LookTrace
<1>4. Configured(x)
  OBVIOUS
<1> HIDE DEF a, x
<1>5. Last(a).LCR = x.LCR
  BY <1>3 DEF Keeps, Fields
<1>6. Trace(b, h) /\ Keeps(Last(b), Last(a), {})
  BY <1>1, <1>2, <1>3, <1>5, LookTrace
<1> HIDE DEF b
<1>7. Last(b).LCR = x.LCR
  BY <1>5, <1>6 DEF Keeps, Fields
<1>8. Trace(t, h) /\ Keeps(Last(t), Last(b), {})
  BY <1>1, <1>2, <1>6, <1>7, LookTrace
<1> HIDE DEF t
<1>9. Keeps(Last(t), x, {})
  BY <1>3, <1>6, <1>8 DEF Keeps
<1> QED BY <1>0, <1>4, <1>8, <1>9, ConfiguredKept DEF x

\* get_char() does, LCR included.
LEMMA GetCharKeeps ==
    ASSUME NEW s, NEW h, Trace(s, h), ~Last(s).cleared, Configured(Last(s))
    PROVE  LET t == get_char(s) IN Trace(t, h) /\ Configured(Last(t)) /\ Last(t).io_mode = Last(s).io_mode
<1> DEFINE x == Last(s)
           o == switch_reg_config_mode(s, OPERATIONAL_MODE, FALSE)
           a == Look(o, "LSR")
           b == Look(a, "RHR")
           t == Put(b, "LCR", x.LCR)
<1>0. get_char(s) = t
  BY DEF get_char
<1>1. x.LCR = Format8N1
  BY DEF Configured
<1>2. "LSR" \in Touches /\ "RHR" \in Touches /\ Window(Format8N1) \in WindowsOf("LSR") /\ Window(Format8N1) \in WindowsOf("RHR")
  <2>1. Window(Format8N1) = "operational"
    BY DEF Window, CONFIG_MODE_A, CONFIG_MODE_B, Format8N1
  <2> QED BY <2>1 DEF Touches, WindowsOf
<1>3. "LCR" \in Registers /\ Format8N1 \in Types["LCR"] /\ MayWrite(x, "LCR", Format8N1)
  BY DEF Registers, Types, Lcrs, MayWrite, Format8N1, CONFIG_MODE_A
<1>4. o = Put(s, "LCR", Format8N1)
  <2>1. Format8N1 % 128 = Format8N1
    BY DEF Format8N1
  <2> QED BY <1>1, <2>1 DEF switch_reg_config_mode
<1>5. Trace(o, h) /\ Keeps(Last(o), x, {"LCR"}) /\ Last(o).LCR = Format8N1
  <2> HIDE DEF o
  <2> QED BY <1>3, <1>4, PutTrace
<1>6. Configured(x)
  OBVIOUS
<1> HIDE DEF o, x
<1>7. Trace(a, h) /\ Keeps(Last(a), Last(o), {})
  BY <1>2, <1>5, LookTrace
<1> HIDE DEF a
<1>8. Last(a).LCR = Format8N1
  BY <1>5, <1>7 DEF Keeps, Fields
<1>9. Trace(b, h) /\ Keeps(Last(b), Last(a), {})
  BY <1>2, <1>7, <1>8, LookTrace
<1> HIDE DEF b
<1>10. t = Put(b, "LCR", Format8N1)
  BY <1>1
<1>11. Trace(t, h) /\ Keeps(Last(t), Last(b), {"LCR"}) /\ Last(t).LCR = Format8N1
  <2>1. MayWrite(Last(b), "LCR", Format8N1)
    BY DEF MayWrite, Format8N1, CONFIG_MODE_A
  <2> QED BY <1>3, <1>9, <1>10, <2>1, PutTrace
<1> HIDE DEF t
<1>12. Keeps(Last(t), x, {"LCR"})
  BY <1>5, <1>7, <1>9, <1>11 DEF Keeps
<1>13. Keeps(Last(t), x, {})
  BY <1>1, <1>11, <1>12 DEF Keeps
<1> QED BY <1>0, <1>6, <1>11, <1>13, ConfiguredKept DEF x

-----------------------------------------------------------------------------
(* The program. *)

\* Between calls: what LineIsConfigured says of an initialised UART, and that the source of one which is not is masked.
Rest(u) == IF u.io_mode = "UNINITIALIZED" THEN ~u.INTC ELSE Configured(u)

\* The present state and those to come.
Course == <<now>> \o ahead

\* The method in progress goes from now, through accesses that take effect, to a state in which the UART may be left;
\* under a cleared FIFO with the interrupt on no byte waits.
ConfigInv ==
    /\ now \in State /\ ahead \in Seq(State) /\ rxfifo \in BOOLEAN
    /\ Trace(Course, now)
    /\ Rest(Last(Course))
    /\ Held(now) => ~rxfifo

\* Every method begins in now, which no access has led to.
LEMMA FromTrace ==
    ASSUME ConfigInv
    PROVE  /\ Trace(From, From[1]) /\ Last(From) = From[1] /\ Keeps(Last(From), now, {})
           /\ (Held(From[1]) => ~rxfifo)
<1> DEFINE y == [now EXCEPT !["touched"] = "none"]
           u == [y EXCEPT !["wrote"] = FALSE]
<1>1. now \in State /\ Good(now) /\ (Held(now) => ~rxfifo)
  BY DEF ConfigInv, Trace, Course
<1>2. y \in State /\ y["touched"] = "none" /\ \A g \in (Fields \union {"touched", "wrote"}) \ {"touched"} : y[g] = now[g]
  <2>1. "touched" \in Fields \union {"touched", "wrote"} /\ "none" \in Types["touched"]
    BY DEF Types, Touches
  <2> QED BY <1>1, <2>1, ExceptState
<1> HIDE DEF y
<1>3. u \in State /\ u.wrote = FALSE /\ \A g \in Fields \union {"touched"} : u[g] = y[g]
  BY <1>2, ExceptWrote
<1> HIDE DEF u
<1>4. From = <<u>>
  BY DEF From, u, y
<1>5. Keeps(u, now, {}) /\ u.touched = "none" /\ ~u.wrote
  BY <1>2, <1>3 DEF Keeps, Fields
<1>6. u.LCR = now.LCR /\ u.IER = now.IER /\ u.INTC = now.INTC /\ u.cleared = now.cleared
  BY <1>5 DEF Keeps, Fields
<1>7. Reaches(u)
  BY <1>5 DEF Reaches, Window, WindowsOf
<1>8. Good(u) /\ (Held(u) => Held(now))
  BY <1>1, <1>6, <1>7 DEF Good, Listening, Held
<1> USE <1>4
<1>9. From[1] = u /\ Len(From) = 1 /\ Last(From) = u /\ From \in Seq(State) /\ From # <<>>
  BY <1>3 DEF Last
<1>10. Trace(From, u)
  BY <1>8, <1>9 DEF Trace
<1> QED BY <1>1, <1>5, <1>8, <1>9, <1>10

\* A method that begins in h and ends where the UART may be left keeps the invariant.
LEMMA RunKeeps ==
    ASSUME NEW m, NEW h, Run(m), rxfifo \in BOOLEAN, Trace(m, h), Rest(Last(m)), Held(h) => ~rxfifo
    PROVE  ConfigInv'
<1>1. m \in Seq(State) /\ m # <<>> /\ m[1] = h
  BY DEF Trace
<1>2. now' = h /\ ahead' = Tail(m) /\ rxfifo' = rxfifo
  BY <1>1 DEF Run
<1>3. <<h>> \o Tail(m) = m /\ Tail(m) \in Seq(State) /\ h \in State
  BY <1>1
<1>4. Course' = m
  BY <1>2, <1>3 DEF Course
<1> QED BY <1>2, <1>3, <1>4 DEF ConfigInv

\* What a call can rely on.
LEMMA UninitialisedMasked ==
    ASSUME ConfigInv, Resting
    PROVE  /\ Rest(now) /\ (now.io_mode = "UNINITIALIZED" => ~now.INTC)
           /\ (now.io_mode # "UNINITIALIZED" => Configured(now))
<1>1. Course = <<now>> /\ Last(Course) = now
  BY DEF ConfigInv, Resting, Course, Last
<1> QED BY <1>1 DEF ConfigInv, Rest

\* The program begins with the UART as reset leaves it.
LEMMA InitialConfig == CInit => ConfigInv
<1> SUFFICES ASSUME CInit PROVE ConfigInv
  OBVIOUS
<1>1. PICK b \in Baudrates :
        now = [LCR |-> 0, EFR |-> FALSE, MCR |-> FALSE, TLR |-> 0, SCR |-> FALSE,
               FCR |-> [trig |-> 0, rxClear |-> FALSE], DL |-> 0, IER |-> {},
               MDR1 |-> "disabled", INTC |-> FALSE, touched |-> "none", wrote |-> FALSE,
               shadow |-> 0, io_mode |-> "UNINITIALIZED", baud_mode |-> "16x",
               baudrate |-> b, cleared |-> FALSE]
  BY DEF CInit
<1>2. now \in State
  <2>1. 0 \in Lcrs /\ 0 \in Levels /\ 0 \in Divisors /\ {} \in Ints /\ "disabled" \in MdrModes /\ "16x" \in MdrModes
        /\ "none" \in Touches /\ [trig |-> 0, rxClear |-> FALSE] \in Fcrs /\ "UNINITIALIZED" \in IoModes /\ b \in Rates
    BY ConfigAssumption DEF Lcrs, Levels, Divisors, Ints, MdrModes, Touches, Fcrs, IoModes, Rates
  <2> QED BY <1>1, <2>1 DEF State
<1>3. now.touched = "none" /\ now.wrote = FALSE /\ now.INTC = FALSE /\ now.io_mode = "UNINITIALIZED"
  BY <1>1
<1>4. Good(now) /\ ~Held(now)
  BY <1>3 DEF Good, Reaches, Listening, Held, Window, WindowsOf
<1>5. ahead = <<>> /\ rxfifo = FALSE
  BY DEF CInit
<1>6. Course = <<now>> /\ Last(Course) = now
  BY <1>5 DEF Course, Last
<1>7. Trace(Course, now)
  BY <1>2, <1>4, <1>6 DEF Trace
<1>8. Rest(now)
  BY <1>3 DEF Rest
<1>9. ahead \in Seq(State) /\ rxfifo \in BOOLEAN /\ (Held(now) => ~rxfifo)
  <2>1. <<>> \in Seq(State)
    OBVIOUS
  <2>2. ahead \in Seq(State)
    BY <1>5, <2>1
  <2>3. rxfifo \in BOOLEAN /\ (Held(now) => ~rxfifo)
    BY <1>4, <1>5
  <2> QED BY <2>2, <2>3
<1>10. Rest(Last(Course))
  BY <1>6, <1>8
<1> QED BY <1>2, <1>7, <1>9, <1>10 DEF ConfigInv

\* The next access of a method in progress keeps the invariant.
LEMMA AccessKeeps == ConfigInv /\ Access => ConfigInv'
<1> SUFFICES ASSUME ConfigInv, Access PROVE ConfigInv'
  OBVIOUS
<1> ahead \in Seq(State) /\ now \in State
  BY DEF ConfigInv
<1>1. ahead # <<>> /\ now' = ahead[1] /\ ahead' = Tail(ahead) /\ Len(ahead) \in Nat /\ Len(ahead) > 0
  BY DEF Access, Resting
<1>2. rxfifo' \in BOOLEAN /\ (rxfifo' => rxfifo)
  BY DEF Access, ConfigInv
<1>3. now' \in State /\ ahead' \in Seq(State) /\ Course' = ahead
  BY <1>1 DEF Course
<1>4. Len(Course) = Len(ahead) + 1 /\ Course[1] = now /\ \A i \in 1..Len(ahead) : Course[i + 1] = ahead[i]
  BY DEF Course
<1>5. Last(ahead) = Last(Course)
  BY <1>1, <1>4 DEF Last
<1>6. \A i \in 1..Len(Course) : Good(Course[i])
  BY DEF ConfigInv, Trace
<1>7. \A i \in 1..Len(Course) - 1 : Held(Course[i + 1]) => Held(Course[i])
  BY DEF ConfigInv, Trace
<1>8. Trace(ahead, now')
  <2>1. \A i \in 1..Len(ahead) : Good(ahead[i])
    BY <1>4, <1>6
  <2>2. ASSUME NEW i \in 1..Len(ahead) - 1, Held(ahead[i + 1])
        PROVE  Held(ahead[i])
    <3>1. Course[i + 1] = ahead[i] /\ Course[i + 2] = ahead[i + 1] /\ i + 1 \in 1..Len(Course) - 1
      BY <1>1, <1>4
    <3>2. Held(Course[(i + 1) + 1]) => Held(Course[i + 1])
      BY <1>7, <3>1
    <3> QED BY <2>2, <3>1, <3>2
  <2> QED BY <1>1, <2>1, <2>2 DEF Trace
<1>9. Held(now') => ~rxfifo'
  <2>1. Held(Course[1 + 1]) => Held(Course[1])
    BY <1>1, <1>4, <1>7
  <2>2. Course[1 + 1] = now'
    BY <1>1, <1>4
  <2>3. Held(now) => ~rxfifo
    BY DEF ConfigInv
  <2> QED BY <1>2, <1>4, <2>1, <2>2, <2>3
<1>10. Trace(Course', now') /\ Last(Course') = Last(Course)
  BY <1>3, <1>5, <1>8
<1>11. Rest(Last(Course'))
  BY <1>10 DEF ConfigInv
<1> QED BY <1>2, <1>3, <1>9, <1>10, <1>11 DEF ConfigInv

\* Initialisation, deinitialisation and a new baud rate do, from any state between calls.
LEMMA InitsKeep == ConfigInv /\ (InitPolling \/ InitInterrupt \/ InitDma \/ Deinit \/ SetBaudrate) => ConfigInv'
<1> SUFFICES ASSUME ConfigInv, InitPolling \/ InitInterrupt \/ InitDma \/ Deinit \/ SetBaudrate PROVE ConfigInv'
  OBVIOUS
<1> DEFINE h == From[1]
<1>1. Trace(From, h) /\ Keeps(Last(From), now, {}) /\ (Held(h) => ~rxfifo) /\ rxfifo \in BOOLEAN
  BY FromTrace DEF ConfigInv
<1>2. Resting
  BY DEF InitPolling, InitInterrupt, InitDma, Deinit, SetBaudrate, Run
<1>3. Last(From).io_mode = "UNINITIALIZED" => ~Last(From).INTC
  BY <1>1, <1>2, UninitialisedMasked DEF Keeps, Fields
<1> HIDE DEF h
<1>4. CASE InitPolling
  <2>1. Trace(init_polling(From), h) /\ Rest(Last(init_polling(From)))
    BY <1>1, <1>3, InitPollingConfigures DEF Rest
  <2> QED BY <1>1, <1>4, <2>1, RunKeeps DEF InitPolling
<1>5. CASE InitInterrupt
  <2>1. Trace(init_interrupt(From), h) /\ Rest(Last(init_interrupt(From)))
    BY <1>1, <1>3, InitInterruptConfigures DEF Rest
  <2> QED BY <1>1, <1>5, <2>1, RunKeeps DEF InitInterrupt
<1>6. CASE InitDma
  <2>1. PICK failure \in {"none", "levels", "later"} : Run(init_dma(From, failure))
    BY <1>6 DEF InitDma
  <2>2. Trace(init_dma(From, failure), h) /\ Rest(Last(init_dma(From, failure)))
    BY <1>1, <1>3, InitDmaConfigures DEF Rest
  <2> QED BY <1>1, <2>1, <2>2, RunKeeps
<1>7. CASE Deinit
  <2>1. Trace(deinit(From), h) /\ Rest(Last(deinit(From)))
    BY <1>1, <1>3, Deinitialise DEF Rest
  <2> QED BY <1>1, <1>7, <2>1, RunKeeps DEF Deinit
<1>8. CASE SetBaudrate
  <2>1. PICK b \in Baudrates : Run(init_polling(Store(From, "baudrate", b)))
    BY <1>8 DEF SetBaudrate
  <2> DEFINE r == Store(From, "baudrate", b)
  <2>2. Trace(r, h) /\ Keeps(Last(r), Last(From), {"baudrate"})
    <3>1. "baudrate" \in Fields \ Registers /\ b \in Types["baudrate"] /\ MayStore(Last(From), "baudrate", b)
      BY ConfigAssumption DEF Fields, Registers, Types, Rates, MayStore
    <3> QED BY <1>1, <3>1, StoreTrace
  <2>3. Run(init_polling(r))
    BY <2>1
  <2> HIDE DEF r
  <2>4. Last(r).io_mode = "UNINITIALIZED" => ~Last(r).INTC
    BY <1>3, <2>2 DEF Keeps, Fields
  <2>5. Trace(init_polling(r), h) /\ Rest(Last(init_polling(r)))
    BY <2>2, <2>4, InitPollingConfigures DEF Rest
  <2> QED BY <1>1, <2>3, <2>5, RunKeeps
<1> QED BY <1>4, <1>5, <1>6, <1>7, <1>8

\* So does a FIFO_clear().
LEMMA FifoClearKeepsInv == ConfigInv /\ FifoClear => ConfigInv'
<1> SUFFICES ASSUME ConfigInv, FifoClear PROVE ConfigInv'
  OBVIOUS
<1> DEFINE x == From[1]
           u == [x EXCEPT !["cleared"] = TRUE]
           s == <<u>>
<1>1. Trace(From, x) /\ Last(From) = x /\ Keeps(x, now, {}) /\ rxfifo \in BOOLEAN
  BY FromTrace DEF ConfigInv
<1>2. x \in State /\ Good(x)
  BY <1>1, LastInState
<1>3. PICK rxClear \in BOOLEAN : Run(FIFO_clear(s, rxClear))
  <2>1. s = <<[From[1] EXCEPT !.cleared = TRUE]>>
    OBVIOUS
  <2> HIDE DEF s
  <2> QED BY <2>1 DEF FifoClear
<1>4. Resting /\ now.io_mode # "UNINITIALIZED" /\ ~Pending
  BY <1>3 DEF FifoClear, Run
<1>5. Configured(now)
  BY <1>4, UninitialisedMasked
<1> HIDE DEF x
<1>6. u \in State /\ u.cleared = TRUE /\ \A g \in (Fields \union {"touched", "wrote"}) \ {"cleared"} : u[g] = x[g]
  <2>1. "cleared" \in Fields \union {"touched", "wrote"} /\ TRUE \in BOOLEAN /\ Types["cleared"] = BOOLEAN
    BY DEF Types, Fields
  <2>2. ASSUME NEW v \in BOOLEAN
        PROVE  /\ [x EXCEPT !["cleared"] = v] \in State /\ [x EXCEPT !["cleared"] = v]["cleared"] = v
               /\ \A g \in (Fields \union {"touched", "wrote"}) \ {"cleared"} : [x EXCEPT !["cleared"] = v][g] = x[g]
    BY <1>2, <2>1, ExceptState
  <2> QED BY <2>2
<1> HIDE DEF u
<1>7. x.touched = "none" /\ ~x.wrote
  BY DEF x, From, ConfigInv, State
<1>8. u.touched = "none" /\ u.wrote = x.wrote
  BY <1>6, <1>7
<1>9. /\ u.LCR = now.LCR /\ u.IER = now.IER /\ u.INTC = now.INTC /\ u.DL = now.DL /\ u.MDR1 = now.MDR1
      /\ u.baudrate = now.baudrate /\ u.TLR = now.TLR /\ u.SCR = now.SCR /\ u.io_mode = now.io_mode
      /\ u.FCR = now.FCR /\ u.shadow = now.shadow
  BY <1>1, <1>6 DEF Keeps, Fields
<1>10. Good(u)
  BY <1>6, <1>7, <1>8 DEF Good, Reaches, Window, WindowsOf
<1>11. Held(u) => ~rxfifo
  BY <1>4, <1>9 DEF Held, Listening, Pending
<1> DEFINE t == FIFO_clear(s, rxClear)
<1>12. s \in Seq(State) /\ Len(s) = 1 /\ s[1] = u /\ s # <<>> /\ Last(s) = u
  BY <1>6 DEF Last
<1>13. Trace(s, u)
  BY <1>10, <1>12 DEF Trace
<1>14. Run(t)
  BY <1>3
<1> HIDE DEF s
<1>15. Keeps(Last(s), now, {"cleared"}) /\ Last(s).cleared
  BY <1>1, <1>6, <1>12 DEF Keeps, Fields
<1>16. Trace(t, u) /\ Configured(Last(t)) /\ Last(t).io_mode = now.io_mode
  BY <1>5, <1>13, <1>15, FifoClearKeeps
<1> HIDE DEF t
<1>17. Rest(Last(t))
  BY <1>4, <1>16 DEF Rest
<1> QED BY <1>1, <1>11, <1>14, <1>16, <1>17, RunKeeps

\* So do put_char() and get_char().
LEMMA CharsKeep == ConfigInv /\ (PutChar \/ GetChar) => ConfigInv'
<1> SUFFICES ASSUME ConfigInv, PutChar \/ GetChar PROVE ConfigInv'
  OBVIOUS
<1> DEFINE h == From[1]
<1>1. Trace(From, h) /\ Keeps(Last(From), now, {}) /\ (Held(h) => ~rxfifo) /\ rxfifo \in BOOLEAN
  BY FromTrace DEF ConfigInv
<1> HIDE DEF h
<1>2. Resting /\ now.io_mode # "UNINITIALIZED" /\ ~now.cleared
  BY DEF PutChar, GetChar, InUse, Run
<1>3. Configured(now)
  BY <1>2, UninitialisedMasked
<1>4. Configured(Last(From)) /\ Last(From).io_mode = now.io_mode
  BY <1>1, <1>3, ConfiguredKept
<1>5. ~Last(From).cleared
  BY <1>1, <1>2 DEF Keeps, Fields
<1>6. CASE PutChar
  <2>1. Trace(put_char(From), h) /\ Rest(Last(put_char(From)))
    BY <1>1, <1>2, <1>4, <1>5, PutCharKeeps DEF Rest
  <2> QED BY <1>1, <1>6, <2>1, RunKeeps DEF PutChar
<1>7. CASE GetChar
  <2>1. Trace(get_char(From), h) /\ Rest(Last(get_char(From)))
    BY <1>1, <1>2, <1>4, <1>5, GetCharKeeps DEF Rest
  <2> QED BY <1>1, <1>7, <2>1, RunKeeps DEF GetChar
<1> QED BY <1>6, <1>7

\* A byte that arrives and the receive interrupt change the FIFO only.
LEMMA LineKeeps == ConfigInv /\ (LineByte \/ ReceiveInterrupt \/ UNCHANGED cvars) => ConfigInv'
<1> SUFFICES ASSUME ConfigInv, LineByte \/ ReceiveInterrupt \/ UNCHANGED cvars PROVE ConfigInv'
  OBVIOUS
<1>1. now' = now /\ ahead' = ahead /\ rxfifo' \in BOOLEAN
  BY DEF ConfigInv, LineByte, ReceiveInterrupt, cvars
<1>2. Held(now) => ~rxfifo'
  BY DEF ConfigInv, LineByte, ReceiveInterrupt, cvars, Held, Listening
<1>3. Course' = Course
  BY <1>1 DEF Course
<1> QED BY <1>1, <1>2, <1>3 DEF ConfigInv

-----------------------------------------------------------------------------
(* The theorems. *)

\* The program only ever goes through good states towards one in which the UART
\* may be left.
THEOREM ConfigInvariant == ConfigSpec => []ConfigInv
<1>1. CInit => ConfigInv
  BY InitialConfig
<1>2. ConfigInv /\ [CNext]_cvars => ConfigInv'
  BY AccessKeeps, InitsKeep, FifoClearKeepsInv, CharsKeep, LineKeeps DEF CNext
<1> QED BY <1>1, <1>2, PTL DEF ConfigSpec

\* Every access of every method reaches the register it means and takes effect,
\* for any baud rates and levels and any order of calls.
THEOREM ConfigAccessTakesEffect == ConfigSpec => []AccessTakesEffect
<1>1. ConfigInv => AccessTakesEffect
  <2> SUFFICES ASSUME ConfigInv PROVE AccessTakesEffect
    OBVIOUS
  <2>1. Course \in Seq(State) /\ Len(Course) > 0 /\ Course[1] = now
    BY DEF ConfigInv, Trace, Course
  <2>2. Good(now)
    BY <2>1 DEF ConfigInv, Trace
  <2> QED BY <2>2 DEF Good, Reaches, AccessTakesEffect
<1> QED BY <1>1, ConfigInvariant, PTL

\* The receive interrupt is only ever taken in the operational window.
THEOREM ConfigHandlerSeesData == ConfigSpec => []HandlerSeesData
<1>1. ConfigInv => HandlerSeesData
  <2> SUFFICES ASSUME ConfigInv, Pending PROVE Window(now.LCR) = "operational"
    BY DEF HandlerSeesData
  <2>1. Course \in Seq(State) /\ Len(Course) > 0 /\ Course[1] = now
    BY DEF ConfigInv, Trace, Course
  <2>2. Good(now)
    BY <2>1 DEF ConfigInv, Trace
  <2>3. Listening(now) /\ ~now.cleared
    BY DEF ConfigInv, Pending, Listening, Held
  <2> QED BY <2>2, <2>3 DEF Good
<1> QED BY <1>1, ConfigInvariant, PTL

\* Between calls an initialised UART is what its I/O mode needs.
THEOREM ConfigLineIsConfigured == ConfigSpec => []LineIsConfigured
<1>1. ConfigInv => LineIsConfigured
  BY UninitialisedMasked DEF LineIsConfigured, Configured
<1> QED BY <1>1, ConfigInvariant, PTL
=============================================================================
