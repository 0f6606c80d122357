----------------------------- MODULE SerialRead -----------------------------
(***************************************************************************)
(* What a caller of uart::read() may rely on, whatever the transport is.   *)
(*                                                                         *)
(* The bytes the receiver accepts are numbered 1, 2, 3, ... in the order   *)
(* they arrive.  A call read(data, size) either fails, and then promises   *)
(* nothing about data, or succeeds, and then data holds size bytes that    *)
(* followed one another on the line and that no earlier call returned.     *)
(***************************************************************************)
EXTENDS Integers

CONSTANT Sizes      \* the sizes callers ask for, natural numbers

VARIABLES
    received,       \* number of the newest byte accepted
    lastRead,       \* number of the newest byte a call has returned
    reading,        \* a call is in progress
    outcome,        \* "none", "failure", or "success" of the last call
    bytes           \* what a successful call returned: data[i] is bytes[i]

readVars == <<received, lastRead, reading, outcome, bytes>>

Run(from, n) == [i \in 0..n-1 |-> from + 1 + i]
Nothing == Run(0, 0)

Init ==
    /\ received = 0 /\ lastRead = 0
    /\ reading = FALSE
    /\ outcome = "none"
    /\ bytes = Nothing

Accept ==
    /\ received' = received + 1
    /\ UNCHANGED <<lastRead, reading, outcome, bytes>>

Begin ==
    /\ ~reading
    /\ reading' = TRUE
    /\ outcome' = "none"
    /\ bytes' = Nothing
    /\ UNCHANGED <<received, lastRead>>

Fail ==
    /\ reading' = FALSE
    /\ outcome' = "failure"
    /\ bytes' = Nothing
    /\ UNCHANGED <<received, lastRead>>

Succeed ==
    /\ reading' = FALSE
    /\ outcome' = "success"
    /\ \E n \in Sizes : \E from \in lastRead..(received - n) :
          /\ bytes' = Run(from, n)
          /\ lastRead' = from + n
    /\ UNCHANGED received

Next == Accept \/ Begin \/ Fail \/ Succeed

Spec == Init /\ [][Next]_readVars
=============================================================================
