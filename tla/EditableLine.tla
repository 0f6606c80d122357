---------------------------- MODULE EditableLine ----------------------------
(***************************************************************************)
(* What a line editor promises its user: every key does one thing to one   *)
(* line, and a line is replaced only by one that was entered before or by  *)
(* the one put aside for it.  LineEditor implements it.                    *)
(***************************************************************************)
EXTENDS Naturals, Sequences

CONSTANTS Chars, Words,     \* what can be typed and what can be completed
          Limit, Depth      \* the longest line and the longest history

VARIABLES line, cursor,     \* the line, and how many of its characters are left of the cursor
          history,          \* the lines entered last
          aside             \* the line put aside while older ones are looked at

evars == <<line, cursor, history, aside>>

EInit == line = <<>> /\ cursor = 0 /\ history = <<>> /\ aside = <<>>

Type(c) ==
    /\ Len(line) < Limit
    /\ line' = [i \in 1..Len(line) + 1 |->
                  IF i <= cursor THEN line[i] ELSE IF i = cursor + 1 THEN c ELSE line[i - 1]]
    /\ cursor' = cursor + 1
    /\ UNCHANGED <<history, aside>>

\* The character left of the cursor goes, or the one right of it.
Erase ==
    \E i \in {cursor, cursor + 1} \intersect (1..Len(line)) :
        /\ line' = [j \in 1..Len(line) - 1 |-> IF j < i THEN line[j] ELSE line[j + 1]]
        /\ cursor' = IF i = cursor THEN cursor - 1 ELSE cursor
        /\ UNCHANGED <<history, aside>>

Move == cursor' \in 0..Len(line) /\ UNCHANGED <<line, history, aside>>

Begins(l, w) == Len(l) <= Len(w) /\ \A i \in 1..Len(l) : w[i] = l[i]

\* The line grows as far as all words that begin with it agree.
Complete ==
    /\ cursor = Len(line)
    /\ \E w \in Words, n \in 1..Limit :
          /\ Len(line) <= n /\ n <= Len(w) /\ Begins(line, w)
          /\ line' = [i \in 1..n |-> w[i]]
    /\ \A v \in Words : Begins(line, v) => Begins(line', v)
    /\ cursor' = Len(line')
    /\ UNCHANGED <<history, aside>>

Recall ==
    /\ aside' \in {aside, line}
    /\ \/ \E i \in 1..Len(history) : line' = history[i]
       \/ line' = aside
    /\ cursor' = Len(line')
    /\ UNCHANGED history

\* An entered line is remembered once in a row, and not when it is empty.
Remembered(h, l) ==
    IF l = <<>> \/ (h # <<>> /\ h[Len(h)] = l) THEN h
    ELSE IF Len(h) < Depth THEN Append(h, l)
    ELSE Append(Tail(h), l)

Fresh  == line' = <<>> /\ cursor' = 0 /\ aside' = <<>>
Enter  == history' = Remembered(history, line) /\ Fresh
Cancel == UNCHANGED history /\ Fresh

ENext ==
    \/ \E c \in Chars : Type(c)
    \/ Erase \/ Move \/ Complete \/ Recall \/ Enter \/ Cancel

ESpec == EInit /\ [][ENext]_evars
=============================================================================
