-------------------------- MODULE LineEditorProofs --------------------------
(***************************************************************************)
(* Proofs about LineEditor, for every alphabet, every set of words and     *)
(* every size of the buffer and the history.  BufferSound is inductive as  *)
(* it stands and carries the rest: with it c_str() is the line, a copy is  *)
(* never cut, and what is loaded is what was stored.                       *)
(***************************************************************************)
EXTENDS LineEditor, TLAPS

-----------------------------------------------------------------------------
(* Strings and the buffer. *)

\* The C string of a buffer with its terminator at len is its first len characters.
LEMMA CStringIsText ==
    ASSUME NEW cmd \in [Cells -> Chars \union {NUL}], NEW len \in Cells,
           cmd[len] = NUL, \A i \in 0..len - 1 : cmd[i] \in Chars
    PROVE  c_str(cmd) = Text(cmd, len)
<1> DEFINE P(n) == cmd[n] = NUL /\ \A i \in 0..n - 1 : cmd[i] # NUL
           m == CHOOSE n \in Cells : P(n)
<1>1. P(len)
  BY EditorAssumption
<1>2. m \in Cells /\ P(m)
  BY <1>1
<1>3. m = len
  <2> HIDE DEF m
  <2>1. m \in Nat /\ len \in Nat
    BY <1>2, EditorAssumption DEF Cells
  <2>2. ~ (m < len)
    BY <1>2, <2>1, EditorAssumption
  <2>3. ~ (len < m)
    BY <1>2, <2>1
  <2> QED
    BY <2>1, <2>2, <2>3
<1> QED
  BY <1>3 DEF c_str

\* A string shorter than the buffer is copied whole.
LEMMA CopyIsWhole ==
    ASSUME NEW t, Short(t)
    PROVE  copy_string(t) = t /\ Len(t) \in Cells
<1>1. t \in Seq(Chars) /\ Len(t) \in Nat /\ Len(t) < COMMAND_BUFFER_SIZE
  BY DEF Short, Strings
<1>2. Room(Len(t)) = Len(t)
  BY <1>1 DEF Room
<1>3. t = [i \in 1..Len(t) |-> t[i]]
  BY <1>1
<1>4. Len(t) \in Cells
  BY <1>1, EditorAssumption DEF Cells
<1> QED
  BY <1>2, <1>3, <1>4 DEF copy_string

\* The line of a sound buffer is a short string.
LEMMA TextIsShort ==
    ASSUME NEW cmd \in [Cells -> Chars \union {NUL}], NEW len \in Cells,
           \A i \in 0..len - 1 : cmd[i] \in Chars
    PROVE  /\ Short(Text(cmd, len))
           /\ Len(Text(cmd, len)) = len
           /\ \A i \in 1..len : Text(cmd, len)[i] = cmd[i - 1]
<1>1. len \in Nat /\ len < COMMAND_BUFFER_SIZE
  BY EditorAssumption DEF Cells
<1>2. \A i \in 1..len : i - 1 \in 0..len - 1
  BY <1>1
<1>3. Text(cmd, len) \in [1..len -> Chars]
  BY <1>2 DEF Text
<1>4. Text(cmd, len) \in Seq(Chars) /\ Len(Text(cmd, len)) = len
  BY <1>1, <1>3
<1> QED
  BY <1>1, <1>4 DEF Short, Strings, Text

\* Writing a short string leaves it, with its terminator, in the buffer.
LEMMA WrittenIsSound ==
    ASSUME NEW cmd \in [Cells -> Chars \union {NUL}], NEW t, Short(t)
    PROVE  /\ Written(cmd, t) \in [Cells -> Chars \union {NUL}]
           /\ Len(t) \in Cells
           /\ Written(cmd, t)[Len(t)] = NUL
           /\ \A i \in 0..Len(t) - 1 : Written(cmd, t)[i] \in Chars
           /\ Text(Written(cmd, t), Len(t)) = t
<1>1. t \in Seq(Chars) /\ Len(t) \in Nat /\ Len(t) \in Cells
  BY CopyIsWhole DEF Short, Strings
<1>2. \A i \in Cells : i \in Nat
  BY EditorAssumption DEF Cells
<1>3. \A i \in 0..Len(t) - 1 : i \in Cells /\ i < Len(t) /\ i + 1 \in 1..Len(t)
  BY <1>1, EditorAssumption DEF Cells
<1>4. \A i \in 1..Len(t) : t[i] \in Chars
  BY <1>1
<1>5. Written(cmd, t) \in [Cells -> Chars \union {NUL}]
  <2>1. \A i \in Cells : i < Len(t) => i + 1 \in 1..Len(t)
    BY <1>1, <1>2
  <2> QED
    BY <2>1, <1>4 DEF Written
<1>6. Written(cmd, t)[Len(t)] = NUL
  BY <1>1 DEF Written
<1>7. \A i \in 0..Len(t) - 1 : Written(cmd, t)[i] = t[i + 1]
  BY <1>3 DEF Written
<1>8. \A i \in 0..Len(t) - 1 : Written(cmd, t)[i] \in Chars
  BY <1>3, <1>4, <1>7
<1>9. Text(Written(cmd, t), Len(t)) = t
  <2>1. \A i \in 1..Len(t) : i - 1 \in 0..Len(t) - 1 /\ (i - 1) + 1 = i
    BY <1>1
  <2>2. \A i \in 1..Len(t) : Written(cmd, t)[i - 1] = t[i]
    BY <1>7, <2>1
  <2>3. t = [i \in 1..Len(t) |-> t[i]]
    BY <1>1
  <2> QED
    BY <2>2, <2>3 DEF Text
<1> QED
  BY <1>1, <1>5, <1>6, <1>8, <1>9
-----------------------------------------------------------------------------
(* Every action leaves a sound buffer. *)

LineSound(cmd, len, cur) ==
    /\ cmd \in [Cells -> Chars \union {NUL}]
    /\ len \in Cells /\ cur \in 0..len
    /\ cmd[len] = NUL
    /\ \A i \in 0..len - 1 : cmd[i] \in Chars

HistorySound(h) ==
    /\ h \in Seq(Strings \ {<<>>}) /\ Len(h) <= HISTORY_DEPTH
    /\ \A i \in 1..Len(h) : Short(h[i])

LEMMA BufferParts ==
    BufferSound <=> /\ LineSound(command, length, cursor)
                    /\ HistorySound(m_history)
                    /\ Short(draft) /\ history_view \in 0..Len(m_history)
BY DEF BufferSound, LineSound, HistorySound

LEMMA BufferPartsNext ==
    BufferSound' <=> /\ LineSound(command', length', cursor')
                     /\ HistorySound(m_history')
                     /\ Short(draft') /\ history_view' \in 0..Len(m_history')
BY DEF BufferSound, LineSound, HistorySound

\* Cells are the indices from 0 on; there are at least two.
LEMMA CellsAreNat ==
    /\ COMMAND_BUFFER_SIZE \in Nat /\ HISTORY_DEPTH \in Nat
    /\ 0 \in Cells /\ 1 \in Cells
    /\ \A i \in Nat : i \in Cells <=> i < COMMAND_BUFFER_SIZE
    /\ \A i \in Cells : i \in Nat /\ i < COMMAND_BUFFER_SIZE
BY EditorAssumption DEF Cells

LEMMA EmptyIsShort == Short(<<>>)
BY CellsAreNat DEF Short, Strings

\* An empty prompt is a sound line.
LEMMA PromptIsSound ==
    ASSUME BufferSound, Prompt, HistorySound(m_history')
    PROVE  BufferSound'
<1>1. LineSound(command', length', cursor')
  BY BufferParts, CellsAreNat DEF LineSound, Prompt
<1>2. history_view' \in 0..Len(m_history')
  BY DEF Prompt, HistorySound
<1> QED
  BY <1>1, <1>2, EmptyIsShort, BufferPartsNext DEF Prompt

\* A character is inserted, the terminator moves up.
LEMMA InsertIsSound ==
    ASSUME LineSound(command, length, cursor), NEW c \in Chars, length + 1 < COMMAND_BUFFER_SIZE
    PROVE  LineSound([i \in Cells |-> IF i = cursor THEN c
                                      ELSE IF i \in cursor + 1..length THEN command[i - 1]
                                      ELSE IF i = length + 1 THEN NUL ELSE command[i]],
                     length + 1, cursor + 1)
<1> DEFINE cmd == [i \in Cells |-> IF i = cursor THEN c
                                   ELSE IF i \in cursor + 1..length THEN command[i - 1]
                                   ELSE IF i = length + 1 THEN NUL ELSE command[i]]
<1>1. length \in Nat /\ cursor \in Nat /\ cursor <= length /\ length + 1 \in Cells
  BY CellsAreNat DEF LineSound
<1>2. \A i \in cursor + 1..length : i - 1 \in 0..length - 1 /\ i - 1 \in Cells
  BY <1>1, CellsAreNat
<1>3. \A i \in cursor + 1..length : command[i - 1] \in Chars
  BY <1>2 DEF LineSound
<1>4. cmd \in [Cells -> Chars \union {NUL}]
  BY <1>3 DEF LineSound
<1>5. cmd[length + 1] = NUL
  BY <1>1
<1>6. ASSUME NEW i \in 0..length
      PROVE  cmd[i] \in Chars
  <2>1. i \in Cells /\ i \in Nat
    BY <1>1, CellsAreNat
  <2>2. CASE i < cursor
    <3>1. i \in 0..length - 1 /\ i # cursor /\ i \notin cursor + 1..length /\ i # length + 1
      BY <1>1, <2>1, <2>2
    <3> QED
      BY <2>1, <3>1 DEF LineSound
  <2>3. CASE i = cursor
    BY <2>1, <2>3
  <2>4. CASE cursor < i
    <3>1. i \in cursor + 1..length /\ i # cursor
      BY <1>1, <2>1, <2>4
    <3> QED
      BY <2>1, <3>1, <1>3
  <2> QED
    BY <1>1, <2>1, <2>2, <2>3, <2>4
<1>7. (length + 1) - 1 = length /\ cursor + 1 \in 0..length + 1
  BY <1>1
<1> QED
  BY <1>1, <1>4, <1>5, <1>6, <1>7 DEF LineSound

\* A character is erased, the terminator moves down.
LEMMA ClosedIsSound ==
    ASSUME LineSound(command, length, cursor),
           NEW at \in 0..length - 1, NEW cur \in 0..length - 1
    PROVE  LineSound(Closed(at), length - 1, cur)
<1>1. length \in Nat /\ length - 1 \in Nat /\ length \in Cells /\ length - 1 \in Cells /\ at \in Nat
  BY CellsAreNat DEF LineSound
<1>2. \A i \in at..length - 1 : i + 1 \in Cells /\ (i + 1 = length \/ i + 1 \in 0..length - 1)
  BY <1>1, CellsAreNat
<1>3. Closed(at) \in [Cells -> Chars \union {NUL}]
  BY <1>2 DEF Closed, LineSound
<1>4. Closed(at)[length - 1] = NUL
  <2>1. length - 1 \in at..length - 1 /\ (length - 1) + 1 = length
    BY <1>1
  <2> QED
    BY <1>1, <2>1 DEF Closed, LineSound
<1>5. ASSUME NEW i \in 0..(length - 1) - 1
      PROVE  Closed(at)[i] \in Chars
  <2>1. i \in Cells /\ i \in 0..length - 1 /\ i + 1 \in 0..length - 1
    BY <1>1, CellsAreNat
  <2> QED
    BY <2>1 DEF Closed, LineSound
<1> QED
  BY <1>1, <1>3, <1>4, <1>5 DEF LineSound

\* A copied line is sound and its own text.
LEMMA LoadIsSound ==
    ASSUME LineSound(command, length, cursor), NEW t, Short(t), load_line(t)
    PROVE  /\ LineSound(command', length', cursor')
           /\ Text(command', length') = t /\ cursor' = length'
<1>1. copy_string(t) = t /\ Len(t) \in Cells /\ Len(t) \in Nat
  BY CopyIsWhole, CellsAreNat
<1>2. command' = Written(command, t) /\ length' = Len(t) /\ cursor' = Len(t)
  BY <1>1 DEF load_line
<1>3. command \in [Cells -> Chars \union {NUL}]
  BY DEF LineSound
<1>4. cursor' \in 0..length'
  BY <1>1, <1>2
<1> QED
  BY <1>2, <1>3, <1>4, WrittenIsSound DEF LineSound

LEMMA NextLine ==
    ASSUME NEW n \in Nat, NEW i \in 1..n, i # n
    PROVE  i + 1 \in 1..n
OBVIOUS

LEMMA LineIsShort ==
    ASSUME BufferSound
    PROVE  /\ c_str(command) = Text(command, length)
           /\ Short(Text(command, length)) /\ Len(Text(command, length)) = length
           /\ \A i \in 1..length : Text(command, length)[i] = command[i - 1]
<1>1. LineSound(command, length, cursor)
  BY BufferParts
<1> QED
  BY <1>1, CStringIsText, TextIsShort DEF LineSound

\* The newest line goes last; the oldest makes room for it.
LEMMA AddedIsSound ==
    ASSUME NEW h, HistorySound(h), NEW t, Short(t), t # <<>>
    PROVE  /\ Len(h) < HISTORY_DEPTH => HistorySound(Append(h, t))
           /\ ~(Len(h) < HISTORY_DEPTH) => HistorySound(Append(Tail(h), t))
<1> DEFINE S == Strings \ {<<>>}
<1>1. h \in Seq(S) /\ t \in S /\ Len(h) \in Nat /\ Len(h) <= HISTORY_DEPTH
  BY DEF HistorySound, Short
<1>2. ASSUME Len(h) < HISTORY_DEPTH
      PROVE  HistorySound(Append(h, t))
  <2>1. Append(h, t) \in Seq(S) /\ Len(Append(h, t)) = Len(h) + 1
    BY <1>1
  <2>2. \A i \in 1..Len(h) + 1 : Append(h, t)[i] = IF i = Len(h) + 1 THEN t ELSE h[i]
    BY <1>1
  <2>3. \A i \in 1..Len(h) + 1 : i = Len(h) + 1 \/ i \in 1..Len(h)
    BY <1>1
  <2>4. Len(h) + 1 <= HISTORY_DEPTH
    BY <1>1, <1>2, CellsAreNat
  <2> QED
    BY <2>1, <2>2, <2>3, <2>4 DEF HistorySound
<1>3. ASSUME ~(Len(h) < HISTORY_DEPTH)
      PROVE  HistorySound(Append(Tail(h), t))
  <2>1. Len(h) = HISTORY_DEPTH /\ h # <<>>
    BY <1>1, <1>3, EditorAssumption
  <2> DEFINE T == Tail(h)
  <2>2. T \in Seq(S) /\ Len(T) \in Nat /\ Len(h) = Len(T) + 1
    BY <1>1, <2>1
  <2>3. \A i \in 1..Len(T) : i + 1 \in 1..Len(h) /\ T[i] = h[i + 1]
    BY <1>1, <2>1, <2>2
  <2> HIDE DEF T
  <2>4. Append(T, t) \in Seq(S) /\ Len(Append(T, t)) = Len(h)
    BY <1>1, <2>2
  <2>5. \A i \in 1..Len(T) + 1 : Append(T, t)[i] = IF i = Len(T) + 1 THEN t ELSE T[i]
    BY <1>1, <2>2
  <2>6. \A i \in 1..Len(T) + 1 : i = Len(T) + 1 \/ i \in 1..Len(T)
    BY <2>2
  <2> HIDE DEF S
  <2>7. \A i \in 1..Len(h) : Short(Append(T, t)[i])
    BY <2>2, <2>3, <2>5, <2>6 DEF HistorySound
  <2> QED
    BY <1>1, <2>4, <2>7 DEF HistorySound, S, T
<1> QED
  BY <1>2, <1>3

LEMMA HistoryIsSound ==
    ASSUME BufferSound, add_to_history(c_str(command))
    PROVE  HistorySound(m_history')
<1>1. HistorySound(m_history)
  BY BufferParts
<1> DEFINE t == Text(command, length)
<1>2. c_str(command) = t /\ Short(t) /\ copy_string(t) = t
  BY LineIsShort, CopyIsWhole
<1> HIDE DEF t
<1>3. CASE t = <<>> \/ (m_history # <<>> /\ m_history[Len(m_history)] = t)
  BY <1>1, <1>2, <1>3 DEF add_to_history
<1>4. CASE ~(t = <<>> \/ (m_history # <<>> /\ m_history[Len(m_history)] = t))
  BY <1>1, <1>2, <1>4, AddedIsSound DEF add_to_history
<1> QED
  BY <1>3, <1>4

\* The completed line fits the buffer: it is cut to the room there is.
LEMMA CompletedIsSound ==
    ASSUME LineSound(command, length, cursor), NEW w \in Words, NEW n \in 0..Len(w)
    PROVE  /\ Short([i \in 1..Room(n) |-> w[i]])
           /\ Len([i \in 1..Room(n) |-> w[i]]) = Room(n)
           /\ LineSound(Written(command, [i \in 1..Room(n) |-> w[i]]), Room(n), Room(n))
           /\ Text(Written(command, [i \in 1..Room(n) |-> w[i]]), Room(n))
                = [i \in 1..Room(n) |-> w[i]]
<1> DEFINE t == [i \in 1..Room(n) |-> w[i]]
<1>1. w \in Seq(Chars) /\ n \in Nat /\ Len(w) \in Nat
  BY EditorAssumption
<1>2. Room(n) \in Nat /\ Room(n) <= n /\ Room(n) < COMMAND_BUFFER_SIZE
  BY <1>1, EditorAssumption DEF Room
<1>3. \A i \in 1..Room(n) : w[i] \in Chars
  BY <1>1, <1>2
<1>4. t \in Seq(Chars) /\ Len(t) = Room(n)
  BY <1>2, <1>3
<1>5. Short(t)
  BY <1>2, <1>4 DEF Short, Strings
<1> HIDE DEF t
<1>6. LineSound(Written(command, t), Room(n), Room(n))
  <2>1. Room(n) \in 0..Room(n)
    BY <1>2
  <2> QED
    BY <2>1, <1>4, <1>5, WrittenIsSound DEF LineSound
<1>7. Text(Written(command, t), Room(n)) = t
  BY <1>4, <1>5, WrittenIsSound DEF LineSound
<1> QED
  BY <1>4, <1>5, <1>6, <1>7 DEF t

THEOREM BufferInit == LInit => BufferSound
<1> SUFFICES ASSUME LInit PROVE BufferSound
  OBVIOUS
<1>1. LineSound(command, length, cursor)
  BY CellsAreNat DEF LInit, LineSound
<1>2. HistorySound(m_history)
  BY CellsAreNat DEF LInit, HistorySound
<1> QED
  BY <1>1, <1>2, EmptyIsShort, BufferParts DEF LInit

\* BufferSound is inductive.
LEMMA BufferStep ==
    ASSUME BufferSound, [LNext]_lvars
    PROVE  BufferSound'
<1> USE DEF Plain, Sequence, Code, Long
<1>0. /\ LineSound(command, length, cursor) /\ HistorySound(m_history)
      /\ Short(draft) /\ history_view \in 0..Len(m_history) /\ Len(m_history) \in Nat
      /\ length \in Nat /\ cursor \in Nat /\ cursor <= length
  BY BufferParts, CellsAreNat DEF LineSound, HistorySound
<1>1. ASSUME UNCHANGED <<lineVars, viewVars, m_history>>
      PROVE  BufferSound'
  BY <1>1 DEF BufferSound, lineVars, viewVars
<1>2. ASSUME UNCHANGED <<command, length, viewVars, m_history>>, cursor' \in 0..length
      PROVE  BufferSound'
  BY <1>2 DEF BufferSound, viewVars
<1>3. ASSUME NotBrowsing, UNCHANGED m_history, LineSound(command', length', cursor')
      PROVE  BufferSound'
  <2>1. history_view' \in 0..Len(m_history')
    BY <1>0, <1>3 DEF NotBrowsing
  <2> QED
    BY <1>0, <1>3, <2>1, BufferPartsNext DEF NotBrowsing
<1>4. CASE UNCHANGED lvars
  BY <1>4, <1>1 DEF lvars
<1>5. CASE IgnoredLf \/ CtrlL \/ Ignored \/ Esc \/ EscapePrefix \/ EscapeCode \/ NoTilde
  BY <1>5, <1>1 DEF IgnoredLf, CtrlL, Ignored, Esc, EscapePrefix, EscapeCode, NoTilde, editorSame
<1>6. ASSUME NEW cr \in BOOLEAN, Submit(cr)
      PROVE  BufferSound'
  BY <1>6, HistoryIsSound, PromptIsSound DEF Submit
<1>7. CASE CtrlC
  BY <1>7, <1>0, PromptIsSound DEF CtrlC
<1>8. CASE Backspace
  <2>1. cursor - 1 \in 0..length - 1
    BY <1>0, <1>8 DEF Backspace
  <2>2. LineSound(command', length', cursor')
    BY <1>0, <1>8, <2>1, ClosedIsSound DEF Backspace
  <2> QED
    BY <1>3, <1>8, <2>2 DEF Backspace
<1>9. CASE Tab
  <2>1. CASE UNCHANGED lineVars
    BY <1>0, <1>3, <1>9, <2>1 DEF Tab, lineVars
  <2>2. CASE ~ UNCHANGED lineVars
    <3>1. PICK w \in Matches : \E n \in 0..Len(w) :
              /\ command' = Written(command, [i \in 1..Room(n) |-> w[i]])
              /\ length' = Room(n) /\ cursor' = Room(n)
      BY <1>9, <2>2 DEF Tab
    <3>2. w \in Words
      BY DEF Matches
    <3>3. LineSound(command', length', cursor')
      BY <1>0, <3>1, <3>2, CompletedIsSound
    <3> QED
      BY <1>3, <1>9, <3>3 DEF Tab
  <2> QED
    BY <2>1, <2>2
<1>10. ASSUME NEW c \in Chars, Printable(c)
       PROVE  BufferSound'
  <2>1. LineSound(command', length', cursor')
    BY <1>0, <1>10, InsertIsSound DEF Printable
  <2> QED
    BY <1>3, <1>10, <2>1 DEF Printable
<1>11. CASE history_up
  <2>1. history_view \in 1..Len(m_history) /\ history_view - 1 \in 0..Len(m_history)
    BY <1>0, <1>11 DEF history_up
  <2>2. LineSound(command', length', cursor')
    BY <1>0, <1>11, <2>1, LoadIsSound DEF history_up, HistorySound
  <2>3. Short(draft')
    BY <1>0, <1>11, LineIsShort, CopyIsWhole DEF history_up
  <2> QED
    BY <1>0, <1>11, <2>1, <2>2, <2>3, BufferPartsNext DEF history_up
<1>12. CASE history_down
  <2>1. history_view' \in 1..Len(m_history) /\ history_view' \in 0..Len(m_history)
    BY <1>0, <1>12 DEF history_down
  <2>2. history_view' # Len(m_history) => history_view' + 1 \in 1..Len(m_history)
    BY <1>0, <2>1, NextLine
  <2>3. UNCHANGED <<m_history, draft>>
    BY <1>12 DEF history_down
  <2>4. LineSound(command', length', cursor')
    <3> DEFINE t == IF history_view' = Len(m_history) THEN draft ELSE m_history[history_view' + 1]
    <3>1. Short(t)
      BY <1>0, <2>2 DEF HistorySound
    <3>2. load_line(t)
      BY <1>12 DEF history_down
    <3> HIDE DEF t
    <3> QED
      BY <1>0, <3>1, <3>2, LoadIsSound
  <2> QED
    BY <1>0, <2>1, <2>3, <2>4, BufferPartsNext
<1>13. CASE Right
  BY <1>0, <1>2, <1>13 DEF Right
<1>14. CASE Left
  BY <1>0, <1>2, <1>14 DEF Left
<1>15. CASE Home
  BY <1>0, <1>2, <1>15 DEF Home
<1>16. CASE End
  BY <1>0, <1>2, <1>16 DEF End
<1>17. CASE Delete
  <2>1. CASE ~(cursor < length)
    BY <1>1, <1>17, <2>1 DEF Delete
  <2>2. CASE cursor < length
    <3>1. cursor \in 0..length - 1
      BY <1>0, <2>2
    <3>2. LineSound(command', length', cursor')
      BY <1>0, <1>17, <2>2, <3>1, ClosedIsSound DEF Delete
    <3> QED
      BY <1>0, <1>17, <3>2, BufferPartsNext DEF Delete, viewVars
  <2> QED
    BY <2>1, <2>2
<1> QED
  BY <1>4, <1>5, <1>6, <1>7, <1>8, <1>9, <1>10, <1>11, <1>12, <1>13, <1>14, <1>15, <1>16, <1>17
     DEF LNext

\* The C string, the cursor, the draft and the history are sound for every
\* buffer and history size and after every sequence of keys.
THEOREM BufferIsSound == LineEditorSpec => []BufferSound
<1>1. BufferSound /\ [LNext]_lvars => BufferSound'
  BY BufferStep
<1> QED
  BY BufferInit, <1>1, PTL DEF LineEditorSpec

-----------------------------------------------------------------------------
(* The terminal shows the line, and no edit is lost. *)

LEMMA Positions ==
    ASSUME BufferSound
    PROVE  /\ length \in Nat /\ cursor \in Nat /\ cursor <= length
           /\ Len(m_history) \in Nat /\ history_view \in 0..Len(m_history)
BY CellsAreNat DEF BufferSound

LEMMA BackAgain ==
    ASSUME NEW n \in Nat, NEW k \in Nat
    PROVE  n - (n - k) = k
OBVIOUS

\* A sound line drawn anew is the line on screen.
LEMMA RedrawShows ==
    ASSUME BufferSound', redraw
    PROVE  ScreenShowsLine'
<1>1. length' \in Nat /\ cursor' \in Nat
  BY CellsAreNat DEF BufferSound
<1>2. length' - (length' - cursor') = cursor'
  BY <1>1, BackAgain
<1>3. screen' = Text(command', length') /\ column' = cursor'
  BY <1>2 DEF redraw
<1> QED
  BY <1>3 DEF ScreenShowsLine

\* Printing the character that is already there moves the cursor only.
LEMMA PrintedAgain ==
    ASSUME BufferSound, cursor < length
    PROVE  Printed(Text(command, length), cursor, command[cursor]) = Text(command, length)
<1> DEFINE t == Text(command, length)
<1>1. Len(t) = length /\ t \in Seq(Chars) /\ \A i \in 1..length : t[i] = command[i - 1]
  BY LineIsShort DEF Short, Strings
<1>2. cursor \in Nat /\ length \in Nat /\ (cursor + 1) - 1 = cursor
  BY Positions
<1>3. t = [i \in 1..length |-> t[i]]
  BY <1>1
<1> HIDE DEF t
<1>4. \A i \in 1..length : (IF i = cursor + 1 THEN command[cursor] ELSE t[i]) = t[i]
  BY <1>1, <1>2
<1>5. Printed(t, cursor, command[cursor])
        = [i \in 1..length |-> IF i = cursor + 1 THEN command[cursor] ELSE t[i]]
  BY <1>1 DEF Printed
<1> QED
  BY <1>3, <1>4, <1>5 DEF t

\* So does printing all of them up to the end.
LEMMA ReprintedAgain ==
    ASSUME BufferSound
    PROVE  LET rest == length - cursor
               s == Text(command, length) IN
           [i \in 1..(IF cursor + rest < Len(s) THEN Len(s) ELSE cursor + rest) |->
                IF i \in cursor + 1..cursor + rest THEN command[cursor + (i - cursor - 1)]
                ELSE s[i]] = s
<1> DEFINE t == Text(command, length)
<1>1. Len(t) = length /\ t \in Seq(Chars) /\ \A i \in 1..length : t[i] = command[i - 1]
  BY LineIsShort DEF Short, Strings
<1>2. cursor \in Nat /\ length \in Nat /\ cursor + (length - cursor) = length
  BY Positions
<1>3. t = [i \in 1..length |-> t[i]]
  BY <1>1
<1> HIDE DEF t
<1>4. \A i \in 1..length : cursor + (i - cursor - 1) = i - 1
  BY <1>2
<1>5. \A i \in 1..length :
        (IF i \in cursor + 1..length THEN command[cursor + (i - cursor - 1)] ELSE t[i]) = t[i]
  BY <1>1, <1>4
<1> QED
  BY <1>1, <1>2, <1>3, <1>5 DEF t

LEMMA ScreenStep ==
    ASSUME BufferSound, BufferSound', ScreenShowsLine, [LNext]_lvars
    PROVE  ScreenShowsLine'
<1> USE DEF Plain, Sequence, Code, Long
<1>0. /\ length \in Nat /\ cursor \in Nat /\ cursor <= length
      /\ screen = Text(command, length) /\ column = cursor
  BY Positions DEF ScreenShowsLine
<1>1. ASSUME UNCHANGED <<lineVars, termVars>>
      PROVE  ScreenShowsLine'
  BY <1>1 DEF ScreenShowsLine, lineVars, termVars
<1>2. ASSUME UNCHANGED <<command, length>>, UNCHANGED screen, column' = cursor'
      PROVE  ScreenShowsLine'
  BY <1>2 DEF ScreenShowsLine
<1>3. ASSUME Prompt
      PROVE  ScreenShowsLine'
  BY <1>3 DEF Prompt, ScreenShowsLine, Text
<1>4. CASE UNCHANGED lvars
  BY <1>4, <1>1 DEF lvars
<1>5. CASE IgnoredLf \/ Ignored \/ Esc \/ EscapePrefix \/ EscapeCode \/ NoTilde
  BY <1>5, <1>1 DEF IgnoredLf, Ignored, Esc, EscapePrefix, EscapeCode, NoTilde, editorSame
<1>6. CASE (\E cr \in BOOLEAN : Submit(cr)) \/ CtrlC
  BY <1>6, <1>3 DEF Submit, CtrlC
<1>7. CASE CtrlL \/ Backspace \/ (\E c \in Chars : Printable(c)) \/ history_up \/ history_down
  BY <1>7, RedrawShows DEF CtrlL, Backspace, Printable, history_up, history_down, load_line
<1>8. CASE Tab
  BY <1>8, <1>1, RedrawShows DEF Tab
<1>9. CASE Delete
  BY <1>9, <1>1, RedrawShows DEF Delete
<1>10. CASE Right
  <2>1. screen' = Printed(screen, column, command[cursor]) /\ column' = column + 1 /\ cursor' = cursor + 1
    BY <1>10 DEF Right
  <2>2. cursor < length /\ UNCHANGED <<command, length>>
    BY <1>10 DEF Right
  <2>3. UNCHANGED screen
    BY <1>0, <2>1, <2>2, PrintedAgain
  <2> QED
    BY <1>0, <1>2, <2>1, <2>2, <2>3
<1>11. CASE Left
  BY <1>0, <1>2, <1>11 DEF Left
<1>12. CASE Home
  <2>1. column' = 0
    BY <1>0, <1>12 DEF Home
  <2> QED
    BY <1>2, <1>12, <2>1 DEF Home
<1>13. CASE End
  <2>1. UNCHANGED screen
    BY <1>0, <1>13, ReprintedAgain DEF End
  <2>2. column' = length /\ cursor' = length
    BY <1>0, <1>13 DEF End
  <2> QED
    BY <1>2, <1>13, <2>1, <2>2 DEF End
<1> QED
  BY <1>4, <1>5, <1>6, <1>7, <1>8, <1>9, <1>10, <1>11, <1>12, <1>13 DEF LNext

\* After every key the terminal shows the line and its cursor.
THEOREM ScreenIsTheLine == LineEditorSpec => []ScreenShowsLine
<1>1. LInit => ScreenShowsLine
  BY DEF LInit, ScreenShowsLine, Text
<1>2. BufferSound /\ BufferSound' /\ ScreenShowsLine /\ [LNext]_lvars => ScreenShowsLine'
  BY ScreenStep
<1> QED
  BY <1>1, <1>2, BufferIsSound, PTL DEF LineEditorSpec

LEMMA EditStep ==
    ASSUME BufferSound, BufferSound', EditIsKept, [LNext]_lvars
    PROVE  EditIsKept'
<1> USE DEF Plain, Sequence, Code, Long
<1>0. /\ Len(m_history) \in Nat /\ history_view \in 0..Len(m_history)
      /\ Short(draft)
      /\ c_str(command) = Text(command, length) /\ Short(Text(command, length))
      /\ LineSound(command, length, cursor)
  BY Positions, LineIsShort, BufferParts
<1>1. ASSUME UNCHANGED <<command, length, viewVars, m_history, edited>>
      PROVE  EditIsKept'
  BY <1>1 DEF EditIsKept, viewVars
<1>2. ASSUME NotBrowsing, UNCHANGED m_history, edited' = Text(command', length')
      PROVE  EditIsKept'
  BY <1>2 DEF EditIsKept, NotBrowsing
<1>3. ASSUME Prompt
      PROVE  EditIsKept'
  BY <1>3 DEF Prompt, EditIsKept, Text
<1>4. CASE UNCHANGED lvars
  BY <1>4, <1>1 DEF lvars, lineVars
<1>5. CASE IgnoredLf \/ CtrlL \/ Ignored \/ Esc \/ EscapePrefix \/ EscapeCode \/ NoTilde
  BY <1>5, <1>1
     DEF IgnoredLf, CtrlL, Ignored, Esc, EscapePrefix, EscapeCode, NoTilde, editorSame, lineVars
<1>6. CASE (\E cr \in BOOLEAN : Submit(cr)) \/ CtrlC
  BY <1>6, <1>3 DEF Submit, CtrlC
<1>7. CASE Backspace \/ (\E c \in Chars : Printable(c))
  BY <1>7, <1>2 DEF Backspace, Printable
<1>8. CASE Tab
  <2>1. NotBrowsing /\ UNCHANGED m_history
    BY <1>8 DEF Tab
  <2>2. CASE Text(command', length') # Text(command, length)
    BY <1>8, <1>2, <2>1, <2>2 DEF Tab
  <2>3. CASE /\ Text(command', length') = Text(command, length)
             /\ history_view # Len(m_history) /\ draft # Text(command, length)
    BY <1>8, <2>3 DEF Tab, EditIsKept
  <2>4. CASE /\ Text(command', length') = Text(command, length)
             /\ history_view = Len(m_history) \/ draft = Text(command, length)
    <3>1. UNCHANGED edited
      BY <1>8, <2>4 DEF Tab
    <3>2. edited # NUL => edited = Text(command, length)
      BY <2>4 DEF EditIsKept
    <3> QED
      BY <2>1, <2>4, <3>1, <3>2 DEF EditIsKept, NotBrowsing
  <2> QED
    BY <2>2, <2>3, <2>4
<1>9. CASE Right \/ Left \/ Home \/ End
  BY <1>9, <1>1 DEF Right, Left, Home, End
<1>10. CASE Delete
  <2>1. CASE cursor < length
    BY <1>10, <2>1 DEF Delete, EditIsKept, viewVars
  <2>2. CASE ~(cursor < length)
    BY <1>10, <1>1, <2>2 DEF Delete, lineVars
  <2> QED
    BY <2>1, <2>2
<1>11. CASE history_up
  <2>1. /\ history_view' # Len(m_history') /\ UNCHANGED <<m_history, edited>>
    BY <1>0, <1>11 DEF history_up
  <2>2. copy_string(c_str(command)) = Text(command, length)
    BY <1>0, CopyIsWhole
  <2>3. edited' # NUL => edited' = draft'
    BY <1>11, <2>1, <2>2 DEF history_up, EditIsKept
  <2> QED
    BY <2>1, <2>3 DEF EditIsKept
<1>12. CASE history_down
  <2>1. (edited # NUL => edited = draft) /\ UNCHANGED <<m_history, draft, edited>>
    BY <1>0, <1>12 DEF history_down, EditIsKept
  <2>2. CASE history_view' = Len(m_history)
    <3>1. load_line(draft)
      BY <1>12, <2>2 DEF history_down
    <3>2. Text(command', length') = draft
      BY <1>0, <3>1, LoadIsSound
    <3> QED
      BY <2>1, <2>2, <3>2 DEF EditIsKept
  <2>3. CASE history_view' # Len(m_history)
    BY <2>1, <2>3 DEF EditIsKept
  <2> QED
    BY <2>2, <2>3
<1> QED
  BY <1>4, <1>5, <1>6, <1>7, <1>8, <1>9, <1>10, <1>11, <1>12 DEF LNext

\* The line the user edited last is on screen or in the draft, however the user
\* walks through the history, until it is entered, cancelled or edited again, or
\* until a Tab on a line of the history finds nothing to complete.
THEOREM EditsAreKept == LineEditorSpec => []EditIsKept
<1>1. LInit => EditIsKept
  BY DEF LInit, EditIsKept, Text
<1>2. BufferSound /\ BufferSound' /\ EditIsKept /\ [LNext]_lvars => EditIsKept'
  BY EditStep
<1> QED
  BY <1>1, <1>2, BufferIsSound, PTL DEF LineEditorSpec

-----------------------------------------------------------------------------
(* The editor implements EditableLine. *)

LEMMA TypedText ==
    ASSUME BufferSound, NEW c \in Chars, Printable(c)
    PROVE  Line!Type(c)
<1> DEFINE t == Text(command, length)
<1>0. /\ length \in Nat /\ cursor \in Nat /\ cursor <= length
      /\ COMMAND_BUFFER_SIZE \in Nat /\ length + 1 < COMMAND_BUFFER_SIZE
  BY Positions, CellsAreNat DEF Printable
<1>1. Len(t) = length /\ \A i \in 1..length : t[i] = command[i - 1]
  BY LineIsShort
<1>2. \A i \in 1..length + 1 : i - 1 \in Cells
  BY <1>0, CellsAreNat
<1>3. ASSUME NEW i \in 1..length + 1
      PROVE  command'[i - 1]
               = IF i <= cursor THEN t[i] ELSE IF i = cursor + 1 THEN c ELSE t[i - 1]
  <2>1. command'[i - 1] = IF i - 1 = cursor THEN c
                          ELSE IF i - 1 \in cursor + 1..length THEN command[(i - 1) - 1]
                          ELSE IF i - 1 = length + 1 THEN NUL ELSE command[i - 1]
    BY <1>2 DEF Printable
  <2>2. CASE i <= cursor
    <3>1. i - 1 # cursor /\ i - 1 \notin cursor + 1..length /\ i - 1 # length + 1 /\ i \in 1..length
      BY <1>0, <2>2
    <3> QED
      BY <1>1, <2>1, <2>2, <3>1
  <2>3. CASE i = cursor + 1
    <3>1. i - 1 = cursor /\ ~(i <= cursor)
      BY <1>0, <2>3
    <3> QED
      BY <2>1, <2>3, <3>1
  <2>4. CASE ~(i <= cursor) /\ i # cursor + 1
    <3>1. i - 1 # cursor /\ i - 1 \in cursor + 1..length /\ i - 1 \in 1..length
      BY <1>0, <2>4
    <3> QED
      BY <1>1, <2>1, <2>4, <3>1
  <2> QED
    BY <2>2, <2>3, <2>4
<1>4. Text(command', length')
        = [i \in 1..length + 1 |->
             IF i <= cursor THEN t[i] ELSE IF i = cursor + 1 THEN c ELSE t[i - 1]]
  <2>1. length' = length + 1
    BY DEF Printable
  <2> HIDE DEF t
  <2> QED
    BY <1>3, <2>1 DEF Text
<1>5. length < COMMAND_BUFFER_SIZE - 1
  BY <1>0
<1>6. cursor' = cursor + 1 /\ UNCHANGED <<m_history, draft>>
  BY DEF Printable, NotBrowsing
<1> QED
  BY <1>1, <1>4, <1>5, <1>6 DEF Line!Type

LEMMA ErasedText ==
    ASSUME BufferSound, NEW at \in 0..length - 1,
           command' = Closed(at), length' = length - 1,
           cursor' = IF at + 1 = cursor THEN cursor - 1 ELSE cursor,
           at + 1 \in {cursor, cursor + 1},
           UNCHANGED <<m_history, draft>>
    PROVE  Line!Erase
<1> DEFINE t == Text(command, length)
           e == at + 1
<1>0. length \in Nat /\ cursor \in Nat /\ e \in 1..length /\ at \in Nat /\ at = e - 1
  BY Positions
<1>1. Len(t) = length /\ \A i \in 1..length : t[i] = command[i - 1]
  BY LineIsShort
<1>2. length \in Cells
  BY DEF BufferSound
<1>3. ASSUME NEW j \in 1..length - 1
      PROVE  command'[j - 1] = IF j < e THEN t[j] ELSE t[j + 1]
  <2>1. j - 1 \in Cells /\ j \in 1..length /\ j + 1 \in 1..length /\ (j + 1) - 1 = j /\ (j - 1) + 1 = j
    BY <1>0, <1>2, CellsAreNat
  <2>2. command'[j - 1] = IF j - 1 \in at..length - 1 THEN command[j] ELSE command[j - 1]
    BY <2>1 DEF Closed
  <2>3. j - 1 \in at..length - 1 <=> ~(j < e)
    BY <1>0
  <2> QED
    BY <1>1, <2>1, <2>2, <2>3
<1>4. Text(command', length') = [j \in 1..length - 1 |-> IF j < e THEN t[j] ELSE t[j + 1]]
  BY <1>3 DEF Text
<1>5. e \in {cursor, cursor + 1} \intersect (1..Len(t))
  BY <1>0, <1>1
<1>6. cursor' = IF e = cursor THEN cursor - 1 ELSE cursor
  OBVIOUS
<1> HIDE DEF e
<1> QED
  BY <1>1, <1>4, <1>5, <1>6 DEF Line!Erase

LEMMA EnteredText ==
    ASSUME BufferSound, NEW cr \in BOOLEAN, Submit(cr)
    PROVE  Line!Enter
<1> DEFINE t == Text(command, length)
<1>1. c_str(command) = t /\ copy_string(t) = t
  BY LineIsShort, CopyIsWhole
<1>2. m_history' = Line!Remembered(m_history, t)
  BY <1>1 DEF Submit, add_to_history, Line!Remembered
<1>3. Text(command', length') = <<>> /\ cursor' = 0 /\ draft' = <<>>
  BY DEF Submit, Prompt, Text
<1> QED
  BY <1>2, <1>3 DEF Line!Enter, Line!Fresh

\* The room of a buffer grows with what is put there.
LEMMA RoomGrows ==
    ASSUME NEW k \in Cells, NEW n \in Nat, k < n
    PROVE  Room(n) \in 1..COMMAND_BUFFER_SIZE - 1 /\ k <= Room(n) /\ Room(n) <= n
BY EditorAssumption DEF Room, Cells

LEMMA CompletedText ==
    ASSUME BufferSound, Tab, ~ UNCHANGED lineVars
    PROVE  Line!Complete
<1> DEFINE t == Text(command, length)
<1>0. length \in Cells /\ length \in Nat /\ LineSound(command, length, cursor)
  BY BufferParts, Positions DEF LineSound
<1>1. Len(t) = length /\ \A i \in 1..length : t[i] = command[i - 1]
  BY LineIsShort
<1>2. \A w \in Words : Line!Begins(t, w) <=> w \in Matches
  BY <1>1 DEF Line!Begins, Matches, starts_with
<1>3. PICK w \in Matches : \E n \in 0..Len(w) :
          /\ Target(w, n) /\ n > length
          /\ command' = Written(command, [i \in 1..Room(n) |-> w[i]])
          /\ length' = Room(n) /\ cursor' = Room(n)
  BY DEF Tab
<1>4. PICK n \in 0..Len(w) :
          /\ Target(w, n) /\ n > length
          /\ command' = Written(command, [i \in 1..Room(n) |-> w[i]])
          /\ length' = Room(n) /\ cursor' = Room(n)
  BY <1>3
<1>5. w \in Words /\ w \in Seq(Chars) /\ Len(w) \in Nat /\ n \in Nat /\ n <= Len(w)
  BY EditorAssumption DEF Matches
<1> DEFINE new == [i \in 1..Room(n) |-> w[i]]
<1>6. Room(n) \in 1..COMMAND_BUFFER_SIZE - 1 /\ length <= Room(n) /\ Room(n) <= n /\ Room(n) <= Len(w)
  <2>1. Room(n) \in 1..COMMAND_BUFFER_SIZE - 1 /\ length <= Room(n) /\ Room(n) <= n
    BY <1>0, <1>4, <1>5, RoomGrows
  <2>2. Room(n) \in Nat
    BY <2>1, EditorAssumption
  <2> QED
    BY <1>5, <2>1, <2>2
<1>7. Len(new) = Room(n) /\ Text(command', length') = new
  BY <1>0, <1>4, <1>5, CompletedIsSound
<1>8. ASSUME NEW v \in Words, Line!Begins(t, v)
      PROVE  Line!Begins(new, v)
  <2>1. v \in Matches /\ Len(v) \in Nat
    BY <1>2, <1>8, EditorAssumption
  <2>2. n <= Len(v) /\ \A i \in 1..n : v[i] = w[i]
    BY <1>4, <2>1 DEF Target
  <2>3. Room(n) \in Nat
    BY <1>6, EditorAssumption
  <2>4. Room(n) <= Len(v) /\ \A i \in 1..Room(n) : v[i] = w[i]
    BY <1>5, <1>6, <2>1, <2>2, <2>3
  <2> QED
    BY <1>7, <2>4 DEF Line!Begins
<1>9. cursor = Len(t) /\ UNCHANGED <<m_history, draft>>
  BY <1>1 DEF Tab, NotBrowsing
<1>10. cursor' = Len(Text(command', length'))
  BY <1>4, <1>7
<1>11. Line!Begins(t, w)
  BY <1>2, <1>5
<1> HIDE DEF t
<1> QED
  BY <1>1, <1>5, <1>6, <1>7, <1>8, <1>9, <1>10, <1>11 DEF Line!Complete, t

LEMMA RecalledUp ==
    ASSUME BufferSound, history_up
    PROVE  Line!Recall
<1>0. LineSound(command, length, cursor) /\ history_view \in 1..Len(m_history)
  BY Positions, BufferParts DEF history_up
<1>1. Short(m_history[history_view])
  BY <1>0 DEF BufferSound
<1>2. Text(command', length') = m_history[history_view] /\ cursor' = length'
  BY <1>0, <1>1, LoadIsSound DEF history_up
<1>3. length' = Len(m_history[history_view])
  BY <1>1, CopyIsWhole DEF history_up, load_line
<1>4. draft' \in {draft, Text(command, length)}
  BY LineIsShort, CopyIsWhole DEF history_up
<1>5. UNCHANGED m_history
  BY DEF history_up
<1> QED
  BY <1>0, <1>2, <1>3, <1>4, <1>5 DEF Line!Recall

LEMMA RecalledDown ==
    ASSUME BufferSound, history_down
    PROVE  Line!Recall
<1> DEFINE s == IF history_view' = Len(m_history) THEN draft ELSE m_history[history_view' + 1]
<1>0. LineSound(command, length, cursor) /\ Short(draft) /\ HistorySound(m_history)
  BY BufferParts
<1>1. history_view' \in 1..Len(m_history) /\ Len(m_history) \in Nat
  BY Positions DEF history_down
<1>2. s = draft \/ \E i \in 1..Len(m_history) : s = m_history[i]
  BY <1>1, NextLine
<1>3. Short(s)
  BY <1>0, <1>2 DEF HistorySound
<1>4. load_line(s) /\ UNCHANGED <<m_history, draft>>
  BY DEF history_down
<1> HIDE DEF s
<1>5. Text(command', length') = s /\ cursor' = length'
  BY <1>0, <1>3, <1>4, LoadIsSound
<1>6. length' = Len(s)
  BY <1>3, <1>4, CopyIsWhole DEF load_line
<1> QED
  BY <1>2, <1>4, <1>5, <1>6 DEF Line!Recall

\* Every key is a step of the abstract editor or leaves its state alone.
LEMMA LineStep ==
    ASSUME BufferSound, [LNext]_lvars
    PROVE  [Line!ENext]_(Line!evars)
<1> USE DEF Plain, Sequence, Code, Long
<1>0. /\ length \in Nat /\ cursor \in Nat /\ cursor <= length
      /\ Len(Text(command, length)) = length
  BY Positions, LineIsShort
<1>1. ASSUME UNCHANGED <<lineVars, draft, m_history>>
      PROVE  UNCHANGED Line!evars
  BY <1>1 DEF Line!evars, lineVars
<1>2. ASSUME cursor' \in 0..length, UNCHANGED <<command, length, viewVars, m_history>>
      PROVE  Line!ENext
  BY <1>0, <1>2 DEF Line!ENext, Line!Move, viewVars
<1>3. CASE UNCHANGED lvars
  BY <1>3, <1>1 DEF lvars, viewVars
<1>4. CASE IgnoredLf \/ CtrlL \/ Ignored \/ Esc \/ EscapePrefix \/ EscapeCode \/ NoTilde
  BY <1>4, <1>1
     DEF IgnoredLf, CtrlL, Ignored, Esc, EscapePrefix, EscapeCode, NoTilde, editorSame, viewVars
<1>5. ASSUME NEW cr \in BOOLEAN, Submit(cr)
      PROVE  Line!ENext
  BY <1>5, EnteredText DEF Line!ENext
<1>6. CASE CtrlC
  <2>1. Text(command', length') = <<>> /\ cursor' = 0 /\ draft' = <<>> /\ UNCHANGED m_history
    BY <1>6 DEF CtrlC, Prompt, Text
  <2> QED
    BY <2>1 DEF Line!ENext, Line!Cancel, Line!Fresh
<1>7. CASE Backspace
  <2>1. cursor - 1 \in 0..length - 1 /\ (cursor - 1) + 1 = cursor
    BY <1>0, <1>7 DEF Backspace
  <2>2. Line!Erase
    BY <1>7, <2>1, ErasedText DEF Backspace, NotBrowsing
  <2> QED
    BY <2>2 DEF Line!ENext
<1>8. CASE Delete
  <2>1. CASE cursor < length
    <3>1. cursor \in 0..length - 1 /\ cursor + 1 # cursor
      BY <1>0, <2>1
    <3>2. Line!Erase
      BY <1>8, <2>1, <3>1, ErasedText DEF Delete, viewVars
    <3> QED
      BY <3>2 DEF Line!ENext
  <2>2. CASE ~(cursor < length)
    BY <1>1, <1>8, <2>2 DEF Delete, viewVars
  <2> QED
    BY <2>1, <2>2
<1>9. CASE Tab
  <2>1. CASE UNCHANGED lineVars
    BY <1>1, <1>9, <2>1 DEF Tab, NotBrowsing
  <2>2. CASE ~ UNCHANGED lineVars
    BY <1>9, <2>2, CompletedText DEF Line!ENext
  <2> QED
    BY <2>1, <2>2
<1>10. ASSUME NEW c \in Chars, Printable(c)
       PROVE  Line!ENext
  BY <1>10, TypedText DEF Line!ENext
<1>11. CASE history_up \/ history_down
  BY <1>11, RecalledUp, RecalledDown DEF Line!ENext
<1>12. CASE Right
  BY <1>0, <1>2, <1>12 DEF Right
<1>13. CASE Left
  BY <1>0, <1>2, <1>13 DEF Left
<1>14. CASE Home
  BY <1>0, <1>2, <1>14 DEF Home
<1>15. CASE End
  BY <1>0, <1>2, <1>15 DEF End
<1> QED
  BY <1>3, <1>4, <1>5, <1>6, <1>7, <1>8, <1>9, <1>10, <1>11, <1>12, <1>13, <1>14, <1>15 DEF LNext

\* The editor, with its buffer, escape sequences and terminal, does what
\* EditableLine promises, for every buffer size, depth, alphabet and word list.
THEOREM EditorImplementsLine == LineEditorSpec => ImplementsLine
<1>1. LInit => Line!EInit
  BY DEF LInit, Line!EInit, Text
<1>2. BufferSound /\ [LNext]_lvars => [Line!ENext]_(Line!evars)
  BY LineStep
<1> QED
  BY <1>1, <1>2, BufferIsSound, PTL DEF LineEditorSpec, ImplementsLine, Line!ESpec
=============================================================================
