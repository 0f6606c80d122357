----------------------------- MODULE LineEditor -----------------------------
(***************************************************************************)
(* The shell's LineEditor (uart_cli/src/shell/line_editor.cpp): the        *)
(* command buffer with its terminator, the cursor, history and draft, the  *)
(* escape sequences, and the terminal that shows it all.  One action per   *)
(* received character.                                                     *)
(*                                                                         *)
(* Strings that are only copied, compared and shown (history, draft, the   *)
(* words of the completion) are sequences; command is the array it is.     *)
(***************************************************************************)
EXTENDS Naturals, Sequences

CONSTANTS Chars,                  \* printable characters
          NUL,
          Words,                  \* m_completions
          COMMAND_BUFFER_SIZE, HISTORY_DEPTH

ASSUME EditorAssumption ==
    /\ COMMAND_BUFFER_SIZE \in Nat \ {0, 1} /\ HISTORY_DEPTH \in Nat \ {0}
    /\ NUL \notin Chars /\ Words \subseteq Seq(Chars) \ {<<>>}

VARIABLES
    command, length, cursor,      \* read_line()'s line
    history_view, draft,          \* m_history_count: the line is not from the history
    m_history, m_ignore_lf,
    escape,                       \* the part of an escape sequence received so far
    screen, column,               \* the terminal's line behind the prompt, its cursor
    edited                        \* ghost: the line as the user last left it by editing;
                                  \* NUL when a Tab has put it out of reach

lineVars == <<command, length, cursor>>
viewVars == <<history_view, draft>>
termVars == <<screen, column>>
lvars    == <<lineVars, viewVars, termVars, m_history, m_ignore_lf, escape, edited>>

Cells == 0..COMMAND_BUFFER_SIZE - 1
Text(cmd, len) == [i \in 1..len |-> cmd[i - 1]]
Room(n) == IF n < COMMAND_BUFFER_SIZE THEN n ELSE COMMAND_BUFFER_SIZE - 1

\* The C string in the buffer.
c_str(cmd) ==
    Text(cmd, CHOOSE n \in Cells : cmd[n] = NUL /\ \A i \in 0..n - 1 : cmd[i] # NUL)

copy_string(source) == [i \in 1..Room(Len(source)) |-> source[i]]

Written(cmd, text) ==
    [i \in Cells |-> IF i < Len(text) THEN text[i + 1]
                     ELSE IF i = Len(text) THEN NUL ELSE cmd[i]]

\* redraw(): the line anew, then a backspace for every character behind the cursor.
redraw == screen' = Text(command', length') /\ column' = length' - (length' - cursor')

NotBrowsing == history_view' = Len(m_history) /\ UNCHANGED draft

\* A printed character of the line replaces the one under the terminal's cursor.
Printed(s, col, c) ==
    [i \in 1..(IF col < Len(s) THEN Len(s) ELSE col + 1) |-> IF i = col + 1 THEN c ELSE s[i]]

\* read_line() is called again as soon as the shell has run the command.
Prompt ==
    /\ command' = [command EXCEPT ![0] = NUL] /\ length' = 0 /\ cursor' = 0
    /\ history_view' = Len(m_history') /\ draft' = <<>>
    /\ screen' = <<>> /\ column' = 0 /\ edited' = <<>>

LInit ==
    /\ command = [i \in Cells |-> NUL] /\ length = 0 /\ cursor = 0
    /\ history_view = 0 /\ draft = <<>> /\ m_history = <<>>
    /\ m_ignore_lf = FALSE /\ escape = <<>>
    /\ screen = <<>> /\ column = 0 /\ edited = <<>>

-----------------------------------------------------------------------------
(* Characters outside an escape sequence. *)

Plain == escape = <<>> /\ UNCHANGED escape

\* The second half of a CR LF.
IgnoredLf ==
    /\ Plain /\ m_ignore_lf
    /\ m_ignore_lf' = FALSE
    /\ UNCHANGED <<lineVars, viewVars, termVars, m_history, edited>>

add_to_history(text) ==
    m_history' =
        IF text = <<>> \/ (m_history # <<>> /\ m_history[Len(m_history)] = text) THEN m_history
        ELSE IF Len(m_history) < HISTORY_DEPTH THEN Append(m_history, copy_string(text))
        ELSE Append(Tail(m_history), copy_string(text))

\* CR, or a LF that is not ignored.
Submit(cr) ==
    /\ Plain /\ (cr \/ ~m_ignore_lf)
    /\ m_ignore_lf' = cr
    /\ add_to_history(c_str(command))
    /\ Prompt

CtrlC == Plain /\ m_ignore_lf' = FALSE /\ UNCHANGED m_history /\ Prompt

CtrlL ==
    /\ Plain /\ m_ignore_lf' = FALSE
    /\ UNCHANGED <<lineVars, viewVars, m_history, edited>>
    /\ redraw

\* What cannot be inserted: a control character, or any at a full buffer.
Ignored ==
    /\ Plain /\ m_ignore_lf' = FALSE
    /\ UNCHANGED <<lineVars, viewVars, termVars, m_history, edited>>

Printable(c) ==
    /\ Plain /\ m_ignore_lf' = FALSE
    /\ length + 1 < COMMAND_BUFFER_SIZE
    /\ command' = [i \in Cells |-> IF i = cursor THEN c
                                   ELSE IF i \in cursor + 1..length THEN command[i - 1]
                                   ELSE IF i = length + 1 THEN NUL ELSE command[i]]
    /\ cursor' = cursor + 1 /\ length' = length + 1
    /\ NotBrowsing /\ redraw
    /\ edited' = Text(command', length')
    /\ UNCHANGED m_history

\* The cells behind the erased one move down, the terminator with them.
Closed(at) == [i \in Cells |-> IF i \in at..length - 1 THEN command[i + 1] ELSE command[i]]

Backspace ==
    /\ Plain /\ m_ignore_lf' = FALSE
    /\ cursor # 0
    /\ command' = Closed(cursor - 1)
    /\ cursor' = cursor - 1 /\ length' = length - 1
    /\ NotBrowsing /\ redraw
    /\ edited' = Text(command', length')
    /\ UNCHANGED m_history

starts_with(w, n) == n <= Len(w) /\ \A i \in 1..n : w[i] = command[i - 1]
Matches == {w \in Words : starts_with(w, length)}

\* Mutant: the first match is taken although there are others.
Target_FirstMatch(w, n) == n = Len(w)

\* The longest text all matches begin with; the whole word when there is one.
Target(w, n) ==
    /\ \A v \in Matches : n <= Len(v) /\ \A i \in 1..n : v[i] = w[i]
    /\ n < Len(w) => ~ \A v \in Matches : n < Len(v) /\ v[n + 1] = w[n + 1]

\* A word that does not fit is cut.  Without one the bell sounds, or the
\* matches are listed.  Either way the line no longer counts as one of the
\* history, so a Tab that changes nothing puts the draft out of reach.
Tab ==
    /\ Plain /\ m_ignore_lf' = FALSE
    /\ NotBrowsing
    /\ UNCHANGED m_history
    /\ \/ /\ cursor = length
          /\ \E w \in Matches : \E n \in 0..Len(w) :
                /\ Target(w, n) /\ n > length
                /\ command' = Written(command, [i \in 1..Room(n) |-> w[i]])
                /\ length' = Room(n) /\ cursor' = Room(n)
          /\ redraw
       \/ /\ \/ cursor # length
             \/ \A w \in Matches : \E n \in 0..length : Target(w, n)
          /\ UNCHANGED lineVars
          /\ IF cursor = length /\ (\E v, w \in Matches : v # w) THEN redraw
             ELSE UNCHANGED termVars
    /\ edited' = IF Text(command', length') # Text(command, length) THEN Text(command', length')
                 ELSE IF history_view # Len(m_history) /\ draft # Text(command, length) THEN NUL
                 ELSE edited

-----------------------------------------------------------------------------
(* Escape sequences: ESC, '[' or 'O', a letter or a digit and '~'. *)

editorSame == UNCHANGED <<lineVars, viewVars, m_history, edited>>
Sequence(before, after) == escape = before /\ escape' = after /\ UNCHANGED m_ignore_lf

Esc ==
    /\ escape = <<>> /\ escape' = <<"ESC">> /\ m_ignore_lf' = FALSE
    /\ editorSame /\ UNCHANGED termVars

EscapePrefix ==
    /\ \E next \in {<<>>, <<"ESC", "[">>} : Sequence(<<"ESC">>, next)
    /\ editorSame /\ UNCHANGED termVars

\* A digit opens the long form; any other code is dropped.
EscapeCode ==
    /\ \E next \in {<<>>} \union {<<"ESC", "[", d>> : d \in {"1", "3", "4"}} :
          Sequence(<<"ESC", "[">>, next)
    /\ editorSame /\ UNCHANGED termVars

NoTilde ==
    /\ \E d \in {"1", "3", "4"} : Sequence(<<"ESC", "[", d>>, <<>>)
    /\ editorSame /\ UNCHANGED termVars

Code == Sequence(<<"ESC", "[">>, <<>>)
Long(d) == Sequence(<<"ESC", "[", d>>, <<>>)

load_line(source) ==
    LET text == copy_string(source) IN
    /\ command' = Written(command, text)
    /\ length' = Len(text) /\ cursor' = Len(text)
    /\ redraw

\* Mutant: the draft is kept whenever an older line is asked for.
history_up_AlwaysDrafts ==
    /\ Code
    /\ m_history # <<>> /\ history_view # 0
    /\ draft' = copy_string(c_str(command))
    /\ history_view' = history_view - 1
    /\ load_line(m_history[history_view])
    /\ UNCHANGED <<m_history, edited>>

history_up ==
    /\ Code
    /\ m_history # <<>> /\ history_view # 0
    /\ draft' = IF history_view = Len(m_history) THEN copy_string(c_str(command)) ELSE draft
    /\ history_view' = history_view - 1
    /\ load_line(m_history[history_view])
    /\ UNCHANGED <<m_history, edited>>

history_down ==
    /\ Code
    /\ history_view < Len(m_history)
    /\ history_view' = history_view + 1
    /\ load_line(IF history_view' = Len(m_history) THEN draft ELSE m_history[history_view' + 1])
    /\ UNCHANGED <<m_history, draft, edited>>

Right ==
    /\ Code /\ cursor < length
    /\ screen' = Printed(screen, column, command[cursor]) /\ column' = column + 1
    /\ cursor' = cursor + 1
    /\ UNCHANGED <<command, length, viewVars, m_history, edited>>

Left ==
    /\ Code /\ cursor # 0
    /\ column' = column - 1 /\ UNCHANGED screen
    /\ cursor' = cursor - 1
    /\ UNCHANGED <<command, length, viewVars, m_history, edited>>

\* A backspace for every character left of the cursor.
Home ==
    /\ Code \/ Long("1")
    /\ column' = column - cursor /\ UNCHANGED screen
    /\ cursor' = 0
    /\ UNCHANGED <<command, length, viewVars, m_history, edited>>

\* Every character right of the cursor is printed again.
End ==
    /\ Code \/ Long("4")
    /\ LET rest == length - cursor IN
       /\ screen' = [i \in 1..(IF column + rest < Len(screen) THEN Len(screen) ELSE column + rest) |->
                       IF i \in column + 1..column + rest THEN command[cursor + (i - column - 1)]
                       ELSE screen[i]]
       /\ column' = column + rest
    /\ cursor' = length
    /\ UNCHANGED <<command, length, viewVars, m_history, edited>>

\* Mutant: the line is not drawn again.
Delete_NoRedraw ==
    /\ Long("3")
    /\ IF cursor < length
       THEN /\ command' = Closed(cursor) /\ length' = length - 1
            /\ edited' = IF history_view = Len(m_history) THEN Text(command', length') ELSE edited
       ELSE UNCHANGED <<command, length, edited>>
    /\ UNCHANGED <<cursor, viewVars, m_history, termVars>>

\* Unlike the other keys that edit, Delete leaves history_view alone: what it
\* does to a line of the history is lost with the next arrow key.
Delete ==
    /\ Long("3")
    /\ IF cursor < length
       THEN /\ command' = Closed(cursor) /\ length' = length - 1
            /\ edited' = IF history_view = Len(m_history) THEN Text(command', length') ELSE edited
            /\ UNCHANGED cursor /\ redraw
       ELSE UNCHANGED <<lineVars, edited, termVars>>
    /\ UNCHANGED <<viewVars, m_history>>

LNext ==
    \/ IgnoredLf \/ \E cr \in BOOLEAN : Submit(cr)
    \/ CtrlC \/ CtrlL \/ Ignored \/ Backspace \/ Tab
    \/ \E c \in Chars : Printable(c)
    \/ Esc \/ EscapePrefix \/ EscapeCode \/ NoTilde
    \/ history_up \/ history_down \/ Right \/ Left \/ Home \/ End \/ Delete

LineEditorSpec == LInit /\ [][LNext]_lvars

-----------------------------------------------------------------------------
(* Properties. *)

Strings == Seq(Chars)
Short(text) == text \in Strings /\ Len(text) < COMMAND_BUFFER_SIZE

\* Whatever is typed, erased, completed or recalled, the buffer holds a C string
\* that ends within it, the cursor stays inside the string, and what is kept
\* of it, the draft and the history, fits a buffer again.
BufferSound ==
    /\ command \in [Cells -> Chars \union {NUL}]
    /\ length \in Cells /\ cursor \in 0..length
    /\ command[length] = NUL
    /\ \A i \in 0..length - 1 : command[i] \in Chars
    /\ Short(draft)
    /\ m_history \in Seq(Strings \ {<<>>}) /\ Len(m_history) <= HISTORY_DEPTH
    /\ \A i \in 1..Len(m_history) : Short(m_history[i])
    /\ history_view \in 0..Len(m_history)

\* What the user sees is what will be submitted, and where the terminal's
\* cursor stands the next character goes: every key echoes exactly its effect.
ScreenShowsLine == screen = Text(command, length) /\ column = cursor

\* An edited line is on screen or in the draft until it is entered, cancelled
\* or edited again, whatever walks through the history come between, or until a
\* Tab on a line of the history finds nothing to complete.  (Delete on such a
\* line is no edit that is kept.)
EditIsKept ==
    edited # NUL => IF history_view = Len(m_history) THEN edited = Text(command, length)
                    ELSE edited = draft

\* line_editor.cpp:98-99: no such Tab puts it out of reach, for the next Up to
\* overwrite.
EditSurvivesTab == edited # NUL

Line == INSTANCE EditableLine WITH
            Limit <- COMMAND_BUFFER_SIZE - 1, Depth <- HISTORY_DEPTH,
            line <- Text(command, length), history <- m_history, aside <- draft

\* Every character does to the line what an editor promises, or nothing.
ImplementsLine == Line!ESpec
=============================================================================
