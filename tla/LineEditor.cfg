\* Lines of up to three of two characters, two lines of history.
SPECIFICATION LineEditorSpec
CONSTANTS
    a = a
    b = b
    NUL = NUL
    Chars = {a, b}
    Words <- MCWords
    COMMAND_BUFFER_SIZE = 4
    HISTORY_DEPTH = 2
INVARIANTS
    ScreenShowsLine
    EditIsKept
PROPERTIES
    ImplementsLine
