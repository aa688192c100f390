\* Two tasks, a shell with a line of five characters, a screen of 3 by 3, ints of a byte.
SPECIFICATION ShellSpec
CONSTANTS
    Longer <- MCLonger
    Shorter <- MCShorter
    Block = 2
    Width = 3
    Height = 3
    Printable <- MCPrintable
    Task = {a, b}
    NFds = 3
    Piece = 20
    Machine <- MCMachine
    LineSize = 6
    CmdSize = 3
    Chunk = 4
    HexLen = 2
    PrintSize = 20
    IntBits = 8
    LongBits = 16
    Directives <- MCDirectives
    Buffers <- MCBuffers
    Sizes <- MCSizes
    Builtin <- MCBuiltin
    Spelling <- MCSpelling
    Code <- MCCode
    Plain <- MCPlain
    Alt <- MCAlt
    Capital <- MCCapital
SYMMETRY TaskSymmetry
INVARIANTS
    PositionSound
    ListsChildren
    ScreenShows
    ShiftSound
    EchoAgrees
    OutputRight
    ShellCloses
    FormatsRight
PROPERTIES
    ImplementsOpenFiles
