\* The parts of the JSON library.
SPECIFICATION Spec
CONSTANTS
    \* Numbers of four bits; floating-point numbers exact up to eight; an
    \* index of an array is at most MaxInt.
    Half = 8
    Exact = 8
    MaxInt = 20
    \* Lexer: the locale's decimal point is a comma.
    Inputs <- AllInputs
    DecimalPoint = 44
    UMax = 15
    IMax = 7
    \* Parser: valid and broken texts; the callback discards nothing, keys, or
    \* objects at their start.
    Texts <- AllTexts
    Receivers = {"dom", "callback", "acceptor"}
    Filters <- AllFilters
    KeyOrder <- MCKeyOrder
    \* Binary formats.
    Samples <- Everything
    ChangeTo <- Marks
    \* Containers of up to two elements.
    Starts <- MCStarts
    Items <- MCItems
    KeySet <- MCKeys
    Lists <- MCLists
    MaxSize = 2
    \* Order: three values are sorted.
    Universe <- MCUniverse
    SortLength = 3
    \* Pointers.
    Cases <- MCCases
    New <- MCNew
    \* Patches.
    Pairs <- MCPairs
    Edits <- MCEdits
    Merges <- MCMerges
    \* Strings: a buffer that is nearly full after two bytes.
    Strings <- MCStrings
    BufferSize = 15
    \* Text of values.
    Values <- MCValues
    Indents <- MCIndents
    IndentChars = {" ", "tab"}
    IndentSize = 4
    \* Text of numbers: integers of 26 bits, two numbers in one buffer.
    NumberHalf = 33554432
    Numbers <- MCIntegers
    Floats <- MCFloats
    NumberBufferSize = 64
    kMinExp <- MCMinExp
    kMaxExp = 15
    MaxCalls = 2
INVARIANTS
    LexerIsRight
    ParserIsRight
    BinaryIsRight
    SortedThroughout
    PointersAgree
    DumpIsRight
    NumberTextIsRight
PROPERTIES
    ContainerIsRight
    PatchesWork
    EscapeIsRight
CHECK_DEADLOCK FALSE
