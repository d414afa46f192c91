\* The libraries the server calls.
SPECIFICATION Spec
CONSTANTS
    \* Parser: up to two bytes between two calls, room for two headers, and the
    \* bytes behind the message that the parser tells apart at its end.
    Messages <- MCMessages
    Stale = {"g", "CR", "LF", "NUL"}
    MaxHeaders = 2
    MaxNew = 2
    \* Decoder: streams of up to two chunks, in pieces of up to three bytes.
    Streams <- MCStreams
    HexDigits = 2
    MaxPiece = 3
    \* gzip: zlib may have no memory, and the output string may hold something.
    MaxBytes = 6
    MaxDecompressed = 7
    Headroom = 1
    UIntMod = 8
    Sizes <- MCSizes
    Lengths <- MCLengths
    Held = {0, 3}
    CallsFail = {TRUE}
    \* Logger: two threads, four records, three files, a restart, and a failing
    \* call on each name.
    t1 = t1
    t2 = t2
    Threads = {t1, t2}
    NoThread = NoThread
    Appenders <- MCAppenders
    MaxFileSize = 1
    MaxFiles = 3
    HasHeader = TRUE
    MaxRecords = 4
    MaxRestarts = 1
    MaxFailures = 1
INVARIANTS
    ParsesInPieces
    DecodesInPieces
    
    LogIsWhole
PROPERTIES LoopsEnd
CHECK_DEADLOCK FALSE
