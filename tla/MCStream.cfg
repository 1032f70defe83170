\* One connection, five pieces of input, one SIGINT.
CONSTANTS
    c1 = c1
    c2 = c2
    Conn <- ConnOne
    Token <- AllTokens
    MaxTokens = 5
    MaxSignals = 1
    BUFSIZE = 2
    RESPONSE = 2
    MAX_EVENTS = 1
    MAX_SHUTDOWN_SECONDS = 2
SPECIFICATION Spec
INVARIANTS
    RequestPhase
    WriterHasBytes
    InputWatched
    OutputWatched
    ClosedIsQuiet
