\* The claim ConnectionEnds, refuted.
CONSTANTS
    c1 = c1
    c2 = c2
    Conn <- ConnOne
    Token <- PlainTokens
    MaxTokens = 1
    MaxSignals = 0
    BUFSIZE = 2
    RESPONSE = 2
    MAX_EVENTS = 2
    MAX_SHUTDOWN_SECONDS = 2
SPECIFICATION Spec
PROPERTIES
    ConnectionEnds
