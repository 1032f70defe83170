\* The claim RequestsStarted, refuted.
CONSTANTS
    c1 = c1
    c2 = c2
    Conn <- ConnTwo
    Token <- EndTokens
    MaxTokens = 2
    MaxSignals = 0
    BUFSIZE = 2
    RESPONSE = 2
    MAX_EVENTS = 2
    MAX_SHUTDOWN_SECONDS = 2
SPECIFICATION Spec
PROPERTIES
    RequestsStarted
