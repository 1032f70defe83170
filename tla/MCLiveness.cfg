\* Liveness: two connections, two requests, one SIGINT.
CONSTANTS
    c1 = c1
    c2 = c2
    Conn <- ConnTwo
    Token <- EndTokens
    MaxTokens = 2
    MaxSignals = 1
    BUFSIZE = 1
    RESPONSE = 1
    MAX_EVENTS = 4
    MAX_SHUTDOWN_SECONDS = 2
SPECIFICATION Spec
PROPERTIES
    RequestAnswered
    InputRead
    InterruptStops
