\* Two connections, two pieces of input, two SIGINTs.
CONSTANTS
    c1 = c1
    c2 = c2
    Conn <- ConnTwo
    Token <- PlainTokens
    MaxTokens = 2
    MaxSignals = 2
    BUFSIZE = 2
    RESPONSE = 2
    MAX_EVENTS = 2
    MAX_SHUTDOWN_SECONDS = 2
SPECIFICATION Spec
SYMMETRY Symmetry
INVARIANTS
    TypeOK
    ObjectCounts
    JobsScheduled
    SavedNextGood
    EventTargetsOpen
    AcceptNeverFails
    ParentOutlives
    ServerInv
PROPERTIES
    ImplementsService
