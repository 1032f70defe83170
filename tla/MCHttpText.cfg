\* One and two requests, headers of up to three classes; two bytes a read.
CONSTANTS
    FramingChars <- LineChars
    MAX_FRAMING = 6
    HeaderChars <- TextChars
    MAX_HEADER = 3
    BUFSIZE = 2
    Streams <- AllStreams
SPECIFICATION Spec
INVARIANTS
    TypeOK
    FramedAsSent
    NoOverrun
PROPERTIES
    TurnAtomic
