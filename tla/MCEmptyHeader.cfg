\* The claim EmptyHeaderAsNone, refuted.
CONSTANTS
    FramingChars <- LineChars
    MAX_FRAMING = 6
    HeaderChars <- TextChars
    MAX_HEADER = 3
    BUFSIZE = 2
    Streams <- HeaderStreams
SPECIFICATION Spec
INVARIANTS
    EmptyHeaderAsNone
