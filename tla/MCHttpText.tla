----------------------------- MODULE MCHttpText -----------------------------
(* Small instances of the reader and the header search for TLC. *)
EXTENDS HttpTextProps

CONSTANTS
    FramingChars, MAX_FRAMING,  \* streams that are cut in all ways
    HeaderChars, MAX_HEADER     \* requests that are searched

(* Line ends in every order around a blank line; two requests and a rest;    *)
(* requests of every text, the last bytes a NUL and another; and a NUL first.*)
AllStreams ==
    LET blanks(n) == BoundedSeq(FramingChars, n)
    IN  {s \in blanks(MAX_FRAMING) : Find(s) # 0}
        \cup {a \o BlankLine \o b \o BlankLine \o c : a, b, c \in blanks(1)}
        \cup {h \o BlankLine \o t : h \in BoundedSeq(HeaderChars, MAX_HEADER),
                                    t \in {<<>>, <<NUL, CR>>}}
        \cup {<<NUL>> \o h \o BlankLine : h \in BoundedSeq({CR, NAME}, 2)}

(* A request line and: no header, an empty one, one with a value; and a      *)
(* request line with the name in it.                                         *)
HeaderStreams ==
    {<<"other">> \o h \o BlankLine :
        h \in {<<>>, <<CR, LF, NAME, COLON>>, <<CR, LF, NAME, COLON, SP, "other">>,
              <<NAME, "other", CR, LF, "other", COLON, "other">>}}

LineChars == {CR, LF, "other"}
TextChars == {NAME, COLON, SP, CR, LF}
=============================================================================
