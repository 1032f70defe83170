---------------------------- MODULE HttpTextProps ----------------------------
(***************************************************************************)
(* What module Anticent takes for granted of the reader and of requests,    *)
(* as properties of HttpText, and what a comment says of the header search. *)
(***************************************************************************)
EXTENDS HttpText

(* Every variable has its type; in particular no text the server keeps holds *)
(* a NUL, so that c_str() of a request is the whole request.                 *)
TypeOK ==
    LET Text == Seq(Char \ {NUL})
    IN  /\ stream \in Streams
        /\ arrived \in 0 .. Len(stream)
        /\ fin \in BOOLEAN
        /\ consumed \in 0 .. arrived
        /\ request \in Text
        /\ blocked \in BOOLEAN
        /\ iRead \in {0, 1}
        /\ turn.from \in 0 .. consumed /\ turn.text \in Text
        /\ inFlight \in Text \cup {NoRequest}
        /\ taken \in Seq([text : Text, end : Int])
        /\ fate \in {"runs", "closed", "EWORKTODO", "no colon", "cookie", "overrun"}

(* However the stream was cut into segments and reads: the requests taken,   *)
(* each with the blank line that ended it, and the text kept for later are   *)
(* the bytes read, none lost, repeated or taken for another request's        *)
(* (http.cc:477-491, 563-569).  A NUL drops the rest of its read.            *)
FramedAsSent ==
    NUL \notin Range(SubSeq(stream, 1, consumed)) =>
        LET from(i) == IF i = 1 THEN 0 ELSE taken[i - 1].end
        IN  /\ \A i \in DOMAIN taken :
                  LET whole == taken[i].text \o BlankLine
                  IN  /\ SubSeq(stream, from(i) + 1, taken[i].end) = whole
                      /\ Find(whole) = Len(taken[i].text) + 1
            /\ SubSeq(stream, from(Len(taken) + 1) + 1, consumed) = request

(* No pointer of GetHeader runs past the end of the text, though the loop    *)
(* over spaces does not stop at the terminator (httpreq.cc:106).             *)
NoOverrun == fate # "overrun"

(* This step ends a turn where one ends that finds all the bytes at its start *)
(* (Consumed and BlocksItself of module Anticent): after the first full      *)
(* buffer that completes a request, or blocked with nothing left to read.    *)
AsIfAtOnce ==
    Read /\ iRead' = 0 /\ fate' = "runs" =>
        LET from  == turn'.from
            full  == {n \in 1 .. arrived - from :
                        /\ n % BUFSIZE = 0
                        /\ Find(turn'.text \o SubSeq(stream, from + 1, from + n)) # 0}
        IN  NUL \notin Range(SubSeq(stream, 1, arrived)) =>
                /\ blocked' <=> full = {}
                /\ consumed' = from + IF full = {} THEN arrived - from ELSE Min(full)

(* A turn of reads with the client sending in between ends as if all it sent *)
(* had been there when the turn began (http.cc:552-577).                     *)
TurnAtomic == [][AsIfAtOnce]_vars

-----------------------------------------------------------------------------
(* What a comment of the code says, and the code does not do; refuted by a   *)
(* run of its own.                                                           *)

(* Some line of the text after its first is the header, with a value. *)
HasValue(text) ==
    \E i, k \in DOMAIN text :
        /\ i > 1 /\ i + 1 < k /\ SubSeq(text, i - 1, i + 1) = <<LF, NAME, COLON>>
        /\ text[k] \notin {SP, CR, LF} /\ \A m \in i + 2 .. k - 1 : text[m] = SP

(* "can't distinguish no header from empty header" (httpreq.cc:92): a request *)
(* ends the process for its session (httpreq.cc:122-129) only if it has a     *)
(* Cookie header that is not empty.                                          *)
EmptyHeaderAsNone == fate = "cookie" => HasValue(inFlight)
=============================================================================
