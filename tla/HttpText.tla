------------------------------ MODULE HttpText ------------------------------
(***************************************************************************)
(* The text side of one connection, byte class by byte class: HttpReader's  *)
(* loop of read() and Parse() (http.cc), each read() a step of its own with *)
(* the client free to send in between, and HttpRequest's search for the     *)
(* Cookie header (httpreq.cc).  Module Anticent takes the loop as one step, *)
(* which TurnAtomic of HttpTextProps says it may, and a request as one of   *)
(* two kinds, which is lemma Searched of HttpTextProofs.                    *)
(***************************************************************************)
EXTENDS Integers, Sequences, SequencesExt

CONSTANTS
    BUFSIZE,   \* bytes one read() returns (255 in the code)
    Streams    \* bound: what the client may send, each a text over Char

CR    == "\r"
LF    == "\n"
NUL   == "\\0"      \* the byte of value 0
COLON == ":"
SP    == " "        \* a space or a tab
NAME  == "Cookie"   \* the header's name, in any case, as one letter
Char  == {CR, LF, NUL, COLON, SP, NAME, "other"}

ASSUME HttpTextAssumption ==
    /\ BUFSIZE \in Nat \ {0}
    /\ Streams \subseteq Seq(Char)

VARIABLES
    stream,    \* what the client sends in all
    arrived,   \* how much of it the kernel has
    fin,       \* the client has closed its sending side
    consumed,  \* how much of it read() has returned
    request,   \* HttpReader::request
    blocked,   \* the reader's job is BLOCKED
    iRead,     \* reads done in the turn under way: 0, or 1 for any more
    turn,      \* history: `consumed` and `request` when the turn began
    inFlight,  \* the text of the HttpRequest that exists, or NoRequest
    taken,     \* history: the texts NewHttpRequest was called with, and where each ended
    fate       \* "runs", "closed" by EREADCLOSED, or how the process ended

vars == <<stream, arrived, fin, consumed, request, blocked, iRead, turn, inFlight, taken, fate>>

client == <<stream, arrived, fin>>

NoRequest == <<NUL>>  \* no text: texts hold no NUL

BlankLine == <<CR, LF, CR, LF>>

(* The place of the first blank line, 0 if there is none. *)
Find(text) ==
    LET at == {i \in 1 .. Len(text) - 3 : SubSeq(text, i, i + 3) = BlankLine}
    IN  IF at = {} THEN 0 ELSE Min(at)

Init ==
    /\ stream \in Streams
    /\ arrived = 0
    /\ fin = FALSE
    /\ consumed = 0
    /\ request = <<>>
    /\ blocked = TRUE
    /\ iRead = 0
    /\ turn = [from |-> 0, text |-> <<>>]
    /\ inFlight = NoRequest
    /\ taken = <<>>
    /\ fate = "runs"

-----------------------------------------------------------------------------
(* The client *)

Arrive ==
    /\ ~fin
    /\ arrived < Len(stream)
    /\ arrived' = arrived + 1
    /\ UNCHANGED <<stream, fin, consumed, request, blocked, iRead, turn, inFlight, taken, fate>>

Fin ==
    /\ ~fin
    /\ fin' = TRUE
    /\ UNCHANGED <<stream, arrived, consumed, request, blocked, iRead, turn, inFlight, taken, fate>>

-----------------------------------------------------------------------------
(* HttpReader::vRun *)

(* EPOLLIN finds the reader blocked and readies it. *)
Wake ==
    /\ blocked
    /\ arrived > consumed \/ fin
    /\ blocked' = FALSE
    /\ UNCHANGED <<client, consumed, request, iRead, turn, inFlight, taken, fate>>

(* Mutant: request.append(buffer, nbytes). *)
Appended_Raw(text, chunk) == text \o chunk

(* request += buffer: buffer is a C string. *)
Appended(text, chunk) ==
    LET nul == {i \in DOMAIN chunk : chunk[i] = NUL}
    IN  text \o IF nul = {} THEN chunk ELSE SubSeq(chunk, 1, Min(nul) - 1)

(* Mutant: one line end too few is erased. *)
Rest_LeavesLineEnd(text) == SubSeq(text, Find(text) + 2, Len(text))

(* Parse(): what is left after request.erase(0, end+4). *)
Rest(text) == SubSeq(text, Find(text) + 4, Len(text))

(* Mutant: nbytes <= BUFSIZE. *)
Short_AtFull(nbytes) == nbytes <= BUFSIZE

Short(nbytes) == nbytes < BUFSIZE

(* What read() would return: the kernel's bytes, 0 at the end of the stream, *)
(* -1 with EAGAIN before it.                                                 *)
ReadResult ==
    CASE arrived > consumed         -> Min({BUFSIZE, arrived - consumed})
      [] arrived = consumed /\ fin  -> 0
      [] arrived = consumed /\ ~fin -> -1

BeginTurn == turn' = IF iRead = 0 THEN [from |-> consumed, text |-> request] ELSE turn

(* Zero bytes on the first read: NextState(EREADCLOSED). *)
ReadEof ==
    /\ ReadResult = 0 /\ iRead = 0
    /\ BeginTurn
    /\ fate' = "closed"
    /\ UNCHANGED <<consumed, request, blocked, iRead, inFlight, taken>>

ReadAgain ==
    /\ ReadResult = -1
    /\ BeginTurn
    /\ blocked' = TRUE
    /\ iRead' = 0
    /\ UNCHANGED <<consumed, request, inFlight, taken, fate>>

(* Bytes, or the end of the stream after some.  A request that is complete   *)
(* ends the turn; a second one while one is in flight has no transition      *)
(* (NextState(EWORKTODO) in CONNIOWORKING) and ends the process.             *)
ReadBytes ==
    /\ ReadResult > 0 \/ (ReadResult = 0 /\ iRead > 0)
    /\ BeginTurn
    /\ LET text  == Appended(request, SubSeq(stream, consumed + 1, consumed + ReadResult))
           found == Find(text) # 0
           req   == SubSeq(text, 1, Find(text) - 1)
       IN  IF found /\ inFlight # NoRequest
           THEN /\ fate' = "EWORKTODO"
                /\ UNCHANGED <<consumed, request, blocked, iRead, inFlight, taken>>
           ELSE /\ request' = IF found THEN Rest(text) ELSE text
                /\ inFlight' = IF found THEN req ELSE inFlight
                /\ taken' = IF found
                            THEN Append(taken, [text |-> req,
                                                end  |-> (consumed + ReadResult) - Len(Rest(text))])
                            ELSE taken
                /\ consumed' = consumed + ReadResult
                /\ blocked' = Short(ReadResult)
                /\ iRead' = IF found \/ Short(ReadResult) THEN 0 ELSE 1
                /\ UNCHANGED fate

(* One round of the loop. *)
Read ==
    /\ ~blocked
    /\ ReadEof \/ ReadAgain \/ ReadBytes
    /\ UNCHANGED client

-----------------------------------------------------------------------------
(* HttpRequest::GetHeader.  Pointers are positions; Len(text) + 1 is the     *)
(* terminator, and strchr finds that one in every set of characters.         *)

At(text, i) == IF i <= Len(text) THEN text[i] ELSE NUL

(* The first position from i on with a character of S, 0 if there is none. *)
Next1(text, i, S) ==
    LET at == {k \in i .. Len(text) : text[k] \in S}
    IN  IF at = {} THEN 0 ELSE Min(at)

(* Mutant: the value starts after the colon. *)
Value_AfterColon(text, name) == Next1(text, name, {COLON}) + 1

(* strstr(header, ":"), colon included. *)
Value(text, name) == Next1(text, name, {COLON})

(* strcasestr(requestText, name): anywhere. *)
Name(text) == Next1(text, 1, {NAME})

(* while(strchr(" \t", *value)): the terminator does not end this loop.      *)
Skipped(text, value) == Next1(text, value, Char \ {SP})

(* What becomes of the request whose text this is: GetSessionID asserts that *)
(* GetHeader("Cookie") is empty, GetHeader that a colon follows the name.    *)
GetSessionID(text) ==
    IF Name(text) = 0 THEN "no cookie"
    ELSE IF Next1(text, Name(text), {COLON}) = 0 THEN "no colon"
    ELSE IF Skipped(text, Value(text, Name(text))) = 0 THEN "overrun"
    ELSE IF At(text, Skipped(text, Value(text, Name(text)))) \in {CR, LF} THEN "no cookie"
    ELSE "cookie"

(* HttpRequest::myRun: answered and gone, or the process ends. *)
RequestRun ==
    /\ iRead = 0
    /\ inFlight # NoRequest
    /\ IF GetSessionID(inFlight) = "no cookie"
       THEN inFlight' = NoRequest /\ UNCHANGED fate
       ELSE fate' = GetSessionID(inFlight) /\ UNCHANGED inFlight
    /\ UNCHANGED <<client, consumed, request, blocked, iRead, turn, taken>>

-----------------------------------------------------------------------------
Ended == fate # "runs" /\ UNCHANGED vars

Next ==
    \/ fate = "runs" /\ (Arrive \/ Fin \/ Wake \/ Read \/ RequestRun)
    \/ Ended

Spec == Init /\ [][Next]_vars
=============================================================================
