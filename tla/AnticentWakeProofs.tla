------------------------- MODULE AnticentWakeProofs -------------------------
(***************************************************************************)
(* The server's dealings with epoll, for any number of connections, any     *)
(* input and any number of SIGINTs: no wakeup is lost, no event finds its   *)
(* connection closed, accept4 never finds the backlog empty; with that the  *)
(* types of all variables and the rest of the server's inductive invariant; *)
(* and, from it, the service the server provides.                           *)
(***************************************************************************)
EXTENDS AnticentProofs

(* What JobsInv does not say of the variables' types. *)
OtherTypes ==
    /\ KernelTypeOK
    /\ exit \in ExitReason
    /\ iJob \in Job \cup {NoJob}
    /\ iShutdown \in 0 .. MAX_SHUTDOWN_SECONDS
    /\ \A s \in DOMAIN batch : batch[s] \subseteq {"IN", "OUT", "ERR", "HUP"}
    /\ rbuf \in [Conn -> Seq(Token)]

-----------------------------------------------------------------------------
(* Reading *)

(* The reader takes a prefix of what the kernel holds, all of it unless a    *)
(* full buffer completed a request.                                          *)
LEMMA Reads ==
    ASSUME inbox \in [Conn -> Seq(Token)], rbuf \in [Conn -> Seq(Token)], NEW c \in Conn
    PROVE  /\ Consumed(c) \in 0 .. Len(inbox[c])
           /\ ~StopsFull(c) => Consumed(c) = Len(inbox[c])
           /\ Text(c, Consumed(c)) \in Seq(Token)
           /\ SubSeq(inbox[c], Consumed(c) + 1, Len(inbox[c])) \in Seq(Token)
           /\ ~StopsFull(c) => SubSeq(inbox[c], Consumed(c) + 1, Len(inbox[c])) = <<>>
  <1>1. inbox[c] \in Seq(Token) /\ rbuf[c] \in Seq(Token) /\ Len(inbox[c]) \in Nat
    OBVIOUS
  <1>2. StopsFull(c) => Consumed(c) \in FullStops(c)
    <2> SUFFICES ASSUME FullStops(c) # {}
                 PROVE  (CHOOSE n \in FullStops(c) : \A m \in FullStops(c) : n <= m) \in FullStops(c)
      BY DEF StopsFull, Consumed
    <2>1. FullStops(c) \in SUBSET Nat
      BY <1>1 DEF FullStops
    <2> DEFINE S == FullStops(c)
    <2> HIDE DEF S
    <2>2. \E n \in S : \A m \in S : n <= m
      BY <2>1, LeastNat DEF S
    <2> QED
      BY <2>2 DEF S
  <1>3. Consumed(c) \in 0 .. Len(inbox[c])
    BY <1>1, <1>2 DEF FullStops, Consumed
  <1>4. ~StopsFull(c) => Consumed(c) = Len(inbox[c])
    BY DEF Consumed
  <1> DEFINE n == Consumed(c)
  <1> HIDE DEF n
  <1>5. SubSeq(inbox[c], 1, n) \in Seq(Token) /\ SubSeq(inbox[c], n + 1, Len(inbox[c])) \in Seq(Token)
    BY <1>1, <1>3, SubSeqProperties DEF n
  <1>6. Text(c, n) \in Seq(Token)
    BY <1>1, <1>5, ConcatProperties DEF Text
  <1>7. n = Len(inbox[c]) => SubSeq(inbox[c], n + 1, Len(inbox[c])) = <<>>
    BY <1>1, SubSeqProperties, EmptySeq
  <1> QED
    BY <1>3, <1>4, <1>5, <1>6, <1>7 DEF n

(* What is left of a text behind its first request. *)
LEMMA Rest ==
    ASSUME NEW text \in Seq(Token), HasEnd(text),
           NEW k, k = CHOOSE i \in DOMAIN text :
                         text[i] = "end" /\ \A m \in 1 .. i - 1 : text[m] # "end"
    PROVE  /\ k \in DOMAIN text /\ text[k] = "end" /\ \A m \in 1 .. k - 1 : text[m] # "end"
           /\ SubSeq(text, k + 1, Len(text)) \in Seq(Token)
  <1> DEFINE S == {i \in DOMAIN text : text[i] = "end"}
  <1>1. Len(text) \in Nat /\ DOMAIN text = 1 .. Len(text)
    OBVIOUS
  <1>2. S \in SUBSET Nat /\ S # {}
    BY <1>1 DEF HasEnd, Range
  <1>3. PICK i \in S : \A m \in S : i <= m
    <2> HIDE DEF S
    <2> QED
      BY <1>2, LeastNat
  <1>4. \A m \in 1 .. i - 1 : text[m] # "end"
    <2> SUFFICES ASSUME NEW m \in 1 .. i - 1, text[m] = "end" PROVE FALSE
      OBVIOUS
    <2>1. m \in S
      BY <1>1
    <2> QED
      BY <1>1, <1>3, <2>1
  <1>5. k \in DOMAIN text /\ text[k] = "end" /\ \A m \in 1 .. k - 1 : text[m] # "end"
    BY <1>3, <1>4
  <1>6. SubSeq(text, k + 1, Len(text)) \in Seq(Token)
    BY <1>1, <1>5, SubSeqProperties
  <1> QED
    BY <1>5, <1>6

-----------------------------------------------------------------------------
(* Types, action by action *)

(* Closing descriptors keeps the types of what the kernel holds. *)
LEMMA ClosingKernel ==
    ASSUME KernelTypeOK, NEW S, CloseSockets(S)
    PROVE  KernelTypeOK'
  <1> DEFINE closed == (S \cap Conn) \cup (IF LISTENER \in S THEN Range(backlog) ELSE {})
  <1>1. /\ peer' = [c \in Conn |-> IF c \in closed THEN "gone" ELSE peer[c]]
        /\ inbox' = [c \in Conn |-> IF c \in closed THEN <<>> ELSE inbox[c]]
        /\ full' = [c \in Conn |-> full[c] /\ c \notin closed]
        /\ backlog' \in {<<>>, backlog}
        /\ watched' \subseteq watched /\ edge' \subseteq edge
        /\ UNCHANGED <<sigPending, tokensLeft, sigLeft>>
    BY DEF CloseSockets
  <1> HIDE DEF closed
  <1>2. peer' \in [Conn -> PeerState] /\ inbox' \in [Conn -> Seq(Token)] /\ full' \in [Conn -> BOOLEAN]
    BY <1>1 DEF KernelTypeOK, PeerState
  <1>3. backlog' \in Seq(Conn)
    <2>1. <<>> \in Seq(Conn) /\ backlog \in Seq(Conn)
      BY DEF KernelTypeOK
    <2> QED
      BY <1>1, <2>1
  <1> QED
    BY <1>1, <1>2, <1>3 DEF KernelTypeOK

(* So does every act of a client and every SIGINT. *)
LEMMA ClientKernel ==
    ASSUME KernelTypeOK, Clients
    PROVE  KernelTypeOK'
  <1>1. CASE Sigint
    <2>1. sigLeft - 1 \in 0 .. MaxSignals
      BY <1>1, SocketsAssumption DEF Sigint, KernelTypeOK
    <2> QED
      BY <1>1, <2>1 DEF Sigint, KernelTypeOK, Source
  <1>2. CASE \E c \in Conn : Connect(c)
    BY <1>2 DEF Connect, KernelTypeOK, Source, PeerState
  <1>3. CASE \E c \in Conn : Client(c)
    <2>1. PICK c \in Conn : Client(c)
      BY <1>3
    <2>2. Wake(c) \subseteq Source
      BY DEF Wake, KernelTypeOK, Source
    <2>3. CASE \E t \in Token : Send(c, t)
      <3>1. PICK t \in Token : Send(c, t)
        BY <2>3
      <3>2. tokensLeft - 1 \in 0 .. MaxTokens
        BY <3>1, SocketsAssumption DEF Send, KernelTypeOK
      <3>3. inbox' \in [Conn -> Seq(Token)]
        BY <3>1 DEF Send, KernelTypeOK
      <3> QED
        BY <2>2, <3>1, <3>2, <3>3 DEF Send, KernelTypeOK
    <2>4. CASE Fin(c) \/ Reset(c) \/ Drain(c)
      BY <2>2, <2>4 DEF Fin, Reset, Drain, KernelTypeOK, PeerState
    <2> QED
      BY <2>1, <2>3, <2>4 DEF Client
  <1> QED
    BY <1>1, <1>2, <1>3 DEF Clients

(* The job that the walk saves is a job. *)
LEMMA SavedType ==
    ASSUME Places, Walk, exit = "no", NEW j, Runs(j)
    PROVE  iJob' \in Job \cup {NoJob} /\ iShutdown' = iShutdown /\ batch' = batch
  <1>1. /\ left > 0 /\ iJob = j /\ left \in Nat
        /\ iJob' = IF left > 1 THEN NextOf(lists[iPriority], j) ELSE NoJob
        /\ iPriority \in RunLevels /\ iShutdown' = iShutdown /\ batch' = batch
    BY DEF Runs, Walk
  <1> DEFINE s == lists[iPriority]
  <1>2. s \in Seq(Job) /\ Once(s)
    BY <1>1, Levels DEF Places, Disjoint, Once
  <1>3. PICK k \in DOMAIN s : s[k] = j /\ k + left - 1 <= Len(s)
    BY <1>1 DEF Walk, SavedNextGood
  <1> HIDE DEF s
  <1>4. ASSUME left > 1
        PROVE  NextOf(s, j) \in Job
    <2>1. k \in 1 .. Len(s) /\ k + 1 \in 1 .. Len(s) /\ k # Len(s)
      BY <1>1, <1>2, <1>3, <1>4
    <2>2. NextOf(s, s[k]) = s[k + 1]
      BY <1>2, <2>1, NextInList
    <2> QED
      BY <1>2, <1>3, <2>1, <2>2
  <1> QED
    BY <1>1, <1>4 DEF s

(* The turn of a job keeps the types. *)
LEMMA RunningTypes ==
    ASSUME JobsInv, OtherTypes, exit = "no", NEW c \in Conn,
           ReaderRun(c) \/ RequestRun(c) \/ WriterRun(c)
    PROVE  OtherTypes'
  <1>1. iJob' \in Job \cup {NoJob} /\ iShutdown' = iShutdown /\ batch' = batch
    BY SavedType DEF JobsInv, ReaderRun, RequestRun, WriterRun
  <1> SUFFICES KernelTypeOK' /\ exit' \in ExitReason /\ rbuf' \in [Conn -> Seq(Token)]
    BY <1>1 DEF OtherTypes
  <1>2. ASSUME NEW why \in ExitReason, Dies(why)
        PROVE  KernelTypeOK' /\ exit' \in ExitReason /\ rbuf' \in [Conn -> Seq(Token)]
    BY <1>2 DEF Dies, OtherTypes, KernelTypeOK, kernel, conns
  <1>3. /\ "read" \in ExitReason /\ "EREADCLOSED" \in ExitReason /\ "EWORKTODO" \in ExitReason
        /\ "cookie" \in ExitReason /\ "ENOWORK" \in ExitReason /\ "write" \in ExitReason
    BY DEF ExitReason, ConnEvent
  <1>4. CASE ReadError(c) \/ ReadNothing(c)
    BY <1>2, <1>3, <1>4 DEF ReadError, ReadNothing, OtherTypes, KernelTypeOK, kernel, conns
  <1>5. CASE ReadEof(c)
    <2>1. CASE Dies("EREADCLOSED")
      BY <1>2, <1>3, <2>1
    <2>2. CASE ConnDeath(c)
      <3>1. KernelTypeOK'
        BY <2>2, ClosingKernel DEF ConnDeath, OtherTypes
      <3>2. exit' \in ExitReason /\ rbuf' \in [Conn -> Seq(Token)]
        BY <2>2 DEF ConnDeath, OtherTypes
      <3> QED
        BY <3>1, <3>2
    <2>3. CASE UNCHANGED <<kernel, exit, rbuf>>
      BY <2>3 DEF OtherTypes, KernelTypeOK, kernel
    <2> QED
      BY <1>5, <2>1, <2>2, <2>3 DEF ReadEof
  <1>6. CASE ReadText(c)
    <2> DEFINE text   == Text(c, Consumed(c))
               rest   == SubSeq(inbox[c], Consumed(c) + 1, Len(inbox[c]))
    <2>1. text \in Seq(Token) /\ rest \in Seq(Token)
      BY Reads DEF OtherTypes, KernelTypeOK
    <2>2. CASE Dies("EWORKTODO")
      BY <1>2, <1>3, <2>2
    <2>3. CASE ~Dies("EWORKTODO")
      <3>1. /\ IF HasEnd(text) THEN NewHttpRequest(c, text) ELSE rbuf' = [rbuf EXCEPT ![c] = text]
            /\ inbox' = [inbox EXCEPT ![c] = rest]
            /\ UNCHANGED <<peer, full, backlog, watched, edge, sigPending, tokensLeft, sigLeft, exit>>
        BY <1>6, <2>3 DEF ReadText
      <3> HIDE DEF text, rest
      <3>2. rbuf' \in [Conn -> Seq(Token)]
        <4>1. CASE HasEnd(text)
          <5> DEFINE k == CHOOSE i \in DOMAIN text :
                             text[i] = "end" /\ \A m \in 1 .. i - 1 : text[m] # "end"
          <5>1. rbuf' = [rbuf EXCEPT ![c] = SubSeq(text, k + 1, Len(text))]
            BY <3>1, <4>1 DEF NewHttpRequest
          <5>2. SubSeq(text, k + 1, Len(text)) \in Seq(Token)
            BY <2>1, <4>1, Rest
          <5> QED
            BY <5>1, <5>2 DEF OtherTypes
        <4>2. CASE ~HasEnd(text)
          BY <2>1, <3>1, <4>2 DEF OtherTypes
        <4> QED
          BY <4>1, <4>2
      <3>3. inbox' \in [Conn -> Seq(Token)]
        BY <2>1, <3>1 DEF OtherTypes, KernelTypeOK
      <3> QED
        BY <3>1, <3>2, <3>3 DEF OtherTypes, KernelTypeOK
    <2> QED
      BY <2>2, <2>3
  <1>7. CASE RequestRun(c)
    <2>1. Dies("cookie") \/ Dies("ENOWORK") \/ UNCHANGED <<kernel, exit, rbuf>>
      BY <1>7 DEF RequestRun
    <2> QED
      BY <1>2, <1>3, <2>1 DEF OtherTypes, KernelTypeOK, kernel
  <1>8. CASE WriterRun(c)
    <2>1. CASE Dies("write")
      BY <1>2, <1>3, <2>1
    <2>2. CASE ~Dies("write")
      <3>1. PICK room \in BOOLEAN : full' = [full EXCEPT ![c] = ~room]
        BY <1>8, <2>2 DEF WriterRun
      <3>2. UNCHANGED <<peer, inbox, backlog, watched, edge, sigPending, tokensLeft, sigLeft, exit, rbuf>>
        BY <1>8, <2>2 DEF WriterRun
      <3>3. full' \in [Conn -> BOOLEAN]
        BY <3>1 DEF OtherTypes, KernelTypeOK
      <3> QED
        BY <3>2, <3>3 DEF OtherTypes, KernelTypeOK
    <2> QED
      BY <2>1, <2>2
  <1> QED
    BY <1>4, <1>5, <1>6, <1>7, <1>8 DEF ReaderRun

(* The handler of an event keeps the types. *)
LEMMA DispatchingTypes ==
    ASSUME JobsInv, OtherTypes,
           ListenerEvent \/ SignalsEvent \/ \E c \in Conn : ConnEvents(c)
    PROVE  OtherTypes'
  <1>1. PICK s \in DOMAIN batch : Dispatches(s)
    BY DEF ListenerEvent, SignalsEvent, ConnEvents, Dispatches
  <1>2. /\ iJob' = iJob /\ iShutdown' = iShutdown
        /\ \A t \in DOMAIN batch' : batch'[t] \subseteq {"IN", "OUT", "ERR", "HUP"}
    BY <1>1 DEF Dispatches, scheduler, OtherTypes
  <1> SUFFICES KernelTypeOK' /\ exit' \in ExitReason /\ rbuf' \in [Conn -> Seq(Token)]
    BY <1>2 DEF OtherTypes
  <1>3. ASSUME NEW why \in ExitReason, Dies(why)
        PROVE  KernelTypeOK' /\ exit' \in ExitReason /\ rbuf' \in [Conn -> Seq(Token)]
    BY <1>3 DEF Dies, OtherTypes, KernelTypeOK, kernel, conns
  <1>4. /\ "uaf event" \in ExitReason /\ "uaf signal" \in ExitReason /\ "double" \in ExitReason
        /\ "EERR" \in ExitReason /\ "EHUP" \in ExitReason
    BY DEF ExitReason, ConnEvent
  <1>5. CASE ListenerEvent
    <2>1. CASE ~listener
      BY <1>3, <1>4, <1>5, <2>1 DEF ListenerEvent
    <2>2. CASE listener
      <3> DEFINE c == Head(backlog)
      <3>1. /\ backlog # <<>> /\ backlog' = Tail(backlog)
            /\ watched' = watched \cup {c} /\ edge' = edge \cup {c}
            /\ UNCHANGED <<peer, inbox, full, sigPending, tokensLeft, sigLeft, exit, rbuf>>
        BY <1>5, <2>2 DEF ListenerEvent
      <3>2. c \in Conn /\ backlog' \in Seq(Conn)
        BY <3>1 DEF OtherTypes, KernelTypeOK
      <3> QED
        BY <3>1, <3>2 DEF OtherTypes, KernelTypeOK, Source
    <2> QED
      BY <2>1, <2>2
  <1>6. CASE SignalsEvent
    <2>1. CASE Dies("uaf signal")
      BY <1>3, <1>4, <2>1
    <2>2. CASE ~Dies("uaf signal")
      <3>1. PICK more \in 0 .. sigLeft :
              /\ exit' = IF foober THEN "double" ELSE exit
              /\ peer' = [c \in Conn |-> IF NobodyConnected /\ c \in Range(backlog) THEN "gone" ELSE peer[c]]
              /\ inbox' = [c \in Conn |-> IF NobodyConnected /\ c \in Range(backlog) THEN <<>> ELSE inbox[c]]
              /\ backlog' = IF NobodyConnected THEN <<>> ELSE backlog
              /\ edge' = edge \ (IF NobodyConnected THEN {SIGNALS, LISTENER} ELSE {SIGNALS})
              /\ sigPending' = FALSE /\ sigLeft' = sigLeft - more
              /\ UNCHANGED <<full, watched, tokensLeft, rbuf>>
        BY <1>6, <2>2 DEF SignalsEvent, conns
      <3>2. peer' \in [Conn -> PeerState] /\ inbox' \in [Conn -> Seq(Token)]
        BY <3>1 DEF OtherTypes, KernelTypeOK, PeerState
      <3>3. sigLeft' \in 0 .. MaxSignals
        BY <3>1, SocketsAssumption DEF OtherTypes, KernelTypeOK
      <3>4. sigPending' \in BOOLEAN
        BY <3>1
      <3>5. exit' \in ExitReason
        BY <1>4, <3>1 DEF OtherTypes
      <3>6. backlog' \in Seq(Conn) /\ edge' \subseteq Source
        BY <3>1 DEF OtherTypes, KernelTypeOK
      <3> QED
        BY <3>1, <3>2, <3>3, <3>4, <3>5, <3>6 DEF OtherTypes, KernelTypeOK
    <2> QED
      BY <2>1, <2>2
  <1>7. CASE \E c \in Conn : ConnEvents(c)
    <2>1. PICK c \in Conn : ConnFails(c, "EERR") \/ ConnFails(c, "EHUP") \/ ConnReady(c)
      BY <1>7 DEF ConnEvents
    <2>2. \/ Dies("EERR") \/ Dies("EHUP")
          \/ \E target : ConnClose(c, target)
          \/ UNCHANGED <<kernel, exit, rbuf>>
      BY <2>1 DEF ConnFails, ConnReady, conns
    <2>3. CASE \E target : ConnClose(c, target)
      <3>1. KernelTypeOK'
        BY <2>3, ClosingKernel DEF ConnClose, OtherTypes
      <3>2. exit' \in ExitReason /\ rbuf' \in [Conn -> Seq(Token)]
        BY <2>3 DEF ConnClose, OtherTypes
      <3> QED
        BY <3>1, <3>2
    <2>4. CASE UNCHANGED <<kernel, exit, rbuf>>
      BY <2>4 DEF OtherTypes, KernelTypeOK, kernel
    <2> QED
      BY <1>3, <1>4, <2>2, <2>3, <2>4
  <1> QED
    BY <1>5, <1>6, <1>7

(* Every step keeps the types. *)
LEMMA NextTypes ==
    ASSUME JobsInv, OtherTypes, Countdown, [Next]_vars
    PROVE  OtherTypes'
  <1>1. CASE Clients
    <2>1. UNCHANGED <<exit, iJob, iShutdown, batch, rbuf>>
      BY <1>1 DEF Clients, server, scheduler, conns
    <2> QED
      BY <1>1, <2>1, ClientKernel DEF OtherTypes
  <1>2. CASE Exited \/ UNCHANGED vars
    <2>1. UNCHANGED <<kernel, exit, iJob, iShutdown, batch, rbuf>>
      BY <1>2 DEF Exited, vars, server, scheduler, conns
    <2> QED
      BY <2>1 DEF OtherTypes, KernelTypeOK, kernel
  <1>3. CASE Top
    <2>1. UNCHANGED <<kernel, iJob, iShutdown, batch, rbuf>> /\ exit' \in {exit, "normal"}
      BY <1>3 DEF Top, conns
    <2> QED
      BY <2>1 DEF OtherTypes, KernelTypeOK, kernel, ExitReason
  <1>4. CASE NextList
    <2> DEFINE more == {p \in RunLevels : p > iPriority /\ lists[p] # <<>>}
               p    == CHOOSE q \in more : \A r \in more : q <= r
    <2>1. UNCHANGED <<kernel, exit, iShutdown, batch, rbuf>>
      BY <1>4 DEF NextList, conns
    <2>2. CASE iJob' = iJob
      BY <2>1, <2>2 DEF OtherTypes, KernelTypeOK, kernel
    <2>3. CASE iJob' # iJob
      <3>1. more # {} /\ iJob' = lists[p][1]
        BY <1>4, <2>3 DEF NextList
      <3>2. p \in more
        BY <3>1, FirstList
      <3> HIDE DEF p
      <3>3. p \in Priority /\ lists[p] # <<>>
        BY <3>2, Levels
      <3>4. lists[p] \in Seq(Job)
        BY <3>3 DEF JobsInv, Places
      <3>5. iJob' \in Job
        BY <3>1, <3>3, <3>4
      <3> QED
        BY <2>1, <3>5 DEF OtherTypes, KernelTypeOK, kernel
    <2> QED
      BY <2>2, <2>3
  <1>5. CASE Poll
    <2>1. PICK B \in SUBSET ReadySources : batch' = [s \in B |-> Mask(s)] /\ edge' = Undelivered(B)
      BY <1>5 DEF Poll
    <2>2. edge' \subseteq edge
      BY <2>1 DEF Undelivered, ReadySources
    <2>3. \A s : Mask(s) \subseteq {"IN", "OUT", "ERR", "HUP"}
      BY DEF Mask
    <2>4. UNCHANGED <<peer, inbox, full, backlog, watched, sigPending, tokensLeft, sigLeft,
                      exit, iJob, iShutdown, rbuf>>
      BY <1>5 DEF Poll, conns
    <2> QED
      BY <2>1, <2>2, <2>3, <2>4 DEF OtherTypes, KernelTypeOK
  <1>6. CASE PollDone
    <2>1. UNCHANGED <<kernel, exit, iJob, batch, rbuf>> /\ pc = "dispatch"
      BY <1>6 DEF PollDone, conns
    <2>2. iShutdown' \in 0 .. MAX_SHUTDOWN_SECONDS
      BY <1>6, <2>1, AnticentAssumption DEF PollDone, CountDown, Countdown, OtherTypes
    <2> QED
      BY <2>1, <2>2 DEF OtherTypes, KernelTypeOK, kernel
  <1>7. CASE ListenerEvent \/ SignalsEvent \/ \E c \in Conn : ConnEvents(c)
    BY <1>7, DispatchingTypes
  <1>8. CASE exit = "no" /\ \E c \in Conn : ReaderRun(c) \/ RequestRun(c) \/ WriterRun(c)
    BY <1>8, RunningTypes
  <1> QED
    BY <1>1, <1>2, <1>3, <1>4, <1>5, <1>6, <1>7, <1>8 DEF Next, Server

-----------------------------------------------------------------------------
(* Wakeups, action by action *)

(* What epoll knows. *)
Interest ==
    /\ watched = Open
    /\ edge \subseteq watched \cup {LISTENER, SIGNALS}
    /\ DOMAIN batch \subseteq watched \cup {LISTENER, SIGNALS}
    /\ pc # "dispatch" => DOMAIN batch = {}
    /\ AcceptNeverFails

(* What connection c still has to see is on its way. *)
Seen(c) ==
    exit = "no" =>
        /\ peer[c] = "rst" => c \in edge \/ (c \in DOMAIN batch /\ "ERR" \in batch[c])
        /\ Reader(c) \in On(BLOCKED) /\ (inbox[c] # <<>> \/ peer[c] = "rst")
             => c \in edge \/ (c \in DOMAIN batch /\ "IN" \in batch[c])
        /\ Writer(c) \in On(BLOCKED) /\ wbuf[c] > 0
             => full[c] \/ c \in edge \/ (c \in DOMAIN batch /\ "OUT" \in batch[c])

(* Wakeups, connection by connection. *)
LEMMA WakeupParts == Wakeups <=> Interest /\ \A c \in watched : Seen(c)
  BY DEF Wakeups, Interest, Seen, InputWatched, OutputWatched, IsBlocked, On

(* The same of the next state. *)
LEMMA WakeupParts2 == Wakeups' <=> Interest' /\ \A c \in watched' : Seen(c)'
  BY DEF Wakeups, Interest, Seen, InputWatched, OutputWatched, IsBlocked, On

(* A connection that a step gives nothing new to see. *)
LEMMA SeenKept ==
    ASSUME NEW c \in Conn, Seen(c),
           exit' = "no" => exit = "no",
           c \in edge => c \in edge',
           c \in DOMAIN batch => c \in DOMAIN batch' /\ batch'[c] = batch[c],
           peer'[c] = "rst" => peer[c] = "rst",
           inbox'[c] # <<>> => inbox[c] # <<>>,
           full[c] => full'[c],
           wbuf'[c] > 0 => wbuf[c] > 0,
           Reader(c) \in On(BLOCKED)' => Reader(c) \in On(BLOCKED),
           Writer(c) \in On(BLOCKED)' => Writer(c) \in On(BLOCKED)
    PROVE  Seen(c)'
  BY DEF Seen

(* The process ends: what was not seen no longer matters. *)
LEMMA EndingWakes ==
    ASSUME Wakeups, UNCHANGED <<kernel, state>>, exit' # "no",
           DOMAIN batch' \subseteq DOMAIN batch, listener' = listener, pc' = pc
    PROVE  Wakeups'
  <1>1. UNCHANGED <<watched, edge, backlog>> /\ Open' = Open
    BY DEF kernel, Open, Live
  <1>2. Interest'
    BY <1>1, WakeupParts DEF Interest, AcceptNeverFails
  <1>3. \A c \in watched' : Seen(c)'
    BY DEF Seen
  <1> QED
    BY <1>2, <1>3, WakeupParts2

(* Clients, and the keyboard, queue a wakeup with everything they change. *)
LEMMA ClientWakes ==
    ASSUME IInv, KernelTypeOK, Wakeups, Clients
    PROVE  Wakeups'
  <1>0. UNCHANGED <<exit, pc, batch, lists, state, wbuf, listener>>
    BY DEF Clients, server, scheduler, conns, shutdown
  <1>1. watched' = watched /\ Open' = Open /\ On(BLOCKED)' = On(BLOCKED)
    BY <1>0 DEF Clients, Sigint, Connect, Client, Send, Fin, Reset, Drain, Open, Live, On
  <1>2. edge \subseteq edge' /\ edge' \subseteq watched \cup edge \cup {LISTENER, SIGNALS}
    BY DEF Clients, Sigint, Connect, Client, Send, Fin, Reset, Drain, Wake
  <1>3. backlog # <<>> => backlog' # <<>>
    BY DEF Clients, Sigint, Connect, Client, Send, Fin, Reset, Drain, KernelTypeOK
  <1>4. Interest'
    BY <1>0, <1>1, <1>2, <1>3, WakeupParts DEF Interest, AcceptNeverFails
  <1>5. ASSUME NEW c \in watched
        PROVE  Seen(c)'
    <2>1. c \in Conn /\ Seen(c)
      BY WakeupParts DEF KernelTypeOK
    <2>2. CASE c \in edge'
      BY <2>2 DEF Seen
    <2>3. CASE c \notin edge'
      <3>1. (peer'[c] = "rst" => peer[c] = "rst") /\ inbox'[c] = inbox[c] /\ full'[c] = full[c]
        <4>1. CASE Sigint
          BY <4>1 DEF Sigint
        <4>2. CASE \E d \in Conn : Connect(d)
          BY <2>1, <4>2 DEF Connect, KernelTypeOK
        <4>3. CASE \E d \in Conn : Client(d)
          <5>1. PICK d \in Conn : Client(d)
            BY <4>3
          <5>2. d # c
            BY <2>3, <5>1 DEF Client, Send, Fin, Reset, Drain, Wake
          <5> QED
            BY <2>1, <5>1, <5>2 DEF Client, Send, Fin, Reset, Drain, KernelTypeOK
        <4> QED
          BY <4>1, <4>2, <4>3 DEF Clients
      <3> QED
        BY <1>0, <1>1, <1>2, <2>1, <3>1, SeenKept
    <2> QED
      BY <2>2, <2>3
  <1> QED
    BY <1>1, <1>4, <1>5, WakeupParts2

(* Steps of the scheduler that touch neither kernel, objects nor events. *)
LEMMA IdleWakes ==
    ASSUME KernelTypeOK, Wakeups, UNCHANGED <<kernel, state, wbuf, lists, batch, listener>>,
           exit' = "no" => exit = "no", pc' # "dispatch" => pc # "dispatch" \/ DOMAIN batch = {}
    PROVE  Wakeups'
  <1>1. UNCHANGED <<watched, edge, backlog, peer, inbox, full>> /\ Open' = Open /\ On(BLOCKED)' = On(BLOCKED)
    BY DEF kernel, Open, Live, On
  <1>2. Interest'
    BY <1>1, WakeupParts DEF Interest, AcceptNeverFails
  <1>3. ASSUME NEW c \in watched'
        PROVE  Seen(c)'
    BY <1>1, WakeupParts, SeenKept DEF KernelTypeOK
  <1> QED
    BY <1>2, <1>3, WakeupParts2

(* epoll_wait hands over what is ready, and the rest stays queued. *)
LEMMA PollWakes ==
    ASSUME KernelTypeOK, Wakeups, Poll
    PROVE  Wakeups'
  <1>1. PICK B \in SUBSET ReadySources : batch' = [s \in B |-> Mask(s)] /\ edge' = ReadySources \ B
    BY DEF Poll, Undelivered
  <1>2. /\ UNCHANGED <<exit, watched, backlog, listener, peer, inbox, full, wbuf>>
        /\ Open' = Open /\ On(BLOCKED)' = On(BLOCKED)
        /\ pc' = "dispatch" /\ DOMAIN batch = {}
    BY WakeupParts DEF Poll, conns, shutdown, Open, Live, On, Interest
  <1>3. DOMAIN batch' = B /\ \A s \in B : batch'[s] = Mask(s) /\ s \in edge /\ Mask(s) # {}
    BY <1>1 DEF ReadySources
  <1>4. Interest'
    <2>1. LISTENER \in B => backlog # <<>>
      <3>1. Mask(LISTENER) = IF backlog # <<>> THEN {"IN"} ELSE {}
        BY DEF Mask, LISTENER, SIGNALS
      <3> QED
        BY <1>3, <3>1
    <2> QED
      BY <1>1, <1>2, <1>3, <2>1, WakeupParts DEF Interest, AcceptNeverFails, ReadySources
  <1>5. ASSUME NEW c \in watched
        PROVE  Seen(c)'
    <2>1. c \in Conn /\ Seen(c) /\ c # LISTENER /\ c # SIGNALS
      BY WakeupParts, SocketsAssumption DEF KernelTypeOK, LISTENER, SIGNALS
    <2>2. Mask(c) = (IF inbox[c] # <<>> \/ peer[c] \in {"fin", "rst"} THEN {"IN"} ELSE {})
                    \cup (IF full[c] THEN {} ELSE {"OUT"})
                    \cup (IF peer[c] = "rst" THEN {"ERR", "HUP"} ELSE {})
      BY <2>1 DEF Mask
    <2>3. c \in edge /\ Mask(c) # {} => c \in edge' \/ (c \in DOMAIN batch' /\ batch'[c] = Mask(c))
      BY <1>1, <1>3 DEF ReadySources
    <2> QED
      BY <1>2, <2>1, <2>2, <2>3 DEF Seen
  <1> QED
    BY <1>2, <1>4, <1>5, WakeupParts2

(* No connection that waits to be accepted is watched. *)
LEMMA UnbornUnwatched ==
    ASSUME IInv, Wakeups, NEW c \in Range(backlog)
    PROVE  c \notin watched
  <1>1. state[c] = "unborn"
    BY DEF Range, IInv, LifetimeInv, Unaccepted
  <1> QED
    BY <1>1, WakeupParts DEF Interest, Open, Live, ConnState

(* A connection is watched from its acceptance on, and has its first wakeup. *)
LEMMA AcceptingWakes ==
    ASSUME JobsInv, KernelTypeOK, Wakeups, ListenerEvent
    PROVE  Wakeups'
  <1>0. /\ LISTENER \in DOMAIN batch /\ batch' = [t \in DOMAIN batch \ {LISTENER} |-> batch[t]]
        /\ pc' = pc /\ pc = "dispatch"
    BY DEF ListenerEvent, Dispatches, scheduler
  <1>1. CASE ~listener
    <2>1. UNCHANGED <<kernel, state, listener>> /\ exit' # "no"
      BY <1>1 DEF ListenerEvent, Dies, conns, shutdown
    <2> QED
      BY <1>0, <2>1, EndingWakes
  <1>2. CASE listener
    <2> DEFINE c == Head(backlog)
    <2>1. /\ backlog # <<>>
          /\ state' = [state EXCEPT ![c] = "START"]
          /\ lists' = Push(Push(lists, BLOCKED, Writer(c)), BLOCKED, Reader(c))
          /\ watched' = watched \cup {c} /\ edge' = edge \cup {c}
          /\ UNCHANGED <<peer, inbox, full, exit, request, wbuf, listener>>
      BY <1>2 DEF ListenerEvent
    <2>2. c \in Conn /\ state[c] = "unborn"
      <3>1. 1 \in DOMAIN backlog /\ c = backlog[1]
        BY <2>1 DEF KernelTypeOK
      <3> QED
        BY <3>1 DEF KernelTypeOK, JobsInv, IInv, LifetimeInv, Unaccepted
    <2> HIDE DEF c
    <2>3. \A s \in DOMAIN batch' : s \in DOMAIN batch /\ batch'[s] = batch[s]
      BY <1>0
    <2>4. On(BLOCKED)' = On(BLOCKED) \cup {Reader(c), Writer(c)}
      BY <2>1, <2>2, <2>3, AcceptedPlaces DEF JobsInv
    <2>5. Open' = Open \cup {c}
      BY <2>1, <2>2 DEF Open, Live, ConnState, JobsInv, IInv, LifetimeTypes
    <2>6. Interest'
      BY <1>0, <2>1, <2>5, WakeupParts DEF Interest, AcceptNeverFails
    <2>7. ASSUME NEW d \in watched'
          PROVE  Seen(d)'
      <3>1. CASE d = c
        BY <2>1, <3>1 DEF Seen
      <3>2. CASE d # c
        <4>1. d \in watched /\ d \in Conn /\ d # LISTENER
          BY <2>1, <3>2, SocketsAssumption DEF KernelTypeOK, LISTENER
        <4>2. d \in DOMAIN batch => d \in DOMAIN batch' /\ batch'[d] = batch[d]
          BY <1>0, <4>1
        <4>3. /\ Reader(d) \in On(BLOCKED)' => Reader(d) \in On(BLOCKED)
              /\ Writer(d) \in On(BLOCKED)' => Writer(d) \in On(BLOCKED)
          BY <2>2, <2>4, <3>2, <4>1, JobNames
        <4> QED
          BY <2>1, <4>1, <4>2, <4>3, WakeupParts, SeenKept
      <3> QED
        BY <3>1, <3>2
    <2> QED
      BY <2>6, <2>7, WakeupParts2
  <1> QED
    BY <1>1, <1>2

(* Signals, and the death of an idle listener with its backlog. *)
LEMMA SignallingWakes ==
    ASSUME JobsInv, KernelTypeOK, Wakeups, SignalsEvent
    PROVE  Wakeups'
  <1>0. /\ batch' = [t \in DOMAIN batch \ {SIGNALS} |-> batch[t]]
        /\ pc' = pc /\ pc = "dispatch"
    BY DEF SignalsEvent, Dispatches, scheduler
  <1>1. CASE Dies("uaf signal")
    <2>1. UNCHANGED <<kernel, state, listener>> /\ exit' # "no"
      BY <1>1 DEF Dies, conns, shutdown
    <2> QED
      BY <1>0, <2>1, EndingWakes
  <1>2. CASE ~Dies("uaf signal")
    <2> DEFINE dies == NobodyConnected
    <2>1. /\ exit' = IF foober THEN "double" ELSE exit
          /\ peer' = [c \in Conn |-> IF dies /\ c \in Range(backlog) THEN "gone" ELSE peer[c]]
          /\ inbox' = [c \in Conn |-> IF dies /\ c \in Range(backlog) THEN <<>> ELSE inbox[c]]
          /\ backlog' = IF dies THEN <<>> ELSE backlog
          /\ edge' = edge \ (IF dies THEN {SIGNALS, LISTENER} ELSE {SIGNALS})
          /\ listener' = (listener /\ ~dies)
          /\ UNCHANGED <<full, watched, lists, state, wbuf>>
      BY <1>2 DEF SignalsEvent, ListenerDeath, conns
    <2> HIDE DEF dies
    <2>2. Open' = Open /\ On(BLOCKED)' = On(BLOCKED)
      BY <2>1 DEF Open, Live, On
    <2>3. Interest'
      <3>1. listener' => listener /\ backlog' = backlog
        BY <2>1
      <3> QED
        BY <1>0, <2>1, <2>2, <3>1, WakeupParts DEF Interest, AcceptNeverFails
    <2>4. ASSUME NEW c \in watched
          PROVE  Seen(c)'
      <3>1. c \in Conn /\ c # LISTENER /\ c # SIGNALS /\ c \notin Range(backlog)
        BY UnbornUnwatched, SocketsAssumption DEF KernelTypeOK, LISTENER, SIGNALS, JobsInv
      <3>2. peer'[c] = peer[c] /\ inbox'[c] = inbox[c] /\ (c \in edge => c \in edge')
        BY <2>1, <3>1
      <3>3. c \in DOMAIN batch => c \in DOMAIN batch' /\ batch'[c] = batch[c]
        BY <1>0, <3>1
      <3>4. exit' = "no" => exit = "no"
        BY <2>1
      <3> QED
        BY <2>1, <2>2, <3>1, <3>2, <3>3, <3>4, WakeupParts, SeenKept
    <2> QED
      BY <2>1, <2>3, <2>4, WakeupParts2
  <1> QED
    BY <1>1, <1>2

(* What CloseSockets leaves of a watched connection, and takes of one. *)
LEMMA ClosedWakes ==
    ASSUME JobsInv, KernelTypeOK, Wakeups, NEW c \in Open, NEW B \in BOOLEAN,
           CloseSockets({c} \cup (IF B THEN {LISTENER} ELSE {})),
           Open' = Open \ {c}, On(BLOCKED)' \subseteq On(BLOCKED),
           \A d \in Conn : d # c => wbuf'[d] = wbuf[d],
           B => ~listener', ~B => (listener' => listener), exit' = exit, pc' = pc,
           \/ batch' = batch /\ c \notin DOMAIN batch
           \/ batch' = [t \in DOMAIN batch \ {c} |-> batch[t]] /\ pc = "dispatch"
    PROVE  Wakeups'
  <1> DEFINE S == {c} \cup (IF B THEN {LISTENER} ELSE {})
             closed == (S \cap Conn) \cup (IF LISTENER \in S THEN Range(backlog) ELSE {})
  <1>1. /\ peer' = [d \in Conn |-> IF d \in closed THEN "gone" ELSE peer[d]]
        /\ inbox' = [d \in Conn |-> IF d \in closed THEN <<>> ELSE inbox[d]]
        /\ full' = [d \in Conn |-> full[d] /\ d \notin closed]
        /\ backlog' = IF LISTENER \in S THEN <<>> ELSE backlog
        /\ watched' = watched \ closed
        /\ edge' = edge \ (S \cup closed)
    BY DEF CloseSockets
  <1>2. c \in Conn /\ c # LISTENER /\ watched = Open /\ watched \subseteq Conn
    BY WakeupParts, SocketsAssumption DEF Open, Live, LISTENER, Interest, KernelTypeOK
  <1>3. LISTENER \in S <=> B
    BY <1>2
  <1>4. c \in closed
    BY <1>2
  <1>5. \A d \in watched : d \in closed <=> d = c
    <2>1. \A d \in closed : d = c \/ d \in Range(backlog)
      BY SocketsAssumption DEF LISTENER
    <2> HIDE DEF closed
    <2>2. \A d \in Range(backlog) : d \notin watched
      BY UnbornUnwatched DEF JobsInv
    <2> QED
      BY <1>4, <2>1, <2>2
  <1>6. \A d \in S \cup closed : d \in watched => d = c
    BY <1>2, <1>5, SocketsAssumption DEF LISTENER
  <1> HIDE DEF S, closed
  <1>7. watched' = watched \ {c}
    BY <1>1, <1>5
  <1>8. c \notin DOMAIN batch' /\ DOMAIN batch' \subseteq DOMAIN batch
        /\ \A d \in DOMAIN batch : d # c => d \in DOMAIN batch' /\ batch'[d] = batch[d]
    OBVIOUS
  <1>9. Interest'
    <2>1. edge' \subseteq watched' \cup {LISTENER, SIGNALS}
      BY <1>1, <1>4, <1>7, WakeupParts DEF Interest
    <2>2. DOMAIN batch' \subseteq watched' \cup {LISTENER, SIGNALS}
      BY <1>7, <1>8, WakeupParts DEF Interest
    <2>3. AcceptNeverFails'
      BY <1>1, <1>3, <1>8, WakeupParts DEF Interest, AcceptNeverFails
    <2> QED
      BY <1>2, <1>7, <1>8, <2>1, <2>2, <2>3, WakeupParts DEF Interest
  <1>10. ASSUME NEW d \in watched'
         PROVE  Seen(d)'
    <2>1. d \in watched /\ d # c /\ d \in Conn /\ d \notin closed /\ d \notin S
      BY <1>2, <1>5, <1>6, <1>7
    <2>2. /\ peer'[d] = peer[d] /\ inbox'[d] = inbox[d] /\ (full[d] => full'[d])
          /\ (d \in edge => d \in edge') /\ wbuf'[d] = wbuf[d]
      BY <1>1, <2>1
    <2> QED
      BY <1>8, <2>1, <2>2, WakeupParts, SeenKept
  <1> QED
    BY <1>9, <1>10, WakeupParts2

(* The reader stops reading with nothing left, or stays on its list. *)
LEMMA ReadingWakes ==
    ASSUME JobsInv, OtherTypes, Wakeups, NEW c \in Conn, ReaderRun(c)
    PROVE  Wakeups'
  <1>0. /\ pc = "walk" /\ UNCHANGED <<pc, batch>> /\ DOMAIN batch = {} /\ c \in Open
        /\ On(BLOCKED)' \subseteq On(BLOCKED) \cup {Reader(c)}
        /\ Reader(c) \in On(BLOCKED)' => ReadNothing(c) \/ (ReadText(c) /\ BlocksItself(c))
    BY ReadingPlaces, Runner, WakeupParts DEF ReaderRun, Runs, JobsInv, Interest
  <1>1. ASSUME NEW why, why # "no", Dies(why)
        PROVE  Wakeups'
    BY <1>0, <1>1, EndingWakes DEF Dies, conns, shutdown
  <1>2. ASSUME UNCHANGED <<exit, peer, full, backlog, watched, edge, wbuf, listener>>, Open' = Open,
               \A d \in Conn : d # c => inbox'[d] = inbox[d],
               inbox'[c] # <<>> => inbox[c] # <<>>,
               Reader(c) \in On(BLOCKED)' => inbox'[c] = <<>>
        PROVE  Wakeups'
    <2>1. Interest'
      BY <1>0, <1>2, WakeupParts DEF Interest, AcceptNeverFails
    <2>2. ASSUME NEW d \in watched
          PROVE  Seen(d)'
      <3>1. d \in Conn /\ Seen(d)
        BY WakeupParts DEF OtherTypes, KernelTypeOK
      <3>2. CASE d = c
        <4>1. Writer(c) \in On(BLOCKED)' => Writer(c) \in On(BLOCKED)
          BY <1>0, JobNames
        <4> QED
          BY <1>0, <1>2, <3>1, <3>2, <4>1 DEF Seen
      <3>3. CASE d # c
        <4>1. /\ Reader(d) \in On(BLOCKED)' => Reader(d) \in On(BLOCKED)
              /\ Writer(d) \in On(BLOCKED)' => Writer(d) \in On(BLOCKED)
          BY <1>0, <3>1, <3>3, JobNames
        <4> QED
          BY <1>0, <1>2, <3>1, <3>3, <4>1, SeenKept
      <3> QED
        BY <3>2, <3>3
    <2> QED
      BY <1>2, <2>1, <2>2, WakeupParts2
  <1>3. CASE ReadError(c)
    BY <1>1, <1>3 DEF ReadError
  <1>4. CASE ReadNothing(c)
    BY <1>2, <1>4 DEF ReadNothing, kernel, conns, shutdown, Open, Live
  <1>5. CASE ReadEof(c)
    <2> DEFINE target == Target(state[c], "EREADCLOSED")
    <2>0. /\ state[c] \in ConnState \cup {"unborn", "freed"}
          /\ state[c] \notin {"READONLY", "DEATH"}
      BY DEF JobsInv, IInv, LifetimeTypes, LifetimeInv, StatePhase
    <2>1. target \in {"error", "DEATH", "WRITEONLY"}
      BY <2>0, Targets
    <2>2. CASE target = "error"
      BY <1>1, <1>5, <2>2 DEF ReadEof
    <2>3. CASE target = "DEATH"
      <3>1. ConnDeath(c) /\ state[c] = "IONOWORK"
        BY <1>5, <2>0, <2>3, Targets DEF ReadEof
      <3>2. /\ state' = [state EXCEPT ![c] = "freed"] /\ wbuf' = [wbuf EXCEPT ![c] = 0]
            /\ listener' = (listener /\ ~LastConn) /\ exit' = exit
            /\ CloseSockets({c} \cup (IF LastConn THEN {LISTENER} ELSE {}))
        BY <3>1 DEF ConnDeath, ListenerDeath
      <3>3. Open' = Open \ {c}
        BY <1>0, <3>2 DEF Open, Live, ConnState, JobsInv, IInv, LifetimeTypes
      <3>4. On(BLOCKED)' \subseteq On(BLOCKED)
        BY <1>0, <3>1, DyingPlaces DEF JobsInv
      <3>5. LastConn \in BOOLEAN
        BY DEF LastConn
      <3>6. \A d \in Conn : d # c => wbuf'[d] = wbuf[d]
        BY <3>2
      <3>7. (LastConn => ~listener') /\ (~LastConn => (listener' => listener))
        BY <3>2
      <3> DEFINE B == LastConn
      <3> HIDE DEF B
      <3>8. /\ B \in BOOLEAN /\ CloseSockets({c} \cup (IF B THEN {LISTENER} ELSE {}))
            /\ B => ~listener' 
            /\ ~B => (listener' => listener)
        BY <3>2, <3>5, <3>7 DEF B
      <3> QED
        BY <1>0, <3>2, <3>3, <3>4, <3>6, <3>8, ClosedWakes DEF OtherTypes
    <2>4. CASE target = "WRITEONLY"
      <3>1. state[c] = "IOWORKING" /\ state' = [state EXCEPT ![c] = "WRITEONLY"]
            /\ UNCHANGED <<kernel, exit, lists, wbuf, listener>>
        BY <1>5, <2>0, <2>4, Targets DEF ReadEof, shutdown
      <3>2. Open' = Open
        BY <3>1 DEF Open, Live, ConnState, JobsInv, IInv, LifetimeTypes
      <3>3. inbox[c] = <<>>
        BY <1>5 DEF ReadEof
      <3> QED
        BY <1>2, <3>1, <3>2, <3>3 DEF kernel
    <2> QED
      BY <2>1, <2>2, <2>3, <2>4
  <1>6. CASE ReadText(c)
    <2> DEFINE text   == Text(c, Consumed(c))
               parsed == HasEnd(text)
               target == Target(state[c], "EWORKTODO")
               rest   == SubSeq(inbox[c], Consumed(c) + 1, Len(inbox[c]))
    <2>1. CASE parsed /\ target = "error"
      BY <1>1, <1>6, <2>1 DEF ReadText
    <2>2. CASE ~(parsed /\ target = "error")
      <3>1. /\ inbox' = [inbox EXCEPT ![c] = rest] /\ inbox[c] # <<>>
            /\ UNCHANGED <<peer, full, backlog, watched, edge, exit, wbuf, listener>>
            /\ IF parsed THEN NewHttpRequest(c, text) ELSE state' = state
        BY <1>6, <2>2 DEF ReadText, shutdown
      <3>2. Open' = Open
        <4>1. CASE ~parsed
          BY <3>1, <4>1 DEF Open, Live
        <4>2. CASE parsed
          <5>1. state' = [state EXCEPT ![c] = target]
            BY <3>1, <4>2 DEF NewHttpRequest, JobsInv, IInv, LifetimeTypes
          <5>2. state[c] \in ConnState \cup {"unborn", "freed"} /\ state[c] \notin {"READONLY", "DEATH"}
            BY DEF JobsInv, IInv, LifetimeTypes, LifetimeInv, StatePhase
          <5>3. target = "IOWORKING"
            BY <2>2, <4>2, <5>2, Targets
          <5> QED
            BY <1>0, <5>1, <5>3 DEF Open, Live, ConnState, JobsInv, IInv, LifetimeTypes
        <4> QED
          BY <4>1, <4>2
      <3>3. BlocksItself(c) => rest = <<>>
        BY Reads DEF BlocksItself, OtherTypes, KernelTypeOK
      <3>4. Reader(c) \in On(BLOCKED)' => inbox'[c] = <<>>
        <4>1. Reader(c) \in On(BLOCKED)' => BlocksItself(c)
          BY <1>0, <3>1 DEF ReadNothing
        <4> QED
          BY <3>1, <3>3, <4>1 DEF OtherTypes, KernelTypeOK
      <3>5. \A d \in Conn : d # c => inbox'[d] = inbox[d]
        BY <3>1
      <3> QED
        BY <1>2, <3>1, <3>2, <3>4, <3>5
    <2> QED
      BY <2>1, <2>2
  <1> QED
    BY <1>3, <1>4, <1>5, <1>6 DEF ReaderRun

(* Bytes to write come with a writer that is ready, or waits already. *)
LEMMA AnsweringWakes ==
    ASSUME JobsInv, OtherTypes, Wakeups, NEW c \in Conn, RequestRun(c)
    PROVE  Wakeups'
  <1>0. /\ UNCHANGED <<pc, batch>> /\ On(BLOCKED)' \subseteq On(BLOCKED)
        /\ exit' = "no" /\ wbuf[c] = 0 => Writer(c) \notin On(BLOCKED)'
    BY AnsweringPlaces DEF RequestRun, Runs, JobsInv
  <1> DEFINE target == Target(state[c], "ENOWORK")
  <1>1. CASE request[c] = "cookie" \/ target = "error"
    <2>1. UNCHANGED <<kernel, state, listener>> /\ exit' # "no"
      BY <1>1 DEF RequestRun, Dies, conns, shutdown
    <2> QED
      BY <1>0, <2>1, EndingWakes
  <1>2. CASE ~(request[c] = "cookie" \/ target = "error")
    <2>1. /\ state' = [state EXCEPT ![c] = target]
          /\ wbuf' = [wbuf EXCEPT ![c] = @ + RESPONSE]
          /\ UNCHANGED <<kernel, exit, listener>>
      BY <1>2 DEF RequestRun, shutdown
    <2>2. target = "IONOWORK" /\ state[c] = "IOWORKING"
      <3>1. state[c] \in ConnState \cup {"unborn", "freed"} /\ state[c] \notin {"READONLY", "DEATH"}
        BY DEF JobsInv, IInv, LifetimeTypes, LifetimeInv, StatePhase
      <3> QED
        BY <1>2, <3>1, Targets
    <2>3. Open' = Open
      BY <2>1, <2>2 DEF Open, Live, ConnState, JobsInv, IInv, LifetimeTypes
    <2>4. Interest'
      BY <1>0, <2>1, <2>3, WakeupParts DEF Interest, AcceptNeverFails, kernel
    <2>5. ASSUME NEW d \in watched
          PROVE  Seen(d)'
      <3>1. d \in Conn /\ Seen(d) /\ wbuf[c] \in Nat
        BY WakeupParts DEF OtherTypes, KernelTypeOK, JobsInv, Bytes
      <3>2. UNCHANGED <<peer, inbox, full, edge, watched>>
        BY <2>1 DEF kernel
      <3>3. d # c => wbuf'[d] = wbuf[d]
        BY <2>1, <3>1
      <3>4. CASE exit' = "no" /\ Writer(d) \in On(BLOCKED)'
        <4>1. wbuf'[d] > 0 => wbuf[d] > 0
          BY <1>0, <2>1, <3>1, <3>3, <3>4
        <4> QED
          BY <1>0, <2>1, <3>1, <3>2, <4>1, SeenKept
      <3>5. CASE exit' # "no" \/ Writer(d) \notin On(BLOCKED)'
        BY <1>0, <2>1, <3>1, <3>2, <3>5 DEF Seen
      <3> QED
        BY <3>4, <3>5
    <2> QED
      BY <2>1, <2>4, <2>5, WakeupParts2 DEF kernel
  <1> QED
    BY <1>1, <1>2

(* A writer that blocks has written all its bytes, or met a full buffer. *)
LEMMA WritingWakes ==
    ASSUME JobsInv, OtherTypes, Wakeups, NEW c \in Conn, WriterRun(c)
    PROVE  Wakeups'
  <1>0. UNCHANGED <<pc, batch>> /\ On(BLOCKED)' \subseteq On(BLOCKED) \cup {Writer(c)}
    BY WritingPlaces DEF WriterRun, Runs, JobsInv
  <1>1. CASE peer[c] = "rst" \/ full[c]
    <2>1. UNCHANGED <<kernel, state, listener>> /\ exit' # "no"
      BY <1>1 DEF WriterRun, Dies, conns, shutdown
    <2> QED
      BY <1>0, <2>1, EndingWakes
  <1>2. CASE ~(peer[c] = "rst" \/ full[c])
    <2>1. PICK n \in 1 .. wbuf[c], room \in BOOLEAN :
             /\ n < wbuf[c] => ~room
             /\ full' = [full EXCEPT ![c] = ~room]
             /\ wbuf' = [wbuf EXCEPT ![c] = @ - n]
             /\ UNCHANGED <<peer, inbox, backlog, watched, edge, exit, state, listener>>
      BY <1>2 DEF WriterRun, shutdown
    <2>2. Open' = Open
      BY <2>1 DEF Open, Live
    <2>3. Interest'
      BY <1>0, <2>1, <2>2, WakeupParts DEF Interest, AcceptNeverFails
    <2>4. wbuf[c] \in Nat /\ (wbuf'[c] > 0 => full'[c])
      <3>1. wbuf[c] \in Nat /\ n \in Nat /\ n <= wbuf[c] /\ wbuf'[c] = wbuf[c] - n
        BY <2>1 DEF JobsInv, Bytes
      <3>2. wbuf'[c] > 0 => ~room
        BY <2>1, <3>1
      <3>3. full'[c] = ~room
        BY <2>1 DEF OtherTypes, KernelTypeOK
      <3> QED
        BY <3>1, <3>2, <3>3
    <2>5. ASSUME NEW d \in watched
          PROVE  Seen(d)'
      <3>1. d \in Conn /\ Seen(d)
        BY WakeupParts DEF OtherTypes, KernelTypeOK
      <3>2. Reader(d) \in On(BLOCKED)' => Reader(d) \in On(BLOCKED)
        BY <1>0, <3>1, JobNames
      <3>3. CASE d = c
        BY <1>0, <2>1, <2>4, <3>1, <3>2, <3>3 DEF Seen
      <3>4. CASE d # c
        <4>1. Writer(d) \in On(BLOCKED)' => Writer(d) \in On(BLOCKED)
          BY <1>0, <3>1, <3>4, JobNames
        <4>2. wbuf'[d] = wbuf[d] /\ full'[d] = full[d]
          BY <2>1, <3>1, <3>4 DEF OtherTypes, KernelTypeOK
        <4> QED
          BY <1>0, <2>1, <3>1, <3>2, <4>1, <4>2, SeenKept
      <3> QED
        BY <3>3, <3>4
    <2> QED
      BY <2>1, <2>3, <2>5, WakeupParts2
  <1> QED
    BY <1>1, <1>2

(* The event of a connection readies what it announces; what it does not     *)
(* announce has another wakeup coming, or need not be seen.                  *)
LEMMA DispatchingWakes ==
    ASSUME JobsInv, OtherTypes, Wakeups, NEW c \in Conn, ConnEvents(c)
    PROVE  Wakeups'
  <1>0. /\ c \in DOMAIN batch /\ batch' = [t \in DOMAIN batch \ {c} |-> batch[t]]
        /\ pc' = pc /\ pc = "dispatch"
        /\ \A s \in DOMAIN batch' : s \in DOMAIN batch /\ batch'[s] = batch[s]
    BY DEF ConnEvents, Dispatches, scheduler
  <1>1. c \in watched /\ c \in Open /\ c # LISTENER /\ c # SIGNALS
    BY <1>0, WakeupParts, SocketsAssumption DEF Interest, LISTENER, SIGNALS
  <1>2. CASE "ERR" \in batch[c]
    <2>1. ConnFails(c, "EERR")
      BY <1>2 DEF ConnEvents
    <2>2. CASE Target(state[c], "EERR") = "error"
      <3>1. UNCHANGED <<kernel, state, listener>> /\ exit' # "no"
        BY <2>1, <2>2 DEF ConnFails, Dies, conns, shutdown
      <3> QED
        BY <1>0, <3>1, EndingWakes
    <2>3. CASE Target(state[c], "EERR") # "error"
      <3>1. state[c] = "START" /\ Target(state[c], "EERR") = "CLOSED"
        BY <1>1, <2>3 DEF Target, ConnState, Open, Live, JobsInv, IInv, LifetimeInv, StatePhase
      <3>2. ConnClose(c, "CLOSED")
        BY <2>1, <2>3, <3>1 DEF ConnFails
      <3>3. /\ state' = [state EXCEPT ![c] = "CLOSED"]
            /\ CloseSockets({c} \cup (IF FALSE THEN {LISTENER} ELSE {}))
            /\ UNCHANGED <<exit, wbuf, listener>>
        BY <3>2 DEF ConnClose, shutdown
      <3>4. Open' = Open \ {c}
        BY <1>1, <3>3 DEF Open, Live, ConnState, JobsInv, IInv, LifetimeTypes
      <3>5. On(BLOCKED)' \subseteq On(BLOCKED)
        BY <1>0, <3>1, <3>2, ClosingPlaces DEF JobsInv
      <3> QED
        BY <1>0, <1>1, <3>3, <3>4, <3>5, ClosedWakes DEF OtherTypes
    <2> QED
      BY <2>2, <2>3
  <1>3. CASE "ERR" \notin batch[c]
    <2>1. ConnReady(c)
      BY <1>0, <1>3 DEF ConnEvents, JobsInv, Bytes
    <2>2. UNCHANGED <<watched, edge, backlog, peer, inbox, full, exit, state, wbuf, listener>>
      BY <2>1 DEF ConnReady, kernel, conns, shutdown
    <2>3. /\ On(BLOCKED)' \subseteq On(BLOCKED)
          /\ Writable(c) => Writer(c) \notin On(BLOCKED)'
          /\ "IN" \in batch[c] => Reader(c) \notin On(BLOCKED)'
      BY <1>0, <2>1, ReadiedPlaces DEF JobsInv
    <2>4. Open' = Open
      BY <2>2 DEF Open, Live
    <2>5. Interest'
      BY <1>0, <1>1, <2>2, <2>4, WakeupParts DEF Interest, AcceptNeverFails
    <2>6. ASSUME NEW d \in watched
          PROVE  Seen(d)'
      <3>1. d \in Conn /\ Seen(d)
        BY WakeupParts DEF OtherTypes, KernelTypeOK
      <3>2. CASE d = c
        BY <1>3, <2>2, <2>3, <3>1, <3>2 DEF Seen, Writable
      <3>3. CASE d # c
        BY <1>0, <2>2, <2>3, <3>1, <3>3, SeenKept
      <3> QED
        BY <3>2, <3>3
    <2> QED
      BY <2>2, <2>5, <2>6, WakeupParts2
  <1> QED
    BY <1>2, <1>3

(* No step loses a wakeup. *)
LEMMA NextWakes ==
    ASSUME JobsInv, OtherTypes, Wakeups, [Next]_vars
    PROVE  Wakeups'
  <1>0. KernelTypeOK
    BY DEF OtherTypes
  <1>1. CASE Clients
    BY <1>0, <1>1, ClientWakes DEF JobsInv
  <1>2. CASE Exited \/ UNCHANGED vars \/ Top \/ NextList \/ PollDone
    <2>1. /\ UNCHANGED <<kernel, state, wbuf, lists, listener>>
          /\ exit' = "no" => exit = "no" \/ UNCHANGED exit
          /\ batch' = batch
      BY <1>2 DEF Exited, Top, NextList, PollDone, vars, server, conns, shutdown
    <2>2. pc' # "dispatch" => pc # "dispatch" \/ DOMAIN batch = {}
      BY <1>2 DEF Exited, Top, NextList, PollDone, vars, server, scheduler
    <2>3. exit' = "no" => exit = "no"
      BY <1>2 DEF Exited, Top, NextList, PollDone, vars, server
    <2> QED
      BY <1>0, <2>1, <2>2, <2>3, IdleWakes
  <1>3. CASE Poll
    BY <1>0, <1>3, PollWakes
  <1>4. CASE ListenerEvent \/ SignalsEvent
    BY <1>0, <1>4, AcceptingWakes, SignallingWakes
  <1>5. CASE \E c \in Conn : ReaderRun(c) \/ RequestRun(c) \/ WriterRun(c) \/ ConnEvents(c)
    BY <1>5, ReadingWakes, AnsweringWakes, WritingWakes, DispatchingWakes
  <1> QED
    BY <1>1, <1>2, <1>3, <1>4, <1>5 DEF Next, Server

(* The countdown, and the two flags that a SIGINT sets. *)
LEMMA NextCountdown ==
    ASSUME JobsInv, OtherTypes, Countdown, [Next]_vars
    PROVE  Countdown'
  <1>1. CASE Top
    <2>1. UNCHANGED <<iShutdown, foober, shuttingDown>> /\ (pc' # "top" => KeepsRunning)
      BY <1>1 DEF Top, shutdown
    <2> QED
      BY <2>1 DEF Countdown, KeepsRunning
  <1>2. CASE PollDone
    <2>1. UNCHANGED <<foober, shuttingDown>> /\ pc = "dispatch" /\ (pc' # "top" => iShutdown' = iShutdown)
      BY <1>2 DEF PollDone, shutdown
    <2> QED
      BY <2>1 DEF Countdown
  <1>3. CASE SignalsEvent
    <2>1. UNCHANGED <<pc, iShutdown>>
      BY <1>3 DEF SignalsEvent, Dispatches, scheduler
    <2>2. foober' = shuttingDown'
      <3>1. \/ UNCHANGED <<foober, shuttingDown>>
            \/ shuttingDown' = TRUE /\ foober' = TRUE
        BY <1>3 DEF SignalsEvent, Dies, shutdown
      <3>2. foober = shuttingDown
        BY DEF Countdown
      <3>3. CASE UNCHANGED <<foober, shuttingDown>>
        BY <3>2, <3>3
      <3>4. CASE shuttingDown' = TRUE /\ foober' = TRUE
        BY <3>4
      <3> QED
        BY <3>1, <3>3, <3>4
    <2> QED
      BY <2>1, <2>2 DEF Countdown
  <1>4. CASE \E c \in Conn : ReaderRun(c) \/ RequestRun(c) \/ WriterRun(c) \/ ConnEvents(c)
    <2>1. UNCHANGED <<pc, iShutdown>>
      BY <1>4 DEF ReaderRun, RequestRun, WriterRun, ConnEvents, Runs, Dispatches, scheduler
    <2>2. UNCHANGED <<foober, shuttingDown>>
      <3>1. \A why : Dies(why) => UNCHANGED <<foober, shuttingDown>>
        BY DEF Dies, shutdown
      <3>2. \A c, target : ConnDeath(c) \/ ConnClose(c, target) => UNCHANGED <<foober, shuttingDown>>
        BY DEF ConnDeath, ConnClose, shutdown
      <3>3. ASSUME NEW c \in Conn, ReadError(c) \/ ReadNothing(c) \/ ReadEof(c) \/ ReadText(c)
            PROVE  UNCHANGED <<foober, shuttingDown>>
        BY <3>1, <3>2, <3>3 DEF ReadError, ReadNothing, ReadEof, ReadText, shutdown
      <3>4. ASSUME NEW c \in Conn, RequestRun(c) \/ WriterRun(c)
            PROVE  UNCHANGED <<foober, shuttingDown>>
        BY <3>1, <3>4 DEF RequestRun, WriterRun, shutdown
      <3>5. ASSUME NEW c \in Conn, ConnEvents(c)
            PROVE  UNCHANGED <<foober, shuttingDown>>
        BY <3>1, <3>2, <3>5 DEF ConnEvents, ConnFails, ConnReady, shutdown
      <3> QED
        BY <1>4, <3>3, <3>4, <3>5 DEF ReaderRun
    <2> QED
      BY <2>1, <2>2 DEF Countdown
  <1>5. CASE NextList \/ Poll \/ ListenerEvent \/ Clients \/ Exited \/ UNCHANGED vars
    <2>1. UNCHANGED <<iShutdown, foober, shuttingDown>>
      BY <1>5 DEF NextList, Poll, ListenerEvent, Dispatches, Dies, Clients, Exited, vars, server,
                  scheduler, shutdown
    <2>2. pc' # "top" => pc # "top"
      BY <1>5 DEF NextList, Poll, ListenerEvent, Dispatches, Clients, Exited, vars, server, scheduler
    <2> QED
      BY <2>1, <2>2 DEF Countdown
  <1> QED
    BY <1>1, <1>2, <1>3, <1>4, <1>5 DEF Next, Server

-----------------------------------------------------------------------------
(* Theorems *)

WakeInv == JobsInv /\ OtherTypes /\ Wakeups /\ Countdown

(* At the start only the listener and the signals are watched. *)
LEMMA InitWakes == Init => WakeInv
  <1> SUFFICES ASSUME Init PROVE WakeInv
    OBVIOUS
  <1>1. JobsInv
    BY InitJobs
  <1>2. KernelTypeOK
    <2>1. /\ peer \in [Conn -> PeerState] /\ inbox \in [Conn -> Seq(Token)]
          /\ backlog \in Seq(Conn) /\ watched \subseteq Conn /\ edge \subseteq Source
      BY DEF Init, KernelInit, PeerState
    <2>2. full \in [Conn -> BOOLEAN]
      BY DEF Init, KernelInit
    <2>3. sigPending \in BOOLEAN
      BY DEF Init, KernelInit
    <2>4. tokensLeft \in 0 .. MaxTokens /\ sigLeft \in 0 .. MaxSignals
      BY SocketsAssumption DEF Init, KernelInit
    <2> QED
      BY <2>1, <2>2, <2>3, <2>4 DEF KernelTypeOK
  <1>3. DOMAIN batch = {}
    BY DEF Init
  <1>4. OtherTypes
    <2>1. exit \in ExitReason /\ iJob \in Job \cup {NoJob}
      BY DEF Init, ExitReason
    <2>2. iShutdown \in 0 .. MAX_SHUTDOWN_SECONDS
      BY AnticentAssumption DEF Init
    <2>3. rbuf \in [Conn -> Seq(Token)]
      BY DEF Init
    <2> QED
      BY <1>2, <1>3, <2>1, <2>2, <2>3 DEF OtherTypes
  <1>5. Wakeups
    <2>1. watched = {} /\ edge = {} /\ Open = {}
      BY DEF Init, KernelInit, Open, Live, ConnState
    <2> QED
      BY <1>3, <2>1, WakeupParts DEF Interest, AcceptNeverFails
  <1>6. Countdown
    <2>1. pc = "top" /\ foober = FALSE /\ shuttingDown = FALSE
      BY DEF Init
    <2> QED
      BY <2>1 DEF Countdown
  <1> QED
    BY <1>1, <1>4, <1>5, <1>6 DEF WakeInv

(* The parts of WakeInv carry one another through every step. *)
LEMMA NextWakeInv == WakeInv /\ [Next]_vars => WakeInv'
  BY NextJobs, NextTypes, NextWakes, NextCountdown DEF WakeInv

(* The server's inductive invariant: what JobsInv adds the kernel's side to. *)
THEOREM WakesKept == Spec => []WakeInv
  BY InitWakes, NextWakeInv, PTL DEF Spec

(* The invariant that the run safety checks on a small instance. *)
THEOREM ServerKept == Spec => []ServerInv
  <1>1. WakeInv => ServerInv
    BY DEF WakeInv, JobsInv, IInv, ServerInv
  <1> QED
    BY <1>1, WakesKept, PTL

(* Every variable keeps its type, iShutdown and the saved job among them. *)
THEOREM TypesKept == Spec => []TypeOK
  <1>1. WakeInv => TypeOK
    <2> SUFFICES ASSUME WakeInv PROVE TypeOK
      OBVIOUS
    <2>1. KernelTypeOK
      BY DEF WakeInv, OtherTypes
    <2>2. SchedulerTypeOK
      <3>1. /\ exit \in ExitReason /\ iJob \in Job \cup {NoJob}
            /\ iShutdown \in 0 .. MAX_SHUTDOWN_SECONDS
            /\ \A s \in DOMAIN batch : batch[s] \subseteq {"IN", "OUT", "ERR", "HUP"}
        BY DEF WakeInv, OtherTypes
      <3>2. /\ pc \in {"top", "walk", "poll", "dispatch"} /\ iPriority \in -1 .. LOW /\ left \in Nat
            /\ ran \in BOOLEAN /\ lists \in [Priority -> Seq(Job)]
        BY DEF WakeInv, JobsInv, Walk, Places
      <3>3. DOMAIN batch \subseteq Source
        BY <2>1, WakeupParts DEF WakeInv, Interest, KernelTypeOK, Source
      <3> QED
        BY <3>1, <3>2, <3>3 DEF SchedulerTypeOK
    <2>3. ServerTypeOK
      <3>1. foober \in BOOLEAN
        BY DEF WakeInv, Countdown, JobsInv, IInv, LifetimeTypes
      <3> QED
        BY <3>1 DEF ServerTypeOK, WakeInv, OtherTypes, JobsInv, IInv, LifetimeTypes, Bytes
    <2> QED
      BY <2>1, <2>2, <2>3 DEF TypeOK
  <1> QED
    BY <1>1, WakesKept, PTL

(* HttpConn::Event never finds its reader deleted (http.cc:344), whatever    *)
(* the handlers of the same batch closed before it.                          *)
THEOREM EventsHaveTargets == Spec => []EventTargetsOpen
  <1>1. WakeInv => EventTargetsOpen
    <2> SUFFICES ASSUME WakeInv PROVE EventTargetsOpen
      OBVIOUS
    <2>1. watched = Open /\ DOMAIN batch \subseteq watched \cup {LISTENER, SIGNALS}
      BY WakeupParts DEF WakeInv, Interest
    <2>2. ASSUME NEW c \in DOMAIN batch \cap Conn
          PROVE  c \in watched /\ HasReader(c)
      <3>1. c \in Open
        BY <2>1, SocketsAssumption DEF LISTENER, SIGNALS
      <3> QED
        BY <2>1, <3>1, Whereabouts DEF HasReader, WakeInv, JobsInv
    <2> QED
      BY <2>1, <2>2 DEF EventTargetsOpen
  <1> QED
    BY <1>1, WakesKept, PTL

(* Each event of the listener has its connection in the backlog: clients     *)
(* only add to it, and a batch holds one event per source (ipaddr.cc:41-45). *)
THEOREM AcceptsSucceed == Spec => []AcceptNeverFails
  <1>1. WakeInv => AcceptNeverFails
    BY DEF WakeInv, Wakeups
  <1> QED
    BY <1>1, WakesKept, PTL

(* Edge-triggered input is never lost: a reader that blocks after a short    *)
(* read has a wakeup coming for all that arrives later.                      *)
THEOREM InputsWatched == Spec => []InputWatched
  <1>1. WakeInv => InputWatched
    BY DEF WakeInv, Wakeups
  <1> QED
    BY <1>1, WakesKept, PTL

(* Nor is room to write: a blocked writer with bytes waits for the kernel.   *)
THEOREM OutputsWatched == Spec => []OutputWatched
  <1>1. WakeInv => OutputWatched
    BY DEF WakeInv, Wakeups
  <1> QED
    BY <1>1, WakesKept, PTL

(* No byte is read or written under the number of a closed socket, which may *)
(* be another connection's by then (http.cc:161).                            *)
THEOREM ClosedStaysQuiet == Spec => []ClosedIsQuiet
  <1>1. WakeInv => ClosedIsQuiet
    <2> SUFFICES ASSUME WakeInv, NEW c \in Conn, state[c] = "CLOSED"
                 PROVE  /\ wbuf[c] = 0 /\ request[c] = "none"
                        /\ IsBlocked(lists, Writer(c)) /\ ~HasReader(c)
                        /\ c \notin watched /\ c \notin DOMAIN batch
      BY DEF ClosedIsQuiet
    <2>1. c \in Live /\ c \notin Open
      BY DEF Live, Open, ConnState
    <2>2. wbuf[c] = 0 /\ request[c] = "none"
      BY DEF WakeInv, JobsInv, Bytes, IInv, LifetimeInv, StatePhase
    <2>3. Writer(c) \in On(BLOCKED)
      <3>1. Writer(c) \notin On(HIGH)
        BY <2>2 DEF WakeInv, JobsInv, Bytes, WriterHasBytes, On
      <3> QED
        BY <2>1, <3>1 DEF WakeInv, JobsInv, Places
    <2>4. ~HasReader(c)
      BY <2>1, Whereabouts DEF HasReader, WakeInv, JobsInv
    <2>5. c \notin watched /\ c \notin DOMAIN batch
      BY <2>1, WakeupParts, SocketsAssumption DEF WakeInv, Interest, LISTENER, SIGNALS
    <2> QED
      BY <2>2, <2>3, <2>4, <2>5 DEF IsBlocked, On
  <1> QED
    BY <1>1, WakesKept, PTL

-----------------------------------------------------------------------------
(* The service.  The server implements it, for any number of connections,   *)
(* any input and any number of SIGINTs: each step of Anticent is a step of   *)
(* HttpService or changes nothing a client can see.                          *)

(* The stage of a connection in each of its states. *)
LEMMA Stages ==
    /\ StageOf("unborn") = "none" /\ StageOf("START") = "new"
    /\ StageOf("IOWORKING") = "busy" /\ StageOf("WRITEONLY") = "busy"
    /\ StageOf("IONOWORK") = "idle" /\ StageOf("CLOSED") = "zombie" /\ StageOf("freed") = "gone"
  BY DEF StageOf

(* How the process stands, for the service. *)
LEMMA Outcomes ==
    /\ exit = "no" => Outcome = "run"
    /\ exit = "normal" => Outcome = "stopped"
    /\ exit \notin {"no", "normal"} => Outcome = "died"
  BY DEF Outcome

(* The same of the next state. *)
LEMMA NextOutcomes ==
    /\ exit' = "no" => Outcome' = "run"
    /\ exit' = "normal" => Outcome' = "stopped"
    /\ exit' \notin {"no", "normal"} => Outcome' = "died"
  BY DEF Outcome

(* The connections behind the door are the live ones. *)
LEMMA Behind ==
    ASSUME IInv
    PROVE  Service!Present = Live
  <1>1. \A c \in Conn : state[c] \in ConnState \cup {"unborn", "freed"} /\ state[c] \notin {"READONLY", "DEATH"}
    BY DEF IInv, LifetimeTypes, LifetimeInv, StatePhase
  <1>2. \A c \in Conn : StageOf(state[c]) \in {"new", "busy", "idle", "zombie"} <=> state[c] \in ConnState
    BY <1>1, Stages DEF ConnState
  <1> QED
    BY <1>2 DEF Service!Present, Live

(* A step that a client cannot see. *)
LEMMA ServiceStutter ==
    ASSUME UNCHANGED <<wbuf, listener, shuttingDown, exit>>,
           \A c \in Conn : StageOf(state'[c]) = StageOf(state[c])
    PROVE  UNCHANGED Service!service
  <1>1. Door' = Door /\ Outcome' = Outcome
    BY DEF Door, Outcome
  <1>2. [c \in Conn |-> StageOf(state'[c])] = [c \in Conn |-> StageOf(state[c])]
    OBVIOUS
  <1> QED
    BY <1>1, <1>2 DEF Service!service

(* The process dies. *)
LEMMA ServiceCrash ==
    ASSUME exit = "no", NEW why, why \notin {"no", "normal"}, Dies(why)
    PROVE  Service!ServiceNext
  <1>1. Outcome = "run" /\ Outcome' = "died" /\ Door' = Door /\ UNCHANGED <<state, wbuf>>
    BY Outcomes, NextOutcomes DEF Dies, Door, conns, shutdown
  <1> QED
    BY <1>1 DEF Service!ServiceNext, Service!Crash

(* One turn of a reader is the begin of a request, a failure, or nothing that *)
(* the service tells apart.                                                   *)
LEMMA ServiceReading ==
    ASSUME WakeInv, exit = "no", NEW c \in Conn, ReaderRun(c)
    PROVE  Service!ServiceNext \/ UNCHANGED Service!service
  <1>0. /\ state \in [Conn -> ConnState \cup {"unborn", "freed"}]
        /\ state[c] \notin {"READONLY", "DEATH"} /\ wbuf \in [Conn -> Nat]
        /\ Outcome = "run"
    BY Outcomes DEF WakeInv, JobsInv, Bytes, IInv, LifetimeTypes, LifetimeInv, StatePhase
  <1>1. CASE ReadError(c)
    BY <1>1, ServiceCrash DEF ReadError
  <1>2. CASE ReadNothing(c)
    BY <1>2, ServiceStutter DEF ReadNothing, conns, shutdown
  <1>3. CASE ReadEof(c)
    <2> DEFINE target == Target(state[c], "EREADCLOSED")
    <2>1. target \in {"error", "DEATH", "WRITEONLY"}
      BY <1>0, Targets
    <2>2. CASE target = "error"
      BY <1>3, <2>2, ServiceCrash DEF ReadEof
    <2>3. CASE target = "WRITEONLY"
      <3>1. state[c] = "IOWORKING" /\ state' = [state EXCEPT ![c] = "WRITEONLY"]
            /\ UNCHANGED <<wbuf, listener, shuttingDown, exit>>
        BY <1>0, <1>3, <2>3, Targets DEF ReadEof, shutdown
      <3>2. \A d \in Conn : StageOf(state'[d]) = StageOf(state[d])
        BY <1>0, <3>1, Stages
      <3> QED
        BY <3>1, <3>2, ServiceStutter
    <2>4. CASE target = "DEATH"
      <3>1. state[c] = "IONOWORK" /\ ConnDeath(c)
        BY <1>0, <1>3, <2>4, Targets DEF ReadEof
      <3>2. /\ state' = [state EXCEPT ![c] = "freed"] /\ wbuf' = [wbuf EXCEPT ![c] = 0]
            /\ listener' = (listener /\ ~LastConn)
            /\ UNCHANGED <<exit, shuttingDown>>
        BY <3>1 DEF ConnDeath, ListenerDeath
      <3>3. c \in Live /\ listener
        BY <3>1 DEF Live, ConnState, WakeInv, JobsInv, IInv, LifetimeInv, ParentOutlives
      <3>4. LastConn <=> shuttingDown /\ Live = {c}
        <4>1. connCount = Cardinality(Live)
          BY DEF WakeInv, JobsInv, IInv, LifetimeInv, ObjectCounts
        <4>2. IsFiniteSet(Live \ {c}) /\ Cardinality(Live \ {c}) = Cardinality(Live) - 1
              /\ Cardinality(Live \ {c}) \in Nat
          BY <3>3, FiniteCounts, FS_RemoveElement, FS_CardinalityType, OneLess
        <4>3. Cardinality(Live \ {c}) = 0 <=> Live \ {c} = {}
          BY <4>2, FS_EmptySet
        <4>4. \A n, k \in Int : k \in Nat /\ k = n - 1 => (n - 1 <= 0 <=> k = 0)
          OBVIOUS
        <4>5. connCount - 1 <= 0 <=> Cardinality(Live \ {c}) = 0
          <5> DEFINE n == Cardinality(Live)
                     k == Cardinality(Live \ {c})
          <5>1. connCount = n /\ k = n - 1 /\ k \in Nat /\ n \in Int
            BY <4>1, <4>2, FiniteCounts, FS_CardinalityType
          <5> HIDE DEF n, k
          <5>2. n - 1 <= 0 <=> k = 0
            BY <5>1, <4>4
          <5> QED
            BY <5>1, <5>2 DEF n, k
        <4>6. connCount - 1 <= 0 <=> Live \ {c} = {}
          BY <4>3, <4>5
        <4> QED
          BY <3>3, <4>6 DEF LastConn
      <3>5. Door' = IF Door = "closing" /\ Service!Present = {c} THEN "shut" ELSE Door
        <4>1. Service!Present = Live
          BY Behind DEF WakeInv, JobsInv
        <4> QED
          BY <3>2, <3>3, <3>4, <4>1 DEF Door
      <3>6. [d \in Conn |-> StageOf(state'[d])] = [[d \in Conn |-> StageOf(state[d])] EXCEPT ![c] = "gone"]
        BY <1>0, <3>2, Stages
      <3>7. StageOf(state[c]) = "idle" /\ Outcome' = Outcome
        BY <3>1, <3>2, Stages DEF Outcome
      <3>8. Service!Leave(c)
        BY <3>2, <3>5, <3>6, <3>7 DEF Service!Leave
      <3> QED
        BY <1>0, <3>8 DEF Service!ServiceNext
    <2> QED
      BY <2>1, <2>2, <2>3, <2>4
  <1>4. CASE ReadText(c)
    <2> DEFINE text   == Text(c, Consumed(c))
               parsed == HasEnd(text)
               target == Target(state[c], "EWORKTODO")
    <2>1. CASE parsed /\ target = "error"
      BY <1>4, <2>1, ServiceCrash DEF ReadText
    <2>2. CASE ~parsed
      <3>1. UNCHANGED <<state, wbuf, listener, shuttingDown, exit>>
        BY <1>4, <2>2 DEF ReadText, shutdown
      <3> QED
        BY <3>1, ServiceStutter
    <2>3. CASE parsed /\ target # "error"
      <3>1. target = "IOWORKING" /\ state[c] \in {"START", "IONOWORK"}
        BY <1>0, <2>3, Targets
      <3>2. /\ state' = [state EXCEPT ![c] = "IOWORKING"]
            /\ UNCHANGED <<wbuf, listener, shuttingDown, exit>>
        BY <1>0, <1>4, <2>3, <3>1 DEF ReadText, NewHttpRequest, shutdown
      <3>3. [d \in Conn |-> StageOf(state'[d])] = [[d \in Conn |-> StageOf(state[d])] EXCEPT ![c] = "busy"]
        BY <1>0, <3>2, Stages
      <3>4. StageOf(state[c]) \in {"new", "idle"} /\ Outcome' = Outcome /\ Door' = Door
        BY <3>1, <3>2, Stages DEF Outcome, Door
      <3>5. Service!Start(c)
        BY <3>2, <3>3, <3>4 DEF Service!Start
      <3> QED
        BY <1>0, <3>5 DEF Service!ServiceNext
    <2> QED
      BY <2>1, <2>2, <2>3
  <1> QED
    BY <1>1, <1>2, <1>3, <1>4 DEF ReaderRun

(* One turn of a request is an answer, or the end of the process. *)
LEMMA ServiceAnswering ==
    ASSUME WakeInv, exit = "no", NEW c \in Conn, RequestRun(c)
    PROVE  Service!ServiceNext
  <1>0. /\ state \in [Conn -> ConnState \cup {"unborn", "freed"}]
        /\ state[c] \notin {"READONLY", "DEATH"} /\ wbuf \in [Conn -> Nat]
        /\ Outcome = "run"
    BY Outcomes DEF WakeInv, JobsInv, Bytes, IInv, LifetimeTypes, LifetimeInv, StatePhase
  <1> DEFINE target == Target(state[c], "ENOWORK")
  <1>1. CASE request[c] = "cookie" \/ target = "error"
    <2>1. Dies("cookie") \/ Dies("ENOWORK")
      BY <1>1 DEF RequestRun
    <2> QED
      BY <2>1, ServiceCrash
  <1>2. CASE ~(request[c] = "cookie" \/ target = "error")
    <2>1. target = "IONOWORK" /\ state[c] = "IOWORKING"
      BY <1>0, <1>2, Targets
    <2>2. /\ state' = [state EXCEPT ![c] = "IONOWORK"] /\ wbuf' = [wbuf EXCEPT ![c] = @ + RESPONSE]
          /\ UNCHANGED <<listener, shuttingDown, exit>>
      BY <1>0, <1>2, <2>1 DEF RequestRun, shutdown
    <2>3. [d \in Conn |-> StageOf(state'[d])] = [[d \in Conn |-> StageOf(state[d])] EXCEPT ![c] = "idle"]
      BY <1>0, <2>2, Stages
    <2>4. StageOf(state[c]) = "busy" /\ Outcome' = Outcome /\ Door' = Door
      BY <2>1, <2>2, Stages DEF Outcome, Door
    <2>5. Service!Answer(c)
      BY <2>2, <2>3, <2>4 DEF Service!Answer
    <2> QED
      BY <1>0, <2>5 DEF Service!ServiceNext
  <1> QED
    BY <1>1, <1>2

(* One turn of a writer is a delivery, or the end of the process. *)
LEMMA ServiceWriting ==
    ASSUME WakeInv, exit = "no", NEW c \in Conn, WriterRun(c)
    PROVE  Service!ServiceNext
  <1>0. /\ state \in [Conn -> ConnState \cup {"unborn", "freed"}]
        /\ state[c] \notin {"READONLY", "DEATH"} /\ wbuf \in [Conn -> Nat]
        /\ state[c] \in {"unborn", "START", "CLOSED", "freed"} => wbuf[c] = 0
        /\ Outcome = "run"
    BY Outcomes DEF WakeInv, JobsInv, Bytes, IInv, LifetimeTypes, LifetimeInv, StatePhase
  <1>1. CASE peer[c] = "rst" \/ full[c]
    <2>1. Dies("write")
      BY <1>1 DEF WriterRun
    <2> QED
      BY <2>1, ServiceCrash
  <1>2. CASE ~(peer[c] = "rst" \/ full[c])
    <2>1. PICK n \in 1 .. wbuf[c] :
             /\ wbuf' = [wbuf EXCEPT ![c] = @ - n]
             /\ UNCHANGED <<exit, state, listener, shuttingDown>>
      BY <1>2 DEF WriterRun, shutdown
    <2>2. StageOf(state[c]) \in {"busy", "idle"}
      <3>1. state[c] \in {"IOWORKING", "WRITEONLY", "IONOWORK"}
        BY <1>0, <2>1 DEF ConnState
      <3> QED
        BY <3>1, Stages
    <2>3. Outcome' = Outcome /\ Door' = Door
      BY <2>1 DEF Outcome, Door
    <2>4. Service!Deliver(c)
      BY <2>1, <2>2, <2>3 DEF Service!Deliver
    <2> QED
      BY <1>0, <2>4 DEF Service!ServiceNext
  <1> QED
    BY <1>1, <1>2

(* The handler of a connection is a client leaving, a failure, a crash or *)
(* nothing.                                                               *)
LEMMA ServiceDispatching ==
    ASSUME WakeInv, exit = "no", NEW c \in Conn, ConnEvents(c)
    PROVE  Service!ServiceNext \/ UNCHANGED Service!service
  <1>0. /\ state \in [Conn -> ConnState \cup {"unborn", "freed"}]
        /\ state[c] \notin {"READONLY", "DEATH"} /\ Outcome = "run"
    BY Outcomes DEF WakeInv, JobsInv, IInv, LifetimeTypes, LifetimeInv, StatePhase
  <1>1. ConnFails(c, "EERR") \/ ConnReady(c)
    BY DEF ConnEvents, Dispatches, WakeInv, JobsInv, Bytes
  <1>2. CASE ConnReady(c)
    BY <1>2, ServiceStutter DEF ConnReady, conns, shutdown
  <1>3. CASE ConnFails(c, "EERR") /\ Target(state[c], "EERR") = "error"
    BY <1>3, ServiceCrash DEF ConnFails
  <1>4. CASE ConnFails(c, "EERR") /\ Target(state[c], "EERR") # "error"
    <2>1. state[c] = "START" /\ Target(state[c], "EERR") = "CLOSED"
      BY <1>0, <1>4 DEF Target, ConnState
    <2>2. /\ state' = [state EXCEPT ![c] = "CLOSED"]
          /\ UNCHANGED <<wbuf, listener, shuttingDown, exit>>
      BY <1>4, <2>1 DEF ConnFails, ConnClose, shutdown
    <2>3. [d \in Conn |-> StageOf(state'[d])] = [[d \in Conn |-> StageOf(state[d])] EXCEPT ![c] = "zombie"]
      BY <1>0, <2>2, Stages
    <2>4. StageOf(state[c]) = "new" /\ Outcome' = Outcome /\ Door' = Door
      BY <2>1, <2>2, Stages DEF Outcome, Door
    <2>5. Service!Fail(c)
      BY <2>2, <2>3, <2>4 DEF Service!Fail
    <2> QED
      BY <1>0, <2>5 DEF Service!ServiceNext
  <1> QED
    BY <1>1, <1>2, <1>3, <1>4

(* The handler of the listener is an arrival, or the end of the process. *)
LEMMA ServiceAccepting ==
    ASSUME WakeInv, exit = "no", ListenerEvent
    PROVE  Service!ServiceNext
  <1>0. state \in [Conn -> ConnState \cup {"unborn", "freed"}] /\ Outcome = "run"
    BY Outcomes DEF WakeInv, JobsInv, IInv, LifetimeTypes
  <1>1. CASE ~listener
    BY <1>1, ServiceCrash DEF ListenerEvent
  <1>2. CASE listener
    <2> DEFINE c == Head(backlog)
    <2>1. /\ backlog # <<>> /\ state' = [state EXCEPT ![c] = "START"]
          /\ UNCHANGED <<wbuf, listener, shuttingDown, exit>>
      BY <1>2 DEF ListenerEvent
    <2>2. c \in Conn /\ state[c] = "unborn"
      <3>1. 1 \in DOMAIN backlog /\ c = backlog[1]
        BY <2>1 DEF WakeInv, OtherTypes, KernelTypeOK
      <3> QED
        BY <3>1 DEF WakeInv, OtherTypes, KernelTypeOK, JobsInv, IInv, LifetimeInv, Unaccepted
    <2> HIDE DEF c
    <2>3. [d \in Conn |-> StageOf(state'[d])] = [[d \in Conn |-> StageOf(state[d])] EXCEPT ![c] = "new"]
      BY <1>0, <2>1, <2>2, Stages
    <2>4. StageOf(state[c]) = "none" /\ Outcome' = Outcome /\ Door' = Door /\ Door # "shut"
      BY <1>2, <2>1, <2>2, Stages DEF Outcome, Door
    <2>5. Service!Accept(c)
      BY <2>1, <2>2, <2>3, <2>4 DEF Service!Accept
    <2> QED
      BY <1>0, <2>2, <2>5 DEF Service!ServiceNext
  <1> QED
    BY <1>1, <1>2

(* The handler of the signals closes the door, or ends the process. *)
LEMMA ServiceSignalling ==
    ASSUME WakeInv, exit = "no", SignalsEvent
    PROVE  Service!ServiceNext
  <1>0. Outcome = "run" /\ foober = shuttingDown
    BY Outcomes DEF WakeInv, Countdown
  <1>1. CASE Dies("uaf signal")
    BY <1>1, ServiceCrash
  <1>2. CASE ~Dies("uaf signal")
    <2>1. /\ listener /\ shuttingDown' = TRUE
          /\ exit' = IF foober THEN "double" ELSE exit
          /\ listener' = (listener /\ ~NobodyConnected)
          /\ UNCHANGED <<state, wbuf>>
      BY <1>2 DEF SignalsEvent, ListenerDeath, conns
    <2>2. NobodyConnected <=> Service!Present = {}
      <3>1. connCount = Cardinality(Live) /\ Service!Present = Live
        BY Behind DEF WakeInv, JobsInv, IInv, LifetimeInv, ObjectCounts
      <3> QED
        BY <3>1, FiniteCounts, FS_EmptySet DEF NobodyConnected
    <2>3. Door # "shut" /\ Door' = IF Service!Present = {} THEN "shut" ELSE "closing"
      BY <2>1, <2>2 DEF Door
    <2>4. Outcome' \in IF Door = "open" THEN {"run"} ELSE {"died"}
      <3>1. Door = "open" <=> ~shuttingDown
        BY <2>1 DEF Door
      <3> QED
        BY <1>0, <2>1, <3>1, NextOutcomes
    <2>5. Service!Interrupt
      BY <2>1, <2>3, <2>4 DEF Service!Interrupt
    <2> QED
      BY <1>0, <2>5 DEF Service!ServiceNext
  <1> QED
    BY <1>1, <1>2

(* The scheduler ends only behind a shut door. *)
LEMMA ServiceScheduling ==
    ASSUME WakeInv, WakeInv', exit = "no", Top \/ NextList \/ Poll \/ PollDone
    PROVE  Service!ServiceNext \/ UNCHANGED Service!service
  <1>1. UNCHANGED <<state, wbuf, listener, shuttingDown>> /\ exit' \in {exit, "normal"}
    BY DEF Top, NextList, Poll, PollDone, conns, shutdown
  <1>2. CASE exit' = exit
    BY <1>1, <1>2, ServiceStutter
  <1>3. CASE exit' = "normal"
    <2>1. ~listener'
      BY <1>3 DEF WakeInv, JobsInv, IInv, LifetimeInv, ParentOutlives
    <2>2. Outcome = "run" /\ Outcome' = "stopped" /\ Door' = Door /\ Door = "shut"
      BY <1>1, <1>3, <2>1, Outcomes, NextOutcomes DEF Door
    <2>3. Service!Stop
      BY <1>1, <2>2 DEF Service!Stop
    <2> QED
      BY <2>2, <2>3 DEF Service!ServiceNext
  <1> QED
    BY <1>1, <1>2, <1>3

(* Every step of the server is a step of the service or none. *)
LEMMA ServiceStep ==
    WakeInv /\ WakeInv' /\ [Next]_vars => [Service!ServiceNext]_(Service!service)
  <1> SUFFICES ASSUME WakeInv, WakeInv', [Next]_vars
               PROVE  Service!ServiceNext \/ UNCHANGED Service!service
    OBVIOUS
  <1>1. CASE Clients \/ Exited \/ UNCHANGED vars
    <2>1. UNCHANGED <<state, wbuf, listener, shuttingDown, exit>>
      BY <1>1 DEF Clients, Exited, vars, server, conns, shutdown
    <2> QED
      BY <2>1, ServiceStutter
  <1>2. CASE Server
    BY <1>2, ServiceScheduling, ServiceAccepting, ServiceSignalling, ServiceReading,
       ServiceAnswering, ServiceWriting, ServiceDispatching DEF Server
  <1> QED
    BY <1>1, <1>2 DEF Next

(* The server starts as the service does. *)
LEMMA ServiceStart == Init => Service!ServiceInit
  <1> SUFFICES ASSUME Init PROVE Service!ServiceInit
    OBVIOUS
  <1>1. /\ state = [c \in Conn |-> "unborn"] /\ wbuf = [c \in Conn |-> 0]
        /\ listener = TRUE /\ shuttingDown = FALSE /\ exit = "no"
    BY DEF Init
  <1>2. [c \in Conn |-> StageOf(state[c])] = [c \in Conn |-> "none"]
    BY <1>1, Stages
  <1>3. Door = "open" /\ Outcome = "run"
    BY <1>1, Outcomes DEF Door
  <1> QED
    BY <1>1, <1>2, <1>3 DEF Service!ServiceInit

(* Whatever the order of jobs, events and clients: one request in work per   *)
(* connection, one whole response per request, responses only dropped with   *)
(* their connection, and the door shut only by a SIGINT and behind the last  *)
(* connection (http.cc:183-199, 288-303, httpreq.cc:37-56).                  *)
THEOREM ServiceImplemented == Spec => ImplementsService
  BY ServiceStart, ServiceStep, WakesKept, PTL DEF Spec, ImplementsService, Service!ServiceSpec
=============================================================================
