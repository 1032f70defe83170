------------------------------ MODULE Anticent ------------------------------
(***************************************************************************)
(* The server: Job::Scheduler's loop over the run queues and Eventable's    *)
(* poll, driving the jobs and event handlers of http.cc, httpreq.cc,        *)
(* signals.cc and init.cc against the kernel and clients of Sockets.        *)
(* Handlers run to completion on one thread, so each is one action; clients *)
(* act between any two of them, also between epoll_wait and the handlers of *)
(* the events it returned.                                                  *)
(*                                                                         *)
(* The build is that of run.sh: assertions on, AddressSanitizer on.  An     *)
(* assertion that fails, or a use of freed memory, ends the process; `exit` *)
(* says why.                                                                *)
(***************************************************************************)
EXTENDS Sockets, JobQueue, HttpStates

CONSTANTS
    BUFSIZE,              \* pieces one read() returns (255 bytes in the code)
    RESPONSE,             \* units of the one response there is (strlen(response))
    MAX_EVENTS,           \* events one epoll_wait() returns (100 in the code)
    MAX_SHUTDOWN_SECONDS  \* polls after shutItDown (5 in the code)

ASSUME AnticentAssumption ==
    /\ BUFSIZE \in Nat \ {0}
    /\ RESPONSE \in Nat \ {0}
    /\ MAX_EVENTS \in Nat \ {0}
    /\ MAX_SHUTDOWN_SECONDS \in Nat \ {0}

VARIABLES
    exit,         \* "no" while the process runs, then how it ended
    pc,           \* where Scheduler is: "top", "walk", "poll", "dispatch"
    iPriority,    \* the list it walks
    left,         \* nRunnable - iRunnable: jobs of that list still to run
    iJob,         \* the job to run next, saved before the last one ran
    ran,          \* runnable > 0
    iShutdown,
    batch,        \* events[] of Poll not yet dispatched, with their flags
    lists,        \* Jobs[]
    nJobs,
    nSockets,
    state,        \* HttpConn::state, or "unborn" / "freed"
    request,      \* HttpConn::request: "none", or the kind of request in flight
    rbuf,         \* HttpReader::request, text read and not yet parsed
    wbuf,         \* HttpWriter::buffer, units not yet written
    listener,     \* the HttpListener exists and its socket is open
    connCount,    \* HttpListener::connCount
    shuttingDown, \* HttpListener::shuttingDown
    shutItDown,   \* job.cc
    foober        \* signals.cc: SIGINT was seen before

scheduler == <<pc, iPriority, left, iJob, ran, iShutdown>>
counters  == <<nJobs, nSockets>>
conns     == <<state, request, rbuf, wbuf>>
shutdown  == <<listener, connCount, shuttingDown, shutItDown, foober>>
server    == <<exit, scheduler, batch, lists, counters, conns, shutdown>>
vars      == <<kernel, server>>

Reader(c)  == <<"reader", c>>
Writer(c)  == <<"writer", c>>
Request(c) == <<"request", c>>
Job        == {"reader", "writer", "request"} \X Conn
NoJob      == <<"none">>

(* The priority a job is readied to: the constructors' Schedule calls give   *)
(* the writer HIGH and the others LOW, and Block() stores what it leaves.    *)
prevPriority(j) == IF j[1] = "writer" THEN HIGH ELSE LOW

HasReader(c) == Scheduled(lists, Reader(c))
Live         == {c \in Conn : state[c] \in ConnState}

-----------------------------------------------------------------------------
(* Startup (Init, Signals, HttpListener): two jobs that are never scheduled  *)
(* plus the listener, and two sockets.                                       *)
Init ==
    /\ KernelInit
    /\ exit = "no"
    /\ pc = "top"
    /\ iPriority = 0
    /\ left = 0
    /\ iJob = NoJob
    /\ ran = FALSE
    /\ iShutdown = 0
    /\ batch = <<>>
    /\ lists = NoJobs
    /\ nJobs = 3
    /\ nSockets = 2
    /\ state = [c \in Conn |-> "unborn"]
    /\ request = [c \in Conn |-> "none"]
    /\ rbuf = [c \in Conn |-> <<>>]
    /\ wbuf = [c \in Conn |-> 0]
    /\ listener = TRUE
    /\ connCount = 0
    /\ shuttingDown = FALSE
    /\ shutItDown = FALSE
    /\ foober = FALSE

-----------------------------------------------------------------------------
(* Job::Scheduler *)

(* Mutant: one poll too many. *)
KeepsRunning_OneMore == nJobs # 0 /\ iShutdown <= MAX_SHUTDOWN_SECONDS

KeepsRunning == nJobs # 0 /\ iShutdown < MAX_SHUTDOWN_SECONDS

(* The outer loop's test, and the start of a pass over the priorities. *)
Top ==
    /\ pc = "top"
    /\ IF KeepsRunning
       THEN /\ pc' = "walk" /\ iPriority' = -1 /\ ran' = FALSE
            /\ UNCHANGED exit
       ELSE /\ exit' = "normal"
            /\ UNCHANGED <<pc, iPriority, ran>>
    /\ UNCHANGED <<kernel, left, iJob, iShutdown, batch, lists, counters, conns, shutdown>>

(* Mutant: iRunnable <= nRunnable. *)
Runnable_OneMore(p) == Len(lists[p]) + 1

(* nRunnable, read once before the list is walked. *)
Runnable(p) == Len(lists[p])

(* On to the next list that has jobs: its length and head are read once.     *)
(* After the last list, another pass if anything ran, else a poll.           *)
NextList ==
    /\ pc = "walk"
    /\ left = 0
    /\ LET more == {p \in RunLevels : p > iPriority /\ lists[p] # <<>>}
           p    == CHOOSE q \in more : \A r \in more : q <= r
       IN  IF more = {}
           THEN /\ pc' = IF ran THEN "top" ELSE "poll"
                /\ iPriority' = 0
                /\ UNCHANGED <<left, iJob, ran>>
           ELSE /\ iPriority' = p
                /\ left' = Runnable(p)
                /\ iJob' = lists[p][1]
                /\ ran' = TRUE
                /\ UNCHANGED pc
    /\ UNCHANGED <<kernel, exit, iShutdown, batch, lists, counters, conns, shutdown>>

(* One iteration of the inner loop, around iJob->Run(): `next` is read from  *)
(* the list as it is before the job runs.  After the last one it is unused.  *)
Runs(j) ==
    /\ pc = "walk"
    /\ left > 0
    /\ iJob = j
    /\ j \in Range(lists[iPriority])
    /\ left' = left - 1
    /\ iJob' = IF left > 1 THEN NextOf(lists[iPriority], j) ELSE NoJob
    /\ UNCHANGED <<pc, iPriority, ran, iShutdown, batch>>

(* What epoll_wait finds on its ready list: an entry whose flags are gone is *)
(* passed over, and whatever brings them back queues it again.               *)
ReadySources == {s \in edge : Mask(s) # {}}

(* Mutant: the array is filled, and the rest of the ready list forgotten. *)
Undelivered_Forgotten(B) == {}

(* The events that did not fit stay on the ready list. *)
Undelivered(B) == ReadySources \ B

(* Eventable::Poll up to epoll_wait's return.  The ready list, or MAX_EVENTS *)
(* of it, is handed over with the flags of this moment; none on a timeout.   *)
Poll ==
    /\ pc = "poll"
    /\ \E B \in SUBSET ReadySources :
          /\ Cardinality(B) = MAX_EVENTS \/ (B = ReadySources /\ Cardinality(B) < MAX_EVENTS)
          /\ batch' = [s \in B |-> Mask(s)]
          /\ edge' = Undelivered(B)
    /\ pc' = "dispatch"
    /\ UNCHANGED <<peer, inbox, full, backlog, watched, sigPending, tokensLeft, sigLeft,
                   exit, iPriority, left, iJob, ran, iShutdown, lists, counters, conns, shutdown>>

(* Mutant: every poll counts, whether shutItDown or not (job.cc:277). *)
CountDown_Always == iShutdown + 1

CountDown == IF shutItDown THEN iShutdown + 1 ELSE iShutdown

(* All events are dispatched.  Poll returns nSockets, and only zero of them  *)
(* would make Scheduler poll again at once.                                  *)
PollDone ==
    /\ pc = "dispatch"
    /\ DOMAIN batch = {}
    /\ IF nSockets = 0 /\ nJobs > 0
       THEN pc' = "poll" /\ UNCHANGED iShutdown
       ELSE pc' = "top" /\ iShutdown' = CountDown
    /\ UNCHANGED <<kernel, exit, iPriority, left, iJob, ran, batch, lists, counters, conns, shutdown>>

(* This->Event(eventFlags) for one event.  epoll_wait promises no order.     *)
Dispatches(s) ==
    /\ pc = "dispatch"
    /\ s \in DOMAIN batch
    /\ batch' = [t \in DOMAIN batch \ {s} |-> batch[t]]
    /\ UNCHANGED scheduler

(* The process ends inside a handler; what the handler did first is moot. *)
Dies(why) ==
    /\ exit' = why
    /\ UNCHANGED <<kernel, lists, counters, conns, shutdown>>

-----------------------------------------------------------------------------
(* Deaths.  A DeathRequest climbs from child to parent, which deletes it.    *)

(* Mutant: the socket is closed and the object kept. *)
ListenerDeath_KeepsListener(dies) ==
    /\ listener' = listener
    /\ shutItDown' = (shutItDown \/ dies)

(* Init::vDeathRequest(HttpListener), if `dies`: delete closes the listening *)
(* socket, and the last listener gone means Job::Shutdown().  Signals keeps  *)
(* its pointer to the listener.                                              *)
ListenerDeath(dies) ==
    /\ listener' = (listener /\ ~dies)
    /\ shutItDown' = (shutItDown \/ dies)

(* Mutant: one connection short. *)
LastConn_Early == connCount - 1 <= 1 /\ shuttingDown

(* Mutant: the last connection takes the listener along, shutdown or not. *)
LastConn_Unasked == connCount - 1 <= 0

(* --connCount <= 0 && shuttingDown *)
LastConn == connCount - 1 <= 0 /\ shuttingDown

(* HttpListener::vDeathRequest(HttpConn): the connection goes with its       *)
(* reader and writer; the last one takes the listener along once it is       *)
(* shutting down.                                                            *)
ConnDeath(c) ==
    LET one == IF LastConn THEN 1 ELSE 0
    IN  /\ connCount' = connCount - 1
        /\ ListenerDeath(LastConn)
        /\ CloseSockets({c} \cup (IF LastConn THEN {LISTENER} ELSE {}))
        /\ nJobs' = nJobs - 3 - one
        /\ nSockets' = nSockets - 1 - one
        /\ lists' = Unschedule(Unschedule(lists, Reader(c)), Writer(c))
        /\ state' = [state EXCEPT ![c] = "freed"]
        /\ rbuf' = [rbuf EXCEPT ![c] = <<>>]
        /\ wbuf' = [wbuf EXCEPT ![c] = 0]
        /\ UNCHANGED <<exit, request, shuttingDown, foober>>

(* Mutant: Close() without close(). *)
ConnClose_LeavesSocket(c, target) ==
    /\ lists' = Unschedule(lists, Reader(c))
    /\ nJobs' = nJobs - 1
    /\ state' = [state EXCEPT ![c] = target]
    /\ rbuf' = [rbuf EXCEPT ![c] = <<>>]
    /\ UNCHANGED <<kernel, exit, nSockets, request, wbuf, shutdown>>

(* HttpConn::Close() on the way to CONNCLOSED: the reader is deleted and the *)
(* socket closed; the object, its writer and its place in the counts stay.   *)
ConnClose(c, target) ==
    /\ lists' = Unschedule(lists, Reader(c))
    /\ nJobs' = nJobs - 1
    /\ CloseSockets({c})
    /\ state' = [state EXCEPT ![c] = target]
    /\ rbuf' = [rbuf EXCEPT ![c] = <<>>]
    /\ UNCHANGED <<exit, nSockets, request, wbuf, shutdown>>

-----------------------------------------------------------------------------
(* HttpReader::vRun: the loop of read() and Parse(), as one step.  A client  *)
(* that sends meanwhile might as well have sent before the first read.       *)

HasEnd(text) == "end" \in Range(text)

(* The first n pieces of the inbox are read and appended to what was left. *)
Text(c, n) == rbuf[c] \o SubSeq(inbox[c], 1, n)

(* The loop ends early after the first full buffer that completes a request.*)
FullStops(c) == {n \in 1 .. Len(inbox[c]) : n % BUFSIZE = 0 /\ HasEnd(Text(c, n))}
StopsFull(c) == FullStops(c) # {}
Consumed(c)  == IF StopsFull(c) THEN CHOOSE n \in FullStops(c) : \A m \in FullStops(c) : n <= m
                ELSE Len(inbox[c])

(* Otherwise it ends with the first read that does not fill the buffer.  It  *)
(* fails if nothing is left to read on a connection that was reset.          *)
LastReadFails(c) ==
    /\ peer[c] = "rst"
    /\ ~StopsFull(c)
    /\ Len(inbox[c]) % BUFSIZE = 0

(* read() fails with ECONNRESET: assert(false). *)
ReadError(c) ==
    /\ LastReadFails(c)
    /\ Dies("read")

(* EAGAIN on the first read. *)
ReadNothing(c) ==
    /\ inbox[c] = <<>>
    /\ peer[c] = "open"
    /\ lists' = Block(lists, Reader(c))
    /\ UNCHANGED <<kernel, exit, counters, conns, shutdown>>

(* Zero bytes on the first read: NextState(EREADCLOSED), and no Block().  *)
ReadEof(c) ==
    /\ inbox[c] = <<>>
    /\ peer[c] = "fin"
    /\ LET target == Target(state[c], "EREADCLOSED")
       IN  CASE target = "error" -> Dies("EREADCLOSED")
             [] target = "DEATH" -> ConnDeath(c)
             [] OTHER -> /\ state' = [state EXCEPT ![c] = target]
                         /\ UNCHANGED <<kernel, exit, lists, counters, request, rbuf, wbuf, shutdown>>

(* The kind of the request that ends at piece k of a text. *)
Kind(text, k) == IF "cookie" \in Range(SubSeq(text, 1, k - 1)) THEN "cookie" ELSE "plain"

(* Parse() found a request: NewHttpRequest schedules it unless one is in     *)
(* flight; then NextState(EWORKTODO).  A second request would wait in        *)
(* HttpConn::requests, but no state with a request in flight takes EWORKTODO.*)
NewHttpRequest(c, text) ==
    LET k == CHOOSE i \in DOMAIN text :
                text[i] = "end" /\ \A m \in 1 .. i - 1 : text[m] # "end"
    IN  /\ request' = [request EXCEPT ![c] = Kind(text, k)]
        /\ rbuf' = [rbuf EXCEPT ![c] = SubSeq(text, k + 1, Len(text))]
        /\ state' = [state EXCEPT ![c] = Target(@, "EWORKTODO")]
        /\ nJobs' = nJobs + 1

(* Mutant: Schedule() with its default arguments (job.h:48). *)
ScheduleRequest_Default(c) == Push(lists, BLOCKED, Request(c))

ScheduleRequest(c) == Push(lists, LOW, Request(c))

(* Mutant: the reader blocks after every run. *)
BlocksItself_Always(c) == TRUE

(* The last read was short. *)
BlocksItself(c) == ~StopsFull(c)

(* Something was read.  Only one request is taken from it; the reader blocks *)
(* itself after a short read, whatever Parse() found.                        *)
ReadText(c) ==
    /\ inbox[c] # <<>>
    /\ ~LastReadFails(c)
    /\ LET text   == Text(c, Consumed(c))
           parsed == HasEnd(text)
           pushed == IF parsed THEN ScheduleRequest(c) ELSE lists
       IN  IF parsed /\ Target(state[c], "EWORKTODO") = "error"
           THEN Dies("EWORKTODO")
           ELSE /\ IF parsed THEN NewHttpRequest(c, text)
                   ELSE rbuf' = [rbuf EXCEPT ![c] = text] /\ UNCHANGED <<request, state, nJobs>>
                /\ lists' = IF BlocksItself(c) THEN Block(pushed, Reader(c)) ELSE pushed
                /\ inbox' = [inbox EXCEPT ![c] = SubSeq(@, Consumed(c) + 1, Len(@))]
                /\ UNCHANGED <<peer, full, backlog, watched, edge, sigPending, tokensLeft,
                               sigLeft, exit, nSockets, wbuf, shutdown>>

ReaderRun(c) ==
    /\ Runs(Reader(c))
    /\ ReadError(c) \/ ReadNothing(c) \/ ReadEof(c) \/ ReadText(c)

-----------------------------------------------------------------------------
(* HttpWriter::Write readies the writer if its buffer was empty. *)
WakeWriter(c) ==
    IF wbuf[c] = 0 THEN Ready(lists, Writer(c), prevPriority(Writer(c))) ELSE lists

(* HttpRequest::myRun: a Cookie header runs into assert(false); any other    *)
(* request gets the response appended to the writer's buffer and asks its    *)
(* connection for death: HttpConn::vDeathRequest deletes it and passes       *)
(* ENOWORK.                                                                  *)
RequestRun(c) ==
    /\ Runs(Request(c))
    /\ CASE request[c] = "cookie"                  -> Dies("cookie")
         [] Target(state[c], "ENOWORK") = "error"  -> Dies("ENOWORK")
         [] OTHER ->
              /\ wbuf' = [wbuf EXCEPT ![c] = @ + RESPONSE]
              /\ lists' = Unschedule(WakeWriter(c), Request(c))
              /\ request' = [request EXCEPT ![c] = "none"]
              /\ state' = [state EXCEPT ![c] = Target(@, "ENOWORK")]
              /\ nJobs' = nJobs - 1
              /\ UNCHANGED <<kernel, exit, nSockets, rbuf, shutdown>>

(* HttpWriter::vRun and HttpConn::Write.  write() takes what there is room   *)
(* for; any failure, EAGAIN too, is assert(false).  The writer blocks itself *)
(* after every write.                                                        *)
WriterRun(c) ==
    /\ Runs(Writer(c))
    /\ IF peer[c] = "rst" \/ full[c] THEN Dies("write")
       ELSE \E n \in 1 .. wbuf[c], room \in BOOLEAN :
              /\ n < wbuf[c] => ~room
              /\ full' = [full EXCEPT ![c] = ~room]
              /\ wbuf' = [wbuf EXCEPT ![c] = @ - n]
              /\ lists' = Block(lists, Writer(c))
              /\ UNCHANGED <<peer, inbox, backlog, watched, edge, sigPending, tokensLeft,
                             sigLeft, exit, counters, state, request, rbuf, shutdown>>

-----------------------------------------------------------------------------
(* HttpConn::Event *)

(* Mutant: the socket is closed whether a transition says so or not. *)
ConnFails_AlwaysCloses(c, event) == ConnClose(c, "CLOSED")

(* EPOLLERR, else EPOLLHUP, and nothing else matters. *)
ConnFails(c, event) ==
    IF Target(state[c], event) = "error" THEN Dies(event)
    ELSE ConnClose(c, Target(state[c], event))

(* Mutant: without the test of the buffer. *)
Writable_Unchecked(c) == "OUT" \in batch[c]

(* Mutant: an else too many, EPOLLIN first. *)
Writable_Else(c) == "OUT" \in batch[c] /\ "IN" \notin batch[c] /\ wbuf[c] > 0

Writable(c) == "OUT" \in batch[c] /\ wbuf[c] > 0

(* EPOLLOUT readies a writer that has something to write, EPOLLIN the reader.*)
ConnReady(c) ==
    LET writable == IF Writable(c)
                    THEN Ready(lists, Writer(c), prevPriority(Writer(c))) ELSE lists
    IN  /\ lists' = IF "IN" \in batch[c]
                    THEN Ready(writable, Reader(c), prevPriority(Reader(c))) ELSE writable
        /\ UNCHANGED <<kernel, exit, counters, conns, shutdown>>

ConnEvents(c) ==
    /\ Dispatches(c)
    /\ CASE "ERR" \in batch[c] -> ConnFails(c, "EERR")
         [] "HUP" \in batch[c] /\ "ERR" \notin batch[c] -> ConnFails(c, "EHUP")
         [] OTHER -> ConnReady(c)

(* HttpListener::Event and NewHttpConn: one accept4 per event; connection,   *)
(* writer and reader are born, the two jobs blocked; Eventable::Add finds    *)
(* the new socket ready (at least to be written).                            *)
ListenerEvent ==
    /\ Dispatches(LISTENER)
    /\ IF ~listener THEN Dies("uaf event")
       ELSE /\ backlog # <<>>
            /\ LET c == Head(backlog)
               IN  /\ state' = [state EXCEPT ![c] = "START"]
                   /\ lists' = Push(Push(lists, BLOCKED, Writer(c)), BLOCKED, Reader(c))
                   /\ watched' = watched \cup {c}
                   /\ edge' = edge \cup {c}
            /\ backlog' = Tail(backlog)
            /\ connCount' = connCount + 1
            /\ nJobs' = nJobs + 3
            /\ nSockets' = nSockets + 1
            /\ UNCHANGED <<peer, inbox, full, sigPending, tokensLeft, sigLeft, exit, request,
                           rbuf, wbuf, listener, shuttingDown, shutItDown, foober>>

(* Mutant: one off. *)
NobodyConnected_Less == connCount < 0

(* HttpListener::vSignal *)
NobodyConnected == connCount <= 0

(* Signals::Event: every SIGINT read, and `more` may come during the loop,   *)
(* signals each subscriber; HttpListener::vSignal dies at once if there are  *)
(* no connections.  After the loop, exit(2) unless this is the first event.  *)
SignalsEvent ==
    /\ Dispatches(SIGNALS)
    /\ \E more \in 0 .. sigLeft :
         LET dies == NobodyConnected
             one  == IF dies THEN 1 ELSE 0
         IN  IF ~listener \/ (dies /\ more > 0) THEN Dies("uaf signal")
             ELSE /\ shuttingDown' = TRUE
                  /\ foober' = TRUE
                  /\ exit' = IF foober THEN "double" ELSE exit
                  /\ ListenerDeath(dies)
                  /\ peer' = [c \in Conn |-> IF dies /\ c \in Range(backlog) THEN "gone" ELSE peer[c]]
                  /\ inbox' = [c \in Conn |-> IF dies /\ c \in Range(backlog) THEN <<>> ELSE inbox[c]]
                  /\ backlog' = IF dies THEN <<>> ELSE backlog
                  /\ edge' = edge \ (IF dies THEN {SIGNALS, LISTENER} ELSE {SIGNALS})
                  /\ sigPending' = FALSE
                  /\ sigLeft' = sigLeft - more
                  /\ nJobs' = nJobs - one
                  /\ nSockets' = nSockets - one
                  /\ UNCHANGED <<full, watched, tokensLeft, lists, conns, connCount>>

-----------------------------------------------------------------------------
Clients ==
    /\ exit = "no"
    /\ \/ Sigint
       \/ \E c \in Conn : (listener /\ Connect(c)) \/ Client(c)
    /\ UNCHANGED server

Server ==
    /\ exit = "no"
    /\ \/ Top \/ NextList \/ Poll \/ PollDone
       \/ ListenerEvent \/ SignalsEvent
       \/ \E c \in Conn : ReaderRun(c) \/ RequestRun(c) \/ WriterRun(c) \/ ConnEvents(c)

Exited == exit # "no" /\ UNCHANGED vars

Next == Clients \/ Server \/ Exited

(* One thread that is always runnable: epoll_wait returns after its timeout  *)
(* at the latest.  Nothing is assumed of the clients.                        *)
Spec == Init /\ [][Next]_vars /\ WF_vars(Server)
=============================================================================
