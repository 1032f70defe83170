---------------------------- MODULE AnticentProps ----------------------------
(***************************************************************************)
(* What the server of module Anticent must, and is said to, guarantee.      *)
(***************************************************************************)
EXTENDS Anticent

ExitReason == {"no", "normal", "double", "uaf signal", "uaf event", "cookie",
               "read", "write"} \cup ConnEvent

SchedulerTypeOK ==
    /\ exit \in ExitReason
    /\ pc \in {"top", "walk", "poll", "dispatch"}
    /\ iPriority \in -1 .. LOW
    /\ left \in Nat
    /\ iJob \in Job \cup {NoJob}
    /\ ran \in BOOLEAN
    /\ iShutdown \in 0 .. MAX_SHUTDOWN_SECONDS
    /\ DOMAIN batch \subseteq Source
    /\ \A s \in DOMAIN batch : batch[s] \subseteq {"IN", "OUT", "ERR", "HUP"}
    /\ lists \in [Priority -> Seq(Job)]

ServerTypeOK ==
    /\ nJobs \in Int
    /\ nSockets \in Int
    /\ state \in [Conn -> ConnState \cup {"unborn", "freed"}]
    /\ request \in [Conn -> {"none", "plain", "cookie"}]
    /\ rbuf \in [Conn -> Seq(Token)]
    /\ wbuf \in [Conn -> Nat]
    /\ listener \in BOOLEAN
    /\ connCount \in Int
    /\ shuttingDown \in BOOLEAN
    /\ shutItDown \in BOOLEAN
    /\ foober \in BOOLEAN

(* Every variable of the kernel, the scheduler and the handlers has its type.*)
TypeOK == KernelTypeOK /\ SchedulerTypeOK /\ ServerTypeOK

-----------------------------------------------------------------------------
(* Safety *)

Open     == {c \in Live : state[c] # "CLOSED"}
InFlight == {c \in Conn : request[c] # "none"}

(* The three counters that nothing recounts agree with the objects that      *)
(* exist: Init, Signals and the listener; a connection with its writer; a    *)
(* reader until the socket is closed; the requests in flight.  The loop of   *)
(* Scheduler, the return value of Poll and the shutdown all rest on them.    *)
ObjectCounts ==
    LET one == IF listener THEN 1 ELSE 0
    IN  /\ nJobs = 2 + one + 2 * Cardinality(Live) + Cardinality(Open) + Cardinality(InFlight)
        /\ nSockets = 1 + one + Cardinality(Live)
        /\ connCount = Cardinality(Live)

(* The run queues hold each job that exists once, and no deleted one.  With  *)
(* ObjectCounts this is the assertion commented out at job.cc:270.           *)
JobsScheduled ==
    /\ Disjoint(lists)
    /\ UNION {Range(lists[p]) : p \in Priority} =
         {Writer(c) : c \in Live} \cup {Reader(c) : c \in Open} \cup {Request(c) : c \in InFlight}

(* The pointer saved before a job runs is still good when it is used, and    *)
(* the jobs still to run follow it in the list without wrapping around: a    *)
(* pass runs each job of its snapshot once (job.cc:258-263).                 *)
SavedNextGood ==
    left > 0 /\ exit = "no" =>
        \E k \in DOMAIN lists[iPriority] :
            /\ lists[iPriority][k] = iJob
            /\ k + left - 1 <= Len(lists[iPriority])

(* The writer never runs on an empty buffer: assert(buffer.size() > 0),      *)
(* http.cc:628.                                                              *)
WriterHasBytes == \A c \in Conn : Writer(c) \in Range(lists[HIGH]) => wbuf[c] > 0

(* While connection c lives, its state tells whether a request is in flight, *)
(* and a request in flight is runnable; so no event handler ever meets one   *)
(* (http.cc:89 has no answer to EERR or EHUP).                               *)
RequestPhase ==
    \A c \in Conn :
        /\ request[c] # "none" <=> state[c] \in {"IOWORKING", "WRITEONLY"}
        /\ request[c] # "none" <=> Request(c) \in Range(lists[LOW])
        /\ pc = "dispatch" => request[c] = "none"

(* A blocked reader with input (or a reset) it has not seen has a wakeup     *)
(* coming: edge-triggered events lose nothing but an end of file.            *)
InputWatched ==
    \A c \in watched :
        /\ exit = "no"
        /\ IsBlocked(lists, Reader(c))
        /\ inbox[c] # <<>> \/ peer[c] = "rst"
        => c \in edge \/ (c \in DOMAIN batch /\ "IN" \in batch[c])

(* A blocked writer with bytes left waits for room that the kernel does not  *)
(* have, or has a wakeup coming.                                             *)
OutputWatched ==
    \A c \in watched :
        /\ exit = "no"
        /\ IsBlocked(lists, Writer(c))
        /\ wbuf[c] > 0
        => full[c] \/ c \in edge \/ (c \in DOMAIN batch /\ "OUT" \in batch[c])

(* An event for a connection finds the connection open and with its reader,  *)
(* which HttpConn::Event dereferences (http.cc:344), even when handlers of   *)
(* the same batch closed others.                                             *)
EventTargetsOpen ==
    /\ watched = Open
    /\ \A c \in DOMAIN batch \cap Conn : exit = "no" => c \in watched /\ HasReader(c)

(* accept4 is only called with a connection in the backlog, since EAGAIN     *)
(* would end the process (ipaddr.cc:41-45).                                  *)
AcceptNeverFails ==
    listener /\ LISTENER \in DOMAIN batch => backlog # <<>>

(* HttpConn::Close leaves the number of the closed socket in the object      *)
(* (http.cc:161), and accept4 may give it to another connection.  Once a     *)
(* connection is CONNCLOSED nothing of it can read or write under that       *)
(* number: it has no bytes to write, no request and no job that will run.    *)
ClosedIsQuiet ==
    \A c \in Conn : state[c] = "CLOSED" =>
        /\ wbuf[c] = 0 /\ request[c] = "none"
        /\ IsBlocked(lists, Writer(c)) /\ ~HasReader(c)
        /\ c \notin watched /\ c \notin DOMAIN batch

(* The listener outlives its connections, whose parent pointer it is, and    *)
(* the scheduler counts down only once it is gone.                           *)
ParentOutlives ==
    /\ ~listener => Live = {} /\ shuttingDown
    /\ shutItDown <=> ~listener
    /\ exit = "normal" => ~listener

(* A connection that the kernel holds for accept4 is there once, and has no  *)
(* object yet.                                                               *)
Unaccepted ==
    /\ \A c \in Conn : peer[c] = "away" => state[c] = "unborn" /\ c \notin Range(backlog)
    /\ \A i, k \in DOMAIN backlog : backlog[i] = backlog[k] => i = k
    /\ \A i \in DOMAIN backlog : state[backlog[i]] = "unborn"

(* The state says whether a request is in flight; the states that only lead  *)
(* to others in one handler, or that no event leads to, are never seen.      *)
StatePhase ==
    \A c \in Conn :
        /\ request[c] # "none" <=> state[c] \in {"IOWORKING", "WRITEONLY"}
        /\ state[c] \notin {"READONLY", "DEATH"}

(* The inductive strengthening of ObjectCounts and ParentOutlives, beside    *)
(* the types: objects are only created for connections that have none, and   *)
(* the countdown (job.cc:277) only starts after the listener's death.        *)
LifetimeInv ==
    /\ ObjectCounts
    /\ ParentOutlives
    /\ StatePhase
    /\ Unaccepted
    /\ iShutdown > 0 => shutItDown

-----------------------------------------------------------------------------
(* The inductive invariant of the safety properties above, beside the types. *)

On(p) == Range(lists[p])

(* Where each job is: readers and requests run at LOW, writers at HIGH, and  *)
(* a request never blocks.                                                   *)
Places ==
    /\ lists \in [Priority -> Seq(Job)]
    /\ Disjoint(lists)
    /\ On(ROOT) = {} /\ On(HIGHEST) = {}
    /\ \A c \in Conn :
          /\ Reader(c) \in On(LOW) \cup On(BLOCKED) <=> c \in Open
          /\ Reader(c) \notin On(HIGH)
          /\ Writer(c) \in On(HIGH) \cup On(BLOCKED) <=> c \in Live
          /\ Writer(c) \notin On(LOW)
          /\ Request(c) \in On(LOW) <=> request[c] # "none"
          /\ Request(c) \notin On(HIGH) \cup On(BLOCKED)

(* A writer is only ready with bytes, and bytes only come from a request; a  *)
(* hangup is always reported with an error, so that no socket is closed      *)
(* under the bytes of an idle connection.                                    *)
Bytes ==
    /\ wbuf \in [Conn -> Nat]
    /\ WriterHasBytes
    /\ \A c \in Conn : state[c] \in {"unborn", "START", "CLOSED", "freed"} => wbuf[c] = 0
    /\ \A s \in DOMAIN batch : "HUP" \in batch[s] => "ERR" \in batch[s]

(* The walk over the lists, and why none is left with a runnable job when    *)
(* Scheduler polls: a pass that ran nothing found every list empty.          *)
Walk ==
    /\ pc \in {"top", "walk", "poll", "dispatch"}
    /\ left \in Nat /\ iPriority \in -1 .. LOW /\ ran \in BOOLEAN
    /\ pc # "walk" => left = 0
    /\ left > 0 => ran /\ iPriority \in RunLevels
    /\ SavedNextGood
    /\ pc = "walk" /\ ~ran => \A p \in RunLevels : p <= iPriority => lists[p] = <<>>
    /\ pc \in {"poll", "dispatch"} => \A c \in Conn : request[c] = "none"

(* epoll knows the open connections and no other; a reset is never           *)
(* overlooked, whatever was read meanwhile.                                  *)
Wakeups ==
    /\ watched = Open
    /\ edge \subseteq watched \cup {LISTENER, SIGNALS}
    /\ DOMAIN batch \subseteq watched \cup {LISTENER, SIGNALS}
    /\ pc # "dispatch" => DOMAIN batch = {}
    /\ AcceptNeverFails
    /\ \A c \in watched :
          exit = "no" /\ peer[c] = "rst" => c \in edge \/ (c \in DOMAIN batch /\ "ERR" \in batch[c])
    /\ InputWatched
    /\ OutputWatched

(* The scheduler's countdown ends in time, and signals.cc and http.cc agree  *)
(* on whether there was a SIGINT.                                            *)
Countdown ==
    /\ pc # "top" => iShutdown < MAX_SHUTDOWN_SECONDS
    /\ foober = shuttingDown

(* What every step of the server leaves in order: objects and counters, run   *)
(* queues, buffers, the scheduler's walk, epoll's lists and the countdown.    *)
ServerInv == LifetimeInv /\ Places /\ Bytes /\ Walk /\ Wakeups /\ Countdown

-----------------------------------------------------------------------------
(* The service the server provides: refinement of HttpService *)

(* The states of HttpConn that a client can tell apart. *)
StageOf(s) ==
    CASE s = "unborn"                      -> "none"
      [] s = "START"                       -> "new"
      [] s \in {"IOWORKING", "WRITEONLY"}  -> "busy"
      [] s \in {"IONOWORK", "READONLY"}    -> "idle"
      [] s = "CLOSED"                      -> "zombie"
      [] s \in {"DEATH", "freed"}          -> "gone"

Door == IF ~listener THEN "shut" ELSE IF shuttingDown THEN "closing" ELSE "open"

Outcome == CASE exit = "no" -> "run" [] exit = "normal" -> "stopped" [] OTHER -> "died"

Service == INSTANCE HttpService WITH
    stage   <- [c \in Conn |-> StageOf(state[c])],
    owed    <- wbuf,
    door    <- Door,
    outcome <- Outcome

(* Whatever the order of jobs and events: one request in work per connection *)
(* (http.cc:288-303), one whole response per request (httpreq.cc:37-56),     *)
(* responses only dropped with their connection, and the listener closed     *)
(* only by a SIGINT and behind the last connection (http.cc:183-199).        *)
ImplementsService == Service!ServiceSpec

-----------------------------------------------------------------------------
(* Liveness *)

(* A request in flight is answered, unless the process ends. *)
RequestAnswered ==
    \A c \in Conn : request[c] # "none" ~> request[c] = "none" \/ exit # "no"

(* What a client sends on an accepted connection is read. *)
InputRead ==
    \A c \in Conn : inbox[c] # <<>> /\ c \in watched ~> inbox[c] = <<>> \/ exit # "no"

(* A SIGINT ends the process, or leaves it shutting down with connections    *)
(* still to go; and when the last one goes, the scheduler's countdown ends   *)
(* the process (http.cc:183-199, job.cc:245): the signal is never forgotten, *)
(* nor read with nobody left whose death would close the listener.           *)
InterruptStops ==
    sigPending \/ shutItDown ~> exit # "no" \/ (shuttingDown /\ Live # {})

-----------------------------------------------------------------------------
(* What comments of the code say, and the code does not do.  Each is refuted *)
(* by a run of its own, and by more than one behaviour.                      *)

(* "HttpConn lives as long as the remote client can still talk to it"        *)
(* (http.cc:232), and "if first read of HttpReader->vRun gets 0 bytes,       *)
(* writer is done" (http.cc:420): once the client has closed its sending     *)
(* side or reset the connection, the connection is deleted at last, and no   *)
(* event is without a transition (http.cc:136).                              *)
ConnectionEnds ==
    \A c \in Conn :
        c \in Live /\ peer[c] \in {"fin", "rst"} ~>
            state[c] = "freed" \/ exit \notin {"no"} \cup ConnEvent

(* "state 2: waiting to read next request", "in-flight request completes,    *)
(* schedules us low priority -> state 1" (http.cc:516-517), and "we assume   *)
(* everything is edge-triggered" (eventable.cc:115), which asks for accept4  *)
(* until EAGAIN: a request sent to the listener is started at last, whether  *)
(* it has to wait for another connection or for another request.             *)
RequestsStarted ==
    \A c \in Conn :
        c \in Range(backlog) \cup watched /\ HasEnd(rbuf[c] \o inbox[c]) ~>
            ~HasEnd(rbuf[c] \o inbox[c]) \/ exit \notin {"no", "EWORKTODO"}

(* "RD is closed, still sending response(s)" (http.cc:27), and "worst case   *)
(* (unlikely), we just get blocked" (http.cc:658): while a client that has   *)
(* not reset its connection is owed bytes, the connection is not deleted and *)
(* its writer does not fail.                                                 *)
OwedDelivered ==
    [][\A c \in Conn :
          wbuf[c] > 0 /\ peer[c] # "rst" =>
              /\ state'[c] # "freed"
              /\ iJob = Writer(c) /\ exit # "write" => exit' # "write"]_vars

(* "if a class can be signaled, it should automatically deregister its       *)
(* signal handler when it destructs" (signals.cc:41-42): nothing that was    *)
(* deleted is called, neither for a signal nor for an event of the batch in  *)
(* which it was deleted.                                                     *)
DeletedUncalled == exit \notin {"uaf signal", "uaf event"}
=============================================================================
