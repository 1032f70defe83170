------------------------------ MODULE Startup ------------------------------
(***************************************************************************)
(* main() around Job::Scheduler: Init with its signal descriptor and its    *)
(* listener, V8Main with the threads it starts and joins, and the end.      *)
(* Each system call is a step: SIGINT and clients may come between any two. *)
(* What Scheduler does is module Anticent's; here it is one step.           *)
(***************************************************************************)
EXTENDS Integers, FiniteSets, Sequences, SequencesExt

CONSTANTS
    Lists,       \* bound: what getifaddrs() may return, lists of Interface
    MaxClients,  \* bound: connections opened before the scheduler starts
    MaxSignals   \* bound: SIGINTs

(* An entry of getifaddrs(): its name, and the family of its address or      *)
(* "null".                                                                   *)
Interface == [name : {"eno1", "lo"}, family : {"IP4", "IP6", "null"}]

ASSUME StartupAssumption ==
    /\ Lists \subseteq Seq(Interface)
    /\ MaxClients \in Nat
    /\ MaxSignals \in Nat

VARIABLES
    pc,          \* the step main() does next
    exit,        \* "no", or how the process ended
    unmasked,    \* the threads that do not block SIGINT
    sigFd,       \* "none", "open", "watched" by epoll, "closed"
    listenFd,    \* "none", "open", "bound", "listening", "watched", "closed"
    address,     \* IPaddr: place of the entry it was set from, 0 for none
    subscribers, \* Signals' Subscribers
    nJobs,
    nSockets,
    nListeners,
    ifaces,      \* what getifaddrs() returns
    sigPending,
    backlog,     \* how many connections wait for accept4
    edge,        \* epoll's ready list
    sigLeft      \* what is left of MaxSignals

world    == <<ifaces, sigPending, backlog, edge, sigLeft>>
counters == <<nJobs, nSockets, nListeners>>
fds      == <<sigFd, listenFd, address>>
vars     == <<pc, exit, unmasked, fds, subscribers, counters, world>>

(* Mutant: the signal is blocked once its descriptor is watched. *)
Steps_MaskLate ==
    <<"InitEventable", "Init", "signalfd", "AddSignals", "sigprocmask", "HttpListener",
      "SetAddrFromEth", "socket", "bind", "listen", "AddListener", "nListeners", "platform",
      "CompileModule", "ShutdownPlatform", "Scheduler", "~Init">>

(* Mutant: the listening socket is not added to epoll. *)
Steps_NoAdd ==
    <<"InitEventable", "Init", "sigprocmask", "signalfd", "AddSignals", "HttpListener",
      "SetAddrFromEth", "socket", "bind", "listen", "nListeners", "platform",
      "CompileModule", "ShutdownPlatform", "Scheduler", "~Init">>

(* The order of main(), Init(), Signals(), NewHttpListener, Bind and V8Main. *)
Steps ==
    <<"InitEventable", "Init", "sigprocmask", "signalfd", "AddSignals", "HttpListener",
      "SetAddrFromEth", "socket", "bind", "listen", "AddListener", "nListeners", "platform",
      "CompileModule", "ShutdownPlatform", "Scheduler", "~Init">>

(* Calls whose failure trips an assertion; CompileModule's is reported, and  *)
(* the empty module then dereferenced (v8main.cc:156).                       *)
Fallible == {"InitEventable", "signalfd", "AddSignals", "socket", "bind", "listen",
             "AddListener", "CompileModule", "SetAddrFromEth"}

Init ==
    /\ pc = 1
    /\ exit = "no"
    /\ unmasked = {"main"}
    /\ sigFd = "none"
    /\ listenFd = "none"
    /\ address = 0
    /\ subscribers = <<>>
    /\ nJobs = 0
    /\ nSockets = 0
    /\ nListeners = 0
    /\ ifaces \in Lists
    /\ sigPending = FALSE
    /\ backlog = 0
    /\ edge = {}
    /\ sigLeft = MaxSignals

-----------------------------------------------------------------------------
(* The world *)

(* SIGINT goes to any thread that does not block it, and its default action  *)
(* ends the process; if all do, it is pending, and the signal descriptor     *)
(* readable.                                                                 *)
Sigint ==
    /\ sigLeft > 0
    /\ sigLeft' = sigLeft - 1
    /\ IF unmasked # {}
       THEN exit' = "killed" /\ UNCHANGED <<sigPending, edge>>
       ELSE /\ sigPending' = TRUE
            /\ edge' = IF sigFd = "watched" THEN edge \cup {"signals"} ELSE edge
            /\ UNCHANGED exit
    /\ UNCHANGED <<pc, unmasked, fds, subscribers, counters, ifaces, backlog>>

Connect ==
    /\ listenFd \in {"listening", "watched"}
    /\ backlog < MaxClients
    /\ backlog' = backlog + 1
    /\ edge' = IF listenFd = "watched" THEN edge \cup {"listener"} ELSE edge
    /\ UNCHANGED <<pc, exit, unmasked, fds, subscribers, counters, ifaces, sigPending, sigLeft>>

-----------------------------------------------------------------------------
(* main() *)

At(step) ==
    /\ pc \in DOMAIN Steps
    /\ Steps[pc] = step
    /\ pc' = pc + 1

Fails ==
    /\ pc \in DOMAIN Steps
    /\ Steps[pc] \in Fallible
    /\ exit' = "failed"
    /\ UNCHANGED <<pc, unmasked, fds, subscribers, counters, world>>

(* epoll_create; nothing but the descriptor. *)
InitEventable ==
    /\ At("InitEventable")
    /\ UNCHANGED <<exit, unmasked, fds, subscribers, counters, world>>

(* The Job constructors of Init and of its Signals. *)
NewInit ==
    /\ At("Init")
    /\ nJobs' = nJobs + 2
    /\ UNCHANGED <<exit, unmasked, fds, subscribers, nSockets, nListeners, world>>

Sigprocmask ==
    /\ At("sigprocmask")
    /\ unmasked' = unmasked \ {"main"}
    /\ UNCHANGED <<exit, fds, subscribers, counters, world>>

Signalfd ==
    /\ At("signalfd")
    /\ sigFd' = "open"
    /\ UNCHANGED <<exit, unmasked, listenFd, address, subscribers, counters, world>>

(* Eventable::Add: a descriptor that is ready when it is added has a wakeup. *)
AddSignals ==
    /\ At("AddSignals")
    /\ sigFd' = "watched"
    /\ nSockets' = nSockets + 1
    /\ edge' = IF sigPending THEN edge \cup {"signals"} ELSE edge
    /\ UNCHANGED <<exit, unmasked, listenFd, address, subscribers, nJobs, nListeners, ifaces,
                   sigPending, backlog, sigLeft>>

(* Init and the new HttpListener subscribe. *)
NewHttpListener ==
    /\ At("HttpListener")
    /\ nJobs' = nJobs + 1
    /\ subscribers' = subscribers \o <<"init", "listener">>
    /\ UNCHANGED <<exit, unmasked, fds, nSockets, nListeners, world>>

(* Mutant: without the test of the family. *)
Matches_AnyFamily(i) == ifaces[i].name = "eno1" /\ ifaces[i].family # "null"

Matches(i) == ifaces[i].name = "eno1" /\ ifaces[i].family = "IP4"

(* The loop over the interfaces goes on after a match. *)
SetAddrFromEth ==
    /\ At("SetAddrFromEth")
    /\ LET matching == {i \in DOMAIN ifaces : Matches(i)}
       IN  IF matching = {} THEN exit' = "failed" /\ UNCHANGED address
           ELSE address' = Max(matching) /\ UNCHANGED exit
    /\ UNCHANGED <<unmasked, sigFd, listenFd, subscribers, counters, world>>

(* socket, bind and listen. *)
ListenFdBecomes(step, condition) ==
    /\ At(step)
    /\ listenFd' = condition
    /\ UNCHANGED <<exit, unmasked, sigFd, address, subscribers, counters, world>>

AddListener ==
    /\ At("AddListener")
    /\ listenFd' = "watched"
    /\ nSockets' = nSockets + 1
    /\ edge' = IF backlog > 0 THEN edge \cup {"listener"} ELSE edge
    /\ UNCHANGED <<exit, unmasked, sigFd, address, subscribers, nJobs, nListeners, ifaces,
                   sigPending, backlog, sigLeft>>

CountListener ==
    /\ At("nListeners")
    /\ nListeners' = nListeners + 1
    /\ UNCHANGED <<exit, unmasked, fds, subscribers, nJobs, nSockets, world>>

(* NewDefaultPlatform starts worker threads, each with its creator's mask.   *)
NewPlatform ==
    /\ At("platform")
    /\ unmasked' = IF "main" \in unmasked THEN unmasked \cup {"worker"} ELSE unmasked
    /\ UNCHANGED <<exit, fds, subscribers, counters, world>>

(* Whatever InstantiateModule says is printed, no more. *)
CompileModule ==
    /\ At("CompileModule")
    /\ UNCHANGED <<exit, unmasked, fds, subscribers, counters, world>>

(* V8 is disposed of, and its threads are joined. *)
ShutdownPlatform ==
    /\ At("ShutdownPlatform")
    /\ unmasked' = unmasked \ {"worker"}
    /\ UNCHANGED <<exit, fds, subscribers, counters, world>>

(* Job::Scheduler, if it returns, does so once the listener is gone, and with it its*)
(* socket and every connection (ParentOutlives, ObjectCounts of Anticent).   *)
Scheduler ==
    /\ At("Scheduler")
    /\ listenFd' = "closed"
    /\ nJobs' = nJobs - 1
    /\ nSockets' = nSockets - 1
    /\ nListeners' = nListeners - 1
    /\ backlog' = 0
    /\ sigPending' = FALSE
    /\ edge' = {}
    /\ UNCHANGED <<exit, unmasked, sigFd, address, subscribers, ifaces, sigLeft>>

(* Mutant: ~Init does not delete the Signals object. *)
Deleted_InitOnly == {"init"}

(* Mutant: the listener is deleted again. *)
Deleted_ListenerToo == {"init", "signals", "listener"}

(* ~Init deletes the Signals object. *)
Deleted == {"init", "signals"}

(* main() returns: ~Init, with ~Eventable and ~Job of what it deletes. *)
EndInit ==
    /\ At("~Init")
    /\ sigFd' = IF "signals" \in Deleted THEN "closed" ELSE sigFd
    /\ nSockets' = IF "signals" \in Deleted THEN nSockets - 1 ELSE nSockets
    /\ nJobs' = nJobs - Cardinality(Deleted)
    /\ edge' = edge \ {"signals"}
    /\ exit' = "normal"
    /\ UNCHANGED <<unmasked, listenFd, address, subscribers, nListeners, ifaces, sigPending,
                   backlog, sigLeft>>

Main ==
    \/ Fails
    \/ InitEventable \/ NewInit \/ Sigprocmask \/ Signalfd \/ AddSignals
    \/ NewHttpListener \/ SetAddrFromEth
    \/ ListenFdBecomes("socket", "open")
    \/ ListenFdBecomes("bind", "bound")
    \/ ListenFdBecomes("listen", "listening")
    \/ AddListener \/ CountListener
    \/ NewPlatform \/ CompileModule \/ ShutdownPlatform
    \/ Scheduler \/ EndInit

Ended == exit # "no" /\ UNCHANGED vars

Next ==
    \/ exit = "no" /\ (Sigint \/ Connect \/ Main)
    \/ Ended

Spec == Init /\ [][Next]_vars

-----------------------------------------------------------------------------
(* Every variable has its type. *)
TypeOK ==
    /\ pc \in 1 .. Len(Steps) + 1
    /\ exit \in {"no", "killed", "failed", "normal"}
    /\ unmasked \subseteq {"main", "worker"}
    /\ sigFd \in {"none", "open", "watched", "closed"}
    /\ listenFd \in {"none", "open", "bound", "listening", "watched", "closed"}
    /\ address \in 0 .. Len(ifaces)
    /\ subscribers \in Seq({"init", "listener"})
    /\ nJobs \in Nat /\ nSockets \in Nat /\ nListeners \in Nat
    /\ ifaces \in Lists
    /\ sigPending \in BOOLEAN
    /\ backlog \in 0 .. MaxClients
    /\ edge \subseteq {"signals", "listener"}
    /\ sigLeft \in 0 .. MaxSignals

(* Once there is a descriptor to read it from, SIGINT never takes its        *)
(* default action, not even in a thread of V8 (signals.cc:67, v8main.cc:115).*)
InterruptQueued ==
    sigFd # "none" => unmasked = {} /\ exit # "killed"

(* The scheduler starts in the initial state of module Anticent, but for     *)
(* clients and a SIGINT that came early, and these have a wakeup coming.     *)
HandOff ==
    pc \in DOMAIN Steps /\ Steps[pc] = "Scheduler" /\ exit = "no" =>
        /\ nJobs = 3 /\ nSockets = 2 /\ nListeners = 1
        /\ sigFd = "watched" /\ unmasked = {}
        /\ subscribers = <<"init", "listener">>
        /\ sigPending => "signals" \in edge
        /\ backlog > 0 => "listener" \in edge

(* A socket that is bound is bound to an IPv4 address of eno1, whatever else *)
(* the interface has (ipaddr.cc:57-63): the address's length and port field  *)
(* are those of that family (ipaddr.cc:20, 133).                             *)
BoundToEth ==
    listenFd \in {"bound", "listening", "watched"} =>
        address # 0 /\ ifaces[address] = [name |-> "eno1", family |-> "IP4"]

(* At a normal exit the counters are back at 0, none decremented twice       *)
(* (job.cc:174), and the two descriptors epoll watched are closed.           *)
CleanEnd ==
    exit = "normal" =>
        /\ nJobs = 0 /\ nSockets = 0 /\ nListeners = 0
        /\ sigFd = "closed" /\ listenFd = "closed"
=============================================================================
