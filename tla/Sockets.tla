------------------------------ MODULE Sockets ------------------------------
(***************************************************************************)
(* The server's environment: the clients, the SIGINT key and what the       *)
(* kernel keeps for the process between system calls, modelled from how     *)
(* src/ uses accept4, read, write, close, signalfd and edge-triggered epoll.*)
(* The composing module Anticent makes the system calls.                    *)
(***************************************************************************)
EXTENDS Integers, FiniteSets, Sequences, SequencesExt

CONSTANTS
    Conn,       \* connections that clients may open, one TCP connection each
    Token,      \* the pieces of a request: {"text", "cookie", "end"} or a part
    MaxTokens,  \* bound: pieces the clients send, all connections together
    MaxSignals  \* bound: SIGINTs

ASSUME SocketsAssumption ==
    /\ IsFiniteSet(Conn)
    /\ Token \subseteq {"text", "cookie", "end"}
    /\ MaxTokens \in Nat
    /\ MaxSignals \in Nat
    /\ Conn \cap {"listener", "signals"} = {}

VARIABLES
    peer,       \* what the client has done with connection c
    inbox,      \* bytes the kernel holds for read(), as a sequence of pieces
    full,       \* the send buffer has no room
    backlog,    \* connections that wait for accept4()
    watched,    \* connections in epoll's interest list
    edge,       \* epoll's ready list: sources with a wakeup not yet delivered
    sigPending, \* SIGINT is pending (blocked, so that signalfd reads it)
    tokensLeft, \* what is left of MaxTokens
    sigLeft     \* what is left of MaxSignals

kernel == <<peer, inbox, full, backlog, watched, edge, sigPending, tokensLeft, sigLeft>>

(* The epoll data pointers: the two long-lived Eventables, and one per        *)
(* connection.                                                                *)
LISTENER == "listener"
SIGNALS  == "signals"
Source   == Conn \cup {LISTENER, SIGNALS}

PeerState == {"away", "open", "fin", "rst", "gone"}

KernelTypeOK ==
    /\ peer \in [Conn -> PeerState]
    /\ inbox \in [Conn -> Seq(Token)]
    /\ full \in [Conn -> BOOLEAN]
    /\ backlog \in Seq(Conn)
    /\ watched \subseteq Conn
    /\ edge \subseteq Source
    /\ sigPending \in BOOLEAN
    /\ tokensLeft \in 0 .. MaxTokens
    /\ sigLeft \in 0 .. MaxSignals

KernelInit ==
    /\ peer = [c \in Conn |-> "away"]
    /\ inbox = [c \in Conn |-> <<>>]
    /\ full = [c \in Conn |-> FALSE]
    /\ backlog = <<>>
    /\ watched = {}
    /\ edge = {}
    /\ sigPending = FALSE
    /\ tokensLeft = MaxTokens
    /\ sigLeft = MaxSignals

(* A change of a watched socket queues a wakeup (EPOLLET, eventable.cc:116). *)
Wake(c) == IF c \in watched THEN edge \cup {c} ELSE edge

(* The flags epoll_wait reports for a ready source.  A reset shows up as     *)
(* EPOLLERR|EPOLLHUP on top of the readable and writable ends.               *)
Mask(s) ==
    CASE s = LISTENER -> IF backlog # <<>> THEN {"IN"} ELSE {}
      [] s = SIGNALS  -> IF sigPending THEN {"IN"} ELSE {}
      [] OTHER        -> (IF inbox[s] # <<>> \/ peer[s] \in {"fin", "rst"} THEN {"IN"} ELSE {})
                         \cup (IF full[s] THEN {} ELSE {"OUT"})
                         \cup (IF peer[s] = "rst" THEN {"ERR", "HUP"} ELSE {})

-----------------------------------------------------------------------------
(* The clients *)

Connect(c) ==
    /\ peer[c] = "away"
    /\ peer' = [peer EXCEPT ![c] = "open"]
    /\ backlog' = Append(backlog, c)
    /\ edge' = edge \cup {LISTENER}
    /\ UNCHANGED <<inbox, full, watched, sigPending, tokensLeft, sigLeft>>

Send(c, t) ==
    /\ peer[c] = "open"
    /\ tokensLeft > 0
    /\ tokensLeft' = tokensLeft - 1
    /\ inbox' = [inbox EXCEPT ![c] = Append(@, t)]
    /\ edge' = Wake(c)
    /\ UNCHANGED <<peer, full, backlog, watched, sigPending, sigLeft>>

(* The client closes its sending side: after the data, read() returns 0. *)
Fin(c) ==
    /\ peer[c] = "open"
    /\ peer' = [peer EXCEPT ![c] = "fin"]
    /\ edge' = Wake(c)
    /\ UNCHANGED <<inbox, full, backlog, watched, sigPending, tokensLeft, sigLeft>>

(* The client aborts: what it sent stays readable, then read() fails. *)
Reset(c) ==
    /\ peer[c] \in {"open", "fin"}
    /\ peer' = [peer EXCEPT ![c] = "rst"]
    /\ edge' = Wake(c)
    /\ UNCHANGED <<inbox, full, backlog, watched, sigPending, tokensLeft, sigLeft>>

(* The client reads responses: room again, and EPOLLOUT if a write met none. *)
Drain(c) ==
    /\ full[c]
    /\ peer[c] \in {"open", "fin"}
    /\ full' = [full EXCEPT ![c] = FALSE]
    /\ edge' = Wake(c)
    /\ UNCHANGED <<peer, inbox, backlog, watched, sigPending, tokensLeft, sigLeft>>

(* Standard signals do not queue: two before a read() are one. *)
Sigint ==
    /\ sigLeft > 0
    /\ sigLeft' = sigLeft - 1
    /\ sigPending' = TRUE
    /\ edge' = edge \cup {SIGNALS}
    /\ UNCHANGED <<peer, inbox, full, backlog, watched, tokensLeft>>

Client(c) ==
    \/ \E t \in Token : Send(c, t)
    \/ Fin(c)
    \/ Reset(c)
    \/ Drain(c)

-----------------------------------------------------------------------------
(* close() on the sockets of S: each leaves the interest list and the ready  *)
(* list; closing the listening socket refuses the connections in its         *)
(* backlog.  What the clients do afterwards no longer reaches the process.   *)
CloseSockets(S) ==
    LET closed == (S \cap Conn) \cup (IF LISTENER \in S THEN Range(backlog) ELSE {})
    IN  /\ peer' = [c \in Conn |-> IF c \in closed THEN "gone" ELSE peer[c]]
        /\ inbox' = [c \in Conn |-> IF c \in closed THEN <<>> ELSE inbox[c]]
        /\ full' = [c \in Conn |-> full[c] /\ c \notin closed]
        /\ backlog' = IF LISTENER \in S THEN <<>> ELSE backlog
        /\ watched' = watched \ closed
        /\ edge' = edge \ (S \cup closed)
        /\ UNCHANGED <<sigPending, tokensLeft, sigLeft>>
=============================================================================
