---------------------------- MODULE HttpService ----------------------------
(***************************************************************************)
(* What the server promises its clients and its operator, without jobs,     *)
(* lists, events or wakeups: a connection has one request at a time in      *)
(* work, each answer is one whole response added to what the connection is  *)
(* owed, and the door shuts only after SIGINT and behind the last           *)
(* connection.  Until the process ends, module Anticent implements this.    *)
(***************************************************************************)
EXTENDS Naturals

CONSTANTS
    Conn,      \* connections clients may open
    RESPONSE   \* units of one response

VARIABLES
    stage,   \* of a connection's life, see Stage
    owed,    \* units of responses not yet given to the kernel
    door,    \* "open", "closing" after SIGINT, "shut" once the listener is gone
    outcome  \* "run" while the process does, "stopped" or "died"

service == <<stage, owed, door, outcome>>

(* "new" has had no request yet; "zombie" failed before its first one, is    *)
(* never served again and yet keeps the door from shutting.                  *)
Stage == {"none", "new", "busy", "idle", "zombie", "gone"}

ServiceTypeOK ==
    /\ stage \in [Conn -> Stage]
    /\ owed \in [Conn -> Nat]
    /\ door \in {"open", "closing", "shut"}
    /\ outcome \in {"run", "stopped", "died"}

(* The connections behind the door. *)
Present == {c \in Conn : stage[c] \in {"new", "busy", "idle", "zombie"}}

ServiceInit ==
    /\ stage = [c \in Conn |-> "none"]
    /\ owed = [c \in Conn |-> 0]
    /\ door = "open"
    /\ outcome = "run"

Accept(c) ==
    /\ stage[c] = "none"
    /\ door # "shut"
    /\ stage' = [stage EXCEPT ![c] = "new"]
    /\ UNCHANGED <<owed, door, outcome>>

Start(c) ==
    /\ stage[c] \in {"new", "idle"}
    /\ stage' = [stage EXCEPT ![c] = "busy"]
    /\ UNCHANGED <<owed, door, outcome>>

Answer(c) ==
    /\ stage[c] = "busy"
    /\ stage' = [stage EXCEPT ![c] = "idle"]
    /\ owed' = [owed EXCEPT ![c] = @ + RESPONSE]
    /\ UNCHANGED <<door, outcome>>

(* Some of what is owed is written, whatever else the connection does. *)
Deliver(c) ==
    /\ stage[c] \in {"busy", "idle"}
    /\ \E n \in 1 .. owed[c] : owed' = [owed EXCEPT ![c] = @ - n]
    /\ UNCHANGED <<stage, door, outcome>>

(* The client has closed: what it is still owed is dropped, and the last one *)
(* to leave a closing server shuts the door.                                 *)
Leave(c) ==
    /\ stage[c] = "idle"
    /\ stage' = [stage EXCEPT ![c] = "gone"]
    /\ owed' = [owed EXCEPT ![c] = 0]
    /\ door' = IF door = "closing" /\ Present = {c} THEN "shut" ELSE door
    /\ UNCHANGED outcome

(* The client resets before its first request. *)
Fail(c) ==
    /\ stage[c] = "new"
    /\ stage' = [stage EXCEPT ![c] = "zombie"]
    /\ UNCHANGED <<owed, door, outcome>>

(* SIGINT; a second one ends the process. *)
Interrupt ==
    /\ door # "shut"
    /\ door' = IF Present = {} THEN "shut" ELSE "closing"
    /\ outcome' \in IF door = "open" THEN {"run"} ELSE {"died"}
    /\ UNCHANGED <<stage, owed>>

Stop ==
    /\ door = "shut"
    /\ outcome' = "stopped"
    /\ UNCHANGED <<stage, owed, door>>

Crash ==
    /\ outcome' = "died"
    /\ UNCHANGED <<stage, owed, door>>

ServiceNext ==
    /\ outcome = "run"
    /\ \/ Interrupt \/ Stop \/ Crash
       \/ \E c \in Conn : \/ Accept(c) \/ Start(c) \/ Answer(c) \/ Deliver(c)
                          \/ Leave(c) \/ Fail(c)

ServiceSpec == ServiceInit /\ [][ServiceNext]_service
=============================================================================
