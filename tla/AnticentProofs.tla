--------------------------- MODULE AnticentProofs ---------------------------
(***************************************************************************)
(* The server without epoll, for any number of connections, any input and   *)
(* any number of SIGINTs. First the lifetimes of its objects: the counters   *)
(* are exact, and a parent outlives its children. Then the run queues: each  *)
(* job that exists is on one list and no other is on any, the walk over a    *)
(* list never follows a pointer to a job that is gone, a request in flight   *)
(* is always runnable, and a writer never runs without bytes.                *)
(***************************************************************************)
EXTENDS AnticentProps, JobQueueProofs, Extremes, FiniteSetTheorems

(* What the arithmetic needs to know of the variables' types. *)
LifetimeTypes ==
    /\ iShutdown \in Nat
    /\ nJobs \in Int
    /\ nSockets \in Int
    /\ connCount \in Int
    /\ state \in [Conn -> ConnState \cup {"unborn", "freed"}]
    /\ request \in [Conn -> {"none", "plain", "cookie"}]
    /\ peer \in [Conn -> PeerState]
    /\ backlog \in Seq(Conn)
    /\ listener \in BOOLEAN
    /\ shuttingDown \in BOOLEAN
    /\ shutItDown \in BOOLEAN

IInv == LifetimeTypes /\ LifetimeInv

(* The variables that IInv is about. *)
lifetimes == <<exit, iShutdown, nJobs, nSockets, connCount, state, request, peer,
               backlog, listener, shuttingDown, shutItDown>>

(* The same but for what clients do to the kernel. *)
objects == <<exit, iShutdown, nJobs, nSockets, connCount, state, request,
             listener, shuttingDown, shutItDown>>

(* The sets that the counters count are finite. *)
LEMMA FiniteCounts ==
    /\ IsFiniteSet(Live) /\ Cardinality(Live) \in Nat
    /\ IsFiniteSet(Open) /\ Cardinality(Open) \in Nat
    /\ IsFiniteSet(InFlight) /\ Cardinality(InFlight) \in Nat
  <1>1. Live \subseteq Conn /\ Open \subseteq Conn /\ InFlight \subseteq Conn
    BY DEF Live, Open, InFlight
  <1>2. IsFiniteSet(Conn)
    BY SocketsAssumption
  <1>3. IsFiniteSet(Live) /\ IsFiniteSet(Open) /\ IsFiniteSet(InFlight)
    BY <1>1, <1>2, FS_Subset
  <1> QED
    BY <1>3, FS_CardinalityType

(* One element more, one element less. *)
LEMMA OneMore ==
    ASSUME NEW S, NEW T, NEW x, IsFiniteSet(S), x \notin S, T = S \cup {x}
    PROVE  Cardinality(T) = Cardinality(S) + 1
  BY FS_AddElement, FS_CardinalityType

(* The size of a set that loses an element. *)
LEMMA OneLess ==
    ASSUME NEW S, NEW T, NEW x, IsFiniteSet(S), x \in S, T = S \ {x}
    PROVE  Cardinality(T) = Cardinality(S) - 1
  BY FS_RemoveElement, FS_CardinalityType

(* The server starts with three objects, no connection and two sockets. *)
LEMMA InitLifetimes == Init => IInv
  <1> SUFFICES ASSUME Init PROVE IInv
    OBVIOUS
  <1>1. LifetimeTypes
    <2>1. iShutdown \in Nat /\ nJobs \in Int /\ nSockets \in Int /\ connCount \in Int
      BY DEF Init
    <2>2. /\ state \in [Conn -> ConnState \cup {"unborn", "freed"}]
          /\ request \in [Conn -> {"none", "plain", "cookie"}]
          /\ peer \in [Conn -> PeerState]
      BY DEF Init, KernelInit, PeerState
    <2>3. backlog \in Seq(Conn)
      BY DEF Init, KernelInit
    <2>4. listener \in BOOLEAN /\ shuttingDown \in BOOLEAN /\ shutItDown \in BOOLEAN
      BY DEF Init
    <2> QED
      BY <2>1, <2>2, <2>3, <2>4 DEF LifetimeTypes
  <1>2. Live = {} /\ Open = {} /\ InFlight = {}
    BY DEF Init, Live, Open, InFlight, ConnState
  <1>3. ObjectCounts
    <2>1. Cardinality({}) = 0
      BY FS_EmptySet
    <2>2. nJobs = 3 /\ nSockets = 2 /\ connCount = 0 /\ listener
      BY DEF Init
    <2> QED
      BY <1>2, <2>1, <2>2 DEF ObjectCounts
  <1>4. ParentOutlives /\ StatePhase /\ (iShutdown > 0 => shutItDown)
    BY DEF Init, ParentOutlives, StatePhase
  <1>5. Unaccepted
    BY DEF Init, KernelInit, Unaccepted, Range
  <1> QED
    BY <1>1, <1>3, <1>4, <1>5 DEF IInv, LifetimeInv

(* A step that leaves the variables of IInv alone. *)
LEMMA LifetimesStutter ==
    ASSUME IInv, UNCHANGED lifetimes
    PROVE  IInv'
  BY DEF IInv, lifetimes, LifetimeTypes, LifetimeInv, ObjectCounts, ParentOutlives,
         StatePhase, Unaccepted, Live, Open, InFlight

(* A step that leaves the objects alone, and the types of the kernel right.  *)
LEMMA ObjectsStutter ==
    ASSUME IInv, UNCHANGED objects, peer' \in [Conn -> PeerState], backlog' \in Seq(Conn),
           Unaccepted'
    PROVE  IInv'
  BY DEF IInv, objects, LifetimeTypes, LifetimeInv, ObjectCounts, ParentOutlives,
         StatePhase, Live, Open, InFlight

-----------------------------------------------------------------------------
(* What happens to one connection *)

(* CloseSockets leaves the kernel with its types, and what is still in the   *)
(* backlog as it was.                                                        *)
LEMMA Closing ==
    ASSUME IInv, NEW c \in Conn, NEW B \in BOOLEAN,
           CloseSockets({c} \cup (IF B THEN {LISTENER} ELSE {}))
    PROVE  /\ peer' \in [Conn -> PeerState]
           /\ backlog' = IF B THEN <<>> ELSE backlog
           /\ \A d \in Conn : peer'[d] = "away" => peer[d] = "away" /\ d # c
  <1>1. c # LISTENER
    BY SocketsAssumption DEF LISTENER
  <1>2. backlog' = IF B THEN <<>> ELSE backlog
    BY <1>1 DEF CloseSockets
  <1> DEFINE S == {c} \cup (IF B THEN {LISTENER} ELSE {})
             closed == (S \cap Conn) \cup (IF LISTENER \in S THEN Range(backlog) ELSE {})
  <1>3. peer' = [d \in Conn |-> IF d \in closed THEN "gone" ELSE peer[d]]
    BY DEF CloseSockets
  <1>4. c \in closed
    OBVIOUS
  <1> HIDE DEF closed
  <1> QED
    BY <1>2, <1>3, <1>4 DEF IInv, LifetimeTypes, PeerState

(* An idle connection dies. *)
LEMMA Dying ==
    ASSUME IInv, NEW c \in Conn, state[c] = "IONOWORK", ConnDeath(c), iShutdown' = iShutdown
    PROVE  IInv'
  <1>1. state' = [state EXCEPT ![c] = "freed"] /\ request' = request /\ exit' = exit
    BY DEF ConnDeath
  <1>2. request[c] = "none"
    BY DEF IInv, LifetimeInv, StatePhase
  <1>3. /\ c \in Live /\ Live' = Live \ {c}
        /\ c \in Open /\ Open' = Open \ {c}
        /\ InFlight' = InFlight
    BY <1>1 DEF Live, Open, InFlight, ConnState, IInv, LifetimeTypes
  <1>4. /\ Cardinality(Live') = Cardinality(Live) - 1
        /\ Cardinality(Open') = Cardinality(Open) - 1
        /\ Cardinality(Live) \in Nat /\ Cardinality(Open) \in Nat
        /\ Cardinality(InFlight') = Cardinality(InFlight)
        /\ Cardinality(InFlight) \in Nat
    BY <1>3, FiniteCounts, OneLess
  <1>5. listener /\ ~shutItDown
    BY <1>3 DEF IInv, LifetimeInv, ParentOutlives
  <1>6. /\ nJobs = 3 + 2 * Cardinality(Live) + Cardinality(Open) + Cardinality(InFlight)
        /\ nSockets = 2 + Cardinality(Live)
        /\ connCount = Cardinality(Live)
    BY <1>5 DEF IInv, LifetimeInv, ObjectCounts
  <1>7. /\ LastConn \in BOOLEAN
        /\ connCount' = connCount - 1
        /\ nJobs' = nJobs - 3 - (IF LastConn THEN 1 ELSE 0)
        /\ nSockets' = nSockets - 1 - (IF LastConn THEN 1 ELSE 0)
        /\ listener' = ~LastConn
        /\ shutItDown' = LastConn
        /\ shuttingDown' = shuttingDown
    BY <1>5 DEF ConnDeath, ListenerDeath, LastConn
  <1>8. LastConn => Live' = {} /\ shuttingDown'
    <2>1. LastConn => Cardinality(Live') = 0
      <3>1. LastConn => connCount - 1 <= 0
        BY DEF LastConn
      <3>2. Cardinality(Live') \in Nat
        BY <1>3, FiniteCounts, FS_RemoveElement, FS_CardinalityType
      <3> QED
        BY <3>1, <3>2, <1>4, <1>6
    <2>2. IsFiniteSet(Live')
      BY <1>3, FiniteCounts, FS_RemoveElement
    <2>3. LastConn => Live' = {}
      BY <2>1, <2>2, FS_EmptySet
    <2> QED
      BY <2>3, <1>7 DEF LastConn
  <1>9. ObjectCounts'
    <2> DEFINE a == Cardinality(Live)
               b == Cardinality(Open)
               d == Cardinality(InFlight)
    <2>1. CASE LastConn
      <3>1. nJobs' = 2 + 0 + 2 * Cardinality(Live') + Cardinality(Open') + Cardinality(InFlight')
        BY <2>1, <1>4, <1>6, <1>7
      <3>2. nSockets' = 1 + 0 + Cardinality(Live') /\ connCount' = Cardinality(Live')
        BY <2>1, <1>4, <1>6, <1>7
      <3> QED
        BY <2>1, <3>1, <3>2, <1>7 DEF ObjectCounts
    <2>2. CASE ~LastConn
      <3>1. nJobs' = 2 + 1 + 2 * Cardinality(Live') + Cardinality(Open') + Cardinality(InFlight')
        BY <2>2, <1>4, <1>6, <1>7
      <3>2. nSockets' = 1 + 1 + Cardinality(Live') /\ connCount' = Cardinality(Live')
        BY <2>2, <1>4, <1>6, <1>7
      <3> QED
        BY <2>2, <3>1, <3>2, <1>7 DEF ObjectCounts
    <2> QED
      BY <2>1, <2>2
  <1>10. ParentOutlives'
    BY <1>1, <1>5, <1>7, <1>8 DEF ParentOutlives, IInv, LifetimeInv
  <1>11. StatePhase'
    BY <1>1, <1>2 DEF StatePhase, IInv, LifetimeInv, LifetimeTypes
  <1>12. CloseSockets({c} \cup (IF LastConn THEN {LISTENER} ELSE {}))
    BY DEF ConnDeath
  <1>13. /\ peer' \in [Conn -> PeerState]
         /\ backlog' = IF LastConn THEN <<>> ELSE backlog
         /\ \A d \in Conn : peer'[d] = "away" => peer[d] = "away" /\ d # c
    BY <1>7, <1>12, Closing
  <1>14. Unaccepted'
    <2>1. \A d \in Conn : peer'[d] = "away" => state'[d] = "unborn"
      BY <1>1, <1>13 DEF Unaccepted, IInv, LifetimeInv, LifetimeTypes
    <2>2. CASE LastConn
      BY <2>1, <2>2, <1>13 DEF Unaccepted, Range
    <2>3. CASE ~LastConn
      <3>1. \A i \in DOMAIN backlog : backlog[i] \in Conn /\ backlog[i] # c
        BY DEF Unaccepted, IInv, LifetimeInv, LifetimeTypes
      <3> QED
        BY <2>1, <2>3, <3>1, <1>1, <1>13 DEF Unaccepted, IInv, LifetimeInv, LifetimeTypes
    <2> QED
      BY <2>2, <2>3
  <1>15. LifetimeTypes'
    <2>1. iShutdown' \in Nat /\ nJobs' \in Int /\ nSockets' \in Int /\ connCount' \in Int
      BY <1>7 DEF IInv, LifetimeTypes
    <2>2. /\ state' \in [Conn -> ConnState \cup {"unborn", "freed"}]
          /\ request' \in [Conn -> {"none", "plain", "cookie"}]
      BY <1>1 DEF IInv, LifetimeTypes
    <2>3. backlog' \in Seq(Conn)
      BY <1>13 DEF IInv, LifetimeTypes
    <2>4. listener' \in BOOLEAN /\ shuttingDown' \in BOOLEAN /\ shutItDown' \in BOOLEAN
      BY <1>7 DEF IInv, LifetimeTypes
    <2> QED
      BY <1>13, <2>1, <2>2, <2>3, <2>4 DEF LifetimeTypes
  <1> QED
    BY <1>5, <1>9, <1>10, <1>11, <1>14, <1>15 DEF IInv, LifetimeInv

(* A connection whose socket is closed keeps its object and its writer. *)
LEMMA ClosingConn ==
    ASSUME IInv, NEW c \in Conn, state[c] \in {"START", "IONOWORK"}, ConnClose(c, "CLOSED"),
           iShutdown' = iShutdown
    PROVE  IInv'
  <1>1. /\ state' = [state EXCEPT ![c] = "CLOSED"] /\ nJobs' = nJobs - 1
        /\ UNCHANGED <<exit, nSockets, request, listener, connCount, shuttingDown, shutItDown>>
    BY DEF ConnClose, shutdown
  <1>2. request[c] = "none"
    BY DEF IInv, LifetimeInv, StatePhase
  <1>3. /\ Live' = Live /\ InFlight' = InFlight
        /\ c \in Open /\ Open' = Open \ {c}
    BY <1>1 DEF Live, Open, InFlight, ConnState, IInv, LifetimeTypes
  <1>4. Cardinality(Open') = Cardinality(Open) - 1
    BY <1>3, FiniteCounts, OneLess
  <1>5. ObjectCounts'
    <2>1. /\ nJobs = 2 + (IF listener THEN 1 ELSE 0) + 2 * Cardinality(Live) + Cardinality(Open)
                     + Cardinality(InFlight)
          /\ nSockets = 1 + (IF listener THEN 1 ELSE 0) + Cardinality(Live)
          /\ connCount = Cardinality(Live)
      BY DEF ObjectCounts, IInv, LifetimeInv
    <2>2. /\ Cardinality(Live') = Cardinality(Live)
          /\ Cardinality(Open') = Cardinality(Open) - 1
          /\ Cardinality(InFlight') = Cardinality(InFlight)
      BY <1>3, <1>4
    <2>3. nJobs' = 2 + (IF listener THEN 1 ELSE 0) + 2 * Cardinality(Live') + Cardinality(Open')
                   + Cardinality(InFlight')
      BY <1>1, <2>1, <2>2, FiniteCounts
    <2> QED
      BY <1>1, <2>1, <2>2, <2>3 DEF ObjectCounts
  <1>6. ParentOutlives'
    BY <1>1, <1>3 DEF ParentOutlives, IInv, LifetimeInv
  <1>7. StatePhase'
    BY <1>1, <1>2 DEF StatePhase, IInv, LifetimeInv, LifetimeTypes
  <1>8. /\ peer' \in [Conn -> PeerState]
        /\ backlog' = backlog
        /\ \A d \in Conn : peer'[d] = "away" => peer[d] = "away" /\ d # c
    <2>1. CloseSockets({c} \cup (IF FALSE THEN {LISTENER} ELSE {}))
      BY DEF ConnClose
    <2> QED
      BY <2>1, Closing
  <1>9. \A i \in DOMAIN backlog : backlog[i] \in Conn /\ backlog[i] # c
    BY DEF Unaccepted, IInv, LifetimeInv, LifetimeTypes
  <1>10. Unaccepted'
    BY <1>1, <1>8, <1>9 DEF Unaccepted, IInv, LifetimeInv, LifetimeTypes
  <1>11. LifetimeTypes'
    <2>1. nJobs' \in Int /\ state' \in [Conn -> ConnState \cup {"unborn", "freed"}]
      BY <1>1 DEF IInv, LifetimeTypes, ConnState
    <2> QED
      BY <1>1, <1>8, <2>1 DEF IInv, LifetimeTypes
  <1> QED
    BY <1>1, <1>5, <1>6, <1>7, <1>10, <1>11 DEF IInv, LifetimeInv

(* A connection without a request in flight gets one. *)
LEMMA Starting ==
    ASSUME IInv, NEW c \in Conn, state[c] \in {"START", "IONOWORK"},
           NEW r \in {"plain", "cookie"},
           request' = [request EXCEPT ![c] = r],
           state' = [state EXCEPT ![c] = "IOWORKING"],
           nJobs' = nJobs + 1,
           UNCHANGED <<exit, iShutdown, nSockets, connCount, peer, backlog, listener,
                       shuttingDown, shutItDown>>
    PROVE  IInv'
  <1>1. request[c] = "none"
    BY DEF IInv, LifetimeInv, StatePhase
  <1>2. /\ Live' = Live /\ Open' = Open
        /\ c \notin InFlight /\ InFlight' = InFlight \cup {c}
    BY <1>1 DEF Live, Open, InFlight, ConnState, IInv, LifetimeTypes
  <1>3. Cardinality(InFlight') = Cardinality(InFlight) + 1
    BY <1>2, FiniteCounts, OneMore
  <1>4. ObjectCounts'
    <2>1. /\ nJobs = 2 + (IF listener THEN 1 ELSE 0) + 2 * Cardinality(Live) + Cardinality(Open)
                     + Cardinality(InFlight)
          /\ nSockets = 1 + (IF listener THEN 1 ELSE 0) + Cardinality(Live)
          /\ connCount = Cardinality(Live)
      BY DEF ObjectCounts, IInv, LifetimeInv
    <2>2. /\ Cardinality(Live') = Cardinality(Live)
          /\ Cardinality(Open') = Cardinality(Open)
          /\ Cardinality(InFlight') = Cardinality(InFlight) + 1
      BY <1>2, <1>3
    <2>3. nJobs' = 2 + (IF listener THEN 1 ELSE 0) + 2 * Cardinality(Live') + Cardinality(Open')
                   + Cardinality(InFlight')
      BY <2>1, <2>2, FiniteCounts
    <2> QED
      BY <2>1, <2>2, <2>3 DEF ObjectCounts
  <1>5. ParentOutlives'
    BY <1>2 DEF ParentOutlives, IInv, LifetimeInv
  <1>6. StatePhase'
    BY DEF StatePhase, IInv, LifetimeInv, LifetimeTypes
  <1>7. \A i \in DOMAIN backlog : backlog[i] \in Conn /\ backlog[i] # c
    BY DEF Unaccepted, IInv, LifetimeInv, LifetimeTypes
  <1>8. Unaccepted'
    <2>1. peer[c] # "away"
      BY DEF Unaccepted, IInv, LifetimeInv
    <2> QED
      BY <1>7, <2>1 DEF Unaccepted, IInv, LifetimeInv, LifetimeTypes
  <1>9. LifetimeTypes'
    BY DEF IInv, LifetimeTypes, ConnState
  <1> QED
    BY <1>4, <1>5, <1>6, <1>8, <1>9 DEF IInv, LifetimeInv

(* The request in flight of a connection is done. *)
LEMMA Finishing ==
    ASSUME IInv, NEW c \in Conn, state[c] = "IOWORKING",
           request' = [request EXCEPT ![c] = "none"],
           state' = [state EXCEPT ![c] = "IONOWORK"],
           nJobs' = nJobs - 1,
           UNCHANGED <<exit, iShutdown, nSockets, connCount, peer, backlog, listener,
                       shuttingDown, shutItDown>>
    PROVE  IInv'
  <1>1. request[c] # "none"
    BY DEF IInv, LifetimeInv, StatePhase
  <1>2. /\ Live' = Live /\ Open' = Open
        /\ c \in InFlight /\ InFlight' = InFlight \ {c}
    BY <1>1 DEF Live, Open, InFlight, ConnState, IInv, LifetimeTypes
  <1>3. Cardinality(InFlight') = Cardinality(InFlight) - 1
    BY <1>2, FiniteCounts, OneLess
  <1>4. ObjectCounts'
    <2>1. /\ nJobs = 2 + (IF listener THEN 1 ELSE 0) + 2 * Cardinality(Live) + Cardinality(Open)
                     + Cardinality(InFlight)
          /\ nSockets = 1 + (IF listener THEN 1 ELSE 0) + Cardinality(Live)
          /\ connCount = Cardinality(Live)
      BY DEF ObjectCounts, IInv, LifetimeInv
    <2>2. /\ Cardinality(Live') = Cardinality(Live)
          /\ Cardinality(Open') = Cardinality(Open)
          /\ Cardinality(InFlight') = Cardinality(InFlight) - 1
      BY <1>2, <1>3
    <2>3. nJobs' = 2 + (IF listener THEN 1 ELSE 0) + 2 * Cardinality(Live') + Cardinality(Open')
                   + Cardinality(InFlight')
      BY <2>1, <2>2, FiniteCounts
    <2> QED
      BY <2>1, <2>2, <2>3 DEF ObjectCounts
  <1>5. ParentOutlives'
    BY <1>2 DEF ParentOutlives, IInv, LifetimeInv
  <1>6. StatePhase'
    BY DEF StatePhase, IInv, LifetimeInv, LifetimeTypes
  <1>7. \A i \in DOMAIN backlog : backlog[i] \in Conn /\ backlog[i] # c
    BY DEF Unaccepted, IInv, LifetimeInv, LifetimeTypes
  <1>8. Unaccepted'
    <2>1. peer[c] # "away"
      BY DEF Unaccepted, IInv, LifetimeInv
    <2> QED
      BY <1>7, <2>1 DEF Unaccepted, IInv, LifetimeInv, LifetimeTypes
  <1>9. LifetimeTypes'
    BY DEF IInv, LifetimeTypes, ConnState
  <1> QED
    BY <1>4, <1>5, <1>6, <1>8, <1>9 DEF IInv, LifetimeInv

(* The process ends inside a handler. *)
LEMMA Ending ==
    ASSUME IInv, NEW why, Dies(why), why # "normal", iShutdown' = iShutdown
    PROVE  IInv'
  <1>1. /\ exit' # "normal"
        /\ UNCHANGED <<nJobs, nSockets, connCount, state, request, peer, backlog, listener,
                       shuttingDown, shutItDown>>
    BY DEF Dies, kernel, counters, conns, shutdown
  <1> QED
    BY <1>1 DEF IInv, LifetimeTypes, LifetimeInv, ObjectCounts, ParentOutlives,
                StatePhase, Unaccepted, Live, Open, InFlight

-----------------------------------------------------------------------------
(* The actions, one lemma each where objects come or go *)

(* A connection is accepted: one object that there was not. *)
LEMMA Accepting == IInv /\ ListenerEvent => IInv'
  <1> SUFFICES ASSUME IInv, ListenerEvent PROVE IInv'
    OBVIOUS
  <1>0. iShutdown' = iShutdown
    BY DEF ListenerEvent, Dispatches, scheduler
  <1>1. CASE ~listener
    <2>1. Dies("uaf event")
      BY <1>1 DEF ListenerEvent
    <2> QED
      BY <1>0, <2>1, Ending
  <1>2. CASE listener
    <2> DEFINE c == Head(backlog)
    <2>1. /\ backlog # <<>>
          /\ state' = [state EXCEPT ![c] = "START"]
          /\ backlog' = Tail(backlog)
          /\ connCount' = connCount + 1 /\ nJobs' = nJobs + 3 /\ nSockets' = nSockets + 1
          /\ UNCHANGED <<peer, exit, request, listener, shuttingDown, shutItDown>>
      BY <1>2 DEF ListenerEvent
    <2>2. /\ backlog \in Seq(Conn) /\ c = backlog[1] /\ c \in Conn /\ 1 \in DOMAIN backlog
          /\ backlog' \in Seq(Conn)
          /\ \A i \in DOMAIN backlog' : i + 1 \in DOMAIN backlog /\ backlog'[i] = backlog[i + 1]
          /\ \A i \in DOMAIN backlog' : i \in Nat
      BY <2>1 DEF IInv, LifetimeTypes
    <2> HIDE DEF c
    <2>3. state[c] = "unborn" /\ peer[c] # "away" /\ request[c] = "none"
      <3>1. state[c] = "unborn"
        BY <2>2 DEF Unaccepted, IInv, LifetimeInv
      <3>2. c \in Range(backlog)
        BY <2>2 DEF Range
      <3> QED
        BY <2>2, <3>1, <3>2 DEF Unaccepted, StatePhase, IInv, LifetimeInv
    <2>4. /\ c \notin Live /\ Live' = Live \cup {c}
          /\ c \notin Open /\ Open' = Open \cup {c}
          /\ InFlight' = InFlight
      BY <2>1, <2>2, <2>3 DEF Live, Open, InFlight, ConnState, IInv, LifetimeTypes
    <2>5. /\ Cardinality(Live') = Cardinality(Live) + 1
          /\ Cardinality(Open') = Cardinality(Open) + 1
          /\ Cardinality(InFlight') = Cardinality(InFlight)
      BY <2>4, FiniteCounts, OneMore
    <2>6. ObjectCounts'
      <3>1. /\ nJobs = 2 + 1 + 2 * Cardinality(Live) + Cardinality(Open) + Cardinality(InFlight)
            /\ nSockets = 1 + 1 + Cardinality(Live)
            /\ connCount = Cardinality(Live)
        BY <1>2 DEF ObjectCounts, IInv, LifetimeInv
      <3>2. nJobs' = 2 + 1 + 2 * Cardinality(Live') + Cardinality(Open') + Cardinality(InFlight')
        <4>1. nJobs' = nJobs + 3
          BY <2>1
        <4> QED
          BY <4>1, <2>5, <3>1, FiniteCounts
      <3>3. nSockets' = 1 + 1 + Cardinality(Live') /\ connCount' = Cardinality(Live')
        <4>1. nSockets' = nSockets + 1 /\ connCount' = connCount + 1
          BY <2>1
        <4> QED
          BY <4>1, <2>5, <3>1, FiniteCounts
      <3> QED
        BY <1>2, <2>1, <3>2, <3>3 DEF ObjectCounts
    <2>7. ParentOutlives'
      BY <1>2, <2>1 DEF ParentOutlives, IInv, LifetimeInv
    <2>8. StatePhase'
      BY <2>1, <2>2, <2>3 DEF StatePhase, IInv, LifetimeInv, LifetimeTypes
    <2>9. Unaccepted'
      <3>1. \A d \in Conn : peer'[d] = "away" => state'[d] = "unborn" /\ d \notin Range(backlog')
        <4>1. Range(backlog') \subseteq Range(backlog)
          BY <2>2 DEF Range
        <4>2. \A d \in Conn : peer[d] = "away" => state[d] = "unborn" /\ d \notin Range(backlog)
          BY DEF Unaccepted, IInv, LifetimeInv
        <4> QED
          BY <4>1, <4>2, <2>1, <2>3 DEF IInv, LifetimeTypes
      <3>2. \A i, k \in DOMAIN backlog' : backlog'[i] = backlog'[k] => i = k
        BY <2>2 DEF Unaccepted, IInv, LifetimeInv
      <3>3. ASSUME NEW i \in DOMAIN backlog'
            PROVE  state'[backlog'[i]] = "unborn"
        <4>1. i + 1 \in DOMAIN backlog /\ backlog'[i] = backlog[i + 1] /\ i + 1 # 1
          BY <2>2
        <4>2. backlog[i + 1] # c /\ backlog[i + 1] \in Conn /\ state[backlog[i + 1]] = "unborn"
          BY <4>1, <2>2 DEF Unaccepted, IInv, LifetimeInv
        <4> QED
          BY <4>1, <4>2, <2>1, <2>2 DEF IInv, LifetimeTypes
      <3> QED
        BY <3>1, <3>2, <3>3 DEF Unaccepted
    <2>10. LifetimeTypes'
      <3>1. nJobs' \in Int /\ nSockets' \in Int /\ connCount' \in Int
        BY <2>1 DEF IInv, LifetimeTypes
      <3>2. state' \in [Conn -> ConnState \cup {"unborn", "freed"}]
        BY <2>1 DEF IInv, LifetimeTypes, ConnState
      <3> QED
        BY <1>0, <2>1, <2>2, <3>1, <3>2 DEF IInv, LifetimeTypes
    <2> QED
      BY <1>0, <2>1, <2>6, <2>7, <2>8, <2>9, <2>10 DEF IInv, LifetimeInv
  <1> QED
    BY <1>1, <1>2 DEF IInv, LifetimeTypes

(* The signal tells the listener, which dies if it has no connections. *)
LEMMA Signalling == IInv /\ SignalsEvent => IInv'
  <1> SUFFICES ASSUME IInv, SignalsEvent PROVE IInv'
    OBVIOUS
  <1>0. iShutdown' = iShutdown
    BY DEF SignalsEvent, Dispatches, scheduler
  <1>1. PICK more \in 0 .. sigLeft :
           IF ~listener \/ (connCount <= 0 /\ more > 0) THEN Dies("uaf signal")
           ELSE LET dies == connCount <= 0
                    one  == IF dies THEN 1 ELSE 0
                IN  /\ shuttingDown' = TRUE
                    /\ exit' = IF foober THEN "double" ELSE exit
                    /\ ListenerDeath(dies)
                    /\ peer' = [c \in Conn |-> IF dies /\ c \in Range(backlog) THEN "gone" ELSE peer[c]]
                    /\ backlog' = IF dies THEN <<>> ELSE backlog
                    /\ nJobs' = nJobs - one
                    /\ nSockets' = nSockets - one
                    /\ UNCHANGED <<state, request, connCount>>
    BY DEF SignalsEvent, NobodyConnected, conns
  <1>2. CASE ~listener \/ (connCount <= 0 /\ more > 0)
    <2>1. Dies("uaf signal")
      BY <1>1, <1>2
    <2> QED
      BY <1>0, <2>1, Ending
  <1>3. CASE ~(~listener \/ (connCount <= 0 /\ more > 0))
    <2> DEFINE dies == connCount <= 0
    <2>1. /\ listener
          /\ shuttingDown' = TRUE
          /\ exit' = IF foober THEN "double" ELSE exit
          /\ listener' = ~dies
          /\ shutItDown' = (shutItDown \/ dies)
          /\ peer' = [c \in Conn |-> IF dies /\ c \in Range(backlog) THEN "gone" ELSE peer[c]]
          /\ backlog' = IF dies THEN <<>> ELSE backlog
          /\ nJobs' = nJobs - (IF dies THEN 1 ELSE 0)
          /\ nSockets' = nSockets - (IF dies THEN 1 ELSE 0)
          /\ state' = state /\ request' = request /\ connCount' = connCount
      BY <1>1, <1>3 DEF ListenerDeath, IInv, LifetimeTypes
    <2>2. ~shutItDown /\ shutItDown' = dies /\ dies \in BOOLEAN
      BY <2>1 DEF ParentOutlives, IInv, LifetimeInv, LifetimeTypes
    <2>3. Live' = Live /\ Open' = Open /\ InFlight' = InFlight
      BY <2>1 DEF Live, Open, InFlight
    <2>4. /\ nJobs = 3 + 2 * Cardinality(Live) + Cardinality(Open) + Cardinality(InFlight)
          /\ nSockets = 2 + Cardinality(Live)
          /\ connCount = Cardinality(Live)
      BY <2>1 DEF ObjectCounts, IInv, LifetimeInv
    <2>5. dies => Live = {}
      BY <2>4, FiniteCounts, FS_EmptySet
    <2> HIDE DEF dies
    <2>6. ObjectCounts'
      <3>1. CASE dies
        <4>1. nJobs' = 2 + 0 + 2 * Cardinality(Live) + Cardinality(Open) + Cardinality(InFlight)
          <5>1. nJobs' = nJobs - 1
            BY <3>1, <2>1
          <5> QED
            BY <5>1, <2>4, FiniteCounts
        <4>2. nSockets' = 1 + 0 + Cardinality(Live)
          BY <3>1, <2>1, <2>4, FiniteCounts
        <4> QED
          BY <3>1, <4>1, <4>2, <2>1, <2>3, <2>4 DEF ObjectCounts
      <3>2. CASE ~dies
        <4>1. nJobs' = nJobs /\ nSockets' = nSockets
          BY <3>2, <2>1 DEF IInv, LifetimeTypes
        <4> QED
          BY <3>2, <4>1, <2>1, <2>3 DEF ObjectCounts, IInv, LifetimeInv
      <3> QED
        BY <3>1, <3>2
    <2>7. ParentOutlives'
      <3>1. exit' # "normal"
        BY <2>1 DEF ParentOutlives, IInv, LifetimeInv
      <3> QED
        BY <3>1, <2>1, <2>2, <2>3, <2>5 DEF ParentOutlives
    <2>8. StatePhase'
      BY <2>1 DEF StatePhase, IInv, LifetimeInv
    <2>9. Unaccepted'
      BY <2>1, <2>2 DEF Unaccepted, Range, IInv, LifetimeInv, LifetimeTypes
    <2>10. LifetimeTypes'
      <3>1. nJobs' \in Int /\ nSockets' \in Int
        BY <2>1, <2>2 DEF IInv, LifetimeTypes
      <3>2. peer' \in [Conn -> PeerState] /\ backlog' \in Seq(Conn)
        BY <2>1 DEF IInv, LifetimeTypes, PeerState
      <3> QED
        BY <1>0, <2>1, <2>2, <3>1, <3>2 DEF IInv, LifetimeTypes
    <2>11. iShutdown > 0 => shutItDown
      BY DEF IInv, LifetimeInv
    <2> QED
      BY <1>0, <2>2, <2>6, <2>7, <2>8, <2>9, <2>10, <2>11 DEF IInv, LifetimeInv
  <1> QED
    BY <1>2, <1>3

(* Where events take the states that occur. *)
LEMMA Targets ==
    ASSUME NEW st \in ConnState \cup {"unborn", "freed"}, st \notin {"READONLY", "DEATH"}
    PROVE  /\ Target(st, "EREADCLOSED") \in {"error", "DEATH", "WRITEONLY"}
           /\ Target(st, "EREADCLOSED") = "DEATH" => st = "IONOWORK"
           /\ Target(st, "EREADCLOSED") = "WRITEONLY" => st = "IOWORKING"
           /\ Target(st, "EWORKTODO") # "error" =>
                Target(st, "EWORKTODO") = "IOWORKING" /\ st \in {"START", "IONOWORK"}
           /\ Target(st, "ENOWORK") # "error" =>
                Target(st, "ENOWORK") = "IONOWORK" /\ st = "IOWORKING"
           /\ \A e \in {"EERR", "EHUP"} : Target(st, e) # "error" =>
                Target(st, e) = "CLOSED" /\ st \in {"START", "IONOWORK"}
  BY DEF Target, ConnState

(* HttpReader::vRun. *)
LEMMA Reading == IInv /\ (\E c \in Conn : ReaderRun(c)) => IInv'
  <1> SUFFICES ASSUME IInv, NEW c \in Conn, ReaderRun(c) PROVE IInv'
    OBVIOUS
  <1>0. iShutdown' = iShutdown
    BY DEF ReaderRun, Runs
  <1>1. /\ state[c] \in ConnState \cup {"unborn", "freed"}
        /\ state[c] \notin {"READONLY", "DEATH"}
    BY DEF IInv, LifetimeTypes, LifetimeInv, StatePhase
  <1>2. CASE ReadError(c)
    BY <1>0, <1>2, Ending DEF ReadError
  <1>3. CASE ReadNothing(c)
    BY <1>0, <1>3, LifetimesStutter DEF ReadNothing, lifetimes, kernel, counters, conns, shutdown
  <1>4. CASE ReadEof(c)
    <2> DEFINE target == Target(state[c], "EREADCLOSED")
    <2>1. target \in {"error", "DEATH", "WRITEONLY"}
      BY <1>1, Targets
    <2>2. CASE target = "error"
      <3>1. Dies("EREADCLOSED")
        BY <1>4, <2>2 DEF ReadEof
      <3> QED
        BY <1>0, <3>1, Ending
    <2>3. CASE target = "DEATH"
      <3>1. ConnDeath(c)
        BY <1>4, <2>3 DEF ReadEof
      <3>2. state[c] = "IONOWORK"
        BY <1>1, <2>3, Targets
      <3> QED
        BY <1>0, <3>1, <3>2, Dying
    <2>4. CASE target = "WRITEONLY"
      <3>1. state[c] = "IOWORKING"
        BY <1>1, <2>4, Targets
      <3>2. /\ state' = [state EXCEPT ![c] = "WRITEONLY"]
            /\ UNCHANGED <<exit, nJobs, nSockets, connCount, request, peer, backlog, listener,
                           shuttingDown, shutItDown>>
        BY <1>4, <2>4 DEF ReadEof, kernel, counters, shutdown
      <3>3. Live' = Live /\ Open' = Open /\ InFlight' = InFlight
        BY <3>1, <3>2 DEF Live, Open, InFlight, ConnState, IInv, LifetimeTypes
      <3>4. ObjectCounts' /\ ParentOutlives'
        BY <3>2, <3>3 DEF ObjectCounts, ParentOutlives, IInv, LifetimeInv
      <3>5. StatePhase'
        BY <3>1, <3>2 DEF StatePhase, IInv, LifetimeInv, LifetimeTypes
      <3>6. Unaccepted'
        <4>1. \A i \in DOMAIN backlog : backlog[i] \in Conn /\ backlog[i] # c
          BY <3>1 DEF Unaccepted, IInv, LifetimeInv, LifetimeTypes
        <4>2. peer[c] # "away"
          BY <3>1 DEF Unaccepted, IInv, LifetimeInv
        <4> QED
          BY <3>2, <4>1, <4>2 DEF Unaccepted, IInv, LifetimeInv, LifetimeTypes
      <3>7. LifetimeTypes'
        BY <1>0, <3>2 DEF IInv, LifetimeTypes, ConnState
      <3> QED
        BY <1>0, <3>2, <3>4, <3>5, <3>6, <3>7 DEF IInv, LifetimeInv
    <2> QED
      BY <2>1, <2>2, <2>3, <2>4
  <1>5. CASE ReadText(c)
    <2> DEFINE text   == Text(c, Consumed(c))
               parsed == HasEnd(text)
               target == Target(state[c], "EWORKTODO")
    <2>1. CASE parsed /\ target = "error"
      <3>1. Dies("EWORKTODO")
        BY <1>5, <2>1 DEF ReadText
      <3> QED
        BY <1>0, <3>1, Ending
    <2>2. CASE parsed /\ target # "error"
      <3>1. /\ NewHttpRequest(c, text)
            /\ UNCHANGED <<exit, nSockets, connCount, peer, backlog, listener, shuttingDown, shutItDown>>
        BY <1>5, <2>2 DEF ReadText, shutdown
      <3>2. target = "IOWORKING" /\ state[c] \in {"START", "IONOWORK"}
        BY <1>1, <2>2, Targets
      <3>3. PICK r \in {"plain", "cookie"} : request' = [request EXCEPT ![c] = r]
        BY <3>1 DEF NewHttpRequest, Kind
      <3>4. state' = [state EXCEPT ![c] = "IOWORKING"] /\ nJobs' = nJobs + 1
        BY <3>1, <3>2 DEF NewHttpRequest, IInv, LifetimeTypes
      <3> QED
        BY <1>0, <3>1, <3>2, <3>3, <3>4, Starting
    <2>3. CASE ~parsed
      <3>1. UNCHANGED lifetimes
        BY <1>0, <1>5, <2>3 DEF ReadText, lifetimes, shutdown
      <3> QED
        BY <3>1, LifetimesStutter
    <2> QED
      BY <2>1, <2>2, <2>3
  <1> QED
    BY <1>2, <1>3, <1>4, <1>5 DEF ReaderRun

(* HttpRequest::myRun. *)
LEMMA Answering == IInv /\ (\E c \in Conn : RequestRun(c)) => IInv'
  <1> SUFFICES ASSUME IInv, NEW c \in Conn, RequestRun(c) PROVE IInv'
    OBVIOUS
  <1>0. iShutdown' = iShutdown
    BY DEF RequestRun, Runs
  <1>1. /\ state[c] \in ConnState \cup {"unborn", "freed"}
        /\ state[c] \notin {"READONLY", "DEATH"}
    BY DEF IInv, LifetimeTypes, LifetimeInv, StatePhase
  <1> DEFINE target == Target(state[c], "ENOWORK")
  <1>2. CASE request[c] = "cookie" \/ target = "error"
    <2>1. Dies("cookie") \/ Dies("ENOWORK")
      BY <1>2 DEF RequestRun
    <2> QED
      BY <1>0, <2>1, Ending
  <1>3. CASE ~(request[c] = "cookie" \/ target = "error")
    <2>1. /\ request' = [request EXCEPT ![c] = "none"]
          /\ state' = [state EXCEPT ![c] = target]
          /\ nJobs' = nJobs - 1
          /\ UNCHANGED <<exit, nSockets, connCount, peer, backlog, listener, shuttingDown, shutItDown>>
      BY <1>3 DEF RequestRun, kernel, shutdown, IInv, LifetimeTypes
    <2>2. target = "IONOWORK" /\ state[c] = "IOWORKING"
      BY <1>1, <1>3, Targets
    <2> QED
      BY <1>0, <2>1, <2>2, Finishing
  <1> QED
    BY <1>2, <1>3

(* HttpWriter::vRun. *)
LEMMA Writing == IInv /\ (\E c \in Conn : WriterRun(c)) => IInv'
  <1> SUFFICES ASSUME IInv, NEW c \in Conn, WriterRun(c) PROVE IInv'
    OBVIOUS
  <1>0. iShutdown' = iShutdown
    BY DEF WriterRun, Runs
  <1>1. CASE peer[c] = "rst" \/ full[c]
    <2>1. Dies("write")
      BY <1>1 DEF WriterRun
    <2> QED
      BY <1>0, <2>1, Ending
  <1>2. CASE ~(peer[c] = "rst" \/ full[c])
    <2>1. UNCHANGED lifetimes
      BY <1>0, <1>2 DEF WriterRun, lifetimes, counters, shutdown
    <2> QED
      BY <2>1, LifetimesStutter
  <1> QED
    BY <1>1, <1>2

(* HttpConn::Event. *)
LEMMA Dispatching == IInv /\ (\E c \in Conn : ConnEvents(c)) => IInv'
  <1> SUFFICES ASSUME IInv, NEW c \in Conn, ConnEvents(c) PROVE IInv'
    OBVIOUS
  <1>0. iShutdown' = iShutdown
    BY DEF ConnEvents, Dispatches, scheduler
  <1>1. /\ state[c] \in ConnState \cup {"unborn", "freed"}
        /\ state[c] \notin {"READONLY", "DEATH"}
    BY DEF IInv, LifetimeTypes, LifetimeInv, StatePhase
  <1>2. ASSUME NEW e \in {"EERR", "EHUP"}, ConnFails(c, e)
        PROVE  IInv'
    <2>1. CASE Target(state[c], e) = "error"
      <3>1. Dies(e) /\ e # "normal"
        BY <1>2, <2>1 DEF ConnFails
      <3> QED
        BY <1>0, <3>1, Ending
    <2>2. CASE Target(state[c], e) # "error"
      <3>1. Target(state[c], e) = "CLOSED" /\ state[c] \in {"START", "IONOWORK"}
        BY <1>1, <2>2, Targets
      <3>2. ConnClose(c, "CLOSED")
        BY <1>2, <2>2, <3>1 DEF ConnFails
      <3> QED
        BY <1>0, <3>1, <3>2, ClosingConn
    <2> QED
      BY <2>1, <2>2
  <1>3. ASSUME ConnReady(c)
        PROVE  IInv'
    BY <1>0, <1>3, LifetimesStutter DEF ConnReady, lifetimes, kernel, counters, conns, shutdown
  <1>4. ConnFails(c, "EERR") \/ ConnFails(c, "EHUP") \/ ConnReady(c)
    BY DEF ConnEvents
  <1> QED
    BY <1>2, <1>3, <1>4

(* The scheduler only stops once the listener is gone. *)
LEMMA Scheduling == IInv /\ (Top \/ NextList \/ Poll \/ PollDone) => IInv'
  <1> SUFFICES ASSUME IInv, Top \/ NextList \/ Poll \/ PollDone PROVE IInv'
    OBVIOUS
  <1>1. CASE Top
    <2>1. UNCHANGED <<iShutdown, nJobs, nSockets, connCount, state, request, peer, backlog,
                      listener, shuttingDown, shutItDown>>
      BY <1>1 DEF Top, kernel, counters, conns, shutdown
    <2>2. exit' = "normal" => ~listener
      <3>1. exit' = "normal" => exit = "normal" \/ ~KeepsRunning
        BY <1>1 DEF Top
      <3>2. nJobs > 0
        <4>1. nJobs = 2 + (IF listener THEN 1 ELSE 0)
                      + 2 * Cardinality(Live) + Cardinality(Open) + Cardinality(InFlight)
          BY DEF ObjectCounts, IInv, LifetimeInv
        <4> QED
          BY <4>1, FiniteCounts
      <3>3. ~KeepsRunning => iShutdown > 0
        BY <3>2, AnticentAssumption DEF KeepsRunning, IInv, LifetimeTypes
      <3> QED
        BY <3>1, <3>3 DEF ParentOutlives, IInv, LifetimeInv
    <2> QED
      BY <2>1, <2>2 DEF IInv, LifetimeTypes, LifetimeInv, ObjectCounts, ParentOutlives,
                        StatePhase, Unaccepted, Live, Open, InFlight
  <1>2. CASE NextList
    BY <1>2, LifetimesStutter DEF NextList, lifetimes, kernel, counters, conns, shutdown
  <1>3. CASE Poll
    BY <1>3, LifetimesStutter DEF Poll, lifetimes, counters, conns, shutdown
  <1>4. CASE PollDone
    <2>1. UNCHANGED <<exit, nJobs, nSockets, connCount, state, request, peer, backlog,
                      listener, shuttingDown, shutItDown>>
      BY <1>4 DEF PollDone, kernel, counters, conns, shutdown
    <2>2. iShutdown' \in Nat /\ (iShutdown' > 0 => shutItDown)
      BY <1>4 DEF PollDone, CountDown, IInv, LifetimeTypes, LifetimeInv
    <2> QED
      BY <2>1, <2>2 DEF IInv, LifetimeTypes, LifetimeInv, ObjectCounts, ParentOutlives,
                        StatePhase, Unaccepted, Live, Open, InFlight
  <1> QED
    BY <1>1, <1>2, <1>3, <1>4

(* The clients only fill the backlog with connections that were away. *)
LEMMA Connecting == IInv /\ Clients => IInv'
  <1> SUFFICES ASSUME IInv, Clients PROVE IInv'
    OBVIOUS
  <1>0. UNCHANGED objects
    BY DEF Clients, objects, server, scheduler, counters, conns, shutdown
  <1>1. CASE \E c \in Conn : Connect(c)
    <2>1. PICK c \in Conn : Connect(c)
      BY <1>1
    <2>2. /\ peer[c] = "away" /\ peer' = [peer EXCEPT ![c] = "open"]
          /\ backlog' = Append(backlog, c)
      BY <2>1 DEF Connect
    <2>3. peer' \in [Conn -> PeerState] /\ backlog' \in Seq(Conn)
      BY <2>2 DEF PeerState, IInv, LifetimeTypes
    <2>4. state[c] = "unborn" /\ \A i \in DOMAIN backlog : backlog[i] # c
      BY <2>2 DEF Unaccepted, Range, IInv, LifetimeInv
    <2>5. /\ Len(backlog) \in Nat /\ DOMAIN backlog = 1 .. Len(backlog)
          /\ DOMAIN backlog' = 1 .. (Len(backlog) + 1)
          /\ backlog'[Len(backlog) + 1] = c
          /\ \A i \in DOMAIN backlog : backlog'[i] = backlog[i]
      BY <2>2 DEF IInv, LifetimeTypes
    <2>6. \A i \in DOMAIN backlog' : i \in DOMAIN backlog \/ i = Len(backlog) + 1
      BY <2>5
    <2>7. Unaccepted'
      <3>1. \A i, k \in DOMAIN backlog' : backlog'[i] = backlog'[k] => i = k
        BY <2>4, <2>5, <2>6 DEF Unaccepted, IInv, LifetimeInv
      <3>2. \A i \in DOMAIN backlog' : state[backlog'[i]] = "unborn"
        BY <2>4, <2>5, <2>6 DEF Unaccepted, IInv, LifetimeInv
      <3>3. ASSUME NEW d \in Conn, peer'[d] = "away"
            PROVE  state[d] = "unborn" /\ d \notin Range(backlog')
        <4>1. d # c /\ peer[d] = "away"
          BY <2>2, <3>3 DEF IInv, LifetimeTypes
        <4>2. state[d] = "unborn" /\ d \notin Range(backlog)
          BY <4>1 DEF Unaccepted, IInv, LifetimeInv
        <4> QED
          BY <4>1, <4>2, <2>5, <2>6 DEF Range
      <3> QED
        BY <1>0, <3>1, <3>2, <3>3 DEF Unaccepted, objects
    <2> QED
      BY <1>0, <2>3, <2>7, ObjectsStutter
  <1>2. CASE (\E c \in Conn : Client(c)) \/ Sigint
    <2>1. /\ peer' \in [Conn -> PeerState] /\ backlog' = backlog
          /\ \A d \in Conn : peer'[d] = "away" => peer[d] = "away"
      BY <1>2 DEF Client, Send, Fin, Reset, Drain, Sigint, PeerState, IInv, LifetimeTypes
    <2>2. Unaccepted'
      BY <1>0, <2>1 DEF Unaccepted, objects, IInv, LifetimeInv
    <2> QED
      BY <1>0, <2>1, <2>2, ObjectsStutter DEF IInv, LifetimeTypes
  <1> QED
    BY <1>1, <1>2 DEF Clients

(* Every step keeps the lifetimes and the counters in agreement. *)
LEMMA NextLifetimes == IInv /\ [Next]_vars => IInv'
  <1> SUFFICES ASSUME IInv, [Next]_vars PROVE IInv'
    OBVIOUS
  <1>1. CASE UNCHANGED vars
    BY <1>1, LifetimesStutter DEF vars, lifetimes, kernel, server, scheduler, counters, conns, shutdown
  <1>2. CASE Clients
    BY <1>2, Connecting
  <1>3. CASE Server
    BY <1>3, Scheduling, Accepting, Signalling, Reading, Answering, Writing, Dispatching DEF Server
  <1>4. CASE Exited
    BY <1>4, <1>1 DEF Exited
  <1> QED
    BY <1>1, <1>2, <1>3, <1>4 DEF Next

-----------------------------------------------------------------------------
(* Theorems *)

(* The invariant that carries the others: what it adds to them rules out an  *)
(* object that is created twice, or a death with a request in flight.        *)
THEOREM LifetimesKept == Spec => []LifetimeInv
  <1>1. Spec => []IInv
    BY InitLifetimes, NextLifetimes, PTL DEF Spec
  <1>2. IInv => LifetimeInv
    BY DEF IInv
  <1> QED
    BY <1>1, <1>2, PTL

(* nJobs, nSockets and connCount, incremented and decremented all over       *)
(* http.cc, job.cc and eventable.cc, always count the objects that exist.    *)
THEOREM CountersExact == Spec => []ObjectCounts
  <1>1. LifetimeInv => ObjectCounts
    BY DEF LifetimeInv
  <1> QED
    BY <1>1, LifetimesKept, PTL

(* No connection outlives the listener, its parent; the countdown starts     *)
(* with the listener's death, and only then can the process end normally.    *)
THEOREM ParentsOutlive == Spec => []ParentOutlives
  <1>1. LifetimeInv => ParentOutlives
    BY DEF LifetimeInv
  <1> QED
    BY <1>1, LifetimesKept, PTL

-----------------------------------------------------------------------------
(* The run queues *)

(* The names of jobs. *)
LEMMA JobNames ==
    \A c, d \in Conn :
        /\ Reader(c) \in Job /\ Writer(c) \in Job /\ Request(c) \in Job
        /\ Reader(c) # Writer(d) /\ Reader(c) # Request(d) /\ Writer(c) # Request(d)
        /\ Reader(c) = Reader(d) => c = d
        /\ Writer(c) = Writer(d) => c = d
        /\ Request(c) = Request(d) => c = d
        /\ Reader(c) # NoJob /\ Writer(c) # NoJob /\ Request(c) # NoJob
        /\ prevPriority(Reader(c)) = LOW /\ prevPriority(Writer(c)) = HIGH
  BY DEF Reader, Writer, Request, Job, NoJob, prevPriority

(* Every job is the reader, the writer or the request of a connection. *)
LEMMA JobKinds ==
    \A j \in Job : \E c \in Conn : j = Reader(c) \/ j = Writer(c) \/ j = Request(c)
  BY DEF Reader, Writer, Request, Job

(* The lists. *)
LEMMA Levels ==
    /\ Priority = {ROOT, HIGHEST, HIGH, LOW, BLOCKED}
    /\ RunLevels = {ROOT, HIGHEST, HIGH, LOW}
    /\ BLOCKED \notin RunLevels
    /\ ROOT # HIGHEST /\ ROOT # HIGH /\ ROOT # LOW /\ HIGHEST # HIGH /\ HIGHEST # LOW /\ HIGH # LOW
  BY DEF Priority, RunLevels, ROOT, HIGHEST, HIGH, LOW, BLOCKED

(* Places says where a job is scheduled. *)
LEMMA Whereabouts ==
    ASSUME Places, NEW c \in Conn
    PROVE  /\ lists \in Queues(Job)
           /\ Scheduled(lists, Reader(c)) <=> c \in Open
           /\ Scheduled(lists, Writer(c)) <=> c \in Live
           /\ Scheduled(lists, Request(c)) <=> request[c] # "none"
  <1>1. lists \in Queues(Job)
    BY DEF Places, Queues
  <1>2. \A j : Scheduled(lists, j) <=>
               j \in On(HIGH) \cup On(LOW) \cup On(BLOCKED)
    BY Levels DEF Places, Scheduled, On
  <1> QED
    BY <1>1, <1>2 DEF Places

(* A step that moves no job and changes no object. *)
LEMMA PlacesStutter ==
    ASSUME Places, UNCHANGED <<lists, state, request>>
    PROVE  Places'
  BY DEF Places, On, Live, Open

(* A step that touches neither lists, states nor buffers, and adds no event. *)
LEMMA BytesStutter ==
    ASSUME Bytes, UNCHANGED <<lists, state, wbuf>>,
           \A s \in DOMAIN batch' : s \in DOMAIN batch /\ batch'[s] = batch[s]
    PROVE  Bytes'
  BY DEF Bytes, WriterHasBytes

-----------------------------------------------------------------------------
(* What the handlers do to the lists *)

(* A connection dies: its reader and its writer are on no list any more.     *)
LEMMA DyingPlaces ==
    ASSUME IInv, Places, Bytes, NEW c \in Conn, state[c] = "IONOWORK", ConnDeath(c), batch' = batch
    PROVE  /\ Places' /\ Bytes' /\ On(BLOCKED)' \subseteq On(BLOCKED)
           /\ Reader(c) \in On(LOW) => lists'[LOW] = RemoveFirst(lists[LOW], Reader(c))
  <1> DEFINE q == Unschedule(lists, Reader(c))
             r == Unschedule(q, Writer(c))
  <1>1. /\ state' = [state EXCEPT ![c] = "freed"] /\ request' = request
        /\ lists' = r /\ wbuf' = [wbuf EXCEPT ![c] = 0]
    BY DEF ConnDeath
  <1>2. c \in Live /\ c \in Open /\ request[c] = "none"
    BY DEF Live, Open, ConnState, IInv, LifetimeInv, StatePhase
  <1>3. /\ lists \in Queues(Job) /\ Scheduled(lists, Reader(c)) /\ Scheduled(lists, Writer(c))
    BY <1>2, Whereabouts
  <1>4. /\ q \in Queues(Job) /\ Moved(lists, q, ROOT, {}, {Reader(c)})
        /\ \A o \in Priority :
              q[o] = IF Reader(c) \in Range(lists[o]) THEN RemoveFirst(lists[o], Reader(c)) ELSE lists[o]
    BY <1>3, UnscheduleMoves
  <1> HIDE DEF q
  <1>5. Scheduled(q, Writer(c))
    BY <1>3, <1>4, JobNames DEF Moved, Scheduled
  <1>6. /\ r \in Queues(Job) /\ Moved(q, r, ROOT, {}, {Writer(c)})
        /\ \A o \in Priority :
              r[o] = IF Writer(c) \in Range(q[o]) THEN RemoveFirst(q[o], Writer(c)) ELSE q[o]
    BY <1>4, <1>5, UnscheduleMoves
  <1>7. \A o \in Priority : On(o)' = On(o) \ {Reader(c), Writer(c)}
    BY <1>1, <1>4, <1>6 DEF Moved, On
  <1>8. \A d \in Conn : /\ d \in Live' <=> d # c /\ d \in Live
                        /\ d \in Open' <=> d # c /\ d \in Open
    BY <1>1, <1>2 DEF Live, Open, IInv, LifetimeTypes, ConnState
  <1>9. Places'
    <2>1. lists' \in [Priority -> Seq(Job)] /\ Disjoint(lists')
      BY <1>1, <1>6 DEF Queues
    <2>2. (On(ROOT) = {})' /\ (On(HIGHEST) = {})'
      BY <1>7, Levels DEF Places
    <2>3. ASSUME NEW d \in Conn
          PROVE  /\ Reader(d) \in (On(LOW) \cup On(BLOCKED))' <=> d \in Open'
                 /\ Reader(d) \notin On(HIGH)'
                 /\ Writer(d) \in (On(HIGH) \cup On(BLOCKED))' <=> d \in Live'
                 /\ Writer(d) \notin On(LOW)'
                 /\ Request(d) \in On(LOW)' <=> request'[d] # "none"
                 /\ Request(d) \notin (On(HIGH) \cup On(BLOCKED))'
      BY <1>1, <1>2, <1>7, <1>8, JobNames, Levels DEF Places
    <2> QED
      BY <2>1, <2>2, <2>3 DEF Places
  <1>10. Bytes'
    BY <1>1, <1>7, Levels, JobNames DEF Bytes, WriterHasBytes, On, IInv, LifetimeTypes
  <1>11. Reader(c) \in On(LOW) => lists'[LOW] = RemoveFirst(lists[LOW], Reader(c))
    <2>1. Writer(c) \notin Range(q[LOW])
      BY <1>4, Levels, JobNames DEF Moved, On, Places
    <2> QED
      BY <1>1, <1>4, <1>6, <2>1, Levels DEF On
  <1> QED
    BY <1>7, <1>9, <1>10, <1>11, Levels

(* A socket is closed: the reader is on no list any more.  The writer had    *)
(* nothing to write and stays blocked.                                       *)
LEMMA ClosingPlaces ==
    ASSUME IInv, Places, Bytes, NEW c \in Conn, state[c] = "START", ConnClose(c, "CLOSED"),
           \A s \in DOMAIN batch' : s \in DOMAIN batch /\ batch'[s] = batch[s]
    PROVE  Places' /\ Bytes' /\ On(BLOCKED)' \subseteq On(BLOCKED)
  <1>1. /\ state' = [state EXCEPT ![c] = "CLOSED"] /\ request' = request /\ wbuf' = wbuf
        /\ lists' = Unschedule(lists, Reader(c))
    BY DEF ConnClose
  <1>2. c \in Live /\ c \in Open
    BY DEF Live, Open, ConnState
  <1>3. lists \in Queues(Job) /\ Scheduled(lists, Reader(c))
    BY <1>2, Whereabouts
  <1>4. lists' \in Queues(Job) /\ Moved(lists, lists', ROOT, {}, {Reader(c)})
    BY <1>1, <1>3, UnscheduleMoves
  <1>5. \A o \in Priority : On(o)' = On(o) \ {Reader(c)}
    BY <1>4 DEF Moved, On
  <1>6. \A d \in Conn : /\ d \in Live' <=> d \in Live
                        /\ d \in Open' <=> d # c /\ d \in Open
    BY <1>1, <1>2 DEF Live, Open, IInv, LifetimeTypes, ConnState
  <1>7. Places'
    <2>1. lists' \in [Priority -> Seq(Job)] /\ Disjoint(lists')
      BY <1>4 DEF Queues
    <2>2. (On(ROOT) = {})' /\ (On(HIGHEST) = {})'
      BY <1>5, Levels DEF Places
    <2>3. ASSUME NEW d \in Conn
          PROVE  /\ Reader(d) \in (On(LOW) \cup On(BLOCKED))' <=> d \in Open'
                 /\ Reader(d) \notin On(HIGH)'
                 /\ Writer(d) \in (On(HIGH) \cup On(BLOCKED))' <=> d \in Live'
                 /\ Writer(d) \notin On(LOW)'
                 /\ Request(d) \in On(LOW)' <=> request'[d] # "none"
                 /\ Request(d) \notin (On(HIGH) \cup On(BLOCKED))'
      BY <1>1, <1>2, <1>5, <1>6, JobNames, Levels DEF Places
    <2> QED
      BY <2>1, <2>2, <2>3 DEF Places
  <1>8. Bytes'
    BY <1>1, <1>5, Levels, JobNames DEF Bytes, WriterHasBytes, On, IInv, LifetimeTypes
  <1> QED
    BY <1>5, <1>7, <1>8, Levels

(* A connection is accepted: its jobs are blocked. *)
LEMMA AcceptedPlaces ==
    ASSUME IInv, Places, Bytes, NEW c \in Conn, state[c] = "unborn",
           state' = [state EXCEPT ![c] = "START"],
           lists' = Push(Push(lists, BLOCKED, Writer(c)), BLOCKED, Reader(c)),
           UNCHANGED <<request, wbuf>>,
           \A s \in DOMAIN batch' : s \in DOMAIN batch /\ batch'[s] = batch[s]
    PROVE  Places' /\ Bytes' /\ On(BLOCKED)' = On(BLOCKED) \cup {Reader(c), Writer(c)}
  <1> DEFINE q == Push(lists, BLOCKED, Writer(c))
             r == Push(q, BLOCKED, Reader(c))
  <1>1. c \notin Live /\ c \notin Open /\ request[c] = "none"
    BY DEF Live, Open, ConnState, IInv, LifetimeInv, StatePhase
  <1>2. lists \in Queues(Job) /\ ~Scheduled(lists, Reader(c)) /\ ~Scheduled(lists, Writer(c))
    BY <1>1, Whereabouts
  <1>3. q \in Queues(Job) /\ Moved(lists, q, BLOCKED, {Writer(c)}, {})
    BY <1>2, PushMoves, JobNames, Levels
  <1> HIDE DEF q
  <1>4. ~Scheduled(q, Reader(c))
    BY <1>2, <1>3, JobNames DEF Moved, Scheduled
  <1>5. r \in Queues(Job) /\ Moved(q, r, BLOCKED, {Reader(c)}, {})
    BY <1>3, <1>4, PushMoves, JobNames, Levels
  <1>6. \A o \in Priority : On(o)' = On(o) \cup (IF o = BLOCKED THEN {Reader(c), Writer(c)} ELSE {})
    BY <1>3, <1>5 DEF Moved, On, q
  <1>7. \A d \in Conn : /\ d \in Live' <=> d = c \/ d \in Live
                        /\ d \in Open' <=> d = c \/ d \in Open
    BY DEF Live, Open, IInv, LifetimeTypes, ConnState
  <1>8. Places'
    <2>1. lists' \in [Priority -> Seq(Job)] /\ Disjoint(lists')
      BY <1>5 DEF Queues, q
    <2>2. (On(ROOT) = {})' /\ (On(HIGHEST) = {})'
      BY <1>6, Levels DEF Places
    <2>3. ASSUME NEW d \in Conn
          PROVE  /\ Reader(d) \in (On(LOW) \cup On(BLOCKED))' <=> d \in Open'
                 /\ Reader(d) \notin On(HIGH)'
                 /\ Writer(d) \in (On(HIGH) \cup On(BLOCKED))' <=> d \in Live'
                 /\ Writer(d) \notin On(LOW)'
                 /\ Request(d) \in On(LOW)' <=> request'[d] # "none"
                 /\ Request(d) \notin (On(HIGH) \cup On(BLOCKED))'
      BY <1>1, <1>6, <1>7, JobNames, Levels DEF Places
    <2> QED
      BY <2>1, <2>2, <2>3 DEF Places
  <1>9. Bytes'
    BY <1>1, <1>6, Levels, JobNames DEF Bytes, WriterHasBytes, On, IInv, LifetimeTypes
  <1> QED
    BY <1>6, <1>8, <1>9, Levels

(* The reader of an open connection blocks. *)
LEMMA ReaderBlocks ==
    ASSUME Places, Bytes, NEW c \in Conn, c \in Open, lists' = Block(lists, Reader(c)),
           UNCHANGED <<state, request, wbuf, batch>>
    PROVE  /\ Places' /\ Bytes' /\ On(BLOCKED)' \subseteq On(BLOCKED) \cup {Reader(c)}
           /\ Reader(c) \in On(LOW) => lists'[LOW] = RemoveFirst(lists[LOW], Reader(c))
  <1>1. lists \in Queues(Job) /\ Scheduled(lists, Reader(c))
    BY Whereabouts
  <1>2. /\ lists' \in Queues(Job) /\ Moved(lists, lists', BLOCKED, {Reader(c)}, {Reader(c)})
        /\ Reader(c) \in On(LOW) => lists'[LOW] = RemoveFirst(lists[LOW], Reader(c))
    BY <1>1, BlockMoves, Levels DEF On
  <1>3. \A o \in Priority :
          On(o)' = (On(o) \ {Reader(c)}) \cup (IF o = BLOCKED THEN {Reader(c)} ELSE {})
    BY <1>2 DEF Moved, On
  <1>4. Live' = Live /\ Open' = Open
    BY DEF Live, Open
  <1>5. Places'
    <2>1. lists' \in [Priority -> Seq(Job)] /\ Disjoint(lists')
      BY <1>2 DEF Queues
    <2> QED
      BY <1>3, <1>4, <2>1, JobNames, Levels DEF Places
  <1>6. Bytes'
    BY <1>3, Levels, JobNames DEF Bytes, WriterHasBytes, On
  <1> QED
    BY <1>2, <1>3, <1>5, <1>6, Levels

(* The writer of a live connection blocks, having written. *)
LEMMA WriterBlocks ==
    ASSUME Places, Bytes, NEW c \in Conn, c \in Live, lists' = Block(lists, Writer(c)),
           NEW n \in 1 .. wbuf[c], wbuf' = [wbuf EXCEPT ![c] = @ - n],
           UNCHANGED <<state, request, batch>>
    PROVE  /\ Places' /\ Bytes' /\ On(BLOCKED)' \subseteq On(BLOCKED) \cup {Writer(c)}
           /\ Writer(c) \in On(HIGH) => lists'[HIGH] = RemoveFirst(lists[HIGH], Writer(c))
  <1>1. lists \in Queues(Job) /\ Scheduled(lists, Writer(c))
    BY Whereabouts
  <1>2. /\ lists' \in Queues(Job) /\ Moved(lists, lists', BLOCKED, {Writer(c)}, {Writer(c)})
        /\ Writer(c) \in On(HIGH) => lists'[HIGH] = RemoveFirst(lists[HIGH], Writer(c))
    BY <1>1, BlockMoves, Levels DEF On
  <1>3. \A o \in Priority :
          On(o)' = (On(o) \ {Writer(c)}) \cup (IF o = BLOCKED THEN {Writer(c)} ELSE {})
    BY <1>2 DEF Moved, On
  <1>4. Live' = Live /\ Open' = Open
    BY DEF Live, Open
  <1>5. Places'
    <2>1. lists' \in [Priority -> Seq(Job)] /\ Disjoint(lists')
      BY <1>2 DEF Queues
    <2> QED
      BY <1>3, <1>4, <2>1, JobNames, Levels DEF Places
  <1>6. Bytes'
    <2>1. wbuf[c] \in Nat /\ wbuf[c] > 0 /\ wbuf[c] - n \in Nat
      BY DEF Bytes
    <2>2. wbuf' \in [Conn -> Nat]
      BY <2>1 DEF Bytes
    <2>3. \A d \in Conn : Writer(d) \in On(HIGH)' => d # c /\ Writer(d) \in On(HIGH)
      BY <1>3, Levels, JobNames
    <2>4. WriterHasBytes'
      BY <2>3 DEF WriterHasBytes, Bytes, On
    <2> QED
      BY <2>1, <2>2, <2>4 DEF Bytes
  <1> QED
    BY <1>2, <1>3, <1>5, <1>6, Levels

(* A request is started and scheduled at LOW. *)
LEMMA StartedPlaces ==
    ASSUME IInv, Places, Bytes, NEW c \in Conn, state[c] \in {"START", "IONOWORK"},
           NEW r, r # "none", request' = [request EXCEPT ![c] = r],
           state' = [state EXCEPT ![c] = "IOWORKING"],
           NEW B \in BOOLEAN, 
           lists' = IF B THEN Block(Push(lists, LOW, Request(c)), Reader(c))
                    ELSE Push(lists, LOW, Request(c)),
           UNCHANGED <<wbuf, batch>>
    PROVE  /\ Places' /\ Bytes'
           /\ On(BLOCKED)' \subseteq On(BLOCKED) \cup (IF B THEN {Reader(c)} ELSE {})
           /\ Request(c) \in Job /\ Request(c) \notin On(LOW)
           /\ Reader(c) \in On(LOW) =>
                lists'[LOW] \in {Append(lists[LOW], Request(c)),
                                 RemoveFirst(Append(lists[LOW], Request(c)), Reader(c))}
  <1> DEFINE q == Push(lists, LOW, Request(c))
  <1>1. request[c] = "none" /\ c \in Open
    BY DEF Open, Live, ConnState, IInv, LifetimeInv, StatePhase
  <1>2. lists \in Queues(Job) /\ ~Scheduled(lists, Request(c)) /\ Scheduled(lists, Reader(c))
    BY <1>1, Whereabouts
  <1>3. /\ q \in Queues(Job) /\ Moved(lists, q, LOW, {Request(c)}, {})
        /\ q[LOW] = Append(lists[LOW], Request(c))
    <2>1. lists \in [Priority -> Seq(Job)]
      BY DEF Places
    <2> QED
      BY <1>2, <2>1, PushMoves, JobNames, Levels DEF Push
  <1> HIDE DEF q
  <1>4. Scheduled(q, Reader(c))
    BY <1>2, <1>3 DEF Moved, Scheduled
  <1>5. /\ lists' \in Queues(Job)
        /\ \A o \in Priority : lists'[o] \in {q[o], Block(q, Reader(c))[o]}
        /\ \A o \in Priority :
              On(o)' = IF B THEN (Range(q[o]) \ {Reader(c)}) \cup (IF o = BLOCKED THEN {Reader(c)} ELSE {})
                       ELSE Range(q[o])
    <2>1. lists' = IF B THEN Block(q, Reader(c)) ELSE q
      BY DEF q
    <2>2. /\ Block(q, Reader(c)) \in Queues(Job)
          /\ Moved(q, Block(q, Reader(c)), BLOCKED, {Reader(c)}, {Reader(c)})
      BY <1>3, <1>4, BlockMoves
    <2> QED
      BY <1>3, <2>1, <2>2 DEF Moved, On
  <1>6. \A o \in Priority : Range(q[o]) = On(o) \cup (IF o = LOW THEN {Request(c)} ELSE {})
    BY <1>3 DEF Moved, On
  <1>7. \A d \in Conn : /\ d \in Live' <=> d \in Live
                        /\ d \in Open' <=> d \in Open
    BY <1>1 DEF Live, Open, IInv, LifetimeTypes, ConnState
  <1>8. Places'
    <2>1. lists' \in [Priority -> Seq(Job)] /\ Disjoint(lists')
      BY <1>5 DEF Queues
    <2>2. (On(ROOT) = {})' /\ (On(HIGHEST) = {})'
      BY <1>5, <1>6, Levels DEF Places
    <2>3. ASSUME NEW d \in Conn
          PROVE  /\ Reader(d) \in (On(LOW) \cup On(BLOCKED))' <=> d \in Open'
                 /\ Reader(d) \notin On(HIGH)'
                 /\ Writer(d) \in (On(HIGH) \cup On(BLOCKED))' <=> d \in Live'
                 /\ Writer(d) \notin On(LOW)'
                 /\ Request(d) \in On(LOW)' <=> request'[d] # "none"
                 /\ Request(d) \notin (On(HIGH) \cup On(BLOCKED))'
      BY <1>1, <1>5, <1>6, <1>7, JobNames, Levels DEF Places, IInv, LifetimeTypes
    <2> QED
      BY <2>1, <2>2, <2>3 DEF Places
  <1>9. Bytes'
    <2>1. \A d \in Conn : Writer(d) \in On(HIGH)' => Writer(d) \in On(HIGH)
      BY <1>5, <1>6, JobNames, Levels
    <2>2. WriterHasBytes'
      BY <2>1 DEF WriterHasBytes, Bytes, On
    <2> QED
      BY <2>2 DEF Bytes, IInv, LifetimeTypes
  <1>10. Request(c) \in Job /\ Request(c) \notin On(LOW)
    BY <1>1, JobNames DEF Places
  <1>11. ASSUME Reader(c) \in On(LOW)
         PROVE  lists'[LOW] \in {Append(lists[LOW], Request(c)),
                                 RemoveFirst(Append(lists[LOW], Request(c)), Reader(c))}
    <2>1. Reader(c) \in Range(q[LOW])
      BY <1>6, <1>11, Levels
    <2>2. Block(q, Reader(c))[LOW] = RemoveFirst(q[LOW], Reader(c))
      BY <1>3, <1>4, <2>1, BlockMoves, Levels
    <2> QED
      BY <1>3, <1>5, <2>2, Levels
  <1>12. On(BLOCKED)' \subseteq On(BLOCKED) \cup (IF B THEN {Reader(c)} ELSE {})
    BY <1>5, <1>6, Levels
  <1> QED
    BY <1>8, <1>9, <1>10, <1>11, <1>12

(* A writer or a reader becomes ready, unless it is already. *)
LEMMA WriterReadied ==
    ASSUME Places, NEW c \in Conn, NEW q, q = Ready(lists, Writer(c), prevPriority(Writer(c)))
    PROVE  /\ q \in Queues(Job)
           /\ q[LOW] = lists[LOW]
           /\ \A o \in Priority :
                 Range(q[o]) = IF Writer(c) \notin On(BLOCKED) THEN On(o)
                               ELSE (On(o) \ {Writer(c)}) \cup (IF o = HIGH THEN {Writer(c)} ELSE {})
  <1>1. lists \in Queues(Job)
    BY Whereabouts
  <1>2. q = Ready(lists, Writer(c), HIGH)
    BY JobNames
  <1>3. CASE IsBlocked(lists, Writer(c))
    <2>1. /\ q \in Queues(Job) /\ Moved(lists, q, HIGH, {Writer(c)}, {Writer(c)})
          /\ q[LOW] = lists[LOW]
      BY <1>1, <1>2, <1>3, ReadyMoves, Levels
    <2> QED
      BY <1>3, <2>1 DEF Moved, On, IsBlocked
  <1>4. CASE ~IsBlocked(lists, Writer(c))
    <2>1. q = lists
      BY <1>2, <1>4 DEF Ready
    <2> QED
      BY <1>1, <1>4, <2>1 DEF On, IsBlocked
  <1> QED
    BY <1>3, <1>4

(* A job that was blocked in q is on its list p in r, and all else is equal. *)
Readied(q, r, j, p) ==
    \A o \in Priority :
        Range(r[o]) = IF j \notin Range(q[BLOCKED]) THEN Range(q[o])
                      ELSE (Range(q[o]) \ {j}) \cup (IF o = p THEN {j} ELSE {})

(* HttpConn::Event readies the reader: it moves to LOW if it was blocked. *)
LEMMA ReaderReadied ==
    ASSUME NEW q \in Queues(Job), NEW c \in Conn, NEW r,
           r = Ready(q, Reader(c), prevPriority(Reader(c)))
    PROVE  /\ r \in Queues(Job)
           /\ Readied(q, r, Reader(c), LOW)
  <1>1. r = Ready(q, Reader(c), LOW)
    BY JobNames
  <1>2. CASE IsBlocked(q, Reader(c))
    <2>1. r \in Queues(Job) /\ Moved(q, r, LOW, {Reader(c)}, {Reader(c)})
      BY <1>1, <1>2, ReadyMoves, Levels
    <2> QED
      BY <1>2, <2>1 DEF Readied, Moved, IsBlocked
  <1>3. CASE ~IsBlocked(q, Reader(c))
    <2>1. r = q
      BY <1>1, <1>3 DEF Ready
    <2> QED
      BY <1>3, <2>1 DEF Readied, IsBlocked
  <1> QED
    BY <1>2, <1>3

(* The events of a connection ready its jobs, the writer only with bytes.    *)
LEMMA ReadiedPlaces ==
    ASSUME Places, Bytes, NEW c \in Conn, c \in DOMAIN batch, ConnReady(c),
           \A s \in DOMAIN batch' : s \in DOMAIN batch /\ batch'[s] = batch[s]
    PROVE  /\ Places' /\ Bytes'
           /\ Writable(c) => Writer(c) \notin On(BLOCKED)'
           /\ "IN" \in batch[c] => Reader(c) \notin On(BLOCKED)'
           /\ On(BLOCKED)' \subseteq On(BLOCKED)
  <1> DEFINE q == IF Writable(c) THEN Ready(lists, Writer(c), prevPriority(Writer(c))) ELSE lists
  <1>1. /\ lists' = IF "IN" \in batch[c] THEN Ready(q, Reader(c), prevPriority(Reader(c))) ELSE q
        /\ UNCHANGED <<state, request, wbuf>>
    BY DEF ConnReady, conns
  <1>2. /\ q \in Queues(Job)
        /\ \A o \in Priority :
              Range(q[o]) = IF ~(Writable(c) /\ Writer(c) \in On(BLOCKED)) THEN On(o)
                            ELSE (On(o) \ {Writer(c)}) \cup (IF o = HIGH THEN {Writer(c)} ELSE {})
    BY WriterReadied, Whereabouts DEF On
  <1> HIDE DEF q
  <1>3. /\ lists' \in Queues(Job)
        /\ \A o \in Priority :
              On(o)' = IF ~("IN" \in batch[c] /\ Reader(c) \in Range(q[BLOCKED])) THEN Range(q[o])
                       ELSE (Range(q[o]) \ {Reader(c)}) \cup (IF o = LOW THEN {Reader(c)} ELSE {})
    <2>1. CASE "IN" \in batch[c]
      <3>1. lists' = Ready(q, Reader(c), prevPriority(Reader(c)))
        BY <1>1, <2>1
      <3>2. q \in Queues(Job)
        BY <1>2
      <3> QED
        <4>1. lists' \in Queues(Job) /\ Readied(q, lists', Reader(c), LOW)
          BY <3>1, <3>2, ReaderReadied
        <4> QED
          BY <2>1, <4>1 DEF On, Readied
    <2>2. CASE "IN" \notin batch[c]
      <3>1. lists' = q
        BY <1>1, <2>2
      <3> QED
        BY <1>2, <2>2, <3>1 DEF On
    <2> QED
      BY <2>1, <2>2
  <1>4. Live' = Live /\ Open' = Open
    BY <1>1 DEF Live, Open
  <1>5. Reader(c) \in Range(q[BLOCKED]) <=> Reader(c) \in On(BLOCKED)
    BY <1>2, JobNames, Levels
  <1>6. Places'
    <2>1. lists' \in [Priority -> Seq(Job)] /\ Disjoint(lists')
      BY <1>3 DEF Queues
    <2>2. (On(ROOT) = {})' /\ (On(HIGHEST) = {})'
      BY <1>2, <1>3, Levels DEF Places
    <2>3. ASSUME NEW d \in Conn
          PROVE  /\ Reader(d) \in (On(LOW) \cup On(BLOCKED))' <=> d \in Open'
                 /\ Reader(d) \notin On(HIGH)'
                 /\ Writer(d) \in (On(HIGH) \cup On(BLOCKED))' <=> d \in Live'
                 /\ Writer(d) \notin On(LOW)'
                 /\ Request(d) \in On(LOW)' <=> request'[d] # "none"
                 /\ Request(d) \notin (On(HIGH) \cup On(BLOCKED))'
      BY <1>1, <1>2, <1>3, <1>4, JobNames, Levels DEF Places
    <2> QED
      BY <2>1, <2>2, <2>3 DEF Places
  <1>7. Bytes'
    <2>1. \A d \in Conn : Writer(d) \in On(HIGH)' =>
                Writer(d) \in On(HIGH) \/ (d = c /\ Writable(c))
      BY <1>2, <1>3, JobNames, Levels
    <2>2. Writable(c) => wbuf[c] > 0
      BY DEF Writable
    <2>3. WriterHasBytes'
      BY <1>1, <2>1, <2>2 DEF WriterHasBytes, Bytes, On
    <2> QED
      BY <1>1, <2>3 DEF Bytes
  <1>8. /\ Writable(c) => Writer(c) \notin On(BLOCKED)'
        /\ "IN" \in batch[c] => Reader(c) \notin On(BLOCKED)'
    BY <1>2, <1>3, JobNames, Levels
  <1>9. On(BLOCKED)' \subseteq On(BLOCKED)
    BY <1>2, <1>3, JobNames, Levels
  <1> QED
    BY <1>6, <1>7, <1>8, <1>9

(* A request is answered: it is on no list any more, and the writer is ready.*)
LEMMA AnsweredPlaces ==
    ASSUME IInv, Places, Bytes, NEW c \in Conn, state[c] = "IOWORKING",
           request' = [request EXCEPT ![c] = "none"],
           state' = [state EXCEPT ![c] = "IONOWORK"],
           wbuf' = [wbuf EXCEPT ![c] = @ + RESPONSE],
           lists' = Unschedule(WakeWriter(c), Request(c)), batch' = batch
    PROVE  /\ Places' /\ Bytes'
           /\ lists'[LOW] = RemoveFirst(lists[LOW], Request(c))
           /\ wbuf[c] = 0 => Writer(c) \notin On(BLOCKED)'
           /\ On(BLOCKED)' \subseteq On(BLOCKED)
  <1> DEFINE q == WakeWriter(c)
  <1>1. request[c] # "none" /\ c \in Live /\ c \in Open
    BY DEF Live, Open, ConnState, IInv, LifetimeInv, StatePhase
  <1>2. /\ q \in Queues(Job) /\ q[LOW] = lists[LOW]
        /\ \A o \in Priority :
              Range(q[o]) = IF ~(wbuf[c] = 0 /\ Writer(c) \in On(BLOCKED)) THEN On(o)
                            ELSE (On(o) \ {Writer(c)}) \cup (IF o = HIGH THEN {Writer(c)} ELSE {})
    BY WriterReadied, Whereabouts DEF On, WakeWriter
  <1> HIDE DEF q
  <1>3. Request(c) \in Range(q[LOW]) /\ Scheduled(q, Request(c))
    BY <1>1, <1>2, Levels, JobNames DEF Places, Scheduled
  <1>4. /\ lists' \in Queues(Job) /\ Moved(q, lists', ROOT, {}, {Request(c)})
        /\ lists'[LOW] = RemoveFirst(q[LOW], Request(c))
    <2>1. lists' = Unschedule(q, Request(c))
      BY DEF q
    <2> QED
      BY <1>2, <1>3, <2>1, UnscheduleMoves, Levels
  <1>5. \A o \in Priority : On(o)' = Range(q[o]) \ {Request(c)}
    BY <1>4 DEF Moved, On
  <1>6. \A d \in Conn : /\ d \in Live' <=> d \in Live
                        /\ d \in Open' <=> d \in Open
    BY <1>1 DEF Live, Open, IInv, LifetimeTypes, ConnState
  <1>7. Places'
    <2>1. lists' \in [Priority -> Seq(Job)] /\ Disjoint(lists')
      BY <1>4 DEF Queues
    <2>2. (On(ROOT) = {})' /\ (On(HIGHEST) = {})'
      BY <1>2, <1>5, Levels DEF Places
    <2>3. ASSUME NEW d \in Conn
          PROVE  /\ Reader(d) \in (On(LOW) \cup On(BLOCKED))' <=> d \in Open'
                 /\ Reader(d) \notin On(HIGH)'
                 /\ Writer(d) \in (On(HIGH) \cup On(BLOCKED))' <=> d \in Live'
                 /\ Writer(d) \notin On(LOW)'
                 /\ Request(d) \in On(LOW)' <=> request'[d] # "none"
                 /\ Request(d) \notin (On(HIGH) \cup On(BLOCKED))'
      BY <1>1, <1>2, <1>5, <1>6, JobNames, Levels DEF Places, IInv, LifetimeTypes
    <2> QED
      BY <2>1, <2>2, <2>3 DEF Places
  <1>8. Bytes'
    <2>1. wbuf' \in [Conn -> Nat] /\ wbuf'[c] > 0 /\ \A d \in Conn : d # c => wbuf'[d] = wbuf[d]
      BY AnticentAssumption DEF Bytes
    <2>2. \A d \in Conn : Writer(d) \in On(HIGH)' => Writer(d) \in On(HIGH) \/ d = c
      BY <1>2, <1>5, JobNames, Levels
    <2>3. WriterHasBytes'
      BY <2>1, <2>2 DEF WriterHasBytes, Bytes, On
    <2> QED
      BY <2>1, <2>3 DEF Bytes, IInv, LifetimeTypes
  <1>9. wbuf[c] = 0 => Writer(c) \notin On(BLOCKED)'
    BY <1>2, <1>5, JobNames, Levels
  <1>10. On(BLOCKED)' \subseteq On(BLOCKED)
    BY <1>2, <1>5, JobNames, Levels
  <1> QED
    BY <1>2, <1>4, <1>7, <1>8, <1>9, <1>10

-----------------------------------------------------------------------------
(* Places and Bytes, action by action *)

(* The job that runs exists; readers and requests run at LOW, writers at     *)
(* HIGH.                                                                     *)
LEMMA Runner ==
    ASSUME Places, Walk, NEW c \in Conn
    PROVE  /\ Runs(Reader(c)) => c \in Open /\ iPriority = LOW /\ Reader(c) \in On(LOW)
           /\ Runs(Writer(c)) => c \in Live /\ iPriority = HIGH /\ Writer(c) \in On(HIGH)
           /\ Runs(Request(c)) => request[c] # "none" /\ iPriority = LOW /\ Request(c) \in On(LOW)
  <1>1. \A j : Runs(j) => iPriority \in RunLevels /\ j \in On(iPriority)
    BY DEF Runs, Walk, On
  <1> QED
    BY <1>1, Levels DEF Places

(* One turn of the reader keeps the jobs on their lists; the only job it may *)
(* put on LOW is the request it starts, at the tail.                         *)
LEMMA ReadingPlaces ==
    ASSUME IInv, Places, Bytes, Walk, NEW c \in Conn, ReaderRun(c)
    PROVE  /\ Places' /\ Bytes'
           /\ exit' = "no" =>
                \/ lists'[LOW] \in {lists[LOW], RemoveFirst(lists[LOW], Reader(c))}
                \/ /\ Request(c) \in Job /\ Request(c) \notin On(LOW)
                   /\ lists'[LOW] \in {Append(lists[LOW], Request(c)),
                                       RemoveFirst(Append(lists[LOW], Request(c)), Reader(c))}
           /\ On(BLOCKED)' \subseteq On(BLOCKED) \cup {Reader(c)}
           /\ Reader(c) \in On(BLOCKED)' => ReadNothing(c) \/ (ReadText(c) /\ BlocksItself(c))
  <1>. Reader(c) \notin On(BLOCKED)
    BY Runner, DisjointLists, Levels DEF ReaderRun, Places, On
  <1>0. /\ batch' = batch /\ c \in Open /\ Reader(c) \in On(LOW)
        /\ state[c] \in ConnState \cup {"unborn", "freed"}
        /\ state[c] \notin {"READONLY", "DEATH"}
    BY Runner DEF ReaderRun, Runs, IInv, LifetimeTypes, LifetimeInv, StatePhase
  <1>1. ASSUME NEW why, Dies(why)
        PROVE  Places' /\ Bytes' /\ lists' = lists /\ On(BLOCKED)' = On(BLOCKED)
    BY <1>0, <1>1, PlacesStutter, BytesStutter DEF Dies, conns, On
  <1>2. CASE ReadError(c)
    BY <1>1, <1>2 DEF ReadError
  <1>3. CASE ReadNothing(c)
    BY <1>0, <1>3, ReaderBlocks DEF ReadNothing, conns
  <1>4. CASE ReadEof(c)
    <2> DEFINE target == Target(state[c], "EREADCLOSED")
    <2>1. target \in {"error", "DEATH", "WRITEONLY"}
      BY <1>0, Targets
    <2>2. CASE target = "error"
      BY <1>1, <1>4, <2>2 DEF ReadEof
    <2>3. CASE target = "DEATH"
      <3>1. ConnDeath(c) /\ state[c] = "IONOWORK"
        BY <1>0, <1>4, <2>3, Targets DEF ReadEof
      <3> QED
        BY <1>0, <3>1, DyingPlaces
    <2>4. CASE target = "WRITEONLY"
      <3>1. state[c] = "IOWORKING"
        BY <1>0, <2>4, Targets
      <3>2. state' = [state EXCEPT ![c] = "WRITEONLY"] /\ UNCHANGED <<lists, request, wbuf>>
        BY <1>4, <2>4 DEF ReadEof
      <3>3. Live' = Live /\ Open' = Open
        BY <3>1, <3>2 DEF Live, Open, ConnState, IInv, LifetimeTypes
      <3>4. Places'
        BY <3>2, <3>3 DEF Places, On
      <3>5. Bytes'
        BY <1>0, <3>1, <3>2 DEF Bytes, WriterHasBytes, IInv, LifetimeTypes
      <3> QED
        BY <3>2, <3>4, <3>5 DEF On
    <2> QED
      BY <2>1, <2>2, <2>3, <2>4
  <1>5. CASE ReadText(c)
    <2> DEFINE text   == Text(c, Consumed(c))
               parsed == HasEnd(text)
               target == Target(state[c], "EWORKTODO")
    <2>1. CASE parsed /\ target = "error"
      BY <1>1, <1>5, <2>1 DEF ReadText
    <2>2. CASE parsed /\ target # "error"
      <3>1. target = "IOWORKING" /\ state[c] \in {"START", "IONOWORK"}
        BY <1>0, <2>2, Targets
      <3>2. NewHttpRequest(c, text) /\ wbuf' = wbuf
        BY <1>5, <2>2 DEF ReadText
      <3>3. PICK r \in {"plain", "cookie"} : request' = [request EXCEPT ![c] = r]
        BY <3>2 DEF NewHttpRequest, Kind
      <3>4. state' = [state EXCEPT ![c] = "IOWORKING"]
        BY <3>1, <3>2 DEF NewHttpRequest, IInv, LifetimeTypes
      <3>5. lists' = IF BlocksItself(c) THEN Block(Push(lists, LOW, Request(c)), Reader(c))
                     ELSE Push(lists, LOW, Request(c))
        BY <1>5, <2>2 DEF ReadText, ScheduleRequest
      <3>6. BlocksItself(c) \in BOOLEAN
        BY DEF BlocksItself
      <3> QED
        BY <1>0, <1>5, <3>1, <3>2, <3>3, <3>4, <3>5, <3>6, StartedPlaces
    <2>3. CASE ~parsed
      <3>1. UNCHANGED <<state, request, wbuf>>
        BY <1>5, <2>3 DEF ReadText
      <3>2. lists' = IF BlocksItself(c) THEN Block(lists, Reader(c)) ELSE lists
        BY <1>5, <2>3 DEF ReadText
      <3>3. CASE BlocksItself(c)
        BY <1>0, <1>5, <3>1, <3>2, <3>3, ReaderBlocks
      <3>4. CASE ~BlocksItself(c)
        BY <1>0, <3>1, <3>2, <3>4, PlacesStutter, BytesStutter DEF On
      <3> QED
        BY <3>3, <3>4
    <2> QED
      BY <2>1, <2>2, <2>3
  <1> QED
    BY <1>2, <1>3, <1>4, <1>5 DEF ReaderRun

(* One turn of a request removes it at most, and readies no writer that has *)
(* nothing to write.                                                        *)
LEMMA AnsweringPlaces ==
    ASSUME IInv, Places, Bytes, Walk, NEW c \in Conn, RequestRun(c)
    PROVE  /\ Places' /\ Bytes'
           /\ exit' = "no" => lists'[LOW] \in {lists[LOW], RemoveFirst(lists[LOW], Request(c))}
           /\ On(BLOCKED)' \subseteq On(BLOCKED)
           /\ exit' = "no" /\ wbuf[c] = 0 => Writer(c) \notin On(BLOCKED)'
  <1>0. /\ batch' = batch
        /\ state[c] \in ConnState \cup {"unborn", "freed"}
        /\ state[c] \notin {"READONLY", "DEATH"}
    BY DEF RequestRun, Runs, IInv, LifetimeTypes, LifetimeInv, StatePhase
  <1> DEFINE target == Target(state[c], "ENOWORK")
  <1>1. CASE request[c] = "cookie" \/ target = "error"
    <2>1. UNCHANGED <<lists, conns>> /\ exit' # "no"
      BY <1>1 DEF RequestRun, Dies
    <2> QED
      BY <1>0, <2>1, PlacesStutter, BytesStutter DEF conns, On
  <1>2. CASE ~(request[c] = "cookie" \/ target = "error")
    <2>1. target = "IONOWORK" /\ state[c] = "IOWORKING"
      BY <1>0, <1>2, Targets
    <2>2. /\ request' = [request EXCEPT ![c] = "none"]
          /\ state' = [state EXCEPT ![c] = "IONOWORK"]
          /\ wbuf' = [wbuf EXCEPT ![c] = @ + RESPONSE]
          /\ lists' = Unschedule(WakeWriter(c), Request(c))
      BY <1>2, <2>1 DEF RequestRun, IInv, LifetimeTypes
    <2> QED
      BY <1>0, <2>1, <2>2, AnsweredPlaces
  <1> QED
    BY <1>1, <1>2

(* One turn of a writer takes nobody off HIGH but itself. *)
LEMMA WritingPlaces ==
    ASSUME IInv, Places, Bytes, Walk, NEW c \in Conn, WriterRun(c)
    PROVE  /\ Places' /\ Bytes'
           /\ exit' = "no" => lists'[HIGH] \in {lists[HIGH], RemoveFirst(lists[HIGH], Writer(c))}
           /\ On(BLOCKED)' \subseteq On(BLOCKED) \cup {Writer(c)}
  <1>0. batch' = batch /\ c \in Live /\ Writer(c) \in On(HIGH)
    BY Runner DEF WriterRun, Runs
  <1>1. CASE peer[c] = "rst" \/ full[c]
    <2>1. UNCHANGED <<lists, conns>>
      BY <1>1 DEF WriterRun, Dies
    <2> QED
      BY <1>0, <2>1, PlacesStutter, BytesStutter DEF conns, On
  <1>2. CASE ~(peer[c] = "rst" \/ full[c])
    <2>1. PICK n \in 1 .. wbuf[c] : /\ wbuf' = [wbuf EXCEPT ![c] = @ - n]
                                   /\ lists' = Block(lists, Writer(c))
                                   /\ UNCHANGED <<state, request>>
      BY <1>2 DEF WriterRun
    <2> QED
      BY <1>0, <2>1, WriterBlocks
  <1> QED
    BY <1>1, <1>2

(* The handler of a connection keeps the jobs on their lists. *)
LEMMA DispatchingPlaces ==
    ASSUME IInv, Places, Bytes, NEW c \in Conn, ConnEvents(c)
    PROVE  Places' /\ Bytes'
  <1>0. /\ c \in DOMAIN batch
        /\ \A s \in DOMAIN batch' : s \in DOMAIN batch /\ batch'[s] = batch[s]
        /\ state[c] \in ConnState \cup {"unborn", "freed"}
        /\ state[c] \notin {"READONLY", "DEATH"}
    BY DEF ConnEvents, Dispatches, IInv, LifetimeTypes, LifetimeInv, StatePhase
  <1>1. ConnFails(c, "EERR") \/ ConnReady(c)
    BY <1>0 DEF ConnEvents, Bytes
  <1>2. CASE ConnReady(c)
    BY <1>0, <1>2, ReadiedPlaces
  <1>3. CASE ConnFails(c, "EERR") /\ Target(state[c], "EERR") = "error"
    <2>1. UNCHANGED <<lists, conns>>
      BY <1>3 DEF ConnFails, Dies
    <2> QED
      BY <1>0, <2>1, PlacesStutter, BytesStutter DEF conns
  <1>4. CASE ConnFails(c, "EERR") /\ Target(state[c], "EERR") # "error"
    <2>1. state[c] = "START" /\ Target(state[c], "EERR") = "CLOSED"
      BY <1>0, <1>4 DEF Target, ConnState
    <2>2. ConnClose(c, "CLOSED")
      BY <1>4, <2>1 DEF ConnFails
    <2> QED
      BY <1>0, <2>1, <2>2, ClosingPlaces
  <1> QED
    BY <1>1, <1>2, <1>3, <1>4

(* The listener schedules the jobs of the connection it makes. *)
LEMMA AcceptingPlaces ==
    ASSUME IInv, Places, Bytes, ListenerEvent
    PROVE  Places' /\ Bytes'
  <1>0. \A s \in DOMAIN batch' : s \in DOMAIN batch /\ batch'[s] = batch[s]
    BY DEF ListenerEvent, Dispatches
  <1>1. CASE ~listener
    <2>1. UNCHANGED <<lists, conns>>
      BY <1>1 DEF ListenerEvent, Dies
    <2> QED
      BY <1>0, <2>1, PlacesStutter, BytesStutter DEF conns
  <1>2. CASE listener
    <2> DEFINE c == Head(backlog)
    <2>1. /\ backlog # <<>>
          /\ state' = [state EXCEPT ![c] = "START"]
          /\ lists' = Push(Push(lists, BLOCKED, Writer(c)), BLOCKED, Reader(c))
          /\ UNCHANGED <<request, wbuf>>
      BY <1>2 DEF ListenerEvent
    <2>2. c \in Conn /\ state[c] = "unborn"
      <3>1. 1 \in DOMAIN backlog /\ c = backlog[1]
        BY <2>1 DEF IInv, LifetimeTypes
      <3> QED
        BY <3>1 DEF IInv, LifetimeTypes, LifetimeInv, Unaccepted
    <2> HIDE DEF c
    <2> QED
      BY <1>0, <2>1, <2>2, AcceptedPlaces
  <1> QED
    BY <1>1, <1>2

(* Every step of the server or of a client keeps the jobs on their lists and *)
(* the writers supplied.                                                     *)
LEMMA NextPlaces ==
    ASSUME IInv, Places, Bytes, Walk, [Next]_vars
    PROVE  Places' /\ Bytes'
  <1>1. CASE Clients \/ Exited \/ UNCHANGED vars
    <2>1. UNCHANGED <<lists, conns, batch>>
      BY <1>1 DEF Clients, Exited, server, vars
    <2> QED
      BY <2>1, PlacesStutter, BytesStutter DEF conns
  <1>2. CASE Top \/ NextList \/ PollDone
    <2>1. UNCHANGED <<lists, conns, batch>>
      BY <1>2 DEF Top, NextList, PollDone
    <2> QED
      BY <2>1, PlacesStutter, BytesStutter DEF conns
  <1>3. CASE Poll
    <2>1. UNCHANGED <<lists, conns>>
      BY <1>3 DEF Poll
    <2>2. \A s \in DOMAIN batch' : batch'[s] = Mask(s)
      BY <1>3 DEF Poll
    <2>3. \A s : "HUP" \in Mask(s) => "ERR" \in Mask(s)
      BY DEF Mask
    <2>4. Bytes'
      BY <2>1, <2>2, <2>3 DEF Bytes, WriterHasBytes, conns
    <2> QED
      BY <2>1, <2>4, PlacesStutter DEF conns
  <1>4. CASE SignalsEvent
    <2>1. UNCHANGED <<lists, conns>>
      BY <1>4 DEF SignalsEvent, Dies
    <2>2. \A s \in DOMAIN batch' : s \in DOMAIN batch /\ batch'[s] = batch[s]
      BY <1>4 DEF SignalsEvent, Dispatches
    <2> QED
      BY <2>1, <2>2, PlacesStutter, BytesStutter DEF conns
  <1>5. CASE ListenerEvent
    BY <1>5, AcceptingPlaces
  <1>6. CASE \E c \in Conn : ReaderRun(c) \/ RequestRun(c) \/ WriterRun(c) \/ ConnEvents(c)
    BY <1>6, ReadingPlaces, AnsweringPlaces, WritingPlaces, DispatchingPlaces
  <1> QED
    BY <1>1, <1>2, <1>3, <1>4, <1>5, <1>6 DEF Next, Server

-----------------------------------------------------------------------------
(* The walk *)

(* Whatever the job that runs does to its list, the one saved before it is   *)
(* still there, with the jobs left to run from it on.                        *)
LEMMA RunWalks ==
    ASSUME Places, Walk, exit = "no", NEW j, Runs(j), NEW x \in Job, x \notin On(iPriority),
           exit' = "no" =>
                lists'[iPriority] \in
                    {lists[iPriority], Append(lists[iPriority], x), RemoveFirst(lists[iPriority], j),
                     RemoveFirst(Append(lists[iPriority], x), j)}
    PROVE  Walk'
  <1>1. /\ pc = "walk" /\ left > 0 /\ iJob = j /\ left \in Nat
        /\ left' = left - 1 /\ left' \in Nat
        /\ iJob' = IF left > 1 THEN NextOf(lists[iPriority], j) ELSE NoJob
        /\ UNCHANGED <<pc, iPriority, ran>>
        /\ ran /\ iPriority \in RunLevels
    BY DEF Runs, Walk
  <1>2. SavedNextGood'
    <2> SUFFICES ASSUME left > 1, exit' = "no"
                 PROVE  \E m \in DOMAIN lists'[iPriority] :
                            /\ lists'[iPriority][m] = NextOf(lists[iPriority], j)
                            /\ m + (left - 1) - 1 <= Len(lists'[iPriority])
      BY <1>1 DEF SavedNextGood
    <2> DEFINE s == lists[iPriority]
    <2>1. iPriority \in Priority
      BY <1>1, Levels
    <2>2. s \in Seq(Job) /\ Once(s)
      BY <2>1 DEF Places, Disjoint, Once
    <2>3. PICK k \in DOMAIN s : s[k] = j /\ k + left - 1 <= Len(s)
      BY <1>1 DEF Walk, SavedNextGood
    <2>4. k \in 1 .. Len(s)
      BY <2>2
    <2>5. x \notin Range(s)
      BY DEF On
    <2>6. lists'[iPriority] \in {s, Append(s, x), RemoveFirst(s, s[k]), RemoveFirst(Append(s, x), s[k])}
      BY <2>3
    <2> HIDE DEF s
    <2> DEFINE t == lists'[iPriority]
    <2>7. \E m \in DOMAIN t : t[m] = NextOf(s, s[k]) /\ m + (left - 1) - 1 <= Len(t)
      <3>1. t \in {s, Append(s, x), RemoveFirst(s, s[k]), RemoveFirst(Append(s, x), s[k])}
        BY <2>6
      <3> HIDE DEF t
      <3> QED
        BY <1>1, <2>2, <2>3, <2>4, <2>5, <3>1, WalkGoesOn, SMTT(20)
    <2> QED
      BY <2>3, <2>7 DEF s
  <1> QED
    BY <1>1, <1>2 DEF Walk

(* A step outside the walk. *)
LEMMA WalkStutter ==
    ASSUME Walk, pc # "walk", UNCHANGED <<pc, iPriority, left, ran>>,
           \A c \in Conn : request'[c] # "none" => request[c] # "none"
    PROVE  Walk'
  BY DEF Walk, SavedNextGood

(* After the turn of a job the walk goes on with a job that still exists. *)
LEMMA RunningWalk ==
    ASSUME IInv, Places, Bytes, Walk, exit = "no", NEW c \in Conn,
           ReaderRun(c) \/ RequestRun(c) \/ WriterRun(c)
    PROVE  Walk'
  <1>0. /\ Reader(c) \in Job /\ Writer(c) \in Job
        /\ Writer(c) \notin On(LOW) /\ Reader(c) \notin On(HIGH)
    BY JobNames DEF Places
  <1>1. CASE ReaderRun(c)
    <2>1. Runs(Reader(c)) /\ iPriority = LOW
      BY <1>1, Runner DEF ReaderRun
    <2>2. CASE exit' = "no" => lists'[LOW] \in {lists[LOW], RemoveFirst(lists[LOW], Reader(c))}
      BY <1>0, <2>1, <2>2, RunWalks
    <2>3. CASE /\ Request(c) \in Job /\ Request(c) \notin On(LOW)
               /\ lists'[LOW] \in {Append(lists[LOW], Request(c)),
                                   RemoveFirst(Append(lists[LOW], Request(c)), Reader(c))}
      BY <2>1, <2>3, RunWalks
    <2> QED
      BY <1>1, <2>2, <2>3, ReadingPlaces
  <1>2. CASE RequestRun(c)
    <2>1. Runs(Request(c)) /\ iPriority = LOW
      BY <1>2, Runner DEF RequestRun
    <2>2. exit' = "no" => lists'[LOW] \in {lists[LOW], RemoveFirst(lists[LOW], Request(c))}
      BY <1>2, AnsweringPlaces
    <2> QED
      BY <1>0, <2>1, <2>2, RunWalks
  <1>3. CASE WriterRun(c)
    <2>1. Runs(Writer(c)) /\ iPriority = HIGH
      BY <1>3, Runner DEF WriterRun
    <2>2. exit' = "no" => lists'[HIGH] \in {lists[HIGH], RemoveFirst(lists[HIGH], Writer(c))}
      BY <1>3, WritingPlaces
    <2> QED
      BY <1>0, <2>1, <2>2, RunWalks
  <1> QED
    BY <1>1, <1>2, <1>3

(* The list that CHOOSE picks is one of those with jobs. *)
LEMMA FirstList ==
    ASSUME NEW more \in SUBSET RunLevels, more # {}
    PROVE  (CHOOSE q \in more : \A r \in more : q <= r) \in more
  <1>1. more \in SUBSET Nat
    BY DEF RunLevels, ROOT, LOW
  <1>2. \E q \in more : \A r \in more : q <= r
    BY <1>1, LeastNat
  <1> QED
    BY <1>2

(* Scheduler goes on to the first list with jobs, of those behind the one it *)
(* walked; if there is none and nothing ran, all lists are empty.            *)
LEMMA NextListWalk ==
    ASSUME IInv, Places, Walk, NextList
    PROVE  Walk'
  <1> DEFINE more == {p \in RunLevels : p > iPriority /\ lists[p] # <<>>}
             p    == CHOOSE q \in more : \A r \in more : q <= r
  <1>0. UNCHANGED <<lists, request, exit>> /\ pc = "walk"
    BY DEF NextList, conns
  <1>1. CASE more = {}
    <2>1. /\ pc' = IF ran THEN "top" ELSE "poll"
          /\ iPriority' = 0 /\ UNCHANGED <<left, ran>> /\ left = 0
      BY <1>1 DEF NextList
    <2>2. ~ran => \A q \in RunLevels : lists[q] = <<>>
      BY <1>0, <1>1 DEF Walk, RunLevels, ROOT, LOW
    <2>3. ~ran => \A c \in Conn : request[c] = "none"
      <3>1. ~ran => On(LOW) = {}
        BY <2>2, Levels DEF On, Range
      <3> QED
        BY <3>1 DEF Places
    <2> QED
      BY <1>0, <2>1, <2>3 DEF Walk, SavedNextGood, LOW
  <1>2. CASE more # {}
    <2>1. /\ iPriority' = p /\ left' = Len(lists[p]) /\ iJob' = lists[p][1] /\ ran' = TRUE /\ pc' = pc
      BY <1>2 DEF NextList, Runnable
    <2>2. p \in more
      BY <1>2, FirstList
    <2> HIDE DEF p
    <2>3. p \in RunLevels /\ lists[p] # <<>>
      BY <2>2
    <2>4. p \in -1 .. LOW /\ p \in Priority
      BY <2>3 DEF RunLevels, Priority, ROOT, LOW, BLOCKED
    <2>5. lists[p] \in Seq(Job)
      BY <2>4 DEF Places
    <2>6. Len(lists[p]) \in Nat /\ Len(lists[p]) > 0 /\ 1 \in DOMAIN lists[p]
      BY <2>3, <2>5
    <2>7. SavedNextGood'
      BY <1>0, <2>1, <2>6 DEF SavedNextGood
    <2> QED
      BY <1>0, <2>1, <2>3, <2>4, <2>6, <2>7 DEF Walk
  <1> QED
    BY <1>1, <1>2

(* Every step keeps what the walk over a list relies on. *)
LEMMA NextWalk ==
    ASSUME IInv, Places, Bytes, Walk, [Next]_vars
    PROVE  Walk'
  <1>1. CASE Clients \/ Exited \/ UNCHANGED vars
    <2>1. UNCHANGED <<exit, scheduler, lists, request>>
      BY <1>1 DEF Clients, Exited, server, vars, conns
    <2> QED
      BY <2>1 DEF Walk, SavedNextGood, scheduler
  <1>2. CASE Top
    <2>1. left = 0 /\ left' = left /\ UNCHANGED request
      BY <1>2 DEF Top, Walk, conns
    <2>2. \/ pc' = "walk" /\ iPriority' = -1 /\ ran' = FALSE
          \/ UNCHANGED <<pc, iPriority, ran>> /\ pc = "top"
      BY <1>2 DEF Top
    <2>3. \A p \in RunLevels : ~(p <= -1)
      BY DEF RunLevels, ROOT, LOW
    <2>4. SavedNextGood' /\ left' \in Nat /\ ~(left' > 0)
      BY <2>1 DEF SavedNextGood
    <2>5. CASE pc' = "walk" /\ iPriority' = -1 /\ ran' = FALSE
      <3>1. iPriority' \in -1 .. LOW
        BY <2>5 DEF LOW
      <3> QED
        BY <2>3, <2>4, <2>5, <3>1 DEF Walk
    <2>6. CASE UNCHANGED <<pc, iPriority, ran>> /\ pc = "top"
      BY <2>1, <2>4, <2>6 DEF Walk
    <2> QED
      BY <2>2, <2>5, <2>6
  <1>3. CASE NextList
    BY <1>3, NextListWalk
  <1>4. CASE Poll \/ PollDone
    <2>1. /\ pc \in {"poll", "dispatch"} /\ pc' \in {"poll", "dispatch", "top"}
          /\ UNCHANGED <<iPriority, left, ran, request>>
      BY <1>4 DEF Poll, PollDone, conns
    <2> QED
      BY <2>1 DEF Walk, SavedNextGood
  <1>5. CASE ListenerEvent \/ SignalsEvent \/ \E c \in Conn : ConnEvents(c)
    <2>1. pc = "dispatch" /\ UNCHANGED <<pc, iPriority, left, ran>>
      BY <1>5 DEF ListenerEvent, SignalsEvent, ConnEvents, Dispatches, scheduler
    <2>2. request' = request
      BY <1>5 DEF ListenerEvent, SignalsEvent, ConnEvents, Dies, ConnFails, ConnClose, ConnReady, conns
    <2> QED
      BY <2>1, <2>2, WalkStutter
  <1>6. CASE exit = "no" /\ \E c \in Conn : ReaderRun(c) \/ RequestRun(c) \/ WriterRun(c)
    BY <1>6, RunningWalk
  <1> QED
    BY <1>1, <1>2, <1>3, <1>4, <1>5, <1>6 DEF Next, Server

-----------------------------------------------------------------------------
(* Theorems *)

JobsInv == IInv /\ Places /\ Bytes /\ Walk

(* The server starts with no jobs but Init, Signals and the listener. *)
LEMMA InitJobs == Init => JobsInv
  <1> SUFFICES ASSUME Init PROVE JobsInv
    OBVIOUS
  <1>1. IInv
    BY InitLifetimes
  <1>2. Live = {} /\ Open = {}
    BY DEF Init, Live, Open, ConnState
  <1>3. /\ lists = [p \in Priority |-> <<>>] /\ lists \in [Priority -> Seq(Job)]
        /\ \A p \in Priority : lists[p] = <<>> /\ On(p) = {}
    BY DEF Init, NoJobs, On, Range
  <1>4. Places
    BY <1>2, <1>3, Levels DEF Init, Places, Disjoint
  <1>5. Bytes
    BY <1>3, Levels DEF Init, Bytes, WriterHasBytes, On
  <1>6. Walk
    <2>1. pc = "top" /\ left = 0 /\ iPriority \in -1 .. LOW /\ ~(left > 0)
      BY DEF Init, LOW
    <2>2. ran \in BOOLEAN
      BY DEF Init
    <2> QED
      BY <2>1, <2>2 DEF Walk, SavedNextGood
  <1> QED
    BY <1>1, <1>4, <1>5, <1>6 DEF JobsInv

(* The parts of JobsInv carry one another through every step. *)
LEMMA NextJobs == JobsInv /\ [Next]_vars => JobsInv'
  BY NextLifetimes, NextPlaces, NextWalk DEF JobsInv

(* The inductive invariant of this module. *)
THEOREM JobsKept == Spec => []JobsInv
  BY InitJobs, NextJobs, PTL DEF Spec

(* Every job that exists is scheduled on exactly one list, once, and no list *)
(* holds a job whose object was deleted, whatever the order of the Schedule, *)
(* Unschedule, Block and Ready calls of http.cc and httpreq.cc.              *)
THEOREM JobsStayScheduled == Spec => []JobsScheduled
  <1>1. JobsInv => JobsScheduled
    <2> SUFFICES ASSUME JobsInv PROVE JobsScheduled
      OBVIOUS
    <2> DEFINE all == UNION {Range(lists[p]) : p \in Priority}
               there == {Writer(c) : c \in Live} \cup {Reader(c) : c \in Open} \cup {Request(c) : c \in InFlight}
    <2>1. Places /\ \A p \in Priority : lists[p] \in Seq(Job)
      BY DEF JobsInv, Places
    <2>2. \A p \in Priority : \A j \in Range(lists[p]) : j \in Job
      <3>1. \A p \in Priority : \A i \in DOMAIN lists[p] : lists[p][i] \in Job
        BY <2>1
      <3> QED
        BY <3>1 DEF Range
    <2>3. ASSUME NEW j \in all
          PROVE  j \in there
      <3>1. PICK p \in Priority : j \in On(p)
        BY DEF On
      <3>2. PICK c \in Conn : j = Reader(c) \/ j = Writer(c) \/ j = Request(c)
        BY <2>2, <3>1, JobKinds DEF On
      <3>3. CASE j = Reader(c)
        <4>1. c \in Open
          BY <2>1, <3>1, <3>3, Levels DEF Places
        <4> QED
          BY <3>3, <4>1
      <3>4. CASE j = Writer(c)
        <4>1. c \in Live
          BY <2>1, <3>1, <3>4, Levels DEF Places
        <4> QED
          BY <3>4, <4>1
      <3>5. CASE j = Request(c)
        <4>1. c \in InFlight
          BY <2>1, <3>1, <3>5, Levels DEF Places, InFlight
        <4> QED
          BY <3>5, <4>1
      <3> QED
        BY <3>2, <3>3, <3>4, <3>5
    <2>4. ASSUME NEW j \in there
          PROVE  j \in all
      <3>1. PICK c \in Conn : \/ j = Writer(c) /\ c \in Live
                              \/ j = Reader(c) /\ c \in Open
                              \/ j = Request(c) /\ c \in InFlight
        BY DEF Live, Open, InFlight
      <3>2. \E p \in Priority : j \in On(p)
        BY <2>1, <3>1, Levels DEF Places, InFlight
      <3> QED
        BY <3>2 DEF On
    <2>5. all = there
      BY <2>3, <2>4
    <2> QED
      BY <2>1, <2>5 DEF JobsScheduled, Places
  <1> QED
    BY <1>1, JobsKept, PTL

(* The pointer that Scheduler reads before iJob->Run() and follows after it  *)
(* is never to a job that Run() deleted or moved, and what is left of the    *)
(* snapshot never wraps around the list's head (job.cc:258-263).             *)
THEOREM SavedNextStaysGood == Spec => []SavedNextGood
  <1>1. JobsInv => SavedNextGood
    BY DEF JobsInv, Walk
  <1> QED
    BY <1>1, JobsKept, PTL

(* A request is in flight exactly in the states that say so, it is runnable  *)
(* all that time, and there is none whenever events are dispatched.          *)
THEOREM RequestsPhased == Spec => []RequestPhase
  <1>1. JobsInv => RequestPhase
    BY DEF JobsInv, RequestPhase, Places, Walk, IInv, LifetimeInv, StatePhase, On
  <1> QED
    BY <1>1, JobsKept, PTL

(* HttpWriter::vRun's assertion (http.cc:628) always holds. *)
THEOREM WritersHaveBytes == Spec => []WriterHasBytes
  <1>1. JobsInv => WriterHasBytes
    BY DEF JobsInv, Bytes
  <1> QED
    BY <1>1, JobsKept, PTL
=============================================================================
