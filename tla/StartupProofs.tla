---------------------------- MODULE StartupProofs ----------------------------
(***************************************************************************)
(* The startup and the end of the process, for any list of interfaces, any  *)
(* number of early clients and of SIGINTs at any moment.                    *)
(***************************************************************************)
EXTENDS Startup, Extremes, FiniteSetTheorems

(* The types that the parts below do not give. *)
Types ==
    /\ pc \in 1 .. 18
    /\ exit \in {"no", "killed", "failed", "normal"}
    /\ address \in 0 .. Len(ifaces)
    /\ ifaces \in Lists
    /\ sigPending \in BOOLEAN
    /\ backlog \in 0 .. MaxClients
    /\ edge \subseteq {"signals", "listener"}
    /\ sigLeft \in 0 .. MaxSignals

(* SIGINT is blocked from sigprocmask on, in every thread there is. *)
Masked == unmasked = IF pc <= 3 THEN {"main"} ELSE {}

(* The condition of both descriptors at each step. *)
Descriptors ==
    /\ sigFd = CASE pc <= 4 -> "none" [] pc = 5 -> "open" [] pc \in 6 .. 17 -> "watched"
                 [] pc = 18 -> "closed"
    /\ listenFd = CASE pc <= 8 -> "none" [] pc = 9 -> "open" [] pc = 10 -> "bound"
                    [] pc = 11 -> "listening" [] pc \in 12 .. 16 -> "watched"
                    [] pc \in {17, 18} -> "closed"

(* The objects that exist at each step. *)
Objects ==
    /\ nJobs = CASE pc <= 2 -> 0 [] pc \in 3 .. 6 -> 2 [] pc \in 7 .. 16 -> 3
                 [] pc = 17 -> 2 [] pc = 18 -> 0
    /\ nSockets = CASE pc <= 5 -> 0 [] pc \in 6 .. 11 -> 1 [] pc \in 12 .. 16 -> 2
                    [] pc = 17 -> 1 [] pc = 18 -> 0
    /\ nListeners = IF pc \in 13 .. 16 THEN 1 ELSE 0
    /\ subscribers = IF pc <= 6 THEN <<>> ELSE <<"init", "listener">>

(* A process that got past SetAddrFromEth has an address that matches. *)
AddressSet ==
    pc > 8 \/ (pc = 8 /\ exit = "no") => address \in DOMAIN ifaces /\ Matches(address)

(* What is ready has its wakeup. *)
Ready ==
    /\ sigFd = "watched" /\ sigPending => "signals" \in edge
    /\ listenFd = "watched" /\ backlog > 0 => "listener" \in edge

(* The two ends that are not an assertion's. *)
Ends ==
    /\ exit = "killed" => pc <= 3
    /\ exit = "normal" <=> pc = 18

StartupInv ==
    Types /\ Masked /\ Descriptors /\ Objects /\ AddressSet /\ Ready /\ Ends

(* Where each step stands. *)
LEMMA StepsInOrder ==
    /\ Len(Steps) = 17 /\ DOMAIN Steps = 1 .. 17
    /\ \A p \in 1 .. 17 : Steps[p] = "InitEventable" <=> p = 1
    /\ \A p \in 1 .. 17 : Steps[p] = "Init" <=> p = 2
    /\ \A p \in 1 .. 17 : Steps[p] = "sigprocmask" <=> p = 3
    /\ \A p \in 1 .. 17 : Steps[p] = "signalfd" <=> p = 4
    /\ \A p \in 1 .. 17 : Steps[p] = "AddSignals" <=> p = 5
    /\ \A p \in 1 .. 17 : Steps[p] = "HttpListener" <=> p = 6
    /\ \A p \in 1 .. 17 : Steps[p] = "SetAddrFromEth" <=> p = 7
    /\ \A p \in 1 .. 17 : Steps[p] = "socket" <=> p = 8
    /\ \A p \in 1 .. 17 : Steps[p] = "bind" <=> p = 9
    /\ \A p \in 1 .. 17 : Steps[p] = "listen" <=> p = 10
    /\ \A p \in 1 .. 17 : Steps[p] = "AddListener" <=> p = 11
    /\ \A p \in 1 .. 17 : Steps[p] = "nListeners" <=> p = 12
    /\ \A p \in 1 .. 17 : Steps[p] = "platform" <=> p = 13
    /\ \A p \in 1 .. 17 : Steps[p] = "CompileModule" <=> p = 14
    /\ \A p \in 1 .. 17 : Steps[p] = "ShutdownPlatform" <=> p = 15
    /\ \A p \in 1 .. 17 : Steps[p] = "Scheduler" <=> p = 16
    /\ \A p \in 1 .. 17 : Steps[p] = "~Init" <=> p = 17
  BY DEF Steps

(* A step of main() is at one value of pc. *)
LEMMA Places ==
    ASSUME pc \in 1 .. 18, NEW step, At(step)
    PROVE  /\ pc \in 1 .. 17 /\ pc' = pc + 1
           /\ step = "InitEventable" => pc = 1
           /\ step = "Init" => pc = 2
           /\ step = "sigprocmask" => pc = 3
           /\ step = "signalfd" => pc = 4
           /\ step = "AddSignals" => pc = 5
           /\ step = "HttpListener" => pc = 6
           /\ step = "SetAddrFromEth" => pc = 7
           /\ step = "socket" => pc = 8
           /\ step = "bind" => pc = 9
           /\ step = "listen" => pc = 10
           /\ step = "AddListener" => pc = 11
           /\ step = "nListeners" => pc = 12
           /\ step = "platform" => pc = 13
           /\ step = "CompileModule" => pc = 14
           /\ step = "ShutdownPlatform" => pc = 15
           /\ step = "Scheduler" => pc = 16
           /\ step = "~Init" => pc = 17
  <1>1. pc \in 1 .. 17 /\ pc' = pc + 1 /\ Steps[pc] = step
    BY StepsInOrder DEF At
  <1> QED
    BY <1>1, StepsInOrder

(* The last of the interfaces that match is one of them. *)
LEMMA LastMatch ==
    ASSUME ifaces \in Seq(Interface), NEW S, S = {i \in DOMAIN ifaces : Matches(i)}, S # {}
    PROVE  Max(S) \in S
  <1>1. S \in SUBSET Nat /\ Len(ifaces) \in Nat /\ \A n \in S : n <= Len(ifaces)
    OBVIOUS
  <1>2. PICK n \in S : \A m \in S : m <= n
    BY <1>1, GreatestNat
  <1>3. \E x \in S : \A y \in S : x >= y
    BY <1>1, <1>2
  <1> QED
    BY <1>3 DEF Max

(* Nothing is open, and nothing masked. *)
LEMMA StartupStarts == Init => StartupInv
  <1> USE StartupAssumption, StepsInOrder
  <1> SUFFICES ASSUME Init PROVE StartupInv
    OBVIOUS
  <1>1. Types
    <2>1. ifaces \in Lists /\ ifaces \in Seq(Interface) /\ sigPending \in BOOLEAN
      BY DEF Init
    <2>2. Len(ifaces) \in Nat
      BY <2>1
    <2>3. address \in 0 .. Len(ifaces) /\ backlog \in 0 .. MaxClients
          /\ sigLeft \in 0 .. MaxSignals
      BY <2>2 DEF Init
    <2>4. pc \in 1 .. 18 /\ edge \subseteq {"signals", "listener"}
          /\ exit \in {"no", "killed", "failed", "normal"}
      BY DEF Init
    <2> QED
      BY <2>1, <2>3, <2>4 DEF Types
  <1>2. Masked /\ Descriptors /\ Objects
    BY DEF Init, Masked, Descriptors, Objects
  <1>3. AddressSet /\ Ready /\ Ends
    BY DEF Init, AddressSet, Ready, Ends
  <1> QED
    BY <1>1, <1>2, <1>3 DEF StartupInv

(* The steps of main() but for the choice of the address and the return. *)
LEMMA MainKeeps ==
    ASSUME StartupInv, exit = "no", Main, ~Fails, ~SetAddrFromEth, ~EndInit
    PROVE  StartupInv'
  <1> USE StartupAssumption
  <1>0. pc \in 1 .. 18
    BY DEF StartupInv, Types
  <1>1. CASE InitEventable
    <2>1. pc = 1 /\ pc' = 2
      <3>1. At("InitEventable")
        BY <1>1 DEF InitEventable
      <3> QED
        BY <1>0, <3>1, Places
    <2>2. Types'
      BY <1>1, <2>1 DEF InitEventable, StartupInv, Types, world, counters, fds
    <2>3. Masked' /\ Descriptors' /\ Objects'
      BY <1>1, <2>1 DEF InitEventable, StartupInv, Masked, Descriptors, Objects, world, counters, fds
    <2>4. AddressSet' /\ Ready' /\ Ends'
      BY <1>1, <2>1 DEF InitEventable, StartupInv, Descriptors, AddressSet, Matches, Ready, Ends, world, counters, fds
    <2> QED
      BY <2>2, <2>3, <2>4 DEF StartupInv
  <1>2. CASE NewInit
    <2>1. pc = 2 /\ pc' = 3
      <3>1. At("Init")
        BY <1>2 DEF NewInit
      <3> QED
        BY <1>0, <3>1, Places
    <2>2. Types'
      BY <1>2, <2>1 DEF NewInit, StartupInv, Types, world, counters, fds
    <2>3. Masked' /\ Descriptors' /\ Objects'
      BY <1>2, <2>1 DEF NewInit, StartupInv, Masked, Descriptors, Objects, world, counters, fds
    <2>4. AddressSet' /\ Ready' /\ Ends'
      BY <1>2, <2>1 DEF NewInit, StartupInv, Descriptors, AddressSet, Matches, Ready, Ends, world, counters, fds
    <2> QED
      BY <2>2, <2>3, <2>4 DEF StartupInv
  <1>3. CASE Sigprocmask
    <2>1. pc = 3 /\ pc' = 4
      <3>1. At("sigprocmask")
        BY <1>3 DEF Sigprocmask
      <3> QED
        BY <1>0, <3>1, Places
    <2>2. Types'
      BY <1>3, <2>1 DEF Sigprocmask, StartupInv, Types, world, counters, fds
    <2>3. Masked' /\ Descriptors' /\ Objects'
      BY <1>3, <2>1 DEF Sigprocmask, StartupInv, Masked, Descriptors, Objects, world, counters, fds
    <2>4. AddressSet' /\ Ready' /\ Ends'
      BY <1>3, <2>1 DEF Sigprocmask, StartupInv, Descriptors, AddressSet, Matches, Ready, Ends, world, counters, fds
    <2> QED
      BY <2>2, <2>3, <2>4 DEF StartupInv
  <1>4. CASE Signalfd
    <2>1. pc = 4 /\ pc' = 5
      <3>1. At("signalfd")
        BY <1>4 DEF Signalfd
      <3> QED
        BY <1>0, <3>1, Places
    <2>2. Types'
      BY <1>4, <2>1 DEF Signalfd, StartupInv, Types, world, counters, fds
    <2>3. Masked' /\ Descriptors' /\ Objects'
      BY <1>4, <2>1 DEF Signalfd, StartupInv, Masked, Descriptors, Objects, world, counters, fds
    <2>4. AddressSet' /\ Ready' /\ Ends'
      BY <1>4, <2>1 DEF Signalfd, StartupInv, Descriptors, AddressSet, Matches, Ready, Ends, world, counters, fds
    <2> QED
      BY <2>2, <2>3, <2>4 DEF StartupInv
  <1>5. CASE AddSignals
    <2>1. pc = 5 /\ pc' = 6
      <3>1. At("AddSignals")
        BY <1>5 DEF AddSignals
      <3> QED
        BY <1>0, <3>1, Places
    <2>2. Types'
      BY <1>5, <2>1 DEF AddSignals, StartupInv, Types, world, counters, fds
    <2>3. Masked' /\ Descriptors' /\ Objects'
      BY <1>5, <2>1 DEF AddSignals, StartupInv, Masked, Descriptors, Objects, world, counters, fds
    <2>4. AddressSet' /\ Ready' /\ Ends'
      BY <1>5, <2>1 DEF AddSignals, StartupInv, Descriptors, AddressSet, Matches, Ready, Ends, world, counters, fds
    <2> QED
      BY <2>2, <2>3, <2>4 DEF StartupInv
  <1>6. CASE NewHttpListener
    <2>1. pc = 6 /\ pc' = 7
      <3>1. At("HttpListener")
        BY <1>6 DEF NewHttpListener
      <3> QED
        BY <1>0, <3>1, Places
    <2>2. Types'
      BY <1>6, <2>1 DEF NewHttpListener, StartupInv, Types, world, counters, fds
    <2>3. Masked' /\ Descriptors' /\ Objects'
      BY <1>6, <2>1 DEF NewHttpListener, StartupInv, Masked, Descriptors, Objects, world, counters, fds
    <2>4. AddressSet' /\ Ready' /\ Ends'
      BY <1>6, <2>1 DEF NewHttpListener, StartupInv, Descriptors, AddressSet, Matches, Ready, Ends, world, counters, fds
    <2> QED
      BY <2>2, <2>3, <2>4 DEF StartupInv
  <1>7. CASE ListenFdBecomes("socket", "open")
    <2>1. pc = 8 /\ pc' = 9
      <3>1. At("socket")
        BY <1>7 DEF ListenFdBecomes
      <3> QED
        BY <1>0, <3>1, Places
    <2>2. Types'
      BY <1>7, <2>1 DEF ListenFdBecomes, StartupInv, Types, world, counters, fds
    <2>3. Masked' /\ Descriptors' /\ Objects'
      BY <1>7, <2>1 DEF ListenFdBecomes, StartupInv, Masked, Descriptors, Objects, world, counters, fds
    <2>4. AddressSet' /\ Ready' /\ Ends'
      BY <1>7, <2>1 DEF ListenFdBecomes, StartupInv, Descriptors, AddressSet, Matches, Ready, Ends, world, counters, fds
    <2> QED
      BY <2>2, <2>3, <2>4 DEF StartupInv
  <1>8. CASE ListenFdBecomes("bind", "bound")
    <2>1. pc = 9 /\ pc' = 10
      <3>1. At("bind")
        BY <1>8 DEF ListenFdBecomes
      <3> QED
        BY <1>0, <3>1, Places
    <2>2. Types'
      BY <1>8, <2>1 DEF ListenFdBecomes, StartupInv, Types, world, counters, fds
    <2>3. Masked' /\ Descriptors' /\ Objects'
      BY <1>8, <2>1 DEF ListenFdBecomes, StartupInv, Masked, Descriptors, Objects, world, counters, fds
    <2>4. AddressSet' /\ Ready' /\ Ends'
      BY <1>8, <2>1 DEF ListenFdBecomes, StartupInv, Descriptors, AddressSet, Matches, Ready, Ends, world, counters, fds
    <2> QED
      BY <2>2, <2>3, <2>4 DEF StartupInv
  <1>9. CASE ListenFdBecomes("listen", "listening")
    <2>1. pc = 10 /\ pc' = 11
      <3>1. At("listen")
        BY <1>9 DEF ListenFdBecomes
      <3> QED
        BY <1>0, <3>1, Places
    <2>2. Types'
      BY <1>9, <2>1 DEF ListenFdBecomes, StartupInv, Types, world, counters, fds
    <2>3. Masked' /\ Descriptors' /\ Objects'
      BY <1>9, <2>1 DEF ListenFdBecomes, StartupInv, Masked, Descriptors, Objects, world, counters, fds
    <2>4. AddressSet' /\ Ready' /\ Ends'
      BY <1>9, <2>1 DEF ListenFdBecomes, StartupInv, Descriptors, AddressSet, Matches, Ready, Ends, world, counters, fds
    <2> QED
      BY <2>2, <2>3, <2>4 DEF StartupInv
  <1>10. CASE AddListener
    <2>1. pc = 11 /\ pc' = 12
      <3>1. At("AddListener")
        BY <1>10 DEF AddListener
      <3> QED
        BY <1>0, <3>1, Places
    <2>2. Types'
      BY <1>10, <2>1 DEF AddListener, StartupInv, Types, world, counters, fds
    <2>3. Masked' /\ Descriptors' /\ Objects'
      BY <1>10, <2>1 DEF AddListener, StartupInv, Masked, Descriptors, Objects, world, counters, fds
    <2>4. AddressSet' /\ Ready' /\ Ends'
      BY <1>10, <2>1 DEF AddListener, StartupInv, Descriptors, AddressSet, Matches, Ready, Ends, world, counters, fds
    <2> QED
      BY <2>2, <2>3, <2>4 DEF StartupInv
  <1>11. CASE CountListener
    <2>1. pc = 12 /\ pc' = 13
      <3>1. At("nListeners")
        BY <1>11 DEF CountListener
      <3> QED
        BY <1>0, <3>1, Places
    <2>2. Types'
      BY <1>11, <2>1 DEF CountListener, StartupInv, Types, world, counters, fds
    <2>3. Masked' /\ Descriptors' /\ Objects'
      BY <1>11, <2>1 DEF CountListener, StartupInv, Masked, Descriptors, Objects, world, counters, fds
    <2>4. AddressSet' /\ Ready' /\ Ends'
      BY <1>11, <2>1 DEF CountListener, StartupInv, Descriptors, AddressSet, Matches, Ready, Ends, world, counters, fds
    <2> QED
      BY <2>2, <2>3, <2>4 DEF StartupInv
  <1>12. CASE NewPlatform
    <2>1. pc = 13 /\ pc' = 14
      <3>1. At("platform")
        BY <1>12 DEF NewPlatform
      <3> QED
        BY <1>0, <3>1, Places
    <2>2. Types'
      BY <1>12, <2>1 DEF NewPlatform, StartupInv, Types, world, counters, fds
    <2>3. Masked' /\ Descriptors' /\ Objects'
      BY <1>12, <2>1 DEF NewPlatform, StartupInv, Masked, Descriptors, Objects, world, counters, fds
    <2>4. AddressSet' /\ Ready' /\ Ends'
      BY <1>12, <2>1 DEF NewPlatform, StartupInv, Descriptors, AddressSet, Matches, Ready, Ends, world, counters, fds
    <2> QED
      BY <2>2, <2>3, <2>4 DEF StartupInv
  <1>13. CASE CompileModule
    <2>1. pc = 14 /\ pc' = 15
      <3>1. At("CompileModule")
        BY <1>13 DEF CompileModule
      <3> QED
        BY <1>0, <3>1, Places
    <2>2. Types'
      BY <1>13, <2>1 DEF CompileModule, StartupInv, Types, world, counters, fds
    <2>3. Masked' /\ Descriptors' /\ Objects'
      BY <1>13, <2>1 DEF CompileModule, StartupInv, Masked, Descriptors, Objects, world, counters, fds
    <2>4. AddressSet' /\ Ready' /\ Ends'
      BY <1>13, <2>1 DEF CompileModule, StartupInv, Descriptors, AddressSet, Matches, Ready, Ends, world, counters, fds
    <2> QED
      BY <2>2, <2>3, <2>4 DEF StartupInv
  <1>14. CASE ShutdownPlatform
    <2>1. pc = 15 /\ pc' = 16
      <3>1. At("ShutdownPlatform")
        BY <1>14 DEF ShutdownPlatform
      <3> QED
        BY <1>0, <3>1, Places
    <2>2. Types'
      BY <1>14, <2>1 DEF ShutdownPlatform, StartupInv, Types, world, counters, fds
    <2>3. Masked' /\ Descriptors' /\ Objects'
      BY <1>14, <2>1 DEF ShutdownPlatform, StartupInv, Masked, Descriptors, Objects, world, counters, fds
    <2>4. AddressSet' /\ Ready' /\ Ends'
      BY <1>14, <2>1 DEF ShutdownPlatform, StartupInv, Descriptors, AddressSet, Matches, Ready, Ends, world, counters, fds
    <2> QED
      BY <2>2, <2>3, <2>4 DEF StartupInv
  <1>15. CASE Scheduler
    <2>1. pc = 16 /\ pc' = 17
      <3>1. At("Scheduler")
        BY <1>15 DEF Scheduler
      <3> QED
        BY <1>0, <3>1, Places
    <2>2. Types'
      <3>1. backlog' = 0 /\ sigPending' = FALSE /\ edge' = {}
            /\ UNCHANGED <<exit, address, ifaces, sigLeft>>
        BY <1>15 DEF Scheduler
      <3>2. backlog' \in 0 .. MaxClients /\ pc' \in 1 .. 18
        BY <2>1, <3>1
      <3>3. sigPending' \in BOOLEAN /\ edge' \subseteq {"signals", "listener"}
        BY <3>1
      <3> QED
        BY <3>1, <3>2, <3>3 DEF StartupInv, Types
    <2>3. Masked' /\ Descriptors' /\ Objects'
      BY <1>15, <2>1 DEF Scheduler, StartupInv, Masked, Descriptors, Objects, world, counters, fds
    <2>4. AddressSet' /\ Ready' /\ Ends'
      BY <1>15, <2>1 DEF Scheduler, StartupInv, Descriptors, AddressSet, Matches, Ready, Ends, world, counters, fds
    <2> QED
      BY <2>2, <2>3, <2>4 DEF StartupInv
  <1> QED
    BY <1>1, <1>2, <1>3, <1>4, <1>5, <1>6, <1>7, <1>8, <1>9, <1>10, <1>11, <1>12, <1>13, <1>14, <1>15 DEF Main

(* IpAddr::SetAddrFromEth. *)
LEMMA AddressKeeps ==
    ASSUME StartupInv, exit = "no", SetAddrFromEth
    PROVE  StartupInv'
  <1> USE StartupAssumption
  <1> DEFINE matching == {i \in DOMAIN ifaces : Matches(i)}
  <1>1. pc = 7 /\ pc' = 8
    <2>1. pc \in 1 .. 18
      BY DEF StartupInv, Types
    <2>2. At("SetAddrFromEth")
      BY DEF SetAddrFromEth
    <2> QED
      BY <2>1, <2>2, Places
  <1>2. /\ UNCHANGED <<unmasked, sigFd, listenFd, subscribers, nJobs, nSockets, nListeners,
                       ifaces, sigPending, backlog, edge, sigLeft>>
        /\ \/ exit' = "failed" /\ address' = address
           \/ matching # {} /\ address' = Max(matching) /\ exit' = "no"
    BY DEF SetAddrFromEth, world, counters
  <1>3. matching # {} => Max(matching) \in matching
    BY LastMatch DEF StartupInv, Types
  <1>4. exit' = "no" => address' \in DOMAIN ifaces /\ Matches(address')
    BY <1>2, <1>3
  <1> HIDE DEF matching
  <1>5. Types'
    BY <1>1, <1>2, <1>4 DEF StartupInv, Types
  <1>6. Masked' /\ Descriptors' /\ Objects'
    BY <1>1, <1>2 DEF StartupInv, Masked, Descriptors, Objects
  <1>7. AddressSet' /\ Ready' /\ Ends'
    BY <1>1, <1>2, <1>4 DEF StartupInv, Descriptors, AddressSet, Matches, Ready, Ends
  <1> QED
    BY <1>5, <1>6, <1>7 DEF StartupInv

(* ~Init. *)
LEMMA EndKeeps ==
    ASSUME StartupInv, exit = "no", EndInit
    PROVE  StartupInv'
  <1> USE StartupAssumption
  <1>1. pc = 17 /\ pc' = 18
    <2>1. pc \in 1 .. 18
      BY DEF StartupInv, Types
    <2>2. At("~Init")
      BY DEF EndInit
    <2> QED
      BY <2>1, <2>2, Places
  <1>2. "signals" \in Deleted /\ Cardinality(Deleted) = 2
    <2>1. IsFiniteSet({"init"}) /\ Cardinality({"init"}) = 1
      BY FS_Singleton
    <2> DEFINE S == {"init"}
    <2>2. "signals" \notin S
      OBVIOUS
    <2>3. IsFiniteSet(S) /\ Cardinality(S) = 1
      BY <2>1
    <2>4. Deleted = S \cup {"signals"}
      BY DEF Deleted
    <2> HIDE DEF S
    <2>5. Cardinality(Deleted) = 2
      <3>1. Cardinality(S \cup {"signals"}) = Cardinality(S) + 1
        BY <2>2, <2>3, FS_AddElement
      <3> QED
        BY <2>3, <2>4, <3>1
    <2> QED
      BY <2>4, <2>5
  <1>3. /\ sigFd' = "closed" /\ nSockets' = nSockets - 1 /\ nJobs' = nJobs - 2
        /\ edge' = edge \ {"signals"} /\ exit' = "normal"
        /\ UNCHANGED <<unmasked, listenFd, address, subscribers, nListeners, ifaces, sigPending,
                       backlog, sigLeft>>
    BY <1>2 DEF EndInit
  <1>4. Types'
    BY <1>1, <1>3 DEF StartupInv, Types
  <1>5. Masked' /\ Descriptors' /\ Objects'
    BY <1>1, <1>3 DEF StartupInv, Masked, Descriptors, Objects
  <1>6. AddressSet' /\ Ready' /\ Ends'
    BY <1>1, <1>3 DEF StartupInv, Descriptors, AddressSet, Matches, Ready, Ends
  <1> QED
    BY <1>4, <1>5, <1>6 DEF StartupInv

(* SIGINTs, clients, and a call that fails. *)
LEMMA WorldKeeps ==
    ASSUME StartupInv, exit = "no", Sigint \/ Connect \/ Fails
    PROVE  StartupInv'
  <1> USE StartupAssumption, StepsInOrder
  <1>1. CASE Sigint
    <2>1. Types'
      <3>1. sigLeft' \in 0 .. MaxSignals
        BY <1>1 DEF Sigint, StartupInv, Types
      <3>2. /\ exit' \in {"no", "killed"}
            /\ sigPending' = TRUE \/ sigPending' = sigPending
            /\ edge' \subseteq edge \cup {"signals"}
        BY <1>1 DEF Sigint
      <3>3. UNCHANGED <<pc, address, ifaces, backlog>>
        BY <1>1 DEF Sigint, fds
      <3> QED
        BY <3>1, <3>2, <3>3 DEF StartupInv, Types
    <2>2. Masked' /\ Descriptors' /\ Objects'
      BY <1>1 DEF Sigint, StartupInv, Masked, Descriptors, Objects, fds, counters
    <2>3. AddressSet' /\ Ready'
      BY <1>1 DEF Sigint, StartupInv, AddressSet, Matches, Ready, fds, counters
    <2>4. Ends'
      BY <1>1 DEF Sigint, StartupInv, Masked, Ends
    <2> QED
      BY <2>1, <2>2, <2>3, <2>4 DEF StartupInv
  <1>2. CASE Connect
    <2>1. Types'
      BY <1>2 DEF Connect, StartupInv, Types, fds, counters
    <2>2. Masked' /\ Descriptors' /\ Objects'
      BY <1>2 DEF Connect, StartupInv, Masked, Descriptors, Objects, fds, counters
    <2>3. AddressSet' /\ Ready' /\ Ends'
      BY <1>2 DEF Connect, StartupInv, AddressSet, Matches, Ready, Ends, fds, counters
    <2> QED
      BY <2>1, <2>2, <2>3 DEF StartupInv
  <1>3. CASE Fails
    <2>1. Types'
      BY <1>3 DEF Fails, StartupInv, Types, fds, counters, world
    <2>2. Masked' /\ Descriptors' /\ Objects'
      BY <1>3 DEF Fails, StartupInv, Masked, Descriptors, Objects, fds, counters, world
    <2>3. AddressSet' /\ Ready' /\ Ends'
      BY <1>3 DEF Fails, At, StartupInv, Types, AddressSet, Matches, Ready, Ends, fds, counters, world
    <2> QED
      BY <2>1, <2>2, <2>3 DEF StartupInv
  <1> QED
    BY <1>1, <1>2, <1>3

(* Every step of main() or of the world keeps the invariant. *)
LEMMA StartupStep == StartupInv /\ [Next]_vars => StartupInv'
  <1> SUFFICES ASSUME StartupInv, [Next]_vars PROVE StartupInv'
    OBVIOUS
  <1>1. CASE UNCHANGED vars
    BY <1>1 DEF vars, world, counters, fds, StartupInv, Types, Masked, Descriptors, Objects,
                AddressSet, Matches, Ready, Ends
  <1>2. CASE exit = "no" /\ (Sigint \/ Connect \/ Main)
    BY <1>2, WorldKeeps, MainKeeps, AddressKeeps, EndKeeps
  <1> QED
    BY <1>1, <1>2 DEF Next, Ended

(* The inductive invariant of the startup: each descriptor, counter and object *)
(* is a function of how far main() has come.                                   *)
THEOREM StartupKept == Spec => []StartupInv
  BY StartupStarts, StartupStep, PTL DEF Spec

(* Every variable of the startup keeps its type. *)
THEOREM StartupTyped == Spec => []TypeOK
  <1>1. ASSUME StartupInv PROVE TypeOK
    <2>1. unmasked \subseteq {"main", "worker"}
      BY <1>1 DEF StartupInv, Masked
    <2>0. Types /\ Descriptors /\ Objects /\ pc \in 1 .. 18
      BY <1>1 DEF StartupInv, Types
    <2>2. sigFd \in {"none", "open", "watched", "closed"}
      <3>1. CASE pc <= 4
        BY <2>0, <3>1 DEF Descriptors
      <3>2. CASE pc = 5
        BY <2>0, <3>2 DEF Descriptors
      <3>3. CASE pc \in 6 .. 17
        BY <2>0, <3>3 DEF Descriptors
      <3>4. CASE pc = 18
        BY <2>0, <3>4 DEF Descriptors
      <3> QED
        BY <2>0, <3>1, <3>2, <3>3, <3>4
    <2>3. listenFd \in {"none", "open", "bound", "listening", "watched", "closed"}
      <3>1. CASE pc <= 8
        BY <2>0, <3>1 DEF Descriptors
      <3>2. CASE pc \in 9 .. 11
        BY <2>0, <3>2 DEF Descriptors
      <3>3. CASE pc \in 12 .. 16
        BY <2>0, <3>3 DEF Descriptors
      <3>4. CASE pc \in 17 .. 18
        BY <2>0, <3>4 DEF Descriptors
      <3> QED
        BY <2>0, <3>1, <3>2, <3>3, <3>4
    <2>4. subscribers \in Seq({"init", "listener"})
      <3>1. subscribers = <<>> \/ subscribers = <<"init", "listener">>
        BY <1>1 DEF StartupInv, Objects
      <3>2. <<>> \in Seq({"init", "listener"}) /\ <<"init", "listener">> \in Seq({"init", "listener"})
        OBVIOUS
      <3> QED
        BY <3>1, <3>2
    <2>5. nJobs \in {0, 2, 3} /\ nListeners \in {0, 1}
      <3>1. CASE pc <= 6
        BY <2>0, <3>1 DEF Objects
      <3>2. CASE pc \in 7 .. 16
        BY <2>0, <3>2 DEF Objects
      <3>3. CASE pc \in 17 .. 18
        BY <2>0, <3>3 DEF Objects
      <3> QED
        BY <2>0, <3>1, <3>2, <3>3
    <2>6. nSockets \in {0, 1, 2}
      <3>1. CASE pc <= 5
        BY <2>0, <3>1 DEF Objects
      <3>2. CASE pc \in 6 .. 11
        BY <2>0, <3>2 DEF Objects
      <3>3. CASE pc \in 12 .. 16
        BY <2>0, <3>3 DEF Objects
      <3>4. CASE pc \in 17 .. 18
        BY <2>0, <3>4 DEF Objects
      <3> QED
        BY <2>0, <3>1, <3>2, <3>3, <3>4
    <2>7. pc \in 1 .. Len(Steps) + 1
      <3>1. Len(Steps) = 17
        BY StepsInOrder
      <3> QED
        BY <2>0, <3>1
    <2>8. nJobs \in Nat /\ nListeners \in Nat /\ nSockets \in Nat
      BY <2>5, <2>6
    <2> QED
      BY <2>0, <2>1, <2>2, <2>3, <2>4, <2>7, <2>8 DEF TypeOK, Types
  <1> QED
    BY <1>1, StartupKept, PTL

(* No SIGINT takes its default action once there is a descriptor to read it  *)
(* from (signals.cc:67, v8main.cc:115). *)
THEOREM InterruptsAreQueued == Spec => []InterruptQueued
  <1>1. ASSUME StartupInv, sigFd # "none" PROVE unmasked = {} /\ exit # "killed"
    <2>1. pc \in 1 .. 18 /\ ~(pc <= 4)
      BY <1>1 DEF StartupInv, Types, Descriptors
    <2>2. ~(pc <= 3)
      BY <2>1
    <2> QED
      BY <1>1, <2>2 DEF StartupInv, Masked, Ends
  <1>2. StartupInv => InterruptQueued
    BY <1>1 DEF InterruptQueued
  <1> QED
    BY <1>2, StartupKept, PTL

(* The scheduler starts as module Anticent does, and early clients and an    *)
(* early SIGINT have their wakeup (job.cc:174). *)
THEOREM HandedOff == Spec => []HandOff
  <1>1. ASSUME StartupInv PROVE HandOff
    <2> SUFFICES ASSUME pc \in DOMAIN Steps, Steps[pc] = "Scheduler", exit = "no" PROVE HandOff
      BY DEF HandOff
    <2>1. pc = 16
      BY StepsInOrder
    <2> QED
      BY <1>1, <2>1 DEF StartupInv, Types, Masked, Descriptors, Objects, Ready, HandOff
  <1> QED
    BY <1>1, StartupKept, PTL

(* Whatever interfaces there are, a socket is bound only to an IPv4 address  *)
(* of eno1 (ipaddr.cc:57). *)
THEOREM EthIsBound == Spec => []BoundToEth
  <1>1. ASSUME StartupInv PROVE BoundToEth
    <2> SUFFICES ASSUME listenFd \in {"bound", "listening", "watched"} PROVE BoundToEth
      BY DEF BoundToEth
    <2>1. pc > 8
      <3>1. pc <= 8 => listenFd = "none"
        BY <1>1 DEF StartupInv, Descriptors
      <3>2. pc \in 1 .. 18
        BY <1>1 DEF StartupInv, Types
      <3> QED
        BY <3>1, <3>2
    <2>2. address \in DOMAIN ifaces /\ Matches(address) /\ ifaces \in Seq(Interface)
      BY <1>1, <2>1, StartupAssumption DEF StartupInv, Types, AddressSet
    <2>3. address # 0 /\ ifaces[address] \in Interface
      BY <2>2
    <2>4. ifaces[address] = [name |-> "eno1", family |-> "IP4"]
      BY <2>2, <2>3 DEF Matches, Interface
    <2> QED
      BY <2>3, <2>4 DEF BoundToEth
  <1> QED
    BY <1>1, StartupKept, PTL

(* A process that ends normally has its counters back at 0, and has closed   *)
(* the descriptors of the signals and of the listener: what Scheduler leaves *)
(* behind is what ~Init (init.cc:27-30) takes away, each once. *)
THEOREM EndsClean == Spec => []CleanEnd
  <1>1. StartupInv => CleanEnd
    BY DEF StartupInv, Descriptors, Objects, Ends, CleanEnd
  <1> QED
    BY <1>1, StartupKept, PTL
=============================================================================
