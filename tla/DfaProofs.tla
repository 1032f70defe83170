------------------------------ MODULE DfaProofs ------------------------------
(* Proofs about the machine of lex.cc, for every alphabet and for whatever   *)
(* positions, followpos and first state a parser leaves (module Dfa); and    *)
(* about the nodes of its syntax tree (module SyntaxNodes).                  *)
EXTENDS Dfa, SyntaxNodes, Extremes, FiniteSetTheorems, SequenceTheorems

-----------------------------------------------------------------------------
(* Symbols, moves and sequences *)

(* Three symbols before a sequence and two after it. *)
LEMMA Around ==
    ASSUME NEW T, NEW s \in Seq(T),
           NEW a \in T, NEW b \in T, NEW c \in T, NEW d \in T, NEW e \in T
    PROVE  /\ <<a, b, c>> \o s \o <<d, e>> \in Seq(T)
           /\ Len(<<a, b, c>> \o s \o <<d, e>>) = Len(s) + 5
  OBVIOUS

(* The loop over iChar meets every symbol a position can hold, once. *)
LEMMA SymOnce ==
    /\ Sym \in Seq(Symbols)
    /\ Len(Sym) \in Nat \ {0}
    /\ DOMAIN Sym = 1 .. Len(Sym)
    /\ Symbols = {Sym[c] : c \in DOMAIN Sym}
    /\ \A c, d \in DOMAIN Sym : Sym[c] = Sym[d] => c = d
  <1> USE DfaAssumption DEF SENTINEL
  <1> DEFINE n == Len(Letters)
  <1>1. n \in Nat /\ DOMAIN Letters = 1 .. n
    OBVIOUS
  <1> DEFINE T == {Letters[i] : i \in DOMAIN Letters} \cup {"(", ")", "*", "|", "SENTINEL"}
  <1>2. Sym \in Seq(T) /\ Len(Sym) = n + 5
    <2>1. Letters \in Seq(T)
      BY <1>1
    <2>2. "(" \in T /\ ")" \in T /\ "*" \in T /\ "|" \in T /\ "SENTINEL" \in T
      OBVIOUS
    <2> HIDE DEF T
    <2> QED
      BY <2>1, <2>2, Around DEF Sym
  <1>3. DOMAIN Sym = 1 .. Len(Sym)
    BY <1>2
  <1>4. /\ Sym[1] = "(" /\ Sym[2] = ")" /\ Sym[3] = "*"
        /\ \A c \in 4 .. n + 3 : Sym[c] = Letters[c - 3]
        /\ Sym[n + 4] = "|" /\ Sym[n + 5] = "SENTINEL"
    BY <1>1 DEF Sym
  <1>5. Symbols = {Sym[c] : c \in DOMAIN Sym}
    BY DEF Symbols, ToSet
  <1>6. Sym \in Seq(Symbols)
    BY <1>2, <1>3, <1>5
  <1>7. \A c, d \in DOMAIN Sym : Sym[c] = Sym[d] => c = d
    <2> SUFFICES ASSUME NEW c \in DOMAIN Sym, NEW d \in DOMAIN Sym, Sym[c] = Sym[d]
                 PROVE  c = d
      OBVIOUS
    <2>1. \A e \in DOMAIN Sym : e \in {1, 2, 3, n + 4, n + 5} \/ e \in 4 .. n + 3
      BY <1>1, <1>2, <1>3
    <2>2. \A e \in 4 .. n + 3 :
              e - 3 \in DOMAIN Letters
              /\ Sym[e] \notin {"(", ")", "*", "|", "SENTINEL"}
      BY <1>1, <1>4
    <2>3. CASE c \in 4 .. n + 3 /\ d \in 4 .. n + 3
      <3>1. Letters[c - 3] = Letters[d - 3]
        BY <1>4, <2>3
      <3>2. c - 3 = d - 3
        BY <2>2, <2>3, <3>1
      <3> QED
        BY <1>1, <2>3, <3>2
    <2>4. CASE c \notin 4 .. n + 3 /\ d \notin 4 .. n + 3
      BY <1>4, <2>1, <2>4
    <2>5. CASE ~(c \in 4 .. n + 3 <=> d \in 4 .. n + 3)
      BY <1>4, <2>1, <2>2, <2>5
    <2> QED
      BY <2>3, <2>4, <2>5
  <1> QED
    BY <1>1, <1>2, <1>3, <1>5, <1>6, <1>7

(* The positions that follow those of a state are positions. *)
LEMMA MovesOf ==
    ASSUME followpos \in [DOMAIN positions -> SUBSET DOMAIN positions],
           NEW S \in SUBSET DOMAIN positions, NEW symbol
    PROVE  Moves(S, symbol) \in SUBSET DOMAIN positions
  <1>1. \A p \in S : followpos[p] \in SUBSET DOMAIN positions
    OBVIOUS
  <1> QED
    BY <1>1 DEF Moves

(* What is among them. *)
LEMMA InMoves ==
    ASSUME NEW S, NEW symbol, NEW q
    PROVE  q \in Moves(S, symbol)
           <=> \E p \in S : positions[p] = symbol /\ q \in followpos[p]
  BY DEF Moves

(* GetStateNum finds the state, or the number the state will have. *)
LEMMA StateNum ==
    ASSUME NEW K, NEW ss \in Seq(K), NEW new
    PROVE  \/ /\ GetStateNum(ss, new) \in DOMAIN ss
              /\ ss[GetStateNum(ss, new)] = new
           \/ /\ GetStateNum(ss, new) = Len(ss) + 1
              /\ \A i \in DOMAIN ss : ss[i] # new
  BY DEF GetStateNum

(* Append adds one element at the end. *)
LEMMA Appended ==
    ASSUME NEW K, NEW s \in Seq(K), NEW x \in K
    PROVE  /\ Append(s, x) \in Seq(K)
           /\ Len(Append(s, x)) = Len(s) + 1
           /\ DOMAIN Append(s, x) = 1 .. Len(s) + 1
           /\ DOMAIN s = 1 .. Len(s)
           /\ Len(s) \in Nat
           /\ \A i \in DOMAIN s : Append(s, x)[i] = s[i]
           /\ Append(s, x)[Len(s) + 1] = x
           /\ ToSet(Append(s, x)) = ToSet(s) \cup {x}
  <1>1. /\ Append(s, x) \in Seq(K)
        /\ Len(Append(s, x)) = Len(s) + 1
        /\ DOMAIN s = 1 .. Len(s)
        /\ Len(s) \in Nat
        /\ \A i \in DOMAIN s : Append(s, x)[i] = s[i]
        /\ Append(s, x)[Len(s) + 1] = x
    OBVIOUS
  <1>2. DOMAIN Append(s, x) = 1 .. Len(s) + 1
    BY <1>1
  <1>3. ToSet(Append(s, x)) = ToSet(s) \cup {x}
    <2> HIDE DEF ToSet
    <2>1. \A y : y \in ToSet(Append(s, x)) <=> \E i \in 1 .. Len(s) + 1 : Append(s, x)[i] = y
      BY <1>2 DEF ToSet
    <2>2. \A y : y \in ToSet(s) <=> \E i \in 1 .. Len(s) : s[i] = y
      BY <1>1 DEF ToSet
    <2>3. \A i \in 1 .. Len(s) + 1 : i \in 1 .. Len(s) \/ i = Len(s) + 1
      BY <1>1
    <2>4. 1 .. Len(s) \subseteq 1 .. Len(s) + 1 /\ Len(s) + 1 \in 1 .. Len(s) + 1
      BY <1>1
    <2> QED
      BY <1>1, <2>1, <2>2, <2>3, <2>4
  <1> QED
    BY <1>1, <1>2, <1>3

(* A sequence over a set is one over a larger set. *)
LEMMA Widened ==
    ASSUME NEW K, NEW L, K \subseteq L, NEW s \in Seq(K)
    PROVE  s \in Seq(L)
  OBVIOUS

(* A property of every element of a sequence, by way of its set. *)
LEMMA Elements ==
    ASSUME NEW K, NEW s \in Seq(K)
    PROVE  /\ \A i \in DOMAIN s : s[i] \in ToSet(s) /\ s[i] \in K
           /\ \A t \in ToSet(s) : t \in K /\ \E i \in DOMAIN s : t = s[i]
  BY DEF ToSet
-----------------------------------------------------------------------------
(* The inductive invariant *)

\* Before CreateDfa, and where parsing failed, the machine is empty.
Blank ==
    phase \in {"ParseRegex", "CalculateFollowPos", "Fail", "assert"} =>
        /\ states = <<>> /\ transitions = <<>>
        /\ iState = 1 /\ iChar = 1 /\ emitted = 0

\* Where the loops of CreateDfa are there are no transitions yet.
Ahead ==
    phase = "CreateDfa" =>
        /\ emitted = 0
        /\ \A t \in ToSet(transitions) :
              \/ t.from < iState
              \/ t.from = iState /\ \E c \in 1 .. iChar - 1 : t.on = Sym[c]

\* GenerateMachine has printed the transitions of the states it is through with.
InStep ==
    phase = "GenerateMachine" =>
        \A k \in DOMAIN transitions : k <= emitted <=> transitions[k].from < iState

\* Whoever calls CreateDfa leaves it the first state.
Begun == phase \in {"CreateDfa", "GenerateMachine", "done", "overrun"} => Len(states) >= 1

DfaInv ==
    /\ DfaTypeOK /\ Blank /\ Begun /\ Ahead /\ InStep
    /\ MachineWellFormed /\ SwitchComplete

(* Nothing has run yet. *)
LEMMA DfaStarts == DfaInit => DfaInv
  <1> SUFFICES ASSUME DfaInit PROVE DfaInv
    OBVIOUS
  <1>1. DfaTypeOK
    BY SymOnce DEF DfaInit, DfaTypeOK
  <1>2. Blank /\ Begun /\ Ahead /\ InStep /\ SwitchComplete
    BY DEF DfaInit, Blank, Begun, Ahead, InStep, SwitchComplete
  <1>3. MachineWellFormed
    BY DEF DfaInit, MachineWellFormed, StatesDistinct, StatesReached, MovesExact,
           TransitionsOrdered, ToSet
  <1> QED
    BY <1>1, <1>2, <1>3 DEF DfaInv

(* Any parser leaves one state at most, and no transition. *)
LEMMA PrepareKeeps ==
    ASSUME DfaInv, Prepare
    PROVE  DfaInv'
  <1>1. /\ states = <<>> /\ transitions = <<>> /\ transitions' = transitions
        /\ iState = 1 /\ iState' = 1 /\ iChar = 1 /\ iChar' = 1
        /\ emitted = 0 /\ emitted' = 0
    BY DEF DfaInv, Blank, Prepare
  <1>2. /\ phase' \in {"CalculateFollowPos", "Fail", "assert", "CreateDfa"}
        /\ IF phase' = "CreateDfa" THEN Len(states') = 1 ELSE states' = states
        /\ states' \in Seq((SUBSET DOMAIN positions') \ {{}})
        /\ Len(states') \in {0, 1}
        /\ DOMAIN states' = 1 .. Len(states')
    <2>1. CASE UNCHANGED states
      BY <1>1, <2>1 DEF Prepare
    <2>2. CASE ~UNCHANGED states
      BY <1>1, <2>2 DEF Prepare
    <2> QED
      BY <2>1, <2>2
  <1>3. DfaTypeOK'
    BY <1>1, <1>2, SymOnce DEF DfaTypeOK, Prepare
  <1>4. Blank' /\ Begun' /\ Ahead' /\ InStep' /\ SwitchComplete'
    BY <1>1, <1>2 DEF Blank, Begun, Ahead, InStep, SwitchComplete, ToSet
  <1>5. MachineWellFormed'
    <2>1. \A i \in DOMAIN states' : i = 1
      BY <1>2
    <2>2. \A i \in DOMAIN states', c \in DOMAIN Sym : ~Expanded(i, c)'
      BY <1>1, <1>2, <2>1, SymOnce DEF Expanded
    <2>3. DOMAIN transitions' = {} /\ ToSet(transitions') = {}
      BY <1>1 DEF ToSet
    <2> QED
      BY <2>1, <2>2, <2>3 DEF MachineWellFormed, StatesDistinct, StatesReached,
                              MovesExact, TransitionsOrdered
  <1> QED
    BY <1>3, <1>4, <1>5 DEF DfaInv

(* What a turn of CreateDfa's inner loop starts from. *)
LEMMA InnerLoop ==
    ASSUME DfaInv, CreateDfa
    PROVE  /\ Len(states) \in Nat /\ DOMAIN states = 1 .. Len(states)
           /\ Len(transitions) \in Nat /\ DOMAIN transitions = 1 .. Len(transitions)
           /\ iState \in DOMAIN states
           /\ states[iState] \in SUBSET DOMAIN positions
           /\ iChar \in DOMAIN Sym /\ Sym[iChar] \in Symbols
           /\ Moves(states[iState], Sym[iChar]) \in SUBSET DOMAIN positions
           /\ \A t \in ToSet(transitions) :
                 /\ t.from \in DOMAIN states /\ t.to \in DOMAIN states
                 /\ t.from <= iState
  <1>1. /\ Len(states) \in Nat /\ DOMAIN states = 1 .. Len(states)
        /\ Len(transitions) \in Nat /\ DOMAIN transitions = 1 .. Len(transitions)
        /\ iState \in DOMAIN states
    BY DEF DfaInv, DfaTypeOK, CreateDfa
  <1>2. states[iState] \in SUBSET DOMAIN positions
    BY <1>1 DEF DfaInv, DfaTypeOK
  <1>3. iChar \in DOMAIN Sym /\ Sym[iChar] \in Symbols
    BY SymOnce DEF DfaInv, DfaTypeOK
  <1>4. Moves(states[iState], Sym[iChar]) \in SUBSET DOMAIN positions
    BY <1>2, MovesOf DEF DfaInv, DfaTypeOK
  <1>5. \A t \in ToSet(transitions) : t.from \in DOMAIN states /\ t.to \in DOMAIN states
    <2> DEFINE K == [from : DOMAIN states, on : Symbols, to : DOMAIN states]
    <2>1. transitions \in Seq(K)
      BY DEF DfaInv, DfaTypeOK
    <2>2. \A t \in K : t.from \in DOMAIN states /\ t.to \in DOMAIN states
      OBVIOUS
    <2> HIDE DEF K
    <2> QED
      BY <2>1, <2>2, Elements
  <1>6. \A t \in ToSet(transitions) : t.from <= iState
    BY <1>1, <1>5 DEF DfaInv, Ahead, CreateDfa
  <1> QED
    BY <1>1, <1>2, <1>3, <1>4, <1>5, <1>6

(* What a turn does to the loops. *)
LEMMA InnerLoopTurns ==
    ASSUME DfaInv, CreateDfa, Len(states') \in Nat, Len(states) <= Len(states')
    PROVE  /\ iState' \in 1 .. Len(states') + 1 /\ iChar' \in DOMAIN Sym
           /\ \A i \in Nat, c \in DOMAIN Sym :
                 Expanded(i, c)' <=> i < iState \/ (i = iState /\ c <= iChar)
           /\ \/ iState' = iState /\ iChar' = iChar + 1
              \/ iState' = iState + 1 /\ iChar = Len(Sym)
  <1>1. /\ phase = "CreateDfa" /\ phase' = "CreateDfa"
        /\ iChar' = IF iChar < Len(Sym) THEN iChar + 1 ELSE 1
        /\ iState' = IF iChar < Len(Sym) THEN iState ELSE iState + 1
    BY DEF CreateDfa
  <1>2. iState \in 1 .. Len(states) /\ iChar \in 1 .. Len(Sym) /\ Len(Sym) \in Nat \ {0}
        /\ DOMAIN Sym = 1 .. Len(Sym) /\ Len(states) \in Nat
    BY InnerLoop, SymOnce
  <1>3. CASE iChar < Len(Sym)
    <2>1. iState' = iState /\ iChar' = iChar + 1
      BY <1>1, <1>3
    <2> QED
      BY <1>1, <1>2, <1>3, <2>1 DEF Expanded
  <1>4. CASE ~(iChar < Len(Sym))
    <2>1. iState' = iState + 1 /\ iChar' = 1
      BY <1>1, <1>4
    <2>2. iChar = Len(Sym)
      <3>1. iChar \in Int /\ Len(Sym) \in Int /\ iChar <= Len(Sym)
        BY <1>2
      <3> QED
        BY <1>4, <3>1
    <2> QED
      BY <1>1, <1>2, <2>1, <2>2 DEF Expanded
  <1> QED
    BY <1>3, <1>4

(* A move to no position at all adds nothing. *)
LEMMA NoMoveKeeps ==
    ASSUME DfaInv, CreateDfa, Moves(states[iState], Sym[iChar]) = {}
    PROVE  DfaInv'
  <1>1. UNCHANGED <<phase, positions, followpos, states, transitions, emitted>>
        /\ phase = "CreateDfa"
    BY DEF CreateDfa
  <1>2. /\ iState' \in 1 .. Len(states) + 1 /\ iChar' \in DOMAIN Sym
        /\ \A i \in Nat, c \in DOMAIN Sym :
              Expanded(i, c)' <=> i < iState \/ (i = iState /\ c <= iChar)
        /\ \/ iState' = iState /\ iChar' = iChar + 1
           \/ iState' = iState + 1 /\ iChar = Len(Sym)
    BY <1>1, InnerLoop, InnerLoopTurns
  <1>3. DfaTypeOK'
    BY <1>1, <1>2 DEF DfaInv, DfaTypeOK
  <1>4. Blank' /\ Begun' /\ InStep' /\ SwitchComplete'
    BY <1>1 DEF DfaInv, Blank, Begun, InStep, SwitchComplete
  <1>5. Ahead'
    <2> SUFFICES ASSUME NEW t \in ToSet(transitions)
                 PROVE  \/ t.from < iState'
                        \/ t.from = iState' /\ \E c \in 1 .. iChar' - 1 : t.on = Sym[c]
      BY <1>1 DEF DfaInv, Ahead
    <2>1. t.from < iState \/ (t.from = iState /\ \E c \in 1 .. iChar - 1 : t.on = Sym[c])
      BY <1>1 DEF DfaInv, Ahead
    <2>2. t.from \in Nat /\ iState \in Nat /\ iChar \in Nat
      BY InnerLoop, SymOnce
    <2> QED
      BY <1>2, <2>1, <2>2
  <1>6. MovesExact'
    <2>1. \A S, x : Moves(S, x)' = Moves(S, x)
      BY <1>1 DEF Moves
    <2>2. \A t \in ToSet(transitions) : states[t.to] = Moves(states[t.from], t.on)
      BY DEF DfaInv, MachineWellFormed, MovesExact
    <2>3. ASSUME NEW i \in DOMAIN states, NEW c \in DOMAIN Sym,
                 Expanded(i, c)', Moves(states[i], Sym[c]) # {}
          PROVE  \E t \in ToSet(transitions) : t.from = i /\ t.on = Sym[c]
      <3>1. i < iState \/ (i = iState /\ c < iChar)
        BY <1>2, <2>3, InnerLoop, SymOnce
      <3>2. Expanded(i, c)
        BY <1>1, <3>1 DEF Expanded
      <3> QED
        BY <2>3, <3>2 DEF DfaInv, MachineWellFormed, MovesExact
    <2> QED
      BY <1>1, <2>1, <2>2, <2>3 DEF MovesExact
  <1>7. StatesDistinct' /\ StatesReached' /\ TransitionsOrdered'
    BY <1>1 DEF DfaInv, MachineWellFormed, StatesDistinct, StatesReached, TransitionsOrdered
  <1> QED
    BY <1>3, <1>4, <1>5, <1>6, <1>7 DEF DfaInv, MachineWellFormed

(* What a move to new positions adds: one transition, and a state where no  *)
(* state is those positions yet.                                             *)
LEMMA MoveAdds ==
    ASSUME DfaInv, CreateDfa, Moves(states[iState], Sym[iChar]) # {}
    PROVE  \E num \in 1 .. Len(states) + 1 :
              /\ transitions' = Append(transitions,
                                       [from |-> iState, on |-> Sym[iChar], to |-> num])
              /\ states' \in Seq((SUBSET DOMAIN positions) \ {{}})
              /\ Len(states') \in Nat /\ DOMAIN states' = 1 .. Len(states')
              /\ \A i \in DOMAIN states : states'[i] = states[i]
              /\ states'[num] = Moves(states[iState], Sym[iChar])
              /\ \/ Len(states') = Len(states) /\ num \in DOMAIN states
                 \/ /\ Len(states') = Len(states) + 1 /\ num = Len(states) + 1
                    /\ \A i \in DOMAIN states : states[i] # states'[num]
  <1> DEFINE new == Moves(states[iState], Sym[iChar])
             num == GetStateNum(states, new)
             K == (SUBSET DOMAIN positions) \ {{}}
             Adds(m) ==
                /\ transitions' = Append(transitions,
                                         [from |-> iState, on |-> Sym[iChar], to |-> m])
                /\ states' \in Seq(K)
                /\ Len(states') \in Nat /\ DOMAIN states' = 1 .. Len(states')
                /\ \A i \in DOMAIN states : states'[i] = states[i]
                /\ states'[m] = new
                /\ \/ Len(states') = Len(states) /\ m \in DOMAIN states
                   \/ /\ Len(states') = Len(states) + 1 /\ m = Len(states) + 1
                      /\ \A i \in DOMAIN states : states[i] # states'[m]
  <1>1. /\ transitions' = Append(transitions,
                                 [from |-> iState, on |-> Sym[iChar], to |-> num])
        /\ states' = IF num > Len(states) THEN Append(states, new) ELSE states
    BY DEF CreateDfa
  <1>2. states \in Seq(K)
    BY DEF DfaInv, DfaTypeOK
  <1>3. new \in K
    BY InnerLoop
  <1> SUFFICES \E m \in 1 .. Len(states) + 1 : Adds(m)
    OBVIOUS
  <1> HIDE DEF new, K
  <1>4. \/ num \in DOMAIN states /\ states[num] = new
        \/ num = Len(states) + 1 /\ \A i \in DOMAIN states : states[i] # new
    BY <1>2, <1>3, StateNum
  <1> HIDE DEF num
  <1>5. Len(states) \in Nat /\ DOMAIN states = 1 .. Len(states)
    BY <1>2
  <1>6. CASE num \in DOMAIN states /\ states[num] = new
    <2>1. states' = states
      <3>1. num \in Int /\ Len(states) \in Int /\ num <= Len(states)
        BY <1>5, <1>6
      <3> QED
        BY <1>1, <3>1
    <2>2. num \in 1 .. Len(states) + 1
      BY <1>5, <1>6
    <2>3. Adds(num)
      BY <1>1, <1>2, <1>5, <1>6, <2>1
    <2> QED
      BY <2>2, <2>3
  <1>7. CASE num = Len(states) + 1 /\ \A i \in DOMAIN states : states[i] # new
    <2>1. states' = Append(states, new)
      <3>1. num > Len(states)
        BY <1>5, <1>7
      <3> QED
        BY <1>1, <3>1
    <2>2. /\ states' \in Seq(K)
          /\ Len(states') = Len(states) + 1 /\ DOMAIN states' = 1 .. Len(states) + 1
          /\ \A i \in DOMAIN states : states'[i] = states[i]
          /\ states'[Len(states) + 1] = new
      BY <1>2, <1>3, <2>1, Appended
    <2>3. num \in 1 .. Len(states) + 1 /\ Len(states') \in Nat
      BY <1>5, <1>7, <2>2
    <2>4. Adds(num)
      BY <1>1, <1>7, <2>2, <2>3
    <2> QED
      BY <2>3, <2>4
  <1> QED
    BY <1>4, <1>6, <1>7

(* A move to new positions keeps the automaton well formed. *)
LEMMA MoveKeeps ==
    ASSUME DfaInv, CreateDfa, Moves(states[iState], Sym[iChar]) # {}
    PROVE  DfaInv'
  <1>1. UNCHANGED <<phase, positions, followpos, emitted>> /\ phase = "CreateDfa"
    BY DEF CreateDfa
  <1> DEFINE new == Moves(states[iState], Sym[iChar])
             n == Len(states)
  <1>2. PICK num \in 1 .. n + 1 :
            /\ transitions' = Append(transitions,
                                     [from |-> iState, on |-> Sym[iChar], to |-> num])
            /\ states' \in Seq((SUBSET DOMAIN positions) \ {{}})
            /\ Len(states') \in Nat /\ DOMAIN states' = 1 .. Len(states')
            /\ \A i \in DOMAIN states : states'[i] = states[i]
            /\ states'[num] = new
            /\ \/ Len(states') = n /\ num \in DOMAIN states
               \/ /\ Len(states') = n + 1 /\ num = n + 1
                  /\ \A i \in DOMAIN states : states[i] # states'[num]
    BY MoveAdds
  <1> DEFINE move == [from |-> iState, on |-> Sym[iChar], to |-> num]
             K == [from : DOMAIN states', on : Symbols, to : DOMAIN states']
  <1>3. /\ n \in Nat /\ DOMAIN states = 1 .. n /\ DOMAIN states \subseteq DOMAIN states'
        /\ n <= Len(states') /\ num \in DOMAIN states'
        /\ \A i \in DOMAIN states' : i \in DOMAIN states \/ i = num
    <2>1. n \in Nat /\ DOMAIN states = 1 .. n /\ DOMAIN states' = 1 .. Len(states')
      BY <1>2, InnerLoop
    <2>2. CASE Len(states') = n /\ num \in DOMAIN states
      <3>1. DOMAIN states' = DOMAIN states
        BY <2>1, <2>2
      <3> QED
        BY <2>1, <2>2, <3>1
    <2>3. CASE Len(states') = n + 1 /\ num = n + 1
      <3>1. DOMAIN states' = 1 .. n + 1
        BY <2>1, <2>3
      <3> QED
        BY <2>1, <2>3, <3>1
    <2> QED
      BY <1>2, <2>2, <2>3
  <1>4. /\ iState' \in 1 .. Len(states') + 1 /\ iChar' \in DOMAIN Sym
        /\ \A i \in Nat, c \in DOMAIN Sym :
              Expanded(i, c)' <=> i < iState \/ (i = iState /\ c <= iChar)
        /\ \/ iState' = iState /\ iChar' = iChar + 1
           \/ iState' = iState + 1 /\ iChar = Len(Sym)
    BY <1>2, <1>3, InnerLoopTurns
  <1>5. /\ iState \in DOMAIN states /\ iChar \in DOMAIN Sym /\ iChar \in Nat
        /\ Sym[iChar] \in Symbols
        /\ Len(transitions) \in Nat /\ DOMAIN transitions = 1 .. Len(transitions)
    BY InnerLoop, SymOnce
  <1>6. move \in K
    BY <1>3, <1>5
  <1>7. transitions \in Seq(K)
    <2>1. transitions \in Seq([from : DOMAIN states, on : Symbols, to : DOMAIN states])
      BY DEF DfaInv, DfaTypeOK
    <2>2. [from : DOMAIN states, on : Symbols, to : DOMAIN states] \subseteq K
      BY <1>3
    <2> QED
      BY <2>1, <2>2, Widened
  <1>8. transitions' = Append(transitions, move)
    BY <1>2
  <1>9. move.from = iState /\ move.on = Sym[iChar] /\ move.to = num
    OBVIOUS
  <1> HIDE DEF K, move
  <1>10. /\ transitions' \in Seq(K)
         /\ Len(transitions') = Len(transitions) + 1
         /\ DOMAIN transitions' = 1 .. Len(transitions) + 1
         /\ \A k \in DOMAIN transitions : transitions'[k] = transitions[k]
         /\ transitions'[Len(transitions) + 1] = move
         /\ ToSet(transitions') = ToSet(transitions) \cup {move}
    BY <1>6, <1>7, <1>8, Appended
  <1>11. \A t \in ToSet(transitions) :
            /\ t.from \in DOMAIN states /\ t.to \in DOMAIN states
            /\ t.from < iState
               \/ (t.from = iState /\ \E c \in 1 .. iChar - 1 : t.on = Sym[c])
    BY <1>1, InnerLoop DEF DfaInv, Ahead
  <1>12. DfaTypeOK'
    <2>1. emitted \in 0 .. Len(transitions) + 1
      BY <1>5 DEF DfaInv, DfaTypeOK
    <2> QED
      BY <1>1, <1>2, <1>4, <1>10, <2>1 DEF DfaInv, DfaTypeOK, K
  <1>13. Blank' /\ Begun' /\ InStep' /\ SwitchComplete'
    <2>1. Len(states') >= 1
      <3>1. n >= 1
        BY <1>1 DEF DfaInv, Begun
      <3>2. n \in Int /\ n <= Len(states')
        BY <1>3
      <3>3. Len(states') \in Nat /\ DOMAIN states' = 1 .. Len(states')
        BY <1>2, Zenon
      <3> QED
        BY <3>1, <3>2, <3>3
    <2> QED
      BY <1>1, <2>1 DEF Blank, Begun, InStep, SwitchComplete
  <1>14. Ahead'
    <2> SUFFICES ASSUME NEW t \in ToSet(transitions) \cup {move}
                 PROVE  \/ t.from < iState'
                        \/ t.from = iState' /\ \E c \in 1 .. iChar' - 1 : t.on = Sym[c]
      BY <1>1, <1>10 DEF DfaInv, Ahead
    <2>1. CASE t = move
      <3>1. iState < iState + 1 /\ iChar \in 1 .. iChar
        BY <1>3, <1>5, SymOnce
      <3>2. iChar + 1 - 1 = iChar
        BY <1>5
      <3>3. t.from = iState /\ t.on = Sym[iChar]
        BY <1>9, <2>1
      <3> QED
        BY <1>4, <3>1, <3>2, <3>3
    <2>2. CASE t \in ToSet(transitions)
      <3>1. t.from \in Nat /\ iState \in Nat
        BY <1>3, <1>5, <1>11, <2>2
      <3> QED
        BY <1>4, <1>5, <1>11, <2>2, <3>1
    <2> QED
      BY <2>1, <2>2
  <1>15. StatesDistinct'
    BY <1>2, <1>3 DEF DfaInv, MachineWellFormed, StatesDistinct
  <1>16. StatesReached'
    <2> SUFFICES ASSUME NEW i \in DOMAIN states' \ {1}
                 PROVE  \E t \in ToSet(transitions') : t.to = i /\ t.from < i
      BY DEF StatesReached
    <2>1. CASE i \in DOMAIN states
      BY <1>10, <2>1 DEF DfaInv, MachineWellFormed, StatesReached
    <2>2. CASE i \notin DOMAIN states
      <3>1. i = num /\ num = n + 1
        BY <1>2, <1>3, <2>2
      <3>2. move.to = i /\ move.from < i
        BY <1>3, <1>5, <1>9, <3>1
      <3> QED
        BY <1>10, <3>2
    <2> QED
      BY <2>1, <2>2
  <1>17. MovesExact'
    <2>1. \A S, x : Moves(S, x)' = Moves(S, x)
      BY <1>1 DEF Moves
    <2>2. ASSUME NEW t \in ToSet(transitions')
          PROVE  states'[t.to] = Moves(states'[t.from], t.on)
      <3>1. CASE t = move
        BY <1>2, <1>5, <1>9, <3>1
      <3>2. CASE t \in ToSet(transitions)
        BY <1>2, <1>11, <3>2 DEF DfaInv, MachineWellFormed, MovesExact
      <3> QED
        BY <1>10, <3>1, <3>2
    <2>3. ASSUME NEW i \in DOMAIN states', NEW c \in DOMAIN Sym,
                 Expanded(i, c)', Moves(states'[i], Sym[c]) # {}
          PROVE  \E t \in ToSet(transitions') : t.from = i /\ t.on = Sym[c]
      <3>1. i \in Nat /\ (i < iState \/ (i = iState /\ c <= iChar))
        <4>1. i \in Nat
          <5>1. DOMAIN states' = 1 .. Len(states')
            BY <1>2
          <5> QED
            BY <5>1
        <4> QED
          BY <1>4, <2>3, <4>1
      <3>2. CASE i = iState /\ c = iChar
        BY <1>10, <1>9, <3>2
      <3>3. CASE i < iState \/ (i = iState /\ c < iChar)
        <4>1. i \in DOMAIN states /\ Expanded(i, c)
          BY <1>1, <1>3, <1>5, <3>1, <3>3 DEF Expanded
        <4>2. \E t \in ToSet(transitions) : t.from = i /\ t.on = Sym[c]
          BY <1>2, <2>3, <4>1 DEF DfaInv, MachineWellFormed, MovesExact
        <4> QED
          BY <1>10, <4>2
      <3> QED
        BY <1>5, <3>1, <3>2, <3>3, SymOnce
    <2> QED
      BY <2>1, <2>2, <2>3 DEF MovesExact
  <1>18. TransitionsOrdered'
    <2> SUFFICES ASSUME NEW i \in DOMAIN transitions', NEW j \in DOMAIN transitions', i < j
                 PROVE  /\ transitions'[i].from <= transitions'[j].from
                        /\ transitions'[i].from = transitions'[j].from
                             => transitions'[i].on # transitions'[j].on
      BY DEF TransitionsOrdered
    <2>1. CASE j \in DOMAIN transitions
      <3>1. i \in DOMAIN transitions
        BY <1>5, <1>10, <2>1
      <3> QED
        BY <1>10, <2>1, <3>1 DEF DfaInv, MachineWellFormed, TransitionsOrdered
    <2>2. CASE j \notin DOMAIN transitions
      <3>1. j = Len(transitions) + 1 /\ i \in DOMAIN transitions
        BY <1>5, <1>10, <2>2
      <3>2. transitions'[j] = move /\ transitions'[i] = transitions[i]
            /\ transitions[i] \in ToSet(transitions)
        BY <1>10, <3>1 DEF ToSet
      <3>3. transitions[i].from <= iState
            /\ (transitions[i].from = iState => \E c \in 1 .. iChar - 1 : transitions[i].on = Sym[c])
        BY <1>3, <1>5, <1>11, <3>2
      <3>4. \A c \in 1 .. iChar - 1 : Sym[c] # Sym[iChar]
        BY <1>5, SymOnce
      <3> QED
        BY <1>9, <3>2, <3>3, <3>4
    <2> QED
      BY <2>1, <2>2
  <1> QED
    BY <1>12, <1>13, <1>14, <1>15, <1>16, <1>17, <1>18 DEF DfaInv, MachineWellFormed

(* CreateDfa keeps the invariant. *)
LEMMA CreateKeeps == DfaInv /\ CreateDfa => DfaInv'
  BY NoMoveKeeps, MoveKeeps

(* With the worklist empty every state has all its transitions. *)
LEMMA GenerateKeeps ==
    ASSUME DfaInv, Generate
    PROVE  DfaInv'
  <1>1. /\ UNCHANGED <<positions, followpos, states, transitions, iChar, emitted>>
        /\ phase = "CreateDfa" /\ phase' = "GenerateMachine"
        /\ iState > Len(states) /\ iState' = 1
    BY DEF Generate
  <1>2. /\ Len(states) \in Nat /\ DOMAIN states = 1 .. Len(states)
        /\ iState \in Nat /\ emitted = 0
        /\ Len(transitions) \in Nat /\ DOMAIN transitions = 1 .. Len(transitions)
    BY <1>1 DEF DfaInv, DfaTypeOK, Ahead
  <1>3. \A k \in DOMAIN transitions : transitions[k].from \in DOMAIN states
    <2> DEFINE K == [from : DOMAIN states, on : Symbols, to : DOMAIN states]
    <2>1. transitions \in Seq(K)
      BY DEF DfaInv, DfaTypeOK
    <2>2. \A t \in K : t.from \in DOMAIN states
      OBVIOUS
    <2> HIDE DEF K
    <2> QED
      BY <2>1, <2>2
  <1>4. DfaTypeOK'
    BY <1>1, <1>2 DEF DfaInv, DfaTypeOK
  <1>5. Blank' /\ Begun' /\ Ahead' /\ SwitchComplete'
    BY <1>1 DEF DfaInv, Blank, Begun, Ahead, SwitchComplete
  <1>6. InStep'
    BY <1>1, <1>2, <1>3 DEF InStep
  <1>7. MovesExact'
    <2>1. \A S, x : Moves(S, x)' = Moves(S, x)
      BY <1>1 DEF Moves
    <2>2. \A i \in DOMAIN states, c \in DOMAIN Sym : Expanded(i, c)
      BY <1>1, <1>2 DEF Expanded
    <2> QED
      BY <1>1, <2>1, <2>2 DEF DfaInv, MachineWellFormed, MovesExact
  <1>8. StatesDistinct' /\ StatesReached' /\ TransitionsOrdered'
    BY <1>1 DEF DfaInv, MachineWellFormed, StatesDistinct, StatesReached, TransitionsOrdered
  <1> QED
    BY <1>4, <1>5, <1>6, <1>7, <1>8 DEF DfaInv, MachineWellFormed

(* What is still to be printed begins with the transitions of the state the *)
(* walk has come to, and the inner loop prints them all and no other.        *)
LEMMA InnerLoopPrints ==
    ASSUME DfaInv, phase = "GenerateMachine", iState <= Len(states),
           NEW cases, cases = CasesFrom(iState, emitted),
           NEW n, n = IF cases = {} THEN emitted ELSE Max(cases)
    PROVE  /\ n \in 0 .. Len(transitions)
           /\ \A k \in DOMAIN transitions : k <= n <=> transitions[k].from < iState + 1
           /\ Len(transitions) \in cases => n = Len(transitions)
  <1>1. /\ Len(transitions) \in Nat /\ DOMAIN transitions = 1 .. Len(transitions)
        /\ iState \in Nat /\ emitted \in 0 .. Len(transitions)
    BY DEF DfaInv, DfaTypeOK
  <1>2. \A k \in DOMAIN transitions :
            transitions[k].from \in Nat /\ (k <= emitted <=> transitions[k].from < iState)
    <2> DEFINE K == [from : DOMAIN states, on : Symbols, to : DOMAIN states]
    <2>1. transitions \in Seq(K) /\ DOMAIN states \subseteq Nat
      BY DEF DfaInv, DfaTypeOK
    <2>2. \A t \in K : t.from \in DOMAIN states
      OBVIOUS
    <2> HIDE DEF K
    <2>3. \A k \in DOMAIN transitions : transitions[k].from \in Nat
      BY <2>1, <2>2
    <2> QED
      BY <2>3 DEF DfaInv, InStep
  <1>3. \A i, j \in DOMAIN transitions : i < j => transitions[i].from <= transitions[j].from
    BY DEF DfaInv, MachineWellFormed, TransitionsOrdered
  <1>4. cases \subseteq DOMAIN transitions
    BY <1>1 DEF CasesFrom
  <1>5. \A k \in DOMAIN transitions : k \in cases <=> transitions[k].from = iState
    <2> SUFFICES ASSUME NEW k \in DOMAIN transitions
                 PROVE  k \in cases <=> transitions[k].from = iState
      OBVIOUS
    <2>1. CASE k \in cases
      <3>1. k \in emitted + 1 .. k
        BY <1>1, <2>1 DEF CasesFrom
      <3> QED
        BY <2>1, <3>1 DEF CasesFrom
    <2>2. CASE transitions[k].from = iState
      <3>1. k > emitted
        BY <1>1, <1>2, <2>2
      <3>2. \A j \in emitted + 1 .. k : transitions[j].from = iState
        <4> SUFFICES ASSUME NEW j \in emitted + 1 .. k PROVE transitions[j].from = iState
          OBVIOUS
        <4>1. j \in DOMAIN transitions /\ j > emitted /\ (j < k \/ j = k)
          BY <1>1
        <4>2. transitions[j].from >= iState
          BY <1>1, <1>2, <4>1
        <4>3. transitions[j].from <= iState
          BY <1>2, <1>3, <2>2, <4>1
        <4> QED
          BY <1>1, <1>2, <4>1, <4>2, <4>3
      <3> QED
        BY <1>1, <3>1, <3>2 DEF CasesFrom
    <2> QED
      BY <2>1, <2>2
  <1>6. CASE cases = {}
    BY <1>1, <1>2, <1>5, <1>6
  <1>7. CASE cases # {}
    <2>1. n \in cases /\ \A k \in cases : k <= n
      <3>1. cases \in SUBSET Nat /\ \A k \in cases : k <= Len(transitions)
        BY <1>1, <1>4
      <3>2. PICK m \in cases : \A k \in cases : k <= m
        BY <1>1, <1>7, <3>1, GreatestNat
      <3>3. \E x \in cases : \A y \in cases : x >= y
        BY <3>1, <3>2
      <3>4. n = CHOOSE x \in cases : \A y \in cases : x >= y
        BY <1>7 DEF Max
      <3>5. n \in cases /\ \A y \in cases : n >= y
        BY <3>3, <3>4
      <3> QED
        BY <3>1, <3>5
    <2>2. n \in DOMAIN transitions /\ transitions[n].from = iState
      BY <1>4, <1>5, <2>1
    <2>3. ASSUME NEW k \in DOMAIN transitions, k <= n
          PROVE  transitions[k].from < iState + 1
      <3>1. k < n \/ k = n
        BY <1>1, <2>2, <2>3
      <3>2. transitions[k].from <= iState
        BY <1>1, <1>2, <1>3, <2>2, <3>1
      <3> QED
        BY <1>1, <1>2, <3>2
    <2>4. ASSUME NEW k \in DOMAIN transitions, transitions[k].from < iState + 1
          PROVE  k <= n
      <3>1. CASE transitions[k].from = iState
        BY <1>5, <2>1, <3>1
      <3>2. CASE transitions[k].from < iState
        <4>1. k <= emitted
          BY <1>2, <3>2
        <4>2. ~(n <= emitted)
          BY <1>1, <1>2, <2>2
        <4> QED
          BY <1>1, <2>2, <4>1, <4>2
      <3> QED
        BY <1>1, <1>2, <2>4, <3>1, <3>2
    <2>5. Len(transitions) \in cases => n = Len(transitions)
      BY <1>1, <2>1, <2>2
    <2>6. n \in 0 .. Len(transitions)
      BY <1>1, <2>2
    <2> QED
      BY <2>3, <2>4, <2>5, <2>6
  <1> QED
    BY <1>6, <1>7

(* GenerateMachine goes on to the next state with nothing left behind. *)
LEMMA GenerateMachineKeeps ==
    ASSUME DfaInv, GenerateMachine
    PROVE  DfaInv'
  <1>1. /\ UNCHANGED <<positions, followpos, states, transitions, iChar>>
        /\ phase = "GenerateMachine" /\ iState <= Len(states) /\ iState' = iState + 1
    BY DEF GenerateMachine
  <1> DEFINE cases == CasesFrom(iState, emitted)
  <1>2. /\ emitted' = IF cases = {} THEN emitted ELSE Max(cases)
        /\ phase' = phase \/ (phase' = "overrun" /\ Len(transitions) \in cases)
    BY DEF GenerateMachine
  <1> HIDE DEF cases
  <1>3. /\ emitted' \in 0 .. Len(transitions)
        /\ \A k \in DOMAIN transitions : k <= emitted' <=> transitions[k].from < iState + 1
        /\ Len(transitions) \in cases => emitted' = Len(transitions)
    BY <1>1, <1>2, InnerLoopPrints DEF cases
  <1>4. DfaTypeOK'
    <2>1. iState' \in 1 .. Len(states) + 1
      BY <1>1 DEF DfaInv, DfaTypeOK
    <2> QED
      BY <1>1, <1>2, <1>3, <2>1 DEF DfaInv, DfaTypeOK
  <1>5. Blank' /\ Begun' /\ Ahead' /\ SwitchComplete'
    BY <1>1, <1>2, <1>3 DEF DfaInv, Blank, Begun, Ahead, SwitchComplete
  <1>6. InStep'
    BY <1>1, <1>3 DEF InStep
  <1>7. MovesExact'
    <2>1. \A S, x : Moves(S, x)' = Moves(S, x)
      BY <1>1 DEF Moves
    <2>2. \A i \in DOMAIN states, c \in DOMAIN Sym : Expanded(i, c)
      BY <1>1 DEF Expanded
    <2> QED
      BY <1>1, <2>1, <2>2 DEF DfaInv, MachineWellFormed, MovesExact
  <1>8. StatesDistinct' /\ StatesReached' /\ TransitionsOrdered'
    BY <1>1 DEF DfaInv, MachineWellFormed, StatesDistinct, StatesReached, TransitionsOrdered
  <1> QED
    BY <1>4, <1>5, <1>6, <1>7, <1>8 DEF DfaInv, MachineWellFormed

(* After the last state every transition is printed. *)
LEMMA GeneratedKeeps ==
    ASSUME DfaInv, Generated
    PROVE  DfaInv'
  <1>1. /\ UNCHANGED <<positions, followpos, states, transitions, iState, iChar, emitted>>
        /\ phase = "GenerateMachine" /\ iState > Len(states) /\ phase' = "done"
    BY DEF Generated
  <1>2. /\ Len(transitions) \in Nat /\ DOMAIN transitions = 1 .. Len(transitions)
        /\ Len(states) \in Nat /\ iState \in Nat /\ emitted \in 0 .. Len(transitions)
    BY DEF DfaInv, DfaTypeOK
  <1>3. emitted = Len(transitions)
    <2> DEFINE K == [from : DOMAIN states, on : Symbols, to : DOMAIN states]
    <2>1. transitions \in Seq(K) /\ DOMAIN states = 1 .. Len(states)
      BY DEF DfaInv, DfaTypeOK
    <2>2. \A t \in K : t.from \in DOMAIN states
      OBVIOUS
    <2> HIDE DEF K
    <2>3. \A k \in DOMAIN transitions : transitions[k].from < iState
      BY <1>1, <1>2, <2>1, <2>2
    <2>4. \A k \in DOMAIN transitions : k <= emitted
      BY <1>1, <2>3 DEF DfaInv, InStep
    <2>5. CASE Len(transitions) = 0
      BY <1>2, <2>5
    <2>6. CASE Len(transitions) # 0
      <3>1. Len(transitions) \in DOMAIN transitions
        BY <1>2, <2>6
      <3>2. Len(transitions) <= emitted
        BY <2>4, <3>1
      <3>3. emitted \in Int /\ Len(transitions) \in Int /\ emitted <= Len(transitions)
        BY <1>2
      <3> QED
        BY <3>2, <3>3
    <2> QED
      BY <2>5, <2>6
  <1>4. DfaTypeOK'
    BY <1>1 DEF DfaInv, DfaTypeOK
  <1>5. Blank' /\ Begun' /\ Ahead' /\ InStep' /\ SwitchComplete'
    BY <1>1, <1>3 DEF DfaInv, Blank, Begun, Ahead, InStep, SwitchComplete
  <1>6. MovesExact'
    <2>1. \A S, x : Moves(S, x)' = Moves(S, x)
      BY <1>1 DEF Moves
    <2>2. \A i \in DOMAIN states, c \in DOMAIN Sym : Expanded(i, c)
      BY <1>1 DEF Expanded
    <2> QED
      BY <1>1, <2>1, <2>2 DEF DfaInv, MachineWellFormed, MovesExact
  <1>7. StatesDistinct' /\ StatesReached' /\ TransitionsOrdered'
    BY <1>1 DEF DfaInv, MachineWellFormed, StatesDistinct, StatesReached, TransitionsOrdered
  <1> QED
    BY <1>4, <1>5, <1>6, <1>7 DEF DfaInv, MachineWellFormed

(* A step of something else leaves all of it alone. *)
LEMMA DfaStutters == DfaInv /\ UNCHANGED dfa => DfaInv'
  <1> SUFFICES ASSUME DfaInv, UNCHANGED dfa PROVE DfaInv'
    OBVIOUS
  <1>1. UNCHANGED <<phase, positions, followpos, states, transitions, iState, iChar, emitted>>
    BY DEF dfa
  <1>2. DfaTypeOK' /\ Blank' /\ Begun' /\ Ahead' /\ InStep' /\ SwitchComplete'
    BY <1>1 DEF DfaInv, DfaTypeOK, Blank, Begun, Ahead, InStep, SwitchComplete
  <1>3. MovesExact'
    <2>1. \A S, x : Moves(S, x)' = Moves(S, x)
      BY <1>1 DEF Moves
    <2>2. \A i, c : Expanded(i, c)' <=> Expanded(i, c)
      BY <1>1 DEF Expanded
    <2> QED
      BY <1>1, <2>1, <2>2 DEF DfaInv, MachineWellFormed, MovesExact
  <1>4. StatesDistinct' /\ StatesReached' /\ TransitionsOrdered'
    BY <1>1 DEF DfaInv, MachineWellFormed, StatesDistinct, StatesReached, TransitionsOrdered
  <1> QED
    BY <1>2, <1>3, <1>4 DEF DfaInv, MachineWellFormed

(* The machine keeps its invariant behind any parser. *)
THEOREM DfaKept == DfaSpec => []DfaInv
  <1>1. DfaInv /\ [Prepare \/ Machine]_dfa => DfaInv'
    <2> SUFFICES ASSUME DfaInv, [Prepare \/ Machine]_dfa PROVE DfaInv'
      OBVIOUS
    <2>1. CASE Prepare
      BY <2>1, PrepareKeeps
    <2>2. CASE CreateDfa
      BY <2>2, CreateKeeps
    <2>3. CASE Generate
      BY <2>3, GenerateKeeps
    <2>4. CASE GenerateMachine
      BY <2>4, GenerateMachineKeeps
    <2>5. CASE Generated
      BY <2>5, GeneratedKeeps
    <2>6. CASE UNCHANGED dfa
      BY <2>6, DfaStutters
    <2> QED
      BY <2>1, <2>2, <2>3, <2>4, <2>5, <2>6 DEF Machine
  <1> QED
    BY <1>1, DfaStarts, PTL DEF DfaSpec

(* The passes leave states and transitions of their kinds. *)
THEOREM DfaTypes == DfaSpec => []DfaTypeOK
  <1>1. DfaInv => DfaTypeOK
    BY DEF DfaInv
  <1> QED
    BY <1>1, DfaKept, PTL

(* The automaton is the subset construction of the positions, without a state *)
(* twice or unreached, whatever positions and followpos the parser leaves.    *)
THEOREM MachineBuilt == DfaSpec => []MachineWellFormed
  <1>1. DfaInv => MachineWellFormed
    BY DEF DfaInv
  <1> QED
    BY <1>1, DfaKept, PTL

(* The generated switch leaves out no transition. *)
THEOREM SwitchPrinted == DfaSpec => []SwitchComplete
  <1>1. DfaInv => SwitchComplete
    BY DEF DfaInv
  <1> QED
    BY <1>1, DfaKept, PTL

-----------------------------------------------------------------------------
(* What the automaton does on words of any length *)

\* q is a way through the positions: from one of the first state, over each of
\* the k first symbols of w, to one that follows.
Way(w, k, q) ==
    /\ q \in [0 .. k -> DOMAIN positions]
    /\ q[0] \in states[1]
    /\ \A j \in 1 .. k : positions[q[j - 1]] = w[j] /\ q[j] \in followpos[q[j - 1]]

\* The positions at which some way ends: those that can come next.
Comes(w, k) ==
    {p \in DOMAIN positions : \E q \in [0 .. k -> DOMAIN positions] :
        Way(w, k, q) /\ q[k] = p}

\* r is a run of the automaton over the k first symbols of w.
Run(w, k, r) ==
    /\ r \in [0 .. k -> DOMAIN states]
    /\ r[0] = 1
    /\ \A j \in 1 .. k : \E t \in ToSet(transitions) :
            t.from = r[j - 1] /\ t.on = w[j] /\ t.to = r[j]

\* Once CreateDfa is through, the automaton has one run on a word where there
\* is a way through the positions and none elsewhere, and after each symbol it
\* is in the state of the positions that can come next.
AutomatonTracks ==
    phase \in {"GenerateMachine", "done", "overrun"} =>
        \A w \in Seq(Symbols) :
            /\ Comes(w, Len(w)) # {} <=> \E r : Run(w, Len(w), r)
            /\ \A r : Run(w, Len(w), r) =>
                    \A j \in 0 .. Len(w) : states[r[j]] = Comes(w, j)
            /\ \A r, s : Run(w, Len(w), r) /\ Run(w, Len(w), s) => r = s

(* At the start the positions of the first state can come. *)
LEMMA ComesFirst ==
    ASSUME DfaInv, Len(states) >= 1, NEW w
    PROVE  Comes(w, 0) = states[1]
  <1>1. states[1] \subseteq DOMAIN positions
    BY DEF DfaInv, DfaTypeOK
  <1>2. ASSUME NEW p \in states[1]
        PROVE  p \in Comes(w, 0)
    <2> DEFINE q == [j \in 0 .. 0 |-> p]
    <2>1. q \in [0 .. 0 -> DOMAIN positions] /\ q[0] = p
      BY <1>1
    <2> HIDE DEF q
    <2>2. Way(w, 0, q)
      BY <2>1 DEF Way
    <2> QED
      BY <1>1, <2>1, <2>2 DEF Comes
  <1>3. ASSUME NEW p \in Comes(w, 0)
        PROVE  p \in states[1]
    BY DEF Comes, Way
  <1> QED
    BY <1>2, <1>3

(* The positions that can come after one more symbol are those that follow. *)
LEMMA ComesNext ==
    ASSUME DfaInv, NEW w, NEW k \in Nat
    PROVE  Comes(w, k + 1) = Moves(Comes(w, k), w[k + 1])
  <1> DEFINE P == DOMAIN positions
  <1>1. followpos \in [P -> SUBSET P]
    BY DEF DfaInv, DfaTypeOK
  <1>2. ASSUME NEW p \in Comes(w, k + 1)
        PROVE  p \in Moves(Comes(w, k), w[k + 1])
    <2>1. PICK q \in [0 .. k + 1 -> P] : Way(w, k + 1, q) /\ q[k + 1] = p
      BY DEF Comes
    <2> DEFINE h == [j \in 0 .. k |-> q[j]]
    <2>2. h \in [0 .. k -> P] /\ \A j \in 0 .. k : h[j] = q[j]
      OBVIOUS
    <2> HIDE DEF h
    <2>3. q[0] \in states[1]
          /\ \A j \in 1 .. k + 1 : positions[q[j - 1]] = w[j] /\ q[j] \in followpos[q[j - 1]]
      BY <2>1 DEF Way
    <2>4. Way(w, k, h)
      <3>1. \A j \in 1 .. k : j \in 1 .. k + 1 /\ j - 1 \in 0 .. k /\ j \in 0 .. k
        OBVIOUS
      <3>2. h[0] = q[0]
        BY <2>2
      <3> QED
        BY <2>2, <2>3, <3>1, <3>2 DEF Way
    <2>5. k \in 0 .. k /\ k + 1 \in 1 .. k + 1 /\ (k + 1) - 1 = k
      OBVIOUS
    <2>6. h[k] \in Comes(w, k)
      BY <2>2, <2>4, <2>5 DEF Comes
    <2>7. positions[h[k]] = w[k + 1] /\ p \in followpos[h[k]]
      BY <2>1, <2>2, <2>3, <2>5
    <2> QED
      BY <2>6, <2>7, InMoves
  <1>3. ASSUME NEW p \in Moves(Comes(w, k), w[k + 1])
        PROVE  p \in Comes(w, k + 1)
    <2>1. PICK b \in Comes(w, k) : positions[b] = w[k + 1] /\ p \in followpos[b]
      BY InMoves
    <2>2. b \in P /\ p \in P
      BY <1>1, <2>1 DEF Comes
    <2>3. PICK q \in [0 .. k -> P] : Way(w, k, q) /\ q[k] = b
      BY DEF Comes
    <2> DEFINE h == [j \in 0 .. k + 1 |-> IF j <= k THEN q[j] ELSE p]
    <2>4. h \in [0 .. k + 1 -> P]
      <3>1. \A j \in 0 .. k + 1 : j <= k => q[j] \in P
        BY <2>3
      <3> QED
        BY <2>2, <3>1
    <2>5. h[k + 1] = p /\ \A j \in 0 .. k : h[j] = q[j]
      OBVIOUS
    <2> HIDE DEF h
    <2>6. q[0] \in states[1]
          /\ \A j \in 1 .. k : positions[q[j - 1]] = w[j] /\ q[j] \in followpos[q[j - 1]]
      BY <2>3 DEF Way
    <2>7. ASSUME NEW j \in 1 .. k + 1
          PROVE  positions[h[j - 1]] = w[j] /\ h[j] \in followpos[h[j - 1]]
      <3>1. CASE j \in 1 .. k
        <4>1. j - 1 \in 0 .. k /\ j \in 0 .. k
          BY <3>1
        <4> QED
          BY <2>5, <2>6, <3>1, <4>1
      <3>2. CASE j = k + 1
        <4>1. j - 1 = k /\ k \in 0 .. k
          BY <3>2
        <4> QED
          BY <2>1, <2>3, <2>5, <3>2, <4>1
      <3> QED
        BY <3>1, <3>2
    <2>8. Way(w, k + 1, h)
      <3>1. h[0] = q[0]
        BY <2>5
      <3> QED
        BY <2>4, <2>6, <2>7, <3>1 DEF Way
    <2> QED
      BY <2>2, <2>4, <2>5, <2>8 DEF Comes
  <1> QED
    BY <1>2, <1>3

(* A run is in the state of the positions that can come next, all the way. *)
LEMMA RunTracks ==
    ASSUME DfaInv, Len(states) >= 1, NEW w, NEW k \in Nat, NEW r, Run(w, k, r)
    PROVE  \A j \in 0 .. k : states[r[j]] = Comes(w, j)
  <1> DEFINE Bad == {j \in 0 .. k : states[r[j]] # Comes(w, j)}
  <1> SUFFICES ASSUME Bad # {} PROVE FALSE
    OBVIOUS
  <1>1. Bad \in SUBSET Nat
    OBVIOUS
  <1>2. PICK j \in Bad : \A i \in Bad : j <= i
    BY <1>1, LeastNat
  <1>3. j \in 0 .. k /\ states[r[j]] # Comes(w, j)
    OBVIOUS
  <1>4. j # 0
    BY <1>3, ComesFirst DEF Run
  <1>5. j \in 1 .. k /\ j - 1 \in 0 .. k /\ j - 1 \in Nat /\ (j - 1) + 1 = j /\ ~(j <= j - 1)
    BY <1>3, <1>4
  <1>6. j - 1 \notin Bad
    BY <1>2, <1>5
  <1>7. states[r[j - 1]] = Comes(w, j - 1)
    BY <1>5, <1>6
  <1> HIDE DEF Bad
  <1>8. PICK t \in ToSet(transitions) : t.from = r[j - 1] /\ t.on = w[j] /\ t.to = r[j]
    BY <1>5 DEF Run
  <1>9. states[r[j]] = Moves(Comes(w, j - 1), w[j])
    BY <1>7, <1>8 DEF DfaInv, MachineWellFormed, MovesExact
  <1>10. Comes(w, j) = Moves(Comes(w, j - 1), w[j])
    <2>1. Comes(w, (j - 1) + 1) = Moves(Comes(w, j - 1), w[(j - 1) + 1])
      BY <1>5, ComesNext
    <2> QED
      BY <1>5, <2>1
  <1> QED
    BY <1>3, <1>9, <1>10

(* A state whose positions hold a symbol has a transition on it. *)
LEMMA TransitionOn ==
    ASSUME DfaInv, phase \in {"GenerateMachine", "done", "overrun"},
           NEW i \in DOMAIN states, NEW x \in Symbols, Moves(states[i], x) # {}
    PROVE  \E t \in ToSet(transitions) : t.from = i /\ t.on = x /\ t.to \in DOMAIN states
  <1>1. PICK c \in DOMAIN Sym : x = Sym[c]
    BY SymOnce
  <1>2. Expanded(i, c)
    BY DEF Expanded
  <1>3. PICK t \in ToSet(transitions) : t.from = i /\ t.on = x
    BY <1>1, <1>2 DEF DfaInv, MachineWellFormed, MovesExact
  <1>4. t.to \in DOMAIN states
    <2> DEFINE K == [from : DOMAIN states, on : Symbols, to : DOMAIN states]
    <2>1. transitions \in Seq(K)
      BY DEF DfaInv, DfaTypeOK
    <2>2. \A u \in K : u.to \in DOMAIN states
      OBVIOUS
    <2> HIDE DEF K
    <2> QED
      BY <1>3, <2>1, <2>2, Elements
  <1> QED
    BY <1>3, <1>4

(* Where a way goes on, the automaton does. *)
LEMMA WayRuns ==
    ASSUME DfaInv, phase \in {"GenerateMachine", "done", "overrun"}, Len(states) >= 1,
           NEW w \in Seq(Symbols)
    PROVE  \A k \in 0 .. Len(w) : Comes(w, k) # {} => \E r : Run(w, k, r)
  <1> DEFINE Bad == {k \in 0 .. Len(w) : Comes(w, k) # {} /\ ~\E r : Run(w, k, r)}
  <1> SUFFICES ASSUME Bad # {} PROVE FALSE
    OBVIOUS
  <1>1. Bad \in SUBSET Nat
    OBVIOUS
  <1>2. PICK k \in Bad : \A i \in Bad : k <= i
    BY <1>1, LeastNat
  <1>3. k \in 0 .. Len(w) /\ Comes(w, k) # {} /\ ~\E r : Run(w, k, r)
    OBVIOUS
  <1>4. k # 0
    <2> DEFINE r == [j \in 0 .. 0 |-> 1]
    <2>1. 1 \in DOMAIN states
      BY DEF DfaInv, DfaTypeOK
    <2>2. Run(w, 0, r)
      BY <2>1 DEF Run
    <2> QED
      BY <1>3, <2>2
  <1>5. /\ k \in 1 .. Len(w) /\ k - 1 \in 0 .. Len(w) /\ k - 1 \in Nat
        /\ (k - 1) + 1 = k /\ ~(k <= k - 1)
    BY <1>3, <1>4
  <1>6. k - 1 \notin Bad
    BY <1>2, <1>5
  <1>7. Comes(w, k) = Moves(Comes(w, k - 1), w[k])
    <2>1. Comes(w, (k - 1) + 1) = Moves(Comes(w, k - 1), w[(k - 1) + 1])
      BY <1>5, ComesNext
    <2> QED
      BY <1>5, <2>1
  <1>8. Comes(w, k - 1) # {}
    BY <1>3, <1>7 DEF Moves
  <1>9. PICK r : Run(w, k - 1, r)
    BY <1>5, <1>6, <1>8
  <1> HIDE DEF Bad
  <1>10. states[r[k - 1]] = Comes(w, k - 1)
    <2>1. k - 1 \in 0 .. k - 1
      BY <1>5
    <2> QED
      BY <1>5, <1>9, <2>1, RunTracks
  <1>11. r \in [0 .. k - 1 -> DOMAIN states] /\ r[k - 1] \in DOMAIN states /\ w[k] \in Symbols
    <2>1. r \in [0 .. k - 1 -> DOMAIN states] /\ k - 1 \in 0 .. k - 1
      BY <1>5, <1>9 DEF Run
    <2> QED
      BY <1>5, <2>1
  <1>12. PICK t \in ToSet(transitions) :
            t.from = r[k - 1] /\ t.on = w[k] /\ t.to \in DOMAIN states
    BY <1>3, <1>7, <1>10, <1>11, TransitionOn
  <1> DEFINE s == [j \in 0 .. k |-> IF j <= k - 1 THEN r[j] ELSE t.to]
  <1>13. s \in [0 .. k -> DOMAIN states]
    <2>1. \A j \in 0 .. k : j <= k - 1 => r[j] \in DOMAIN states
      BY <1>5, <1>11
    <2> QED
      BY <1>12, <2>1
  <1>14. s[k] = t.to /\ \A j \in 0 .. k - 1 : s[j] = r[j]
    BY <1>5
  <1> HIDE DEF s
  <1>15. Run(w, k, s)
    <2>1. s[0] = 1
      BY <1>5, <1>9, <1>14 DEF Run
    <2>2. ASSUME NEW j \in 1 .. k
          PROVE  \E u \in ToSet(transitions) : u.from = s[j - 1] /\ u.on = w[j] /\ u.to = s[j]
      <3>1. CASE j = k
        <4>1. k - 1 \in 0 .. k - 1
          BY <1>5
        <4> QED
          BY <1>12, <1>14, <3>1, <4>1
      <3>2. CASE j # k
        <4>1. j \in 1 .. k - 1 /\ j \in 0 .. k - 1 /\ j - 1 \in 0 .. k - 1
          BY <1>5, <3>2
        <4> QED
          BY <1>9, <1>14, <4>1 DEF Run
      <3> QED
        BY <3>1, <3>2
    <2> QED
      BY <1>13, <2>1, <2>2 DEF Run
  <1> QED
    BY <1>3, <1>15

(* The automaton tracks the ways through the positions, on words of any length *)
(* and for whatever positions and followpos the parser leaves.                 *)
THEOREM Tracks == DfaSpec => []AutomatonTracks
  <1>1. DfaInv => AutomatonTracks
    <2> SUFFICES ASSUME DfaInv, phase \in {"GenerateMachine", "done", "overrun"},
                        NEW w \in Seq(Symbols)
                 PROVE  /\ Comes(w, Len(w)) # {} <=> \E r : Run(w, Len(w), r)
                        /\ \A r : Run(w, Len(w), r) =>
                                \A j \in 0 .. Len(w) : states[r[j]] = Comes(w, j)
                        /\ \A r, s : Run(w, Len(w), r) /\ Run(w, Len(w), s) => r = s
      BY DEF AutomatonTracks
    <2>1. Len(states) >= 1 /\ Len(w) \in Nat /\ Len(w) \in 0 .. Len(w)
      BY DEF DfaInv, Begun
    <2>2. ASSUME NEW r, Run(w, Len(w), r)
          PROVE  \A j \in 0 .. Len(w) : r[j] \in DOMAIN states /\ states[r[j]] = Comes(w, j)
      <3>1. \A j \in 0 .. Len(w) : states[r[j]] = Comes(w, j)
        BY <2>1, <2>2, RunTracks
      <3>2. r \in [0 .. Len(w) -> DOMAIN states]
        BY <2>2 DEF Run
      <3> QED
        BY <3>1, <3>2
    <2>3. Comes(w, Len(w)) # {} => \E r : Run(w, Len(w), r)
      BY <2>1, WayRuns
    <2>4. \A r : Run(w, Len(w), r) => Comes(w, Len(w)) # {}
      <3>1. \A i \in DOMAIN states : states[i] # {}
        BY DEF DfaInv, DfaTypeOK
      <3> QED
        BY <2>1, <2>2, <3>1
    <2>5. ASSUME NEW r, NEW s, Run(w, Len(w), r), Run(w, Len(w), s)
          PROVE  r = s
      <3>1. \A j \in 0 .. Len(w) : r[j] = s[j]
        BY <2>2, <2>5 DEF DfaInv, MachineWellFormed, StatesDistinct
      <3>2. r \in [0 .. Len(w) -> DOMAIN states] /\ s \in [0 .. Len(w) -> DOMAIN states]
        BY <2>5 DEF Run
      <3> QED
        BY <3>1, <3>2
    <2> QED
      BY <2>2, <2>3, <2>4, <2>5
  <1> QED
    BY <1>1, DfaKept, PTL

-----------------------------------------------------------------------------
(* CreateDfa ends *)

\* No more states than non-empty sets of positions.
StatesBounded == Len(states) < 2 ^ Len(positions)

\* The turns of CreateDfa's inner loop up to here, with the one to come.
Turn == (iState - 1) * Len(Sym) + iChar

WorklistBounded == phase = "CreateDfa" => Turn <= 2 ^ Len(positions) * Len(Sym)

(* There are n numbers from 1 to n. *)
LEMMA UpTo ==
    ASSUME NEW n \in Nat
    PROVE  IsFiniteSet(1 .. n) /\ Cardinality(1 .. n) = n
  <1>1. IsFiniteSet(1 .. n) /\ Cardinality(1 .. n) = IF 1 > n THEN 0 ELSE n - 1 + 1
    BY FS_Interval
  <1> QED
    BY <1>1

(* Distinct non-empty sets of positions are fewer than sets of positions. *)
LEMMA FewStates == DfaInv => StatesBounded
  <1> SUFFICES ASSUME DfaInv PROVE StatesBounded
    OBVIOUS
  <1> DEFINE P == DOMAIN positions
             D == DOMAIN states
             K == (SUBSET P) \ {{}}
  <1>1. /\ P = 1 .. Len(positions) /\ Len(positions) \in Nat
        /\ D = 1 .. Len(states) /\ Len(states) \in Nat
        /\ states \in [D -> K]
    BY DEF DfaInv, DfaTypeOK
  <1>2. IsFiniteSet(P) /\ Cardinality(P) = Len(positions)
    BY <1>1, UpTo
  <1>3. IsFiniteSet(D) /\ Cardinality(D) = Len(states)
    BY <1>1, UpTo
  <1>4. IsFiniteSet(SUBSET P) /\ Cardinality(SUBSET P) = 2 ^ Len(positions)
    BY <1>2, FS_SUBSET
  <1>5. IsFiniteSet(K) /\ Cardinality(K) = Cardinality(SUBSET P) - 1
    BY <1>4, FS_RemoveElement
  <1>6. states \in Injection(D, K)
    BY <1>1 DEF DfaInv, MachineWellFormed, StatesDistinct, Injection, IsInjective
  <1> HIDE DEF K, D, P
  <1>7. Cardinality(D) <= Cardinality(K)
    BY <1>5, <1>6, FS_Injection
  <1>8. Cardinality(SUBSET P) \in Nat
    BY <1>4, FS_CardinalityType
  <1> QED
    BY <1>1, <1>3, <1>4, <1>5, <1>7, <1>8 DEF StatesBounded

(* Turns up to the end of row i of rows of l, and those of a shorter row. *)
LEMMA Rows ==
    ASSUME NEW i \in Nat, NEW l \in Nat, NEW c \in 1 .. l, NEW b \in Nat, i < b
    PROVE  i * l + c <= b * l
  <1>1. (b - i - 1) * l \in Nat
    <2>1. b - i - 1 \in Nat
      OBVIOUS
    <2> QED
      BY <2>1
  <1>2. (b - i - 1) * l = b * l - i * l - l
    OBVIOUS
  <1>3. b * l \in Nat /\ i * l \in Nat
    OBVIOUS
  <1> QED
    BY <1>1, <1>2, <1>3

(* A turn of CreateDfa is the next of at most so many. *)
THEOREM WorklistEnds ==
    DfaSpec => [](StatesBounded /\ WorklistBounded) /\ [][CreateDfa => Turn' = Turn + 1]_dfa
  <1>1. DfaInv => WorklistBounded
    <2> SUFFICES ASSUME DfaInv, phase = "CreateDfa"
                 PROVE  Turn <= 2 ^ Len(positions) * Len(Sym)
      BY DEF WorklistBounded
    <2>1. /\ iState - 1 \in Nat /\ iState - 1 <= Len(states) /\ Len(states) \in Nat
          /\ iChar \in 1 .. Len(Sym) /\ Len(Sym) \in Nat /\ Len(positions) \in Nat
      BY SymOnce DEF DfaInv, DfaTypeOK
    <2>2. 2 ^ Len(positions) \in Nat /\ iState - 1 < 2 ^ Len(positions)
      <3>1. 2 ^ Len(positions) \in Nat
        <4>1. IsFiniteSet(SUBSET (1 .. Len(positions)))
              /\ Cardinality(SUBSET (1 .. Len(positions))) = 2 ^ Len(positions)
          BY <2>1, UpTo, FS_SUBSET
        <4> QED
          BY <4>1, FS_CardinalityType
      <3> QED
        BY <2>1, <3>1, FewStates DEF StatesBounded
    <2> QED
      BY <2>1, <2>2, Rows DEF Turn
  <1>2. DfaInv => [CreateDfa => Turn' = Turn + 1]_dfa
    <2> SUFFICES ASSUME DfaInv, CreateDfa PROVE Turn' = Turn + 1
      OBVIOUS
    <2>1. /\ iChar' = IF iChar < Len(Sym) THEN iChar + 1 ELSE 1
          /\ iState' = IF iChar < Len(Sym) THEN iState ELSE iState + 1
      BY DEF CreateDfa
    <2>2. iState \in Int /\ iChar \in Int /\ Len(Sym) \in Int /\ iChar <= Len(Sym)
      BY SymOnce DEF DfaInv, DfaTypeOK
    <2>3. CASE iChar < Len(Sym)
      BY <2>1, <2>2, <2>3 DEF Turn
    <2>4. CASE iChar = Len(Sym)
      <3>1. iState' = iState + 1 /\ iChar' = 1
        BY <2>1, <2>2, <2>4
      <3>2. (iState + 1 - 1) * Len(Sym) = (iState - 1) * Len(Sym) + Len(Sym)
        BY <2>2
      <3> QED
        BY <2>2, <2>4, <3>1, <3>2 DEF Turn
    <2> QED
      BY <2>2, <2>3, <2>4
  <1> QED
    BY <1>1, <1>2, FewStates, DfaKept, PTL

-----------------------------------------------------------------------------
(* The nodes of the syntax tree *)

Concat(A, B) == {a \o b : a \in A, b \in B}

\* The words of any number of words of A: the least set that has the empty
\* word and, with a word, any word of A before it.
Closure(A) ==
    {w \in Seq(Nat) : \A W \in SUBSET Seq(Nat) :
        <<>> \in W /\ Concat(A, W) \subseteq W => w \in W}

\* A node stands for a language: nullable says whether it has the empty word,
\* firstpos is the positions that begin a word.
Stands(n, A) ==
    /\ A \in SUBSET Seq(Nat) /\ A # {}
    /\ n.nullable <=> <<>> \in A
    /\ n.firstpos = {Head(w) : w \in A \ {<<>>}}

(* Where a word made of two begins. *)
LEMMA ConcatWord ==
    ASSUME NEW a \in Seq(Nat), NEW b \in Seq(Nat)
    PROVE  /\ a \o b \in Seq(Nat)
           /\ a \o b = <<>> <=> a = <<>> /\ b = <<>>
           /\ a = <<>> => a \o b = b
           /\ b = <<>> => a \o b = a
           /\ a # <<>> => Head(a \o b) = Head(a)
  <1>1. a \o b \in Seq(Nat) /\ Len(a \o b) = Len(a) + Len(b)
    OBVIOUS
  <1>2. a \o b = <<>> <=> a = <<>> /\ b = <<>>
    BY <1>1, EmptySeq
  <1>3. (a = <<>> => a \o b = b) /\ (b = <<>> => a \o b = a)
    BY ConcatEmptySeq
  <1>4. ASSUME a # <<>> PROVE Head(a \o b) = Head(a)
    BY <1>4
  <1> QED
    BY <1>1, <1>2, <1>3, <1>4

(* A word of two languages joined is one of each. *)
LEMMA ConcatSplits ==
    ASSUME NEW A, NEW B, NEW w \in Concat(A, B)
    PROVE  \E a \in A : \E b \in B : w = a \o b
  BY DEF Concat

(* One word of each is a word of the two joined. *)
LEMMA ConcatMakes ==
    ASSUME NEW A, NEW B, NEW a \in A, NEW b \in B
    PROVE  a \o b \in Concat(A, B)
  BY DEF Concat

(* The closure has the empty word, the words of A, and nothing that does not *)
(* begin with one of them.                                                   *)
LEMMA ClosureWords ==
    ASSUME NEW A \in SUBSET Seq(Nat)
    PROVE  /\ Closure(A) \in SUBSET Seq(Nat)
           /\ <<>> \in Closure(A) /\ A \subseteq Closure(A)
           /\ \A w \in Closure(A) : w = <<>>
                 \/ \E a \in A \ {<<>>} : \E u \in Seq(Nat) : w = a \o u
  <1>1. Closure(A) \in SUBSET Seq(Nat) /\ <<>> \in Closure(A)
    BY DEF Closure
  <1>2. ASSUME NEW a \in A PROVE a \in Closure(A)
    <2> SUFFICES ASSUME NEW W \in SUBSET Seq(Nat), <<>> \in W, Concat(A, W) \subseteq W
                 PROVE  a \in W
      BY DEF Closure
    <2>1. a \o <<>> \in W
      BY DEF Concat
    <2> QED
      BY <2>1, ConcatWord
  <1>3. ASSUME NEW w \in Closure(A), w # <<>>
        PROVE  \E a \in A \ {<<>>} : \E u \in Seq(Nat) : w = a \o u
    <2> DEFINE W == {v \in Seq(Nat) : v = <<>>
                        \/ \E a \in A \ {<<>>} : \E u \in Seq(Nat) : v = a \o u}
    <2>1. W \in SUBSET Seq(Nat) /\ <<>> \in W
      OBVIOUS
    <2>2. ASSUME NEW a \in A, NEW v \in W PROVE a \o v \in W
      <3>1. a \in Seq(Nat) /\ v \in Seq(Nat) /\ a \o v \in Seq(Nat)
        BY ConcatWord
      <3>2. CASE a = <<>>
        BY <3>1, <3>2, ConcatWord
      <3>3. CASE a # <<>>
        BY <3>1, <3>3
      <3> QED
        BY <3>2, <3>3
    <2> HIDE DEF W
    <2>3. ASSUME NEW v \in Concat(A, W) PROVE v \in W
      <3>1. PICK a \in A, u \in W : v = a \o u
        BY ConcatSplits
      <3> QED
        BY <2>2, <3>1
    <2>4. w \in W
      BY <2>1, <2>3 DEF Closure
    <2> QED
      BY <1>3, <2>4 DEF W
  <1> QED
    BY <1>1, <1>2, <1>3

(* A leaf stands for the word of its position. *)
LEMMA LeafStands == \A p \in Nat : Stands(Leaf(p), {<<p>>})
  <1> SUFFICES ASSUME NEW p \in Nat PROVE Stands(Leaf(p), {<<p>>})
    OBVIOUS
  <1>1. <<p>> \in Seq(Nat) /\ <<p>> # <<>> /\ Head(<<p>>) = p
    OBVIOUS
  <1>2. {Head(w) : w \in {<<p>>} \ {<<>>}} = {p}
    BY <1>1
  <1> QED
    BY <1>1, <1>2 DEF Stands, Leaf

(* A cat node stands for the words of its children joined. *)
LEMMA CatStands ==
    ASSUME NEW l, NEW r, NEW A, NEW B, Stands(l, A), Stands(r, B)
    PROVE  Stands(Cat(l, r), Concat(A, B))
  <1>1. A \in SUBSET Seq(Nat) /\ B \in SUBSET Seq(Nat) /\ A # {} /\ B # {}
    BY DEF Stands
  <1>2. Concat(A, B) \in SUBSET Seq(Nat) /\ Concat(A, B) # {}
    <2>1. ASSUME NEW w \in Concat(A, B) PROVE w \in Seq(Nat)
      <3>1. PICK a \in A, b \in B : w = a \o b
        BY ConcatSplits
      <3> QED
        BY <1>1, <3>1, ConcatWord
    <2>2. \E a \in A : \E b \in B : a \o b \in Concat(A, B)
      BY <1>1, ConcatMakes
    <2> QED
      BY <2>1, <2>2
  <1>3. <<>> \in Concat(A, B) <=> <<>> \in A /\ <<>> \in B
    <2>1. <<>> \in Concat(A, B) => <<>> \in A /\ <<>> \in B
      BY <1>1, ConcatWord, ConcatSplits
    <2>2. <<>> \in Seq(Nat) /\ <<>> \o <<>> = <<>>
      OBVIOUS
    <2>3. <<>> \in A /\ <<>> \in B => <<>> \o <<>> \in Concat(A, B)
      BY ConcatMakes
    <2> QED
      BY <2>1, <2>2, <2>3
  <1>4. \A p : p \in FirstOfCat(l, r)
            <=> \/ \E a \in A \ {<<>>} : p = Head(a)
                \/ <<>> \in A /\ \E b \in B \ {<<>>} : p = Head(b)
    BY DEF Stands, FirstOfCat
  <1>5. ASSUME NEW p \in FirstOfCat(l, r)
        PROVE  \E w \in Concat(A, B) \ {<<>>} : p = Head(w)
    <2>1. CASE \E a \in A \ {<<>>} : p = Head(a)
      <3>1. PICK a \in A \ {<<>>} : p = Head(a)
        BY <2>1
      <3>2. PICK b \in B : TRUE
        BY <1>1
      <3>3. a \o b # <<>> /\ Head(a \o b) = p
        BY <1>1, <3>1, ConcatWord
      <3> QED
        BY <3>1, <3>2, <3>3, ConcatMakes
    <2>2. CASE <<>> \in A /\ \E b \in B \ {<<>>} : p = Head(b)
      <3>1. PICK b \in B \ {<<>>} : p = Head(b)
        BY <2>2
      <3>2. <<>> \o b = b
        BY <1>1, ConcatWord
      <3>3. <<>> \o b \in Concat(A, B)
        BY <2>2, ConcatMakes
      <3> QED
        BY <3>1, <3>2, <3>3
    <2> QED
      BY <1>4, <2>1, <2>2
  <1>6. ASSUME NEW w \in Concat(A, B) \ {<<>>}
        PROVE  Head(w) \in FirstOfCat(l, r)
    <2>1. PICK a \in A, b \in B : w = a \o b
      <3>1. w \in Concat(A, B)
        OBVIOUS
      <3> QED
        BY <3>1, ConcatSplits
    <2>2. CASE a = <<>>
      <3>1. w = b
        BY <1>1, <2>1, <2>2, ConcatWord
      <3> QED
        BY <1>4, <2>2, <3>1
    <2>3. CASE a # <<>>
      <3>1. Head(w) = Head(a)
        BY <1>1, <2>1, <2>3, ConcatWord
      <3> QED
        BY <1>4, <2>3, <3>1
    <2> QED
      BY <2>2, <2>3
  <1>7. FirstOfCat(l, r) = {Head(w) : w \in Concat(A, B) \ {<<>>}}
    BY <1>5, <1>6
  <1>8. /\ Cat(l, r).nullable <=> <<>> \in Concat(A, B)
        /\ Cat(l, r).firstpos = FirstOfCat(l, r)
    BY <1>3 DEF Stands, Cat
  <1> QED
    BY <1>2, <1>7, <1>8 DEF Stands

(* An or node stands for the words of either child. *)
LEMMA OrStands ==
    ASSUME NEW l, NEW r, NEW A, NEW B, Stands(l, A), Stands(r, B)
    PROVE  Stands(Or(l, r), A \cup B)
  <1>1. /\ Or(l, r).nullable <=> l.nullable \/ r.nullable
        /\ Or(l, r).firstpos = l.firstpos \cup r.firstpos
    BY DEF Or
  <1>2. l.firstpos \cup r.firstpos = {Head(w) : w \in (A \cup B) \ {<<>>}}
    BY DEF Stands
  <1> QED
    BY <1>1, <1>2 DEF Stands

(* A star node stands for the closure of its child's words. *)
LEMMA StarStands ==
    ASSUME NEW l, NEW A, Stands(l, A)
    PROVE  Stands(Star(l), Closure(A))
  <1>1. A \in SUBSET Seq(Nat) /\ l.firstpos = {Head(w) : w \in A \ {<<>>}}
    BY DEF Stands
  <1>2. Star(l).nullable = TRUE /\ Star(l).firstpos = l.firstpos
    BY DEF Star
  <1>3. ASSUME NEW p \in l.firstpos
        PROVE  \E w \in Closure(A) \ {<<>>} : p = Head(w)
    <2>1. PICK a \in A \ {<<>>} : p = Head(a)
      BY <1>1
    <2>2. a \in Closure(A)
      BY <1>1, ClosureWords
    <2> QED
      BY <2>1, <2>2
  <1>4. ASSUME NEW w \in Closure(A) \ {<<>>}
        PROVE  Head(w) \in l.firstpos
    <2>1. PICK a \in A \ {<<>>} : \E u \in Seq(Nat) : w = a \o u
      BY <1>1, ClosureWords
    <2>2. Head(w) = Head(a)
      BY <1>1, <2>1, ConcatWord
    <2> QED
      BY <1>1, <2>2
  <1>5. l.firstpos = {Head(w) : w \in Closure(A) \ {<<>>}}
    BY <1>3, <1>4
  <1> QED
    BY <1>1, <1>2, <1>5, ClosureWords DEF Stands

(* Every constructor of the syntax tree keeps nullable and firstpos exact for  *)
(* languages without bound: what FirstposExact checks of whole trees on short  *)
(* words is, node by node, true of all.                                        *)
THEOREM NodesStand ==
    /\ \A p \in Nat : Stands(Leaf(p), {<<p>>})
    /\ \A l, r, A, B : Stands(l, A) /\ Stands(r, B) =>
          /\ Stands(Cat(l, r), Concat(A, B))
          /\ Stands(Or(l, r), A \cup B)
    /\ \A l, A : Stands(l, A) => Stands(Star(l), Closure(A))
  BY LeafStands, CatStands, OrStands, StarStands
=============================================================================
