--------------------------------- MODULE Dfa ---------------------------------
(* The machine of lex.cc: CreateDfa turns sets of positions into states, and *)
(* GenerateMachine prints the transitions as nested switches. A step is one  *)
(* turn of the inner loop of the first, and one of the outer loop of the     *)
(* second.                                                                   *)
(*                                                                           *)
(* A character is a string. States, positions and transitions count from 1   *)
(* here and from 0 in the code.                                              *)
EXTENDS Integers, Sequences, SequencesExt

CONSTANT Letters    \* the literals, a sequence in the order of their codes

SENTINEL == "SENTINEL"

ASSUME DfaAssumption ==
    /\ Letters \in Seq(STRING)
    /\ \A i \in DOMAIN Letters :
            Letters[i] \notin {"(", ")", "*", "|", "NL", SENTINEL}
    /\ \A i, j \in DOMAIN Letters : Letters[i] = Letters[j] => i = j

\* The symbols a position can hold, in the order of the loop over iChar.
Sym == <<"(", ")", "*">> \o Letters \o <<"|", SENTINEL>>

Symbols == ToSet(Sym)

VARIABLES
    phase,          \* the pass to run next, or how the program ended
    positions,      \* the symbol of each leaf
    followpos,      \* a set of positions for each position
    states,         \* the DFA's states: a sequence of sets of positions
    transitions,    \* a sequence of [from, on, to]
    iState, iChar,  \* the loops over states and symbols
    emitted         \* how many transitions GenerateMachine printed

dfa == <<phase, positions, followpos, states, transitions, iState, iChar, emitted>>

DfaInit ==
    /\ phase = "ParseRegex"
    /\ positions = <<>>
    /\ followpos = <<>>
    /\ states = <<>>
    /\ transitions = <<>>
    /\ iState = 1
    /\ iChar = 1
    /\ emitted = 0

-----------------------------------------------------------------------------
(* CreateDfa *)

GetStateNum_Last(ss, new) ==
    IF Last(ss) = new THEN Len(ss) ELSE Len(ss) + 1

\* The number of the state, which is one more than there are if it is new.
GetStateNum(ss, new) ==
    IF \E i \in DOMAIN ss : ss[i] = new
    THEN CHOOSE i \in DOMAIN ss : ss[i] = new
    ELSE Len(ss) + 1

Moves(state, symbol) ==
    UNION {followpos[p] : p \in {q \in state : positions[q] = symbol}}

CreateDfa ==
    /\ phase = "CreateDfa"
    /\ iState <= Len(states)
    /\ LET new == Moves(states[iState], Sym[iChar])
           num == GetStateNum(states, new)
       IN  IF new = {} THEN UNCHANGED <<states, transitions>>
           ELSE /\ states' = IF num > Len(states) THEN Append(states, new) ELSE states
                /\ transitions' = Append(transitions,
                        [from |-> iState, on |-> Sym[iChar], to |-> num])
    /\ iChar' = IF iChar < Len(Sym) THEN iChar + 1 ELSE 1
    /\ iState' = IF iChar < Len(Sym) THEN iState ELSE iState + 1
    /\ UNCHANGED <<phase, positions, followpos, emitted>>

\* The worklist is empty: GenerateMachine begins.
Generate ==
    /\ phase = "CreateDfa"
    /\ iState > Len(states)
    /\ phase' = "GenerateMachine"
    /\ iState' = 1
    /\ UNCHANGED <<positions, followpos, states, transitions, iChar, emitted>>

-----------------------------------------------------------------------------
(* GenerateMachine *)

CasesFrom_OneShort(i, n) ==
    {k \in n + 1 .. Len(transitions) - 1 :
        \A j \in n + 1 .. k : transitions[j].from = i}

\* The transitions the inner loop prints for state i when n are printed.
CasesFrom(i, n) ==
    {k \in n + 1 .. Len(transitions) :
        \A j \in n + 1 .. k : transitions[j].from = i}

\* The inner loop ends when it reads a transition of another state. After the
\* last transition that read is past the end of the vector: what it finds may
\* end the loop, look like one more transition, or be a fault.
GenerateMachine ==
    /\ phase = "GenerateMachine"
    /\ iState <= Len(states)
    /\ LET cases == CasesFrom(iState, emitted)
       IN  /\ emitted' = IF cases = {} THEN emitted ELSE Max(cases)
           /\ \/ phase' = phase
              \/ phase' = "overrun" /\ Len(transitions) \in cases
    /\ iState' = iState + 1
    /\ UNCHANGED <<positions, followpos, states, transitions, iChar>>

Generated ==
    /\ phase = "GenerateMachine"
    /\ iState > Len(states)
    /\ phase' = "done"
    /\ UNCHANGED <<positions, followpos, states, transitions, iState, iChar, emitted>>

Machine == CreateDfa \/ Generate \/ GenerateMachine \/ Generated

-----------------------------------------------------------------------------
(* The machine behind any parser *)

\* Whatever comes before CreateDfa leaves positions, followpos and the
\* firstpos of the tree's root, of which nothing is known but their kind.
Prepare ==
    /\ phase \in {"ParseRegex", "CalculateFollowPos"}
    /\ positions' \in Seq(Symbols)
    /\ followpos' \in [DOMAIN positions' -> SUBSET DOMAIN positions']
    /\ \/ phase' \in {"CalculateFollowPos", "Fail", "assert"} /\ UNCHANGED states
       \/ /\ phase' = "CreateDfa"
          /\ states' \in Seq((SUBSET DOMAIN positions') \ {{}})
          /\ Len(states') = 1
    /\ UNCHANGED <<transitions, iState, iChar, emitted>>

DfaSpec == DfaInit /\ [][Prepare \/ Machine]_dfa

-----------------------------------------------------------------------------
(* Properties *)

\* The passes leave behind states and transitions of their kinds.
DfaTypeOK ==
    /\ phase \in {"ParseRegex", "CalculateFollowPos", "CreateDfa", "GenerateMachine",
                  "done", "overrun", "Fail", "assert"}
    /\ positions \in Seq(Symbols)
    /\ followpos \in [DOMAIN positions -> SUBSET DOMAIN positions]
    /\ states \in Seq((SUBSET DOMAIN positions) \ {{}})
    /\ transitions \in Seq([from : DOMAIN states, on : Symbols, to : DOMAIN states])
    /\ iState \in 1 .. Len(states) + 1
    /\ iChar \in DOMAIN Sym
    /\ emitted \in 0 .. Len(transitions)

\* CreateDfa is through with symbol c of state i.
Expanded(i, c) ==
    \/ phase \in {"GenerateMachine", "done", "overrun"}
    \/ phase = "CreateDfa" /\ (i < iState \/ (i = iState /\ c < iChar))

\* No set of positions is a state twice: the worklist ends.
StatesDistinct == \A i, j \in DOMAIN states : states[i] = states[j] => i = j

\* Every state is reached, by way of earlier states.
StatesReached ==
    \A i \in DOMAIN states \ {1} :
        \E t \in ToSet(transitions) : t.to = i /\ t.from < i

\* A transition leads to the set of the positions that follow, and there is
\* one wherever there are such positions.
MovesExact ==
    /\ \A t \in ToSet(transitions) : states[t.to] = Moves(states[t.from], t.on)
    /\ \A i \in DOMAIN states, c \in DOMAIN Sym :
            Expanded(i, c) /\ Moves(states[i], Sym[c]) # {}
                => \E t \in ToSet(transitions) : t.from = i /\ t.on = Sym[c]

\* Transitions are in the order of their states, and one state has one
\* transition on a symbol.
TransitionsOrdered ==
    \A i, j \in DOMAIN transitions : i < j =>
        /\ transitions[i].from <= transitions[j].from
        /\ transitions[i].from = transitions[j].from
                => transitions[i].on # transitions[j].on

\* The automaton is the subset construction of the positions (lex.cc:173-193),
\* with no state twice and none unreached, and its transitions are in the order
\* that GenerateMachine relies on (lex.cc:299-322).
MachineWellFormed == StatesDistinct /\ StatesReached /\ MovesExact /\ TransitionsOrdered

\* The generated switch leaves out no transition, although GenerateMachine
\* walks states and transitions in step and never looks back.
SwitchComplete == phase \in {"done", "overrun"} => emitted = Len(transitions)
=============================================================================
