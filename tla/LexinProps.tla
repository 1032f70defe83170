----------------------------- MODULE LexinProps -----------------------------
(* What the lexer generator promises, against the language of a regular      *)
(* expression on words of bounded length.                                    *)
EXTENDS Lexin

\* bound: the longest words compared. Every position of an expression of
\* MAX_TEXT characters is in a word that is no longer.
MAX_WORD == MAX_TEXT + 1

Concat(A, B) == {w \in {a \o b : a \in A, b \in B} : Len(w) <= MAX_WORD}

Repeat(A) == FoldLeft(LAMBDA W, i : W \cup Concat(W, A \ {<<>>}), {<<>>},
                      [i \in 1 .. MAX_WORD |-> i])

\* The words of positions the expression under a node stands for.
RECURSIVE Words(_)
Words(n) ==
    CASE n.op = "leaf" -> {<<n.position>>}
      [] n.op = "cat"  -> Concat(Words(n.left), Words(n.right))
      [] n.op = "or"   -> Words(n.left) \cup Words(n.right)
      [] n.op = "star" -> Repeat(Words(n.left))

RECURSIVE Nodes(_)
Nodes(n) ==
    CASE n.op = "leaf" -> {n}
      [] n.op = "star" -> {n} \cup Nodes(n.left)
      [] OTHER         -> {n} \cup Nodes(n.left) \cup Nodes(n.right)

Spell(w) == [i \in DOMAIN w |-> positions[w[i]]]

-----------------------------------------------------------------------------
(* The grammar in the comment above ParseRegex, without '(' '|' E ')', as    *)
(* the texts of each length with the language each one stands for.           *)

Joined(A, B, between, lang(_, _)) ==
    {[text |-> a.text \o between \o b.text, lang |-> lang(a.lang, b.lang)] :
        a \in A, b \in B}

Grammar[n \in 0 .. MAX_TEXT] ==
    LET T == IF n = 1 THEN {[text |-> <<x>>, lang |-> {<<x>>}] : x \in ToSet(Letters)}
             ELSE IF n < 3 THEN {}
             ELSE {[e EXCEPT !.text = <<"(">> \o @ \o <<")">>] : e \in Grammar[n - 2].E}
        U == T \cup (IF n < 2 THEN {} ELSE
                {[text |-> t.text \o <<"*">>, lang |-> Repeat(t.lang)] :
                    t \in Grammar[n - 1].T})
        C == U \cup UNION {Joined(Grammar[k].U, Grammar[n - k].C, <<>>, Concat) :
                                k \in 1 .. n - 1}
        E == C \cup UNION {Joined(Grammar[k].C, Grammar[n - k - 1].E, <<"|">>,
                                  LAMBDA a, b : a \cup b) : k \in 1 .. n - 2}
    IN  [T |-> T, U |-> U, C |-> C, E |-> E]

Derived == UNION {Grammar[n].E : n \in 0 .. MAX_TEXT}

\* ParseT takes two parentheses for one.
DoubleParen(s) == \E i \in 1 .. Len(s) - 1 : s[i] = "(" /\ s[i + 1] = "("

-----------------------------------------------------------------------------
(* Properties *)

IsNode(n) == n.op \in {"leaf", "cat", "or", "star"}

\* Every variable has its type.
TypeOK ==
    /\ text \in Seq(Chars)
    /\ tree = <<>> \/ IsNode(tree)
    /\ DfaTypeOK

\* Parser and tree walk hand a position for every leaf and a first state to the
\* machine: whatever is proved of module Dfa for any of these holds here.
ImplementsDfa == DfaSpec

\* A text of the grammar in the comment of lex.cc without "((" is parsed, and
\* the tree stands for the language the grammar gives the text: precedence and
\* nesting are right although '|' recurses on the right and C loops on the left.
ParsedAsGrammar ==
    phase \in {"CalculateFollowPos", "Fail", "assert"} =>
        \A d \in Derived : d.text = text /\ ~DoubleParen(text) =>
            /\ phase = "CalculateFollowPos"
            /\ {Spell(w) : w \in Words(tree.left)} = d.lang

\* At every node nullable says whether the empty word belongs to the node's
\* language, and firstpos is the set of positions that can begin a word.
FirstposExact ==
    phase = "CalculateFollowPos" =>
        \A n \in Nodes(tree) :
            /\ n.nullable <=> <<>> \in Words(n)
            /\ n.firstpos = {Head(w) : w \in Words(n) \ {<<>>}}

\* lastpos is the set of positions that can end a word, at every node whose
\* lastpos is used.
LastposExact(root) ==
    \A n \in Nodes(root) :
        /\ n.op = "cat" => n.left.lastpos = {Last(w) : w \in Words(n.left) \ {<<>>}}
        /\ n.op = "star" => n.lastpos = {Last(w) : w \in Words(n) \ {<<>>}}

Enders == {i \in DOMAIN states : Len(positions) \in states[i]}

\* The words that lead from state i to a state with the last SENTINEL's position.
RECURSIVE Accepted(_, _)
Accepted(i, n) ==
    (IF i \in Enders THEN {<<>>} ELSE {}) \cup
    (IF n = 0 THEN {} ELSE
        UNION {{<<t.on>> \o w : w \in Accepted(t.to, n - 1)} :
                    t \in {u \in ToSet(transitions) : u.from = i}})

\* Wherever the tree's lastpos is right, the automaton accepts exactly the
\* expression's words: firstpos, followpos, the subset construction and the
\* reuse of states by GetStateNum lose and add nothing.
AcceptsLanguage ==
    phase = "done" /\ LastposExact(tree) =>
        Accepted(1, MAX_TEXT) =
            {Spell(w) : w \in {v \in Words(tree.left) : Len(v) <= MAX_TEXT}}
=============================================================================
