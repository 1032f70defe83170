-------------------------------- MODULE Lexin --------------------------------
(* The lexer generator of lex.cc. Its main() calls only an empty Parse(); the *)
(* passes run here in the order of the lines main() has disabled:            *)
(* ParseRegex builds a syntax tree whose nodes carry nullable, firstpos and  *)
(* lastpos; CalculateFollowPos walks the tree; and the machine of module Dfa *)
(* is made and printed.                                                      *)
(*                                                                           *)
(* "NL" stands for the two characters that end an expression early, '\0' and *)
(* '\n'.                                                                     *)
EXTENDS Dfa, SyntaxNodes

CONSTANT MAX_TEXT   \* bound: the longest text the generator is given

ASSUME LexinAssumption == MAX_TEXT \in Nat

Chars == ToSet(Letters) \cup {"(", ")", "*", "|", "NL"}

VARIABLES
    text,           \* what stdin holds
    tree            \* the root of the syntax tree

vars == <<text, tree, dfa>>

-----------------------------------------------------------------------------
(* The parser. Its state p has the text to come, the current symbol, the     *)
(* positions handed out, the node a Parse function returns, and how parsing  *)
(* ended if Fail or an assertion ended it: nothing the calls still under way *)
(* do counts then.                                                           *)

NextSym(p) ==
    IF p.rest = <<>> THEN [p EXCEPT !.cur = SENTINEL]
                     ELSE [p EXCEPT !.cur = Head(p.rest), !.rest = Tail(@)]

Accept(p, symbol) ==
    IF p.cur = symbol /\ symbol # SENTINEL THEN NextSym(p) ELSE p

Ends(p, how) ==
    [p EXCEPT !.cur = SENTINEL, !.end = IF @ = "none" THEN how ELSE @]

Expect(p, symbol) ==
    IF p.cur = symbol THEN Accept(p, symbol) ELSE Ends(p, "Fail")

NewLeaf(p, symbol) ==
    [p EXCEPT !.positions = Append(@, symbol),
              !.node = Leaf(Len(p.positions) + 1)]

RECURSIVE ParseE(_)

LiteralOf_Raw(symbol) == symbol
LiteralOf(symbol) == IF symbol = "NL" THEN SENTINEL ELSE symbol

ParseT(p) ==
    IF p.cur = "("
    THEN Expect(ParseE(Accept(NextSym(p), "(")), ")")
    ELSE LET symbol == LiteralOf(p.cur)
         IN  Accept(NewLeaf([p EXCEPT !.cur = symbol], symbol), symbol)

ParseU(p) ==
    LET t == ParseT(p)
    IN  IF t.cur = "*" THEN NextSym([t EXCEPT !.node = Star(t.node)]) ELSE t

EndsC_NotAtBar(symbol) == symbol \in {")", SENTINEL}
EndsC(symbol) == symbol \in {"|", ")", SENTINEL}

RECURSIVE MoreC(_)
MoreC(p) ==
    CASE p.cur = "*"  -> Ends(p, "assert")
      [] EndsC(p.cur) -> p
      [] OTHER        -> LET u == ParseU(p)
                         IN  MoreC([u EXCEPT !.node = Cat(p.node, u.node)])

ParseC(p) == MoreC(ParseU(p))

ParseE(p) ==
    LET c == ParseC(p)
        e == ParseE(NextSym(c))
    IN  IF c.cur = "|" THEN [e EXCEPT !.node = Or(c.node, e.node)] ELSE c

ParseRegex(source) ==
    LET e == ParseE(NextSym([rest |-> source, cur |-> SENTINEL, end |-> "none",
                             positions |-> <<>>, node |-> <<>>]))
        s == NewLeaf(e, SENTINEL)
    IN  CASE e.end # "none"    -> e
          [] e.cur # SENTINEL -> Ends(e, "Fail")
          [] OTHER             -> [s EXCEPT !.node = Cat(e.node, s.node)]

-----------------------------------------------------------------------------
(* followpos *)

FollowsStar_Never(follow, n) == follow
FollowsStar(follow, n) == AddToFollowPos(follow, n.lastpos, n.firstpos)

RECURSIVE FollowPos(_, _)
FollowPos(n, follow) ==
    CASE n.op = "leaf" -> follow
      [] n.op = "star" -> FollowsStar(FollowPos(n.left, follow), n)
      [] n.op = "or"   -> FollowPos(n.right, FollowPos(n.left, follow))
      [] n.op = "cat"  ->
            AddToFollowPos(FollowPos(n.right, FollowPos(n.left, follow)),
                           n.left.lastpos, n.right.firstpos)

-----------------------------------------------------------------------------

Init ==
    /\ text \in SeqOf(Chars, MAX_TEXT)
    /\ tree = <<>>
    /\ DfaInit

Parse ==
    /\ phase = "ParseRegex"
    /\ LET p == ParseRegex(text)
       IN  /\ phase' = IF p.end = "none" THEN "CalculateFollowPos" ELSE p.end
           /\ tree' = p.node
           /\ positions' = p.positions
           /\ followpos' = [i \in DOMAIN p.positions |-> {}]
    /\ UNCHANGED <<text, states, transitions, iState, iChar, emitted>>

CalculateFollowPos ==
    /\ phase = "CalculateFollowPos"
    /\ phase' = "CreateDfa"
    /\ followpos' = FollowPos(tree, followpos)
    /\ states' = <<tree.firstpos>>
    /\ UNCHANGED <<text, tree, positions, transitions, iState, iChar, emitted>>

Next ==
    \/ Parse
    \/ CalculateFollowPos
    \/ Machine /\ UNCHANGED <<text, tree>>

Spec == Init /\ [][Next]_vars
=============================================================================
