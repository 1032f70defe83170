----------------------------- MODULE SyntaxNodes -----------------------------
(* The nodes of lex.cc's syntax tree, with the sets of positions they carry. *)
(* An IntSet is a vector that Union keeps sorted and without duplicates: a   *)
(* set. Positions count from 1 here and from 0 in the code.                  *)

Leaf(p) == [op |-> "leaf", position |-> p, nullable |-> FALSE,
            firstpos |-> {p}, lastpos |-> {p}]

FirstOfCat_NotNullable(l, r) == l.firstpos
FirstOfCat(l, r) == l.firstpos \cup (IF l.nullable THEN r.firstpos ELSE {})

\* The code reads its children's firstpos where lastpos is meant.
LastOfCat(l, r) == r.firstpos \cup (IF r.nullable THEN l.firstpos ELSE {})

Cat(l, r) == [op |-> "cat", left |-> l, right |-> r,
              nullable |-> l.nullable /\ r.nullable,
              firstpos |-> FirstOfCat(l, r), lastpos |-> LastOfCat(l, r)]

Or(l, r) == [op |-> "or", left |-> l, right |-> r,
             nullable |-> l.nullable \/ r.nullable,
             firstpos |-> l.firstpos \cup r.firstpos,
             lastpos |-> l.lastpos \cup r.lastpos]

Star(l) == [op |-> "star", left |-> l, nullable |-> TRUE,
            firstpos |-> l.firstpos, lastpos |-> l.firstpos]

\* AddToFollowPos for each i in from.
AddToFollowPos(follow, from, set) ==
    [i \in DOMAIN follow |-> follow[i] \cup (IF i \in from THEN set ELSE {})]
=============================================================================
