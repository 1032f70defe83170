------------------------------- MODULE MCLexin -------------------------------
(* Every text over two letters and the operators, for TLC. *)
EXTENDS LexinProps

TwoLetters == <<"a", "b">>
=============================================================================
