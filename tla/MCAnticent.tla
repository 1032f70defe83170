----------------------------- MODULE MCAnticent -----------------------------
(* Small instances of the server for TLC. *)
EXTENDS AnticentProps

CONSTANTS c1, c2

ConnOne == {c1}
ConnTwo == {c1, c2}
Symmetry == Permutations(ConnTwo)

AllTokens  == {"text", "cookie", "end"}
PlainTokens == {"text", "end"}
EndTokens == {"end"}
=============================================================================
