--------------------------- MODULE MCBoardColumns ---------------------------
(* Two callers, a name in two spellings and another one, one card.         *)
EXTENDS BoardColumns, TLC

CONSTANTS a, b
MCClients == {a, b}
MCLower == [n \in Names |-> IF n = "Todo" THEN "todo" ELSE n]
MCSymmetry == Permutations(MCClients)
=============================================================================
