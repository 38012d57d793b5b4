------------------------- MODULE MCProviderCapacity -------------------------
(* One account of the session's provider and one of a fallback. *)
EXTENDS ProviderCapacity, TLC

CONSTANTS a1, b1

MCAccount == {a1, b1}
MCProvider == [a \in MCAccount |-> IF a = b1 THEN "q" ELSE "p"]
MCMaxConcurrency == [a \in MCAccount |-> IF a = a1 THEN 2 ELSE 1]
TurnSymmetry == Permutations(Turn)
=============================================================================
