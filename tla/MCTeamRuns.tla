-------------------------------- MODULE MCTeamRuns --------------------------------
(* Two calls of the tool in one turn, or a department beside one: graphs of two and three tasks. *)
EXTENDS TeamRuns

Tools(g, h) == "one" :> [kind |-> "tool", graph |-> g] @@ "two" :> [kind |-> "tool", graph |-> h]
Dept(g, h) == "one" :> [kind |-> "department", graph |-> g] @@ "two" :> [kind |-> "tool", graph |-> h]

Join == <<{}, {}, {1, 2}>>
Chain == <<{}, {1}, {2}>>
Pair == <<{}, {}>>
Step == <<{}, {1}>>
Cycle == <<{2}, {1}>>

MCSetup == {Tools(Pair, Pair), Tools(Pair, Step), Tools(Join, Cycle), Tools(Chain, <<{}>>), Dept(Join, <<{}>>)}
=============================================================================
