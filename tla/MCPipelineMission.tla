------------------------- MODULE MCPipelineMission -------------------------
(* The smallest definition pipeline-config.js accepts that writes: a        *)
(* department, its approval, the action, the truth gate.                    *)
EXTENDS PipelineMission

MCStage == {"d", "p", "a", "g"}
MCKind == [d |-> "department", p |-> "approval", a |-> "action", g |-> "truth-gate"]
MCDependsOn == [d |-> {}, p |-> {"d"}, a |-> {"d", "p"}, g |-> {"a"}]
MCMaxAttempts == [d |-> 2, p |-> 1, a |-> 1, g |-> 2]
MCRank == [d |-> 1, p |-> 2, a |-> 3, g |-> 4]
=============================================================================
