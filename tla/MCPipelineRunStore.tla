------------------------- MODULE MCPipelineRunStore -------------------------
(* A mission that plans, asks for approval, writes, reviews what it wrote   *)
(* and verifies it: the gate rests on the write through another stage.      *)
EXTENDS PipelineRunStore

MCStage == {"d", "p", "a", "v", "g"}
MCKind == [d |-> "department", p |-> "approval", a |-> "action",
           v |-> "department", g |-> "truth-gate"]
MCDependsOn == [d |-> {}, p |-> {"d"}, a |-> {"d", "p"}, v |-> {"a"}, g |-> {"v"}]
MCMaxAttempts == [d |-> 2, p |-> 1, a |-> 1, v |-> 1, g |-> 1]
=============================================================================
