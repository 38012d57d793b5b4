SPECIFICATION MissionSpec
CONSTANTS
  Stage <- MCStage
  Kind <- MCKind
  DependsOn <- MCDependsOn
  MaxAttempts <- MCMaxAttempts
  Rank <- MCRank
  Digest = {w0, w1}
  Baseline = w0
  ArtifactId = {x1}
  Session = {}
  Usage = {1}
  MaxCalls = 3
  MaxRepairCycles = 2
  MaxRunArtifacts = 2
  None = None
  Client = {"any"}
  Crashes = FALSE
CHECK_DEADLOCK FALSE
INVARIANTS
  NoWriteFindingTrue
