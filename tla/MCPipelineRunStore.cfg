SPECIFICATION Spec
CONSTANTS
  Stage <- MCStage
  Kind <- MCKind
  DependsOn <- MCDependsOn
  MaxAttempts <- MCMaxAttempts
  Digest = {w0, w1}
  Baseline = w0
  ArtifactId = {x1, x2}
  Session = {k}
  Usage = {1}
  MaxCalls = 2
  MaxRepairCycles = 2
  MaxRunArtifacts = 3
  None = None
CHECK_DEADLOCK FALSE
INVARIANTS
  ValidSnapshot DependenciesBeforeStart ApprovedBeforeWrite RetriesCharged
PROPERTIES
  NoBlindRewrite

