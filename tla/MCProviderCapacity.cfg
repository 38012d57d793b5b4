SPECIFICATION Spec
CONSTANTS
  a1 = a1
  b1 = b1
  Account <- MCAccount
  Provider <- MCProvider
  Primary = "p"
  Turn = {t1, t2}
  MaxConcurrency <- MCMaxConcurrency
  UncertainStrikes = 2
  MaxGeneration = 1
  None = None
SYMMETRY TurnSymmetry
CHECK_DEADLOCK FALSE
INVARIANTS
  InflightExact ParkEarned PinnedUsable ChainExhausted
PROPERTIES
  TurnEnds

