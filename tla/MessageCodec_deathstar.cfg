SPECIFICATION Spec
CONSTANTS
  Benches <- DeathStarBench
  Builds <- DeathStarBuilds
  Inputs <- DeathStarInputs
  ShortLen = 5
  Garbage = {0}
INVARIANTS CommandNamesTop
