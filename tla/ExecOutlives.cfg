CONSTANTS
  MaxTask = 2
  MaxSteps = 4
  MaxFrames = 2
  MaxIter = 1
  Limits = {1}
  RootLimit = 4
  Ops = {"callNursery", "spawn", "throw"}
SPECIFICATION Spec
INVARIANTS NoTaskOutlivesItsNursery
