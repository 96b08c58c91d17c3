CONSTANTS
  MaxTask = 1
  MaxSteps = 5
  MaxFrames = 2
  MaxIter = 1
  Limits = {}
  RootLimit = 4
  Ops = {"block", "call", "callNursery", "defer", "spawn", "throw", "recur", "returnRecur", "nursery", "spawnBlock", "inherit"}
SPECIFICATION Spec
INVARIANTS NoUnderflow ScopesAligned
PROPERTIES CallsAreBalanced
