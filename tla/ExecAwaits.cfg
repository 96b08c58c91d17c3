CONSTANTS
  MaxTask = 2
  MaxSteps = 5
  MaxFrames = 2
  MaxIter = 1
  Limits = {1, 2}
  RootLimit = 4
  Ops = {"callNursery", "spawn", "await", "timeout", "share", "throw", "recur", "fault"}
SPECIFICATION LiveSpec
CHECK_DEADLOCK FALSE
INVARIANTS OwnedOnce LimiterAccounting DeadlocksAreAwaits
PROPERTIES Terminates
