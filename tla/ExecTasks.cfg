CONSTANTS
  MaxTask = 3
  MaxSteps = 5
  MaxFrames = 2
  MaxIter = 1
  Limits = {1}
  RootLimit = 4
  Ops = {"callNursery", "spawn", "throw", "recur", "await", "timeout", "return", "badCall", "mismatch"}
SPECIFICATION Spec
INVARIANTS TypeOK NurseryJoins CancelHasCause
PROPERTIES ImplementsPromise
