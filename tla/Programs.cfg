SPECIFICATION Spec
CONSTANTS
  MaxInt = 9
  CoefBits = 11
  ExpBits = 5
  MaxDigits = 3
  Precision = 2
  Programs <- AllPrograms
INVARIANTS
  StackDisciplined
  BeginsAtHome
  ChoiceOrderFree
  ArgumentsArrive
  ArithmeticIsClose
  GenericReturns
PROPERTIES
  ResultAgrees
  NoFalseAlarm
  SumsAreSafe
  UnreachableNeverRuns
CHECK_DEADLOCK FALSE
