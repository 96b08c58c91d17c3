CONSTANTS
  Module = {"main", "a", "b"}
  MainModule = "main"
  Name = {"x"}
  Proc = {"main"}
  Main = "main"
  Programs <- AllPrograms
  Scripts <- NoScripts
SPECIFICATION Spec
INVARIANTS TypeOK AtMostOnce ExportsComplete RefsResolve
PROPERTIES LocalsWin ImportsAddOverloads
