CONSTANTS
  Module = {"main", "a", "b"}
  MainModule = "main"
  Name = {"x"}
  Proc = {"main", "task"}
  Main = "main"
  Programs <- TaskPrograms
  Scripts <- TaskScripts
SPECIFICATION Spec
INVARIANT AtMostOnce
