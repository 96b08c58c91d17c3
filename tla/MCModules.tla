------------------------------ MODULE MCModules ------------------------------
(* Small instances of Modules: families of programs over two library modules *)
(* that may import each other and the main one.                              *)
EXTENDS Modules

Value(n) == [op |-> "decl", name |-> n, sig |-> 0, mut |-> FALSE, export |-> TRUE]
Var(n) == [Value(n) EXCEPT !.mut = TRUE]
Private(n) == [Value(n) EXCEPT !.export = FALSE]
Function(n, s) == [Value(n) EXCEPT !.sig = s]
Star(from) == [op |-> "star", from |-> from, mut |-> FALSE]
StarVar(from) == [op |-> "star", from |-> from, mut |-> TRUE]
Named(from, n) == [op |-> "named", from |-> from, name |-> n, mut |-> FALSE, export |-> FALSE]
Try(from) == [op |-> "try", from |-> from]
UseOf(n) == [op |-> "use", name |-> n]
Fail == [op |-> "fail"]

\* Every choice of one source per module.
Sources(main, a, b) ==
  {[m \in Module |-> IF m = "main" THEN s[1] ELSE IF m = "a" THEN s[2] ELSE s[3]] :
     s \in main \X a \X b}

\* Values: imports of every kind, cycles, failures and attempts.
ValuePrograms ==
  Sources({<<Star(<<"a">>), UseOf("x")>>, <<Named(<<"a", "b">>, "x"), UseOf("x")>>,
           <<Private("x"), Try(<<"b">>), Star(<<"a">>)>>},
          BoundedSeq({Value("x"), Star(<<"b">>), UseOf("x"), Try(<<"b">>), Fail}, 3),
          BoundedSeq({Value("x"), Star(<<"a">>), Named(<<"a">>, "x"), Star(<<"main">>), Fail}, 2))

\* Functions: overloads within a module and across modules.
FunctionPrograms ==
  Sources({<<Star(<<"a", "b">>), UseOf("x")>>, <<Function("x", 1), Star(<<"a">>), Star(<<"b">>)>>,
           <<Named(<<"b", "a">>, "x"), Function("x", 2)>>},
          BoundedSeq({Function("x", 1), Function("x", 2), Star(<<"b">>), UseOf("x")}, 3),
          BoundedSeq({Function("x", 1), Function("x", 3), Star(<<"a">>)}, 2))

\* Names declared with var, by their module and by imports.
VarPrograms ==
  Sources({<<Star(<<"a">>), UseOf("x")>>},
          BoundedSeq({StarVar(<<"b">>), UseOf("x"), Var("x")}, 3),
          BoundedSeq({StarVar(<<"a">>), Var("x")}, 2))

AllPrograms == ValuePrograms \cup FunctionPrograms

\* An import between two others in a cycle.
CyclePrograms ==
  Sources({<<Star(<<"a">>)>>}, {<<Value("x"), Star(<<"b">>)>>, <<UseOf("x"), Value("x")>>},
          {<<Star(<<"a">>), Value("x")>>})

\* One function of two modules.
MergePrograms ==
  Sources({<<Star(<<"a", "b">>)>>}, {<<Function("x", 1)>>}, {<<Function("x", 2)>>})

\* The same signature declared twice.
TwicePrograms ==
  Sources({<<Star(<<"a">>)>>}, {<<Function("x", 1), Function("x", 1)>>}, {<<>>})

\* A module that imports itself and uses a name before it declares it.
SelfPrograms ==
  Sources({<<Star(<<"a">>)>>}, {<<Star(<<"a">>), UseOf("x"), Value("x")>>}, {<<>>})

\* Three library modules, "c" being the third: an import adds a function to
\* those of a, so that the next import may replace them by a reference.
ThreePrograms ==
  {[m \in Module |-> IF m = "main" THEN <<Star(<<"b">>)>>
                     ELSE IF m = "a" THEN <<Function("x", 1), Star(<<"c">>), Star(<<"b">>)>>
                     ELSE IF m = "b" THEN <<Star(<<"a">>), UseOf("x"), Value("x")>>
                     ELSE <<Function("x", 2)>>]}

\* Two goroutines that import the same modules.
TaskPrograms ==
  Sources({<<Star(<<"a">>), UseOf("x")>>, <<Try(<<"b", "a">>)>>},
          {<<Value("x")>>, <<Star(<<"b">>), Value("x")>>, <<Fail>>, <<Value("x"), Fail>>},
          {<<Value("x")>>, <<Star(<<"a">>), UseOf("x")>>})

NoScripts == [p \in {} |-> <<>>]
TaskScripts == [p \in {"task"} |-> <<Try(<<"a">>), Try(<<"b">>)>>]
=============================================================================
