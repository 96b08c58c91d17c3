----------------------------- MODULE MCMachine ------------------------------
(***************************************************************************)
(* Programs for the machine: every pattern of a small set against every    *)
(* value of a small set with every kind of guard, and programs with        *)
(* functions, closures, recur, overloads, defaults, structs and slices.    *)
(***************************************************************************)
EXTENDS Semantics

N(n) == Num(n)
Person == Val1("Person", Struct(<<Field("name", <<"str">>, <<>>), Field("age", <<"num">>, <<N(7)>>)>>))
NewPerson(fields, values) == StructInit(Id("Person"), fields, values)

Subjects ==
  <<N(1), N(2), Lit("nil"), Str("a"), List(<<>>), List(<<N(1)>>), List(<<N(2), N(1)>>),
    List(<<N(1), List(<<N(2)>>)>>), Bytes(<<1, 2>>), Map(<<>>), Map(<<Sym("a"), N(1)>>),
    Map(<<Sym("b"), N(2), Sym("a"), N(1)>>), Map(<<Sym("a"), N(3), Str("c"), N(4)>>),
    NewPerson(<<"name">>, <<Str("a")>>)>>

Patterns ==
  <<Wild, Id("x"), LitPat(N(1)), Pin("p"), BindAs("w", Id("x")),
    ListPat(<<>>), ListPat(<<Id("x")>>), ListPat(<<Id("x"), Rest("r")>>),
    ListPat(<<LitPat(N(1)), Wild>>), ListPat(<<Id("x"), ListPat(<<Id("y"), Rest("")>>)>>),
    ListPat(<<ListPat(<<Id("y")>>), Pin("p")>>), BindAs("w", ListPat(<<Pin("p"), Rest("r")>>)),
    MapPat(<<>>, <<>>), MapPat(<<Sym("a")>>, <<Id("x")>>), MapPat(<<Sym("a")>>, <<LitPat(N(3))>>),
    MapPatWith(<<Sym("a")>>, <<Id("x")>>, "exact", ""),
    MapPatWith(<<>>, <<>>, "all", ""), MapPatWith(<<Sym("b")>>, <<Pin("p")>>, "spread", "r"),
    StructPat("Person", <<"name", "age">>, <<Id("x"), Id("y")>>),
    StructPat("Person", <<"age">>, <<LitPat(N(7))>>),
    AnyOf(<<LitPat(N(2)), LitPat(Str("a"))>>), AnyOf(<<Pin("p"), LitPat(N(1))>>)>>

\* The names a pattern binds, in a list: what the body of a case returns.
RECURSIVE Bound(_)
Bound(p) ==
  (IF p.k \in {"id", "bind", "spread", "map"} /\ p.name # "" THEN <<Id(p.name)>> ELSE <<>>)
    \o FlattenSeq([i \in DOMAIN p.sub |-> Bound(p.sub[i])])
Body(n, p) == List(<<N(n)>> \o Bound(p))
CaseGuards(p) == <<<<>>, <<Bool(FALSE)>>>>
  \o (IF Bound(p) = <<>> THEN <<>> ELSE <<<<Infix("==", Bound(p)[1], N(1))>>>>)

\* A match inside a larger expression, so that the stack is not empty.
Matching(v, p, guard, q) ==
  <<Person, Val1("p", N(2)),
    List(<<N(8), Match(v, <<Case(p, guard, Body(1, p)), Case(q, <<>>, Body(2, q))>>), Id("p")>>)>>
OneMatch ==
  FlattenSeq([i \in DOMAIN Subjects |-> FlattenSeq([j \in DOMAIN Patterns |->
    [g \in DOMAIN CaseGuards(Patterns[j]) |->
       Matching(Subjects[i], Patterns[j], CaseGuards(Patterns[j])[g],
                Patterns[1 + ((i + j + g) % Len(Patterns))])]])])

-----------------------------------------------------------------------------
P(name) == Param(name, <<>>)
Fun(params, stmts) == Fn("", params, <<>>, Block(stmts))
Plus(a, b) == Infix("+", a, b)

Handwritten ==
  <<\* closures and shadowing
    <<Val1("x", N(1)), Val1("f", Fun(<<P("y")>>, <<Plus(Id("x"), Id("y"))>>)),
      Block(<<Val1("x", N(5)), Call(Id("f"), <<Id("x")>>)>>)>>,
    <<Var1("c", N(0)), Val1("inc", Fun(<<>>, <<Assign("c", Plus(Id("c"), N(1)))>>)),
      Call(Id("inc"), <<>>), Call(Id("inc"), <<>>), Id("c")>>,
    \* recur
    <<Val1("sum", Fun(<<P("n"), P("acc")>>,
        <<IfElse(Infix("==", Id("n"), N(0)), Block(<<Id("acc")>>),
                 Block(<<Recur(<<Infix("-", Id("n"), N(1)), Plus(Id("acc"), Id("n"))>>)>>))>>)),
      Call(Id("sum"), <<N(3), N(0)>>)>>,
    <<Val1("len", Fun(<<P("xs"), P("n")>>,
        <<Match(Id("xs"), <<Case(ListPat(<<>>), <<>>, Id("n")),
            Case(ListPat(<<Wild, Rest("t")>>), <<>>, Recur(<<Id("t"), Plus(Id("n"), N(1))>>))>>)>>)),
      Call(Id("len"), <<List(<<N(7), N(8)>>), N(0)>>)>>,
    \* early returns and errors
    <<Val1("f", Fun(<<P("a")>>, <<If(Id("a"), Block(<<Return(N(1))>>)), N(2)>>)),
      List(<<Call(Id("f"), <<Bool(TRUE)>>), Call(Id("f"), <<Bool(FALSE)>>)>>)>>,
    <<Val1("f", Fun(<<P("a")>>, <<Throw(Id("a"))>>)), Plus(N(1), Call(Id("f"), <<N(4)>>))>>,
    <<Plus(N(1), Lit("nil"))>>, <<Id("nowhere")>>, <<Call(N(1), <<>>)>>,
    <<Val1("x", N(1)), Assign("x", N(2))>>, <<Val1("x", N(1)), Val1("x", N(2))>>,
    <<Match(N(1), <<Case(MapPat(<<Sym("a")>>, <<Wild>>), <<>>, N(1))>>)>>,
    \* arguments: defaults in the closure, by name, spread, variadic
    <<Val1("d", N(3)), Val1("f", Fun(<<P("a"), Optional("b", <<>>, Id("d")), Variable("r", <<>>)>>,
        <<List(<<Id("a"), Id("b"), Id("r")>>)>>)),
      List(<<Call(Id("f"), <<N(1)>>), Call(Id("f"), <<N(1), N(2), N(4), N(5)>>),
             Call(Id("f"), <<N(1), NamedArg("r", List(<<N(6)>>))>>),
             Call(Id("f"), <<Spread(List(<<N(7), N(8), N(9)>>))>>)>>)>>,
    <<Val1("f", Fun(<<P("a"), P("b")>>, <<Infix("-", Id("a"), Id("b"))>>)),
      List(<<Call(Id("f"), <<NamedArg("b", N(1)), NamedArg("a", N(5))>>),
             Call(Id("f"), <<N(4), NamedArg("a", N(1))>>)>>), Call(Id("f"), <<N(1)>>)>>,
    <<Val1("f", Fun(<<P("a")>>, <<Id("a")>>)), Call(Id("f"), <<N(1), NamedArg("z", N(2))>>)>>,
    <<Val1("f", Fun(<<P("a")>>, <<Id("a")>>)), Call(Id("f"), <<Spread(N(1))>>)>>,
    \* overloads, by arity and by type
    <<Val1("f", Fn("", <<Param("a", <<"num">>)>>, <<>>, Block(<<N(1)>>))),
      Val1("f", Fn("", <<Param("a", <<"str">>)>>, <<>>, Block(<<N(2)>>))),
      Val1("f", Fun(<<P("a"), P("b")>>, <<N(3)>>)),
      List(<<Call(Id("f"), <<N(0)>>), Call(Id("f"), <<Str("s")>>), Call(Id("f"), <<N(0), N(0)>>)>>)>>,
    \* declared result types
    <<Val1("f", Fn("T", <<Param("a", <<"T">>)>>, <<"list", "<", "T", ">">>, Block(<<List(<<Id("a")>>)>>))),
      Call(TypeApply(Id("f"), <<<<"num">>>>), <<N(1)>>)>>,
    <<Val1("f", Fn("", <<P("a")>>, <<"str">>, Block(<<Id("a")>>))), Call(Id("f"), <<N(1)>>)>>,
    \* operators
    <<List(<<Infix("&&", Bool(FALSE), Id("no")), Infix("||", N(1), Id("no")),
             Infix("&&", N(1), N(2)), Infix("||", Lit("nil"), N(3))>>)>>,
    <<List(<<Infix("<", N(1), N(2)), Infix(">=", Str("a"), Str("b")), Infix("*", Str("ab"), N(2)),
             Infix("==", List(<<N(1)>>), List(<<N(1)>>)), Infix("&", Bytes(<<3, 6>>), N(2)),
             Prefix("!", Lit("nil")), Prefix("-", N(3)), Prefix("~", Bytes(<<1>>))>>)>>,
    <<List(<<Infix(":+", List(<<>>), N(1)), Infix("+:", N(0), List(<<N(1)>>)),
             Plus(List(<<N(1)>>), List(<<N(2)>>)), Plus(List(<<N(1), N(2)>>), List(<<N(3), N(4)>>)),
             Plus(List(<<N(1)>>), List(<<N(2), N(3)>>))>>)>>,
    <<Infix(":+", N(1), N(2))>>,
    \* indexing and slices
    <<Val1("xs", List(<<N(1), N(2), N(3), N(4)>>)),
      List(<<Index(Id("xs"), N(0)), Index(Id("xs"), N(-1)), Index(Id("xs"), N(9)),
             Index(Id("xs"), Slice(N(1), Lit("none"), Lit("none"))),
             Index(Id("xs"), Slice(Lit("none"), N(-1), N(2))), Index(Str("abc"), Slice(N(1), N(9), Lit("none")))>>)>>,
    <<Val1("m", Map(<<Str("a"), N(1), Sym("b"), N(2)>>)),
      List(<<Dot(Id("m"), "a"), Dot(Id("m"), "b"), Index(Id("m"), Sym("a")), Index(Id("m"), Str("z"))>>)>>,
    <<Index(Map(<<>>), List(<<>>))>>, <<Map(<<List(<<>>), N(1)>>)>>,
    \* structs
    <<Person, Val1("q", NewPerson(<<"name">>, <<Str("a")>>)),
      List(<<Dot(Id("q"), "age"), Dot(StructCopy(Id("q"), Map(<<Sym("age"), N(1)>>)), "age"),
             Dot(Id("q"), "none"), StructCopy(Map(<<Sym("k"), N(1)>>), Map(<<Sym("k"), N(2)>>))>>)>>,
    <<Person, NewPerson(<<"age">>, <<Str("a")>>)>>, <<Person, NewPerson(<<"size">>, <<N(1)>>)>>,
    <<StructInit(N(1), <<>>, <<>>)>>, <<StructCopy(N(1), Map(<<>>))>>,
    \* destructuring declarations
    <<Declare("val", ListPat(<<Id("a"), Wild, ListPat(<<Id("b")>>)>>), <<>>,
              List(<<N(1), N(2), List(<<N(3)>>)>>)), List(<<Id("a"), Id("b")>>)>>,
    <<Declare("var", MapPat(<<Sym("a")>>, <<BindAs("w", Id("x"))>>), <<>>, Map(<<Sym("a"), N(1)>>)),
      Assign("x", N(2)), List(<<Id("w"), Id("x")>>)>>,
    <<Declare("val", MapPatWith(<<>>, <<>>, "all", ""), <<>>, Map(<<Sym("a"), N(1), N(5), N(2)>>)), Id("a")>>,
    <<Person, Declare("val", StructPat("Person", <<"name">>, <<Id("n")>>), <<>>,
                      NewPerson(<<"name">>, <<Str("z")>>)), Id("n")>>,
    <<Declare("val", MapPatWith(<<>>, <<>>, "exact", ""), <<>>, Map(<<>>))>>,
    <<Declare("val", MapPatWith(<<>>, <<>>, "all", ""), <<>>, N(1))>>>>

-----------------------------------------------------------------------------
\* Every shape of parameters called with every shape of arguments, as a
\* function of the program and as one of the host.
Shapes ==
  <<<<>>, <<P("a"), P("b")>>, <<P("a"), Optional("b", <<>>, N(9))>>, <<P("a"), Variable("r", <<>>)>>,
    <<P("a"), Optional("b", <<>>, N(9)), Variable("r", <<>>)>>>>
Arguments ==
  <<<<>>, <<N(1)>>, <<N(1), N(2)>>, <<N(1), N(2), N(3)>>, <<NamedArg("b", N(2))>>,
    <<N(1), NamedArg("b", N(2))>>, <<N(2), NamedArg("a", N(1))>>, <<N(2), N(3), NamedArg("a", N(1))>>,
    <<N(1), NamedArg("r", List(<<N(5)>>))>>, <<N(1), NamedArg("r", N(5))>>,
    <<N(1), N(2), N(3), NamedArg("r", List(<<>>))>>, <<Spread(List(<<N(1), N(2)>>))>>,
    <<N(1), NamedArg("z", N(2))>>, <<NamedArg("b", N(1)), NamedArg("b", N(2))>>>>
Called ==
  FlattenSeq([i \in DOMAIN Shapes |-> FlattenSeq([j \in DOMAIN Arguments |->
    LET got == List([k \in DOMAIN Shapes[i] |-> Id(Shapes[i][k].name)]) IN
    <<<<Val1("f", Fun(Shapes[i], <<got>>)), Call(Id("f"), Arguments[j])>>,
      <<Foreign("args", Shapes[i], <<>>), Call(Id("args"), Arguments[j])>>>>])])

\* Overloads that tie for some arguments: by type, by number, by variadic and
\* default parameters, of the program and of the host.
Over(n, params) == Val1("f", Fn("", params, <<>>, Block(<<N(n)>>)))
A(t) == Param("a", <<t>>)
Groups ==
  <<<<Over(1, <<A("num")>>), Over(2, <<A("str")>>), Over(3, <<A("list")>>)>>,
    <<Over(1, <<A("list"), P("b")>>), Over(2, <<P("a"), Param("b", <<"list">>)>>), Over(3, <<P("a"), P("b")>>)>>,
    <<Over(1, <<A("num"), Optional("b", <<>>, N(0))>>), Over(2, <<P("a"), Variable("r", <<>>)>>), Over(3, <<P("a"), P("b")>>)>>,
    <<Over(1, <<A("Person")>>), Over(2, <<A("struct")>>), Over(3, <<A("fn")>>)>>,
    <<Foreign("args", <<A("num")>>, <<>>), Foreign("args", <<A("str"), P("b")>>, <<>>), Val1("f", Id("args"))>>,
    <<Foreign("args", <<A("struct")>>, <<>>), Foreign("rest", <<A("Person")>>, <<>>),
      Val1("f", Id("args")), Val1("f", Id("rest"))>>,
    <<Foreign("args", <<A("num"), Variable("r", <<>>)>>, <<>>), Foreign("rest", <<A("str"), Variable("r", <<>>)>>, <<>>),
      Val1("f", Id("args")), Val1("f", Id("rest")), Over(1, <<A("fn"), P("b")>>)>>>>
Given1 ==
  <<<<Lit("nil")>>, <<N(1)>>, <<Str("s")>>, <<List(<<>>)>>, <<Id("p")>>, <<Id("f")>>, <<N(1), N(2)>>,
    <<List(<<>>), List(<<>>)>>, <<Lit("nil"), Lit("nil")>>, <<N(1), NamedArg("a", Str("s"))>>, <<>>>>
Overloaded ==
  FlattenSeq([i \in DOMAIN Groups |-> [j \in DOMAIN Given1 |->
    <<Person, Val1("p", NewPerson(<<"name">>, <<Str("a")>>))>> \o Groups[i] \o <<Call(Id("f"), Given1[j])>>]])

\* What is refused before it runs, and functions that are never called, for
\* their code.
Tagged(e) == [Val1("m", e) EXCEPT !.name = "main"]
Misused ==
  <<<<Foreign("unheard", <<>>, <<>>)>>, <<List(<<Struct(<<>>)>>)>>, <<Val1("s", List(<<Struct(<<>>)>>))>>,
    <<Tagged(N(1))>>, <<Tagged(Fun(<<>>, <<N(1)>>)), Tagged(Fun(<<>>, <<N(1)>>))>>,
    <<Tagged(Fun(<<P("a")>>, <<N(1)>>))>>, <<Tagged(Fun(<<Optional("a", <<>>, N(5))>>, <<Id("a")>>)), N(1)>>,
    <<Tagged(Fun(<<>>, <<Throw(N(2))>>)), N(1)>>, <<Tagged(Fun(<<>>, <<N(5)>>)), Throw(N(3))>>,
    <<Tagged(Fun(<<>>, <<N(5)>>)), Val1("k", Id("m")), Block(<<Tagged(Fun(<<P("b")>>, <<Id("b")>>))>>)>>,
    <<Val1("f", Fun(<<P("n")>>, <<Plus(N(1), Recur(<<N(1)>>))>>))>>,
    <<Val1("f", Fun(<<P("n")>>, <<Recur(<<N(1)>>), N(2)>>))>>,
    <<Val1("f", Fun(<<P("n")>>, <<Call(Id("f"), <<Recur(<<N(1)>>)>>)>>))>>,
    <<Val1("f", Fun(<<P("n")>>, <<Match(Recur(<<>>), <<Case(Wild, <<>>, N(1))>>)>>))>>>>
Uncalled ==
  <<<<Val1("f", Fun(<<P("c")>>,
        <<Defer("always", "", Block(<<N(1)>>)), Defer("onerror", "e", Block(<<Id("e")>>)),
          Val1("t", Spawn(Block(<<Id("c")>>))),
          Nursery(<<N(2)>>, <<Nursery(<<>>, <<Await(Id("t"))>>), If(Id("c"), Block(<<Return(N(3))>>)), N(4)>>),
          Select(<<SelectCase("recv", <<Id("c")>>, <<Fun(<<P("v")>>, <<Id("v")>>)>>),
                   SelectCase("send", <<Id("c"), N(1)>>, <<Call(Id("f"), <<N(1)>>)>>),
                   SelectCase("after", <<N(5)>>, <<>>), SelectCase("await", <<Id("t")>>, <<>>),
                   SelectCase("default", <<>>, <<>>)>>),
          Await(Id("t"))>>)), N(1)>>,
    <<Call(Id("len"), <<List(<<N(1)>>)>>), Plus(Call(Id("len"), <<Str("ab")>>), Call(Id("len"), <<Map(<<>>)>>))>>,
    <<Call(Id("len"), <<>>)>>, <<Call(Id("len"), <<NamedArg("v", N(1))>>)>>, <<Call(Id("len"), <<N(1)>>)>>,
    <<Foreign("type", <<P("v")>>, <<>>), List(<<Call(Id("type"), <<N(1)>>), Call(Id("type"), <<Id("type")>>)>>)>>,
    \* an iteration that leaves scopes open at its recur, and a default that recurs to the closure
    <<Val1("k", N(4)), Val1("f", Fun(<<P("n"), Optional("d", <<>>, Id("k"))>>,
        <<Val1("k", Plus(Id("n"), N(1))), Block(<<Val1("z", N(2))>>),
          Match(Id("n"), <<Case(LitPat(N(0)), <<>>, List(<<Id("k"), Id("d")>>)),
                           Case(Id("m"), <<>>, IfElse(Bool(TRUE), Block(<<Recur(<<Infix("-", Id("m"), N(1))>>)>>),
                                                      Block(<<Id("z")>>)))>>)>>)),
      Call(Id("f"), <<N(2), N(8)>>)>>>>

\* Slices around the ends of a sequence.
Ends1 == <<Lit("none"), N(-4), N(-1), N(0), N(1), N(3), N(5)>>
Steps == <<Lit("none"), N(-1), N(0), N(2), N(3)>>
Slices ==
  FlattenSeq([i \in DOMAIN Ends1 |-> FlattenSeq([j \in DOMAIN Ends1 |-> [k \in DOMAIN Steps |->
    <<Val1("s", Slice(Ends1[i], Ends1[j], Steps[k])),
      List(<<Index(List(<<N(7), N(8), N(9)>>), Id("s")), Index(Str("abcd"), Id("s")),
             Index(Bytes(<<>>), Id("s"))>>)>>]])])

MachinePrograms == OneMatch \o Handwritten \o Called \o Overloaded \o Misused \o Uncalled \o Slices
=============================================================================
