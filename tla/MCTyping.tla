------------------------------ MODULE MCTyping ------------------------------
(***************************************************************************)
(* Programs for the checker: a parameter of every declared type of a small *)
(* set, used under every guard of a small set; reassignments; generic      *)
(* functions; sums of numbers.  Arguments are values of the declared type. *)
(***************************************************************************)
EXTENDS Typing, MCMachine

X == Id("x")
Nothing == Lit("nil")
Somebody == StructInit(Id("Person"), <<"name">>, <<Str("a")>>)

\* Declared types, with values of each.
Typed ==
  <<[ann |-> <<"num">>, vals |-> <<N(1)>>],
    [ann |-> <<"num", "|", "nil">>, vals |-> <<N(1), Nothing>>],
    [ann |-> <<"num", "|", "str", "|", "nil">>, vals |-> <<N(1), Str("a"), Nothing>>],
    [ann |-> <<"list", "<", "num", ">", "|", "nil">>, vals |-> <<List(<<N(1)>>), List(<<>>), Nothing>>],
    [ann |-> <<"Person", "|", "str">>, vals |-> <<Somebody, Str("a")>>],
    [ann |-> <<"any">>, vals |-> <<N(1), Nothing, List(<<N(1)>>), Somebody>>]>>

IsNil == Infix("==", X, Nothing)
NotNil == Infix("!=", X, Nothing)
Has1(k) == Infix("==", Call(Id("type"), <<X>>), Sym(k))
Negated(e) == Prefix("!", e)
Guards ==
  <<NotNil, Has1("number"), Has1("list"), Infix("&&", NotNil, Has1("string")),
    Infix("||", Has1("number"), Has1("nil")), Infix("&&", IsNil, Has1("number")),
    Negated(Infix("||", IsNil, Has1("string"))), Negated(Infix("&&", NotNil, Has1("number"))),
    Infix(">", Call(Id("len"), <<X>>), N(0))>>
Uses ==
  <<Infix("-", X, N(1)), Infix("+", X, N(1)), Infix(":+", X, N(1)), Infix("*", X, X),
    Match(X, <<Case(Id("y"), <<Infix("!=", Id("y"), Nothing)>>, Infix("-", Id("y"), N(1))),
               Case(Wild, <<>>, Throw(N(0)))>>)>>

Program(ann, body, v) ==
  <<Foreign("type", <<Param("v", <<>>)>>, <<"sym">>), Person,
    Val1("f", Fn("", <<Param("x", ann)>>, <<>>, Block(body))), Call(Id("f"), <<v>>)>>
Each(s, F(_)) == FlattenSeq([i \in DOMAIN s |-> F(s[i])])
One(p) == <<p>>

\* The use is in one branch, the other throws.
Stop == Block(<<Throw(N(0))>>)
Guarded ==
  Each(Typed, LAMBDA t : Each(t.vals, LAMBDA v : Each(Guards, LAMBDA g : Each(Uses, LAMBDA u :
    <<Program(t.ann, <<IfElse(g, Block(<<u>>), Stop)>>, v),
      Program(t.ann, <<IfElse(g, Stop, Block(<<u>>))>>, v)>>))))

\* The parameter is assigned in one branch and used after it.
Reassigned ==
  Each(SubSeq(Typed, 1, 4), LAMBDA t : Each(t.vals, LAMBDA v : Each(SubSeq(Guards, 1, 4), LAMBDA g :
    Each(<<N(2), Str("b"), Nothing>>, LAMBDA w : Each(<<Uses[1], Uses[2], Uses[4]>>, LAMBDA u :
      One(Program(t.ann, <<If(g, Block(<<Assign("x", w)>>)), u>>, v)))))))

\* Generic functions: what the parameter and the result are, and the body.
T == <<"T">>
ListT == <<"list", "<", "T", ">">>
Lists == <<List(<<>>), List(<<N(1)>>), List(<<N(1), Str("a")>>), List(<<Nothing, N(1)>>),
           List(<<List(<<>>), List(<<N(1)>>)>>), List(<<Somebody, Map(<<Sym("a"), N(1)>>)>>)>>
Values == Lists \o <<N(1), Nothing, Str("a"), Bool(TRUE), Bytes(<<1>>), Sym("q"), Somebody,
                     Map(<<>>), Map(<<Sym("a"), N(1), Str("b"), Nothing>>), Id("f"), Id("Person"),
                     Fn("", <<Param("a", <<"num">>)>>, <<"num">>, Block(<<N(1)>>))>>
Generic(ann, ret, body, v) ==
  One(<<Person, Val1("f", Fn("T", <<Param("x", ann)>>, ret, Block(<<body>>))), Call(Id("f"), <<v>>)>>)
OfAny ==
  <<[ret |-> T, body |-> X], [ret |-> <<"T", "|", "nil">>, body |-> X],
    [ret |-> ListT, body |-> List(<<X>>)], [ret |-> <<"[", "T", ",", "T", "]">>, body |-> List(<<X, X>>)],
    [ret |-> <<"map", "<", "sym", ",", "T", ">">>, body |-> Map(<<Sym("k"), X>>)]>>
OfList == <<[ret |-> ListT, body |-> X], [ret |-> T, body |-> Index(X, N(0))]>>
Generics ==
  Each(OfAny, LAMBDA s : Each(Values, LAMBDA v : Generic(T, s.ret, s.body, v)))
    \o Each(OfList, LAMBDA s : Each(Lists, LAMBDA v : Generic(ListT, s.ret, s.body, v)))

\* Programs over the rest of the language; those with tasks, imports and
\* defers are declared and not called.
F0(stmts) == Fn("", <<>>, <<>>, Block(stmts))
Whole ==
  <<<<Val1("sum", Fn("", <<Param("n", <<"num">>), Param("acc", <<>>)>>, <<>>,
        Block(<<IfElse(Infix("==", Id("n"), N(0)), Block(<<Id("acc")>>),
                  Block(<<Recur(<<Infix("-", Id("n"), N(1)), Infix("+", Id("acc"), Id("n"))>>)>>))>>))),
      Call(Id("sum"), <<N(3), N(0)>>)>>,
    <<Val1("id", Fn("T", <<Param("x", T)>>, T, Block(<<X>>))),
      Infix("-", Call(TypeApply(Id("id"), <<<<"num">>>>), <<N(1)>>), N(1))>>,
    <<Val1("P", Struct(<<Field("a", <<"num">>, <<N(7)>>), Field("b", <<>>, <<Nothing>>)>>)),
      Val1("p", StructInit(Id("P"), <<"b">>, <<Str("s")>>)),
      Match(StructCopy(Id("p"), Map(<<Sym("a"), N(1)>>)),
            <<Case(StructPat("P", <<"a">>, <<Id("q")>>), <<>>, Infix("-", Id("q"), N(1)))>>)>>,
    <<Val1("g", Fn("", <<Param("a", <<"num">>), Variable("r", <<>>)>>, <<>>, Block(<<Id("r")>>))),
      Call(Id("g"), <<N(1), Spread(List(<<N(2), N(3)>>))>>)>>,
    <<Declare("var", Id("x"), <<"num", "|", "nil">>, Nothing), Assign("x", N(1)), Infix("+", X, N(1))>>,
    <<Declare("val", Id("xs"), <<"list", "<", "num", ">">>, List(<<N(1), N(2)>>)),
      Declare("val", Id("m"), <<"map", "<", "str", ",", "num", ">">>, Map(<<Str("a"), N(1)>>)),
      Declare("val", Id("t"), <<"[", "num", ",", "str", "]">>, List(<<N(1), Str("a")>>)),
      Declare("val", ListPat(<<Id("a"), Id("b")>>), <<>>, Id("xs")), Infix("-", Id("a"), Id("b"))>>,
    <<List(<<Infix("&", Bytes(<<3>>), N(1)), Infix("<<", N(1), N(2)), Prefix("~", Bytes(<<1>>)),
             Prefix("-", N(1)), Infix("<", N(1), N(2)), Infix(":+", Bytes(<<1>>), N(2)),
             Infix("+:", N(0), List(<<N(1)>>))>>)>>,
    <<Val1("h", Fn("", <<Param("a", <<"num">>)>>, <<>>, Block(<<N(1)>>))),
      Val1("h", Fn("", <<Param("a", <<"str">>)>>, <<>>, Block(<<N(2)>>))), Call(Id("h"), <<Str("s")>>)>>,
    <<Val1("u", F0(<<Declare("val", MapPat(<<Sym("add")>>, <<Id("add")>>), <<>>, Call(Id("import"), <<Str("math")>>)),
                     Call(Id("add"), <<N(1), N(2)>>)>>)),
      Val1("w", F0(<<Defer("onerror", "err", Block(<<Id("err")>>)), Val1("t", Spawn(Block(<<N(1)>>))),
                     Select(<<SelectCase("await", <<Id("t")>>, <<Fn("", <<Param("v", <<>>)>>, <<>>, Block(<<Id("v")>>))>>),
                              SelectCase("default", <<>>, <<>>)>>), Await(Id("t"))>>)), N(1)>>>>

\* Pairs of numbers around the limits of a coefficient.
Numbers ==
  <<N(0), N(1), N(-3), N(7), N(189), N(999), N(1000), N(1023), N(-1023), Decimal(15, -1), Decimal(25, -2),
    Decimal(-5, -1), Decimal(1023, -2), Decimal(300, 1), Decimal(5, 4)>>
Sums ==
  FlattenSeq([i \in DOMAIN Numbers |-> [j \in DOMAIN Numbers |->
    <<List([k \in 1..8 |-> Infix(<<"+", "-", "*", "/", "%", "<", ">=", "==">>[k], Numbers[i], Numbers[j])])>>]])

TypingPrograms == Guarded \o Reassigned \o Generics \o Whole \o Sums
AllPrograms == MachinePrograms \o TypingPrograms
=============================================================================
