---------------------------- MODULE MCConditions ----------------------------
(***************************************************************************)
(* Conditions and inputs for TLC: every combination by and/or of a few     *)
(* atoms and their negations, and conditions written for each operator,    *)
(* each kind of loop and each rewrite of the compiler.                     *)
(***************************************************************************)
EXTENDS ConditionMachine, ConditionParser

E0(op, n) == Node(op, n, {}, <<>>)
E1(op, n, x) == Node(op, n, {}, <<x>>)
E2(op, x, y) == Node(op, 0, {}, <<x, y>>)
N(n) == E0("int", n)
S(id) == E0("str", id)
Count(id) == E0("count", id)
Offset(id, x) == E1("offset", id, x)
Length(id, x) == E1("length", id, x)
AtPlace(id, x) == E1("at", id, x)
InRange(id, x, y) == Node("in", id, {}, <<x, y>>)
No(x) == E1("not", 0, x)
Both(x, y) == E2("and", x, y)
Either(x, y) == E2("or", x, y)
Eq(x, y) == E2("eq", x, y)
Lt(x, y) == E2("lt", x, y)
Gt(x, y) == E2("gt", x, y)
Uint(width, x) == E1("read", width, x)
Name(n) == E0("name", n)
AnyOf == E0("any", 0)
AllOf == E0("all", 0)
NoneOf == E0("none", 0)
Size == E0("filesize", 0)
Text(n) == E0("text", n)
Dbl(n) == E0("dbl", n)
True == E0("true", 0)
Of(count, bounds) == Node("of", 0, {1, 2}, <<count>> \o bounds)
Loop(op, q, name, operands, body) ==
    Node(op, name, IF op = "forstr" THEN {1, 2} ELSE {}, <<q, body>> \o operands)

Atoms == {S(1), S(2), True, N(0), Gt(Count(1), N(1)), AtPlace(2, N(1)), Eq(Uint(2, N(0)), N(9)), Lt(Size, N(4))}
Literals == Atoms \cup {No(x) : x \in Atoms}
Combined == {E2(op, x, y) : op \in {"and", "or"}, x \in Literals, y \in Literals}

\* Three operands, and their negation.
Few == {S(1), Of(NoneOf, <<>>), Offset(1, N(2)), N(0)}
Nested ==
    LET pairs == {E2(op, x, y) : op \in {"and", "or"}, x \in Few, y \in Few}
    IN  {No(x) : x \in pairs}
        \cup {E2(op, x, y) : op \in {"and", "or"}, x \in pairs, y \in Few \cup {No(S(2))}}

\* Loop variables: 3 and 4, and 1, which is also an external.
Looped ==
    {Loop("forint", q, 3, <<N(1), Count(1)>>, Lt(Offset(1, Name(3)), N(3))) : q \in {AnyOf, AllOf, NoneOf, N(2)}}
    \cup {Loop("forint", AnyOf, 3, <<N(1), Count(1)>>, Loop("forint", AllOf, 4, <<Name(3), Count(2)>>,
              Gt(Offset(2, Name(4)), Offset(1, Name(3))))),
          Loop("forint", AnyOf, 3, <<N(1), Count(1)>>, Loop("forint", AnyOf, 4, <<N(1), Count(2)>>,
              Both(Gt(E2("sub", Offset(2, Name(4)), Offset(1, Name(3))), N(0)),
                  E2("le", E2("sub", Offset(2, Name(4)), Offset(1, Name(3))), N(2))))),
          Loop("forint", AnyOf, 3, <<N(1), Count(1)>>, Loop("forint", AnyOf, 4, <<N(1), Count(2)>>,
              Lt(Offset(2, Name(4)), Offset(1, Name(3))))),
          Loop("forint", AnyOf, 3, <<N(1), Count(1)>>, Loop("forint", AnyOf, 4, <<N(1), Count(2)>>,
              Eq(N(1), E2("sub", Offset(1, Name(3)), Offset(2, Name(4)))))),
          Loop("forstr", AnyOf, 0, <<>>, Loop("forint", AnyOf, 3, <<N(1), Count(0)>>,
              Loop("forint", AnyOf, 4, <<N(1), Count(2)>>, Lt(Offset(2, Name(4)), Offset(0, Name(3)))))),
          Loop("forstr", AnyOf, 0, <<>>, Loop("forint", AnyOf, 3, <<N(1), Count(0)>>,
              Loop("forint", AnyOf, 4, <<N(1), Count(2)>>, E2("ne", Offset(2, Name(4)), Offset(0, Name(3)))))),
          Loop("forint", AllOf, 3, <<N(3), N(1)>>, S(1)),
          Loop("forenum", AnyOf, 3, <<N(2), Name(1), E2("add", Name(1), N(1))>>, Eq(Uint(1, Name(3)), Name(1))),
          Both(Loop("forint", AllOf, 1, <<N(0), N(1)>>, Lt(Name(1), N(2))), Eq(Name(1), N(3))),
          Loop("forenum", N(2), 3, <<N(0), N(9), N(1)>>, AtPlace(1, Name(3))),
          Loop("fortext", AllOf, 3, <<Text(1), Text(2)>>, E2("ge", Name(3), Text(1))),
          Loop("fortext", AnyOf, 3, <<Text(1), Text(2)>>, Eq(Name(3), Name(2)))}
    \cup {Loop("forstr", q, 0, <<>>, Gt(Count(0), N(1))) : q \in {AnyOf, AllOf, NoneOf, N(1)}}
    \cup {Loop("forstr", AllOf, 0, <<N(1), N(2)>>, InRange(0, N(1), E2("sub", Size, N(1)))),
          Loop("forstr", AnyOf, 0, <<>>, Both(S(0), Loop("forint", AllOf, 4, <<N(1), N(2)>>, Lt(Name(4), N(3))))),
          Loop("forstr", AnyOf, 0, <<>>, Eq(Offset(0, N(1)), Length(0, N(1)))),
          Loop("forstr", AllOf, 0, <<>>, AtPlace(0, N(1)))}

Counted ==
    {Of(q, <<>>) : q \in {AnyOf, AllOf, NoneOf, N(2), E2("sub", N(1), N(2)), Count(1)}}
    \cup {Of(q, <<N(1), N(2)>>) : q \in {AnyOf, AllOf, NoneOf}}
    \cup {Of(AnyOf, <<N(1)>>), Of(AnyOf, <<Offset(1, N(2))>>), No(Of(NoneOf, <<>>)),
          Node("of", 0, {1}, <<AllOf>>), Either(Node("of", 0, {2}, <<AnyOf>>), S(1))}
    \cup {Node("pct", 0, {1, 2}, <<N(k)>>) : k \in {0, 50, 51}}
    \cup {Node("pct", 0, {1, 2}, <<N(50), N(0), N(1)>>), Node("countof", 0, {1, 2}, <<N(1), N(2)>>),
          Node("countof", 0, {1, 2}, <<N(0), Count(2)>>), Node("countin", 1, {}, <<N(1), N(2)>>)}

\* Values that are not there, types that do not fit, constants, and the input.
Valued ==
    {Offset(1, N(2)), No(Offset(1, N(2))), No(Both(True, Offset(1, N(2)))), E1("defined", 0, Offset(1, N(2))),
     Both(Gt(Offset(1, N(1)), N(0)), S(2)), Lt(Length(2, N(1)), Offset(2, N(1))),
     Eq(Uint(1, N(9)), N(0)), No(Eq(Uint(1, Offset(2, N(1))), N(1))), No(Eq(Uint(2, N(3)), N(9))),
     Both(Eq(Uint(2, N(0)), N(9)), S(1)), Either(Eq(N(9), Uint(2, N(0))), S(1)),
     Both(E2("ge", Size, N(4)), Both(Lt(N(0), Count(1)), AtPlace(1, N(0)))),
     Both(Eq(Name(1), N(3)), S(1)), No(Lt(Name(1), N(3))), Both(Eq(Name(2), Text(1)), No(S(2))),
     Either(Eq(Name(1), Text(1)), S(1)), Eq(Name(2), Name(2)), E2("ne", Name(1), N(3)),
     Both(AtPlace(1, N(1)), AtPlace(1, N(1))), Either(AtPlace(1, N(0)), AtPlace(2, E2("add", N(0), N(1)))),
     Both(AtPlace(1, Offset(2, N(1))), AtPlace(1, N(2))), AtPlace(1, E2("sub", N(0), N(1))),
     E0("rule", 1), Both(E0("rule", 2), Either(S(1), True)), Either(N(0), S(1)), Both(N(5), Eq(Count(1), Count(2))),
     Eq(E2("div", Count(1), Count(2)), N(1)), E2("mod", N(7), Count(1)), E2("idiv", N(7), N(0)),
     Eq(E2("add", N(127), N(1)), E1("neg", 0, N(128))), Gt(E2("mul", Size, N(64)), N(0)),
     Eq(E2("bor", E2("band", Size, N(6)), N(1)), E2("bxor", N(7), N(2))), Eq(E1("bnot", 0, Size), E1("neg", 0, N(5))),
     Eq(E2("shl", N(1), Count(1)), N(4)), E2("shr", N(9), E2("sub", N(0), Count(1))), E2("shr", E1("neg", 0, N(1)), N(9)),
     Eq(E2("mod", E1("neg", 0, N(7)), N(2)), E1("neg", 0, N(1))), Eq(E2("div", E1("neg", 0, N(7)), N(2)), E1("neg", 0, N(3))),
     Gt(E2("add", Size, Dbl(1)), Dbl(8)), Eq(E2("sub", Dbl(6), Dbl(2)), N(2)), E1("neg", 0, Dbl(4)),
     E2("contains", Text(2), Text(0)), E2("contains", Name(2), Text(1)), E2("contains", Name(1), Text(1)),
     Either(E2("contains", Name(2), E2("div", N(1), N(0))), S(1)), Eq(Text(1), Text(2)), Text(0),
     E2("lt", Text(1), Name(2)), Lt(S(1), S(2)), E1("neg", 0, Text(1))}

\* One operator of each level inside another, on either side, and below each sign.
PerLevel == {"or", "and", "eq", "lt", "bor", "bxor", "band", "shl", "sub", "mul", "mod"}
Signs == {"not", "defined", "neg", "bnot"}
Grouped ==
    LET pairs == {E2(op, Count(1), Size) : op \in PerLevel}
    IN  {E2(op, x, N(2)) : op \in PerLevel, x \in pairs}
        \cup {E2(op, N(2), x) : op \in PerLevel, x \in pairs}
        \cup {E1(sign, 0, x) : sign \in Signs, x \in pairs}
        \cup {E2(op, E1(sign, 0, Size), Count(2)) : op \in PerLevel, sign \in Signs}
        \cup {E2(op, Count(2), E1(sign, 0, Size)) : op \in PerLevel, sign \in Signs}

\* Quantifiers, loops and queries as operands.
Quantifying ==
    {Of(AnyOf, <<N(1)>>), Of(N(1), <<N(0), E2("sub", Size, N(1))>>), Node("pct", 0, {1, 2}, <<N(50)>>),
     Node("pct", 0, {1, 2}, <<N(50), N(1)>>), Node("of", 0, {2}, <<NoneOf>>), Node("countin", 1, {}, <<N(1), N(2)>>),
     Node("countof", 0, {1}, <<N(1), N(2)>>), InRange(1, N(0), E2("sub", Size, N(1))),
     AtPlace(1, E2("sub", Size, N(2))), Loop("forstr", AllOf, 0, <<N(1)>>, Either(S(0), Gt(Count(0), N(1)))),
     Loop("forint", AnyOf, 3, <<N(0), N(2)>>, Offset(1, E2("add", Name(3), N(1))))}
InContext ==
    {No(q) : q \in Quantifying} \cup {Both(q, S(2)) : q \in Quantifying}
    \cup {Either(S(2), Both(q, True)) : q \in Quantifying} \cup {Eq(Size, q) : q \in Quantifying}

AllConditions == Combined \cup Nested \cup Looped \cup Counted \cup Valued \cup Grouped \cup InContext

(***************************************************************************)
(* Occurrences of the strings, with their lengths, and the rest of the     *)
(* input.                                                                  *)
(***************************************************************************)
Input(one, two, bytes, rules, external) ==
    [spans |-> <<one, two>>, lens |-> <<[i \in DOMAIN one |-> i], [i \in DOMAIN two |-> 1]>>,
     data |-> bytes, rules |-> rules, externals |-> <<external, Value("str", 1)>>]

SomeInputs ==
    {Input(<<>>, <<>>, <<1, 2, 0, 3>>, <<TRUE, FALSE>>, Whole(3)),
     Input(<<0>>, <<>>, <<1, 2>>, <<FALSE, TRUE>>, Whole(2)),
     Input(<<>>, <<1>>, <<1, 2, 2>>, <<FALSE, FALSE>>, Whole(3)),
     Input(<<1, 2>>, <<1>>, <<1, 2, 0, 3>>, <<TRUE, TRUE>>, Whole(1)),
     Input(<<0, 2, 3>>, <<1, 3>>, <<1, 2, 3, 1>>, <<TRUE, TRUE>>, Value("str", 1)),
     Input(<<2>>, <<0, 1>>, <<>>, <<FALSE, TRUE>>, Whole(3))}

(***************************************************************************)
(* The same conditions as text: parsePrimary, the precedence climbing of   *)
(* parseBinaryExpressionWithPrecedence and the productions of the          *)
(* quantifiers read from the text of a condition, written with as few      *)
(* parentheses as its levels need or with all of them, the condition       *)
(* itself: no operator binds too tightly or to the wrong side, and no      *)
(* quantifier, range or loop takes a token too many or too few.            *)
(***************************************************************************)
WrittenIsRead == phase = "ready" => ReadsAsWritten(cond)
=============================================================================
