--------------------------- MODULE ConditionParser ---------------------------
(***************************************************************************)
(* How a condition is read (parser/expression_parser.go,                   *)
(* parser/quantifier_parser.go): precedence climbing over the tokens, and  *)
(* the productions for quantifiers, loops, ranges and string operations.   *)
(* The reference is the other direction: Written is the text of a          *)
(* condition, and reading it must give the condition back.                 *)
(*                                                                         *)
(* A token is [t, n]: its type and the number of its literal.  The parser  *)
(* stands at a token, k, and sees the one after it.  Its result is         *)
(* [ok, e, k]: the expression and the token it stopped at, or an error.    *)
(* Names are resolved here already; the limit of the depth is left out.    *)
(***************************************************************************)
EXTENDS ConditionLanguage

T(t) == [t |-> t, n |-> 0]
Tok(t, n) == [t |-> t, n |-> n]

Seen(toks, k) == IF k \in DOMAIN toks THEN toks[k] ELSE T("eof")
Is(toks, k, t) == Seen(toks, k).t = t

Accepted(e, k) == [ok |-> TRUE, e |-> e, k |-> k]
Refused == [ok |-> FALSE, e |-> Node("error", 0, {}, <<>>), k |-> 0]
Then(r, Rest(_)) == IF r.ok THEN Rest(r) ELSE Refused

\* expectToken, without consequences for the expression read so far
Expect(toks, t, r) == Then(r, LAMBDA x : IF Is(toks, x.k, t) THEN Accepted(x.e, x.k + 1) ELSE Refused)

(***************************************************************************)
(* Operators.                                                              *)
(***************************************************************************)
Levels ==
    <<{"or"}, {"and"}, {}, Compares \cup {"contains", "at", "in"}, {"bor"}, {"bxor"}, {"band"},
      {"shl", "shr"}, {"add", "sub"}, {"mul", "div", "idiv", "mod"}>>

IsBinary(t) == \E level \in DOMAIN Levels : t \in Levels[level]
Precedence(t) == CHOOSE level \in DOMAIN Levels : t \in Levels[level]

\* Error: an operand takes operators of its own level, too.
RightPrecedenceOfSame(t) == Precedence(t)

\* The least level an operator takes for its right operand: all bind to the left.
RightPrecedence(t) == Precedence(t) + 1

\* The minus of a number is the token of a subtraction.
UnaryOps == [t \in {"not", "defined", "bnot", "sub"} |-> IF t = "sub" THEN "neg" ELSE t]
UnaryPrecedence(t) == IF t \in {"not", "defined"} THEN 3 ELSE 11

Leaves == {"int", "dbl", "text", "true", "false", "filesize", "name", "rule", "str"}
Quantifiers == {"any", "all", "none"}

StartsWord(toks, k) ==
    \/ Seen(toks, k).t \in Quantifiers \cup {"int"} /\ Is(toks, k + 1, "of")
    \/ Is(toks, k, "for")

(***************************************************************************)
(* The nodes.  An operator between a string and a range is a query.        *)
(***************************************************************************)
Plain(op, a) == Node(op, 0, {}, a)

BinaryNode(op, l, r) ==
    CASE op \in {"at", "in"} /\ l.op = "str" -> Node(op, l.n, {}, IF op = "at" THEN <<r>> ELSE r.a)
      [] op = "in" /\ l.op = "count" -> Node("countin", l.n, {}, r.a)
      [] OTHER -> Plain(op, <<l, r>>)

StringNode(t, id, index) ==
    CASE t = "hash" -> Node("count", id, {}, <<>>)
      [] t = "at" -> Node("offset", id, {}, index)
      [] t = "strlen" -> Node("length", id, {}, index)

\* What a loop goes over: the bounds of a range, a tuple, or the strings of a set.
LoopNode(q, name, over, body) ==
    LET op == CASE over.op = "range" -> "forint"
                [] over.op = "tuple" /\ over.a[1].op = "text" -> "fortext"
                [] over.op = "tuple" -> "forenum"
    IN  Node(op, name, {}, <<q, body>> \o over.a)

(***************************************************************************)
(* Primaries                                                               *)
(***************************************************************************)
RECURSIVE Binary(_, _, _), Operators(_, _, _), Primary(_, _), Arguments(_, _, _), Targets(_, _, _)

Expression(toks, k) == Binary(toks, k, 0)

\* A bound of a range: no sign and no quantifier, but what is in parentheses may have them.
PrimaryExcludingUnary(toks, k) ==
    IF Seen(toks, k).t \in DOMAIN UnaryOps \/ StartsWord(toks, k) THEN Refused ELSE Primary(toks, k)

RangeFrom(toks, first, k, Bound(_, _)) ==
    IF Is(toks, k, "dot") /\ Is(toks, k + 1, "dot")
    THEN Then(Bound(toks, k + 2), LAMBDA r : Accepted(Plain("range", <<first, r.e>>), r.k))
    ELSE Accepted(first, k)

Parenthesized(toks, k) ==
    Expect(toks, ")", Then(Expression(toks, k + 1),
                           LAMBDA r : RangeFrom(toks, r.e, r.k, PrimaryExcludingUnary)))

\* Expressions between commas, behind those in done.
Arguments(toks, k, done) ==
    Then(Expression(toks, k), LAMBDA r :
        IF Is(toks, r.k, "comma") THEN Arguments(toks, r.k + 1, Append(done, r.e))
        ELSE Accepted(Plain("tuple", Append(done, r.e)), r.k))

\* Behind "in" of a quantifier: (a, b, c), (a .. b) or an expression; either bound is any expression.
RangeExpression(toks, k) ==
    IF Is(toks, k, "(")
    THEN Expect(toks, ")", Then(Arguments(toks, k + 1, <<>>), LAMBDA r :
             IF Len(r.e.a) > 1 THEN r ELSE RangeFrom(toks, r.e.a[1], r.k, Expression)))
    ELSE PrimaryExcludingUnary(toks, k)

Targets(toks, k, ids) ==
    IF ~Is(toks, k, "str") THEN Refused
    ELSE LET all == ids \cup {Seen(toks, k).n}
         IN  IF Is(toks, k + 1, "comma") THEN Targets(toks, k + 2, all)
             ELSE Expect(toks, ")", Accepted(Node("set", 0, all, <<>>), k + 1))

Target(toks, k) ==
    CASE Is(toks, k, "them") -> Accepted(Node("set", 0, Strings, <<>>), k + 1)
      [] Is(toks, k, "str") -> Accepted(Node("set", 0, {Seen(toks, k).n}, <<>>), k + 1)
      [] Is(toks, k, "(") -> Targets(toks, k + 1, {})
      [] OTHER -> Refused

\* in (a .. b) or at a; the offset is an expression of any level.
Constraint(toks, k) ==
    CASE Is(toks, k, "in") -> RangeExpression(toks, k + 1)
      [] Is(toks, k, "at") -> Then(Expression(toks, k + 1), LAMBDA r : Accepted(Plain("place", <<r.e>>), r.k))
      [] OTHER -> Accepted(Plain("anywhere", <<>>), k)

\* The strings and the constraint of a quantifier; given are the operands before them.
OfSet(toks, k, op, given) ==
    Then(Target(toks, k), LAMBDA set :
        Then(Constraint(toks, set.k), LAMBDA c : Accepted(Node(op, 0, set.e.ids, given \o c.e.a), c.k)))

\* A literal, a name or a quantifier, as it stands.
Word(toks, k) == Node(Seen(toks, k).t, Seen(toks, k).n, {}, <<>>)

\* any of them, 2 of ($a, $b) in (0 .. 9)
Standard(toks, k) == OfSet(toks, k + 2, "of", <<Word(toks, k)>>)

LoopCondition(toks, k) ==
    IF Is(toks, k, "(") THEN Parenthesized(toks, k) ELSE Expression(toks, k)

\* for q i in <range> : (...), for q of <set> : (...), and for q of <set>
For(toks, k) ==
    LET q == Word(toks, k)
    IN  CASE Seen(toks, k).t \notin Quantifiers \cup {"int"} -> Refused
          [] Is(toks, k + 1, "name") ->
                IF ~Is(toks, k + 2, "in") THEN Refused
                ELSE Then(Expect(toks, "colon", RangeExpression(toks, k + 3)), LAMBDA over :
                         Then(LoopCondition(toks, over.k), LAMBDA body :
                             Accepted(LoopNode(q, Seen(toks, k + 1).n, over.e, body.e), body.k)))
          [] Is(toks, k + 1, "of") ->
                Then(OfSet(toks, k + 2, "of", <<q>>), LAMBDA over :
                    IF ~Is(toks, over.k, "colon") THEN over
                    ELSE Then(LoopCondition(toks, over.k + 1), LAMBDA body :
                             Accepted(Node("forstr", 0, over.e.ids, <<q, body.e>> \o Tail(over.e.a)), body.k)))
          [] OTHER -> Refused

\* #a, @a[i], !a[i]; without a name it is the string of the loop.
StringOperation(toks, k) ==
    LET named == Is(toks, k + 1, "str")
        id == IF named THEN Seen(toks, k + 1).n ELSE 0
        next == IF named THEN k + 2 ELSE k + 1
    IN  IF Is(toks, next, "[")
        THEN Expect(toks, "]", Then(Primary(toks, next + 1), LAMBDA r :
                 Accepted(StringNode(Seen(toks, k).t, id, <<r.e>>), r.k)))
        ELSE Accepted(StringNode(Seen(toks, k).t, id, <<>>), next)

Primary(toks, k) ==
    LET t == Seen(toks, k).t
    IN  CASE t \in DOMAIN UnaryOps ->
                Then(Binary(toks, k + 1, UnaryPrecedence(t)), LAMBDA r : Accepted(Plain(UnaryOps[t], <<r.e>>), r.k))
          [] StartsWord(toks, k) -> IF t = "for" THEN For(toks, k + 1) ELSE Standard(toks, k)
          [] t = "(" -> Parenthesized(toks, k)
          [] t \in Leaves -> Accepted(Word(toks, k), k + 1)
          [] t = "uint" ->
                IF ~Is(toks, k + 1, "(") THEN Refused
                ELSE Expect(toks, ")", Then(Expression(toks, k + 2), LAMBDA r :
                         Accepted(Node("read", Seen(toks, k).n, {}, <<r.e>>), r.k)))
          [] t \in {"hash", "at", "strlen"} -> StringOperation(toks, k)
          [] OTHER -> Refused

(***************************************************************************)
(* Operators after an operand, as long as they bind as tightly as asked.   *)
(***************************************************************************)
\* 50 % of them: not a remainder
IsPercentOf(toks, k, left) == Is(toks, k, "mod") /\ Is(toks, k + 1, "of") /\ left.op = "int"

\* #a in (a .. b) of them
IsCountInOf(toks, k, e) == e.op = "countin" /\ Is(toks, k, "of")

Operators(toks, left, min) ==
    LET t == Seen(toks, left.k).t
    IN  CASE ~IsBinary(t) -> left
          [] IsBinary(t) /\ Precedence(t) < min -> left
          [] OTHER ->
                IF IsPercentOf(toks, left.k, left.e)
                THEN Then(OfSet(toks, left.k + 2, "pct", <<left.e>>), LAMBDA r : Operators(toks, r, min))
                ELSE Then(Binary(toks, left.k + 1, RightPrecedence(t)), LAMBDA r :
                         LET e == BinaryNode(t, left.e, r.e)
                         IN  IF IsCountInOf(toks, r.k, e)
                             THEN Then(OfSet(toks, r.k + 1, "countof", e.a), LAMBDA s : Operators(toks, s, min))
                             ELSE Operators(toks, Accepted(e, r.k), min))

Binary(toks, k, min) == Then(Primary(toks, k), LAMBDA left : Operators(toks, left, min))

\* A condition ends where its rule does.
Parse(toks) == Expect(toks, "eof", Expression(toks, 1)).e

(***************************************************************************)
(* The text of a condition.  Parentheses stand where an operand binds less *)
(* tightly than its place asks for, or around every operand (full).  An    *)
(* index and the end of a range after a string take a primary, and the     *)
(* offset of "of ... at" takes all that follows: such operands are put in  *)
(* parentheses, although the language does not ask for them.               *)
(***************************************************************************)
Tokens(ts) == [i \in DOMAIN ts |-> T(ts[i])]
Atomic == 12

Level(e) ==
    CASE e.op \in {"and", "or"} \cup Compares \cup IntegerOps \cup {"contains", "at", "in"} -> Precedence(e.op)
      [] e.op \in {"countin", "countof"} -> Precedence("in")
      [] e.op \in {"not", "defined"} -> 3
      [] e.op \in {"neg", "bnot"} -> 11
      [] e.op = "pct" /\ Len(e.a) # 2 -> Precedence("mod")
      [] e.op \in {"of", "pct"} /\ Len(e.a) = 2 -> 0
      [] OTHER -> Atomic

RECURSIVE Written(_, _), ListText(_, _)

SetText(ids) ==
    IF ids = Strings THEN Tokens(<<"them">>)
    ELSE LET order == SetToSortSeq(ids, <)
         IN  Tokens(<<"(">>)
             \o FlattenSeq([i \in DOMAIN order |->
                    (IF i = 1 THEN <<>> ELSE Tokens(<<"comma">>)) \o <<Tok("str", order[i])>>])
             \o Tokens(<<")">>)

\* e where an operand of at least this level may stand
OperandText(e, level, full) ==
    IF Level(e) < level \/ (full /\ e.a # <<>>)
    THEN Tokens(<<"(">>) \o Written(e, full) \o Tokens(<<")">>) ELSE Written(e, full)

RangeText(low, high, level, full) ==
    Tokens(<<"(">>) \o OperandText(low, 0, full) \o Tokens(<<"dot", "dot">>)
    \o OperandText(high, level, full) \o Tokens(<<")">>)

StringText(id) == IF id = 0 THEN <<>> ELSE <<Tok("str", id)>>

ListText(es, full) ==
    OperandText(es[1], 0, full)
    \o (IF Len(es) = 1 THEN <<>> ELSE Tokens(<<"comma">>) \o ListText(Tail(es), full))

BoundsText(bounds, full) ==
    CASE bounds = <<>> -> <<>>
      [] Len(bounds) = 1 -> Tokens(<<"at">>) \o OperandText(bounds[1], 1, full)
      [] Len(bounds) = 2 -> Tokens(<<"in">>) \o RangeText(bounds[1], bounds[2], 0, full)

QuantifierText(q) == <<Tok(q.op, q.n)>>

LoopText(e, full) ==
    LET operands == SubSeq(e.a, 3, Len(e.a))
        over == CASE e.op = "forstr" -> Tokens(<<"of">>) \o SetText(e.ids) \o BoundsText(operands, full)
                  [] e.op = "forint" -> <<Tok("name", e.n), T("in")>> \o RangeText(operands[1], operands[2], 0, full)
                  [] OTHER -> <<Tok("name", e.n), T("in"), T("(")>> \o ListText(operands, full) \o Tokens(<<")">>)
    IN  Tokens(<<"for">>) \o QuantifierText(e.a[1]) \o over
        \o Tokens(<<"colon", "(">>) \o Written(e.a[2], full) \o Tokens(<<")">>)

Written(e, full) ==
    LET Arg(i, level) == OperandText(e.a[i], level, full)
    IN  CASE e.op \in Leaves -> <<Tok(e.op, e.n)>>
          [] e.op = "count" -> Tokens(<<"hash">>) \o StringText(e.n)
          [] e.op \in {"offset", "length"} ->
                Tokens(<<IF e.op = "offset" THEN "at" ELSE "strlen">>) \o StringText(e.n)
                \o Tokens(<<"[">>) \o Arg(1, 11) \o Tokens(<<"]">>)
          [] e.op = "read" -> <<Tok("uint", e.n), T("(")>> \o Arg(1, 0) \o Tokens(<<")">>)
          [] e.op = "at" -> <<Tok("str", e.n), T("at")>> \o Arg(1, Precedence("at") + 1)
          [] e.op = "in" -> <<Tok("str", e.n), T("in")>> \o RangeText(e.a[1], e.a[2], Atomic, full)
          [] e.op = "countin" ->
                Tokens(<<"hash">>) \o StringText(e.n) \o Tokens(<<"in">>) \o RangeText(e.a[1], e.a[2], Atomic, full)
          [] e.op = "countof" ->
                <<T("hash"), Tok("str", 1), T("in")>> \o RangeText(e.a[1], e.a[2], Atomic, full)
                \o Tokens(<<"of">>) \o SetText(e.ids)
          [] e.op = "of" ->
                QuantifierText(e.a[1]) \o Tokens(<<"of">>) \o SetText(e.ids) \o BoundsText(Tail(e.a), full)
          [] e.op = "pct" ->
                QuantifierText(e.a[1]) \o Tokens(<<"mod", "of">>) \o SetText(e.ids) \o BoundsText(Tail(e.a), full)
          [] e.op \in Loops -> LoopText(e, full)
          [] e.op \in {"not", "defined", "neg", "bnot"} ->
                Tokens(<<IF e.op = "neg" THEN "sub" ELSE e.op>>) \o Arg(1, Level(e))
          [] OTHER -> Arg(1, Level(e)) \o Tokens(<<e.op>>) \o Arg(2, Level(e) + 1)

\* The quantifier of a set is a word or a number: the grammar has no other.
CanBeWritten(e) == e.op = "of" => e.a[1].op \in Quantifiers \cup {"int"}

\* Precedence, associativity and the quantifiers, loops and queries of strings: reading the text
\* of a condition, with as few parentheses as it needs or with all, gives this condition.
ReadsAsWritten(e) == CanBeWritten(e) => \A full \in BOOLEAN : Parse(Written(e, full)) = e
=============================================================================
