-------------------------- MODULE ConditionLanguage --------------------------
(***************************************************************************)
(* The condition language (ast, compiler/interpreter_*.go): its            *)
(* expressions, its values and what an expression means for one input.    *)
(* Meaning is the reference: it says which occurrences, members of a set   *)
(* and iterations make an expression true, without a stack, jumps or       *)
(* iterators.  The folding, the analyses, the bytecode and the interpreter *)
(* are held against it.                                                    *)
(*                                                                         *)
(* An expression is a node [op, n, ids, a]: an operator, an integer (a     *)
(* literal, a string, a name, a width), a set of strings, the operands.    *)
(***************************************************************************)
EXTENDS Integers, Sequences, FiniteSets, SequencesExt, Bitwise

CONSTANTS
    Width,       \* bits of an integer (64)
    Strings,     \* the strings of the rule, 1, 2, ...
    Externals,   \* names of external variables; a loop variable may shadow one
    IterLimit    \* Interpreter.itersmax

Node(op, n, ids, a) == [op |-> op, n |-> n, ids |-> ids, a |-> a]

(***************************************************************************)
(* Values.  A double counts half epsilons, a string is a number (0 is      *)
(* empty, 1, 2, ... are the strings of the rule).                          *)
(***************************************************************************)
Wrap(v) == ((v + 2^(Width - 1)) % 2^Width) - 2^(Width - 1)

Value(t, v) == [t |-> t, v |-> v]
Whole(v) == Value("int", Wrap(v))
Bool(b) == Value("int", IF b THEN 1 ELSE 0)
Undefined == Value("undef", 0)
Fault == Value("err", 0)

IsTruthy(x) == x.t \in {"int", "dbl", "str"} /\ x.v # 0
AreInts(x, y) == x.t = "int" /\ y.t = "int"
AreNumbers(x, y) == {x.t, y.t} \subseteq {"int", "dbl"}

\* Go truncates a quotient towards zero.
Quotient(a, b) ==
    LET q == (IF a < 0 THEN -a ELSE a) \div (IF b < 0 THEN -b ELSE b)
    IN  IF (a < 0) = (b < 0) THEN q ELSE -q

Bits(a) == a % 2^Width
Shift(b) == IF b < 0 THEN 0 ELSE IF b > Width - 1 THEN Width - 1 ELSE b

IntegerOp(op, a, b) ==
    CASE op = "add" -> a + b [] op = "sub" -> a - b [] op = "mul" -> a * b
      [] op \in {"div", "idiv"} -> Quotient(a, b) [] op = "mod" -> a - b * Quotient(a, b)
      [] op = "band" -> Bits(a) & Bits(b) [] op = "bor" -> Bits(a) | Bits(b)
      [] op = "bxor" -> Bits(a) ^^ Bits(b)
      [] op = "shl" -> a * 2^Shift(b) [] op = "shr" -> a \div 2^Shift(b)

IntegerOps == {"add", "sub", "mul", "div", "idiv", "mod", "band", "bor", "bxor", "shl", "shr"}
Compares == {"eq", "ne", "lt", "le", "gt", "ge"}
Logic == {"and", "or"}

Order(op, a, b) ==
    CASE op = "eq" -> a = b [] op = "ne" -> a # b [] op = "lt" -> a < b
      [] op = "le" -> a <= b [] op = "gt" -> a > b [] op = "ge" -> a >= b

\* executeIntDiv, executeMod, executeBinaryOp, handleNonIntegerOperands
Arithmetic(op, x, y) ==
    IF AreInts(x, y)
    THEN IF op \in {"div", "idiv", "mod"} /\ y.v = 0 THEN Undefined ELSE Whole(IntegerOp(op, x.v, y.v))
    ELSE IF AreNumbers(x, y) THEN Fault ELSE Undefined

\* executeTypedComparison: doubles are equal when they are less than epsilon apart.
Comparison(op, x, y) ==
    LET distance == IF x.v < y.v THEN y.v - x.v ELSE x.v - y.v
    IN  CASE "undef" \in {x.t, y.t} -> Undefined
          [] x.t # y.t -> Fault
          [] x.t = "dbl" /\ op \in {"eq", "ne"} -> Bool((distance < 2) = (op = "eq"))
          [] OTHER -> Bool(Order(op, x.v, y.v))

\* executeStringComparison and executeStringBinaryOp, which fails for a value that is not
\* there: a text contains the empty text and itself.
TextOp(op, x, y) ==
    CASE op # "contains" /\ "undef" \in {x.t, y.t} -> Undefined
      [] x.t # "str" \/ y.t # "str" -> Fault
      [] OTHER -> Bool(IF op = "contains" THEN y.v \in {0, x.v} ELSE Order(op, x.v, y.v))

DoubleOp(op, x, y) ==
    IF x.t = "dbl" /\ y.t = "dbl"
    THEN Value("dbl", IF op = "add" THEN x.v + y.v ELSE x.v - y.v) ELSE Undefined

LogicOp(op, x, y) ==
    Bool(IF op = "and" THEN IsTruthy(x) /\ IsTruthy(y) ELSE IsTruthy(x) \/ IsTruthy(y))

Unary(op, x) ==
    CASE op = "not" -> IF x.t = "undef" THEN x ELSE Bool(~IsTruthy(x))
      [] op = "defined" -> Bool(x.t # "undef")
      [] op = "bnot" -> IF x.t = "int" THEN Whole(-x.v - 1) ELSE Undefined
      [] op = "neg" -> IF x.t = "undef" THEN x ELSE IF x.t = "int" THEN Whole(-x.v) ELSE Fault
      [] op = "dneg" -> IF x.t = "undef" THEN x ELSE IF x.t = "dbl" THEN Value("dbl", -x.v) ELSE Fault
      [] op = "itod" -> IF x.t = "int" THEN Value("dbl", 2 * x.v)
                        ELSE IF x.t = "undef" THEN x ELSE Fault

(***************************************************************************)
(* One input: [spans, lens: string -> occurrences, ascending; data: bytes; *)
(* rules: verdicts of earlier rules; externals: name -> Value].            *)
(***************************************************************************)
Found(in, id) == Len(in.spans[id]) > 0

FoundIn(in, id, low, high) ==
    \E i \in 1 .. Len(in.spans[id]) : in.spans[id][i] \in low .. high

Occurrence(in, id, index) ==
    IF index \in 1 .. Len(in.spans[id]) THEN Whole(in.spans[id][index]) ELSE Undefined

\* dataRange: the bytes have to be there
Readable(in, offset, width) == offset >= 0 /\ width <= Len(in.data) - offset

Little(in, offset, width) ==
    FoldLeft(+, 0, [i \in 1 .. width |-> in.data[offset + i] * 4^(i - 1)])

Read(in, x, width) ==
    CASE x.t = "undef" -> Undefined
      [] x.t # "int" -> Fault
      [] ~Readable(in, x.v, width) -> Undefined
      [] OTHER -> Whole(Little(in, x.v, width))

\* "all" is a count of its own (countAll), and of no string it is false.
All == 2^Width

Enough(count, matched, total) ==
    /\ count.t = "int"
    /\ IF count.v = All THEN total > 0 /\ matched = total
       ELSE IF count.v = 0 THEN matched = 0 ELSE count.v > 0 /\ matched >= count.v

Share(percent, matched, total) == total > 0 /\ matched * 100 >= percent.v * total

(***************************************************************************)
(* The meaning of an expression, with the loop variables in env; 0 is the  *)
(* string that "$" stands for.                                             *)
(***************************************************************************)
Leaf(e, in, env) ==
    CASE e.op = "int" -> Whole(e.n)
      [] e.op \in {"true", "false"} -> Bool(e.op = "true")
      [] e.op = "dbl" -> Value("dbl", e.n)
      [] e.op = "text" -> Value("str", e.n)
      [] e.op = "any" -> Whole(1)
      [] e.op = "all" -> Value("int", All)
      [] e.op = "none" -> Whole(0)
      [] e.op = "filesize" -> Whole(Len(in.data))
      [] e.op = "rule" -> Bool(in.rules[e.n])
      [] e.op = "name" -> IF e.n \in DOMAIN env THEN env[e.n] ELSE in.externals[e.n]
      [] OTHER -> Fault

StringOf(e, env) == IF e.n = 0 THEN env[0].v ELSE e.n

Strict(vals, result) ==
    IF \E i \in 1 .. Len(vals) : vals[i].t = "err" THEN Fault ELSE result

\* $ at x, $ in (x .. y), and the same for a set of strings
Within(bounds, result) ==
    CASE \E i \in 1 .. Len(bounds) : bounds[i].t \notin {"int", "undef"} -> Fault
      [] \E i \in 1 .. Len(bounds) : bounds[i].t = "undef" -> Undefined
      [] OTHER -> result

Low(bounds) == bounds[1].v
High(bounds) == bounds[Len(bounds)].v

Hits(in, ids, bounds) ==
    Cardinality({id \in ids : IF bounds = <<>> THEN Found(in, id)
                              ELSE FoundIn(in, id, Low(bounds), High(bounds))})

StringQuery(e, id, v, in) ==
    CASE e.op = "str" -> Bool(Found(in, id))
      [] e.op = "count" -> Whole(Len(in.spans[id]))
      [] e.op \in {"offset", "length"} ->
            CASE v[1].t = "undef" -> Undefined
              [] v[1].t # "int" -> Fault
              [] OTHER -> LET x == Occurrence(in, id, v[1].v)
                          IN  IF e.op = "offset" \/ x.t = "undef" THEN x ELSE Whole(in.lens[id][v[1].v])
      [] e.op = "at" -> Within(v, Bool(v[1].t = "int" /\ FoundIn(in, id, v[1].v, v[1].v)))
      [] e.op = "in" -> Within(v, Bool(AreInts(v[1], v[2]) /\ FoundIn(in, id, v[1].v, v[2].v)))
      [] e.op = "countin" ->
            IF AreInts(v[1], v[2]) THEN Bool(Len(in.spans[id]) \in v[1].v .. v[2].v) ELSE Fault

SetQuery(e, v, in) ==
    LET bounds == Tail(v)
        total == Cardinality(e.ids)
    IN  CASE e.op = "of" -> Within(bounds, Bool(Enough(v[1], Hits(in, e.ids, bounds), total)))
          [] e.op = "countof" ->
                IF AreInts(v[1], v[2]) THEN Bool(Hits(in, e.ids, <<>>) \in v[1].v .. v[2].v) ELSE Fault
          [] e.op = "pct" /\ (\E i \in 1 .. Len(bounds) : bounds[i].t # "int") -> Fault
          [] OTHER -> Bool(Share(v[1], Hits(in, e.ids, bounds), total))

StringQueries == {"str", "count", "offset", "length", "at", "in", "countin"}
SetQueries == {"of", "pct", "countof"}

Bind(env, name, x) == [k \in DOMAIN env \cup {name} |-> IF k = name THEN x ELSE env[k]]

\* The strings a loop goes through: all of the set, or those found within the bounds.
Among(in, ids, bounds) ==
    SelectSeq(SetToSortSeq(ids, <),
              LAMBDA id : bounds = <<>> \/ FoundIn(in, id, Low(bounds), High(bounds)))

\* The interpreter counts the integers of a range in one word.
IntRange(low, high) ==
    LET total == Wrap(high - low + 1)
    IN  [i \in 1 .. (IF total < 0 THEN 0 ELSE total) |-> Whole(low + i - 1)]

Elements(e, v, in) ==
    CASE e.op = "forint" -> IntRange(v[1].v, v[2].v)
      [] e.op = "forstr" -> [i \in 1 .. Len(Among(in, e.ids, v)) |-> Value("ref", Among(in, e.ids, v)[i])]
      [] OTHER -> v

Loops == {"forint", "forenum", "fortext", "forstr"}

\* A loop is [quantifier, body, operands ...].
Quantified(quantifier, count, total) ==
    CASE quantifier.op = "any" -> count > 0
      [] quantifier.op = "none" -> count = 0
      [] quantifier.op = "all" -> count = total
      [] OTHER -> count >= quantifier.n

RECURSIVE Meaning(_, _, _)
LoopMeaning(e, in, env) ==
    LET v == [i \in 1 .. Len(e.a) - 2 |-> Meaning(e.a[i + 2], in, env)]
        xs == Elements(e, v, in)
        results == [i \in 1 .. Len(xs) |-> Meaning(e.a[2], in, Bind(env, e.n, xs[i]))]
    IN  IF \E i \in 1 .. Len(v) : v[i].t # (IF e.op = "fortext" THEN "str" ELSE "int") THEN Fault
        ELSE Strict(results, Bool(Quantified(e.a[1], Cardinality({i \in 1 .. Len(xs) : IsTruthy(results[i])}), Len(xs))))

\* An integer next to a double is a double.
Operate(op, x, y) ==
    LET promoted == AreNumbers(x, y) /\ "dbl" \in {x.t, y.t}
        Double(z) == IF promoted /\ z.t = "int" THEN Unary("itod", z) ELSE z
        l == Double(x)
        r == Double(y)
    IN  CASE op \in Logic -> LogicOp(op, x, y)
          [] op = "contains" -> TextOp(op, x, y)
          [] op \in Compares -> Comparison(op, l, r)
          [] promoted /\ op \in {"add", "sub"} -> DoubleOp(op, l, r)
          [] OTHER -> Arithmetic(op, x, y)

Meaning(e, in, env) ==
    LET v == [i \in 1 .. Len(e.a) |-> Meaning(e.a[i], in, env)]
    IN  CASE e.op \in Loops -> LoopMeaning(e, in, env)
          [] e.op \in StringQueries -> Strict(v, StringQuery(e, StringOf(e, env), v, in))
          [] e.op \in SetQueries -> Strict(v, SetQuery(e, v, in))
          [] e.op = "read" -> Strict(v, Read(in, v[1], e.n))
          [] e.op = "neg" -> Strict(v, Unary(IF v[1].t = "dbl" THEN "dneg" ELSE "neg", v[1]))
          [] Len(e.a) = 1 -> Strict(v, Unary(e.op, v[1]))
          [] Len(e.a) = 2 -> Strict(v, Operate(e.op, v[1], v[2]))
          [] OTHER -> Leaf(e, in, env)

NoVariables == [k \in {} |-> Undefined]

\* The verdict of a rule: only an integer matches (storeExecutionResult).
Matches(x) == x.t = "int" /\ x.v # 0
==============================================================================
