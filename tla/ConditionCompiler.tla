-------------------------- MODULE ConditionCompiler --------------------------
(***************************************************************************)
(* What CompileRule makes of a condition: constant folding, the analyses   *)
(* that let a scanner answer without running it, and the bytecode.         *)
(*                                                                         *)
(* Code is a sequence of instructions [op, arg]; a jump holds the index of *)
(* its target.  A set of strings stands on the stack as itself, the code   *)
(* pushes the index it is interned under.                                  *)
(***************************************************************************)
EXTENDS ConditionLanguage

RECURSIVE Fold(_), IsDefinedBoolean(_), Nodes(_), Presence(_), Headers(_), WithoutMatches(_),
          IntegerWithout(_), SafeWithout(_), IsAssertionTree(_, _), Prunable(_, _),
          Hoisted(_), Clauses(_), IsFloat(_), Code(_, _, _), Chain(_, _, _)

(***************************************************************************)
(* FoldConstants                                                           *)
(***************************************************************************)
Lit(op, n) == Node(op, n, {}, <<>>)
BoolLit(b) == Lit(IF b THEN "true" ELSE "false", 0)
IsBoolLit(e) == e.op \in {"true", "false"}
IsConstant(e) == e.op \in {"true", "false", "int", "dbl", "text"}

\* The quantifier of a loop is not an expression.
FoldOperands(e) ==
    [e EXCEPT !.a = [i \in DOMAIN e.a |->
        IF e.op \in Loops /\ i = 1 THEN e.a[1] ELSE Fold(e.a[i])]]

FoldBooleanConstant(e) ==
    IF e.op \in {"int", "dbl", "text"} THEN BoolLit(e.n # 0) ELSE e

IsDefinedBoolean(e) ==
    \/ IsBoolLit(e) \/ e.op \in {"str", "defined", "and", "or"}
    \/ e.op = "not" /\ IsDefinedBoolean(e.a[1])

\* Error: the constant goes, whatever the other operand is.
FoldLogicalFreely(e, l, r, neutral) ==
    LET absorbing == IF neutral = "true" THEN "false" ELSE "true"
    IN  CASE absorbing \in {l.op, r.op} -> Lit(absorbing, 0)
          [] l.op = neutral -> r
          [] r.op = neutral -> l
          [] OTHER -> Node(e.op, 0, {}, <<l, r>>)

\* neutral: the constant that leaves the other operand as it is.
FoldLogical(e, l, r, neutral) ==
    LET absorbing == IF neutral = "true" THEN "false" ELSE "true"
    IN  CASE absorbing \in {l.op, r.op} -> Lit(absorbing, 0)
          [] l.op = neutral /\ IsDefinedBoolean(r) -> r
          [] r.op = neutral /\ IsDefinedBoolean(l) -> l
          [] OTHER -> Node(e.op, 0, {}, <<l, r>>)

\* Doubles are compared exactly here, not as the interpreter compares them.
FoldComparison(e, l, r) ==
    CASE l.op = r.op /\ l.op \in {"int", "dbl"} -> BoolLit(Order(e.op, l.n, r.n))
      [] IsBoolLit(l) /\ IsBoolLit(r) /\ e.op \in {"eq", "ne"} ->
            BoolLit((l.op = r.op) = (e.op = "eq"))
      [] l.op = "text" /\ r.op = "text" /\ e.op \in {"eq", "ne"} -> BoolLit(Order(e.op, l.n, r.n))
      [] OTHER -> e

FoldArithmetic(e, l, r) ==
    IF \/ l.op # "int" \/ r.op # "int"
       \/ e.op \in {"div", "mod"} /\ r.n = 0
       \/ e.op \in {"shl", "shr"} /\ r.n \notin 0 .. Width - 1
    THEN e ELSE Lit("int", Wrap(IntegerOp(e.op, l.n, r.n)))

FoldUnary(e, x) ==
    CASE e.op = "not" /\ IsBoolLit(x) -> BoolLit(x.op = "false")
      [] e.op = "bnot" /\ x.op = "int" -> Lit("int", Wrap(-x.n - 1))
      [] e.op = "neg" /\ x.op = "int" -> Lit("int", Wrap(-x.n))
      [] e.op = "neg" /\ x.op = "dbl" -> Lit("dbl", -x.n)
      [] e.op = "defined" /\ IsConstant(x) -> BoolLit(TRUE)
      [] OTHER -> e

Fold(expr) ==
    LET e == FoldOperands(expr)
        l == e.a[1]
        r == e.a[2]
    IN  CASE e.op \in {"not", "bnot", "neg", "defined"} -> FoldUnary(e, l)
          [] e.op = "and" -> FoldLogical(e, FoldBooleanConstant(l), FoldBooleanConstant(r), "true")
          [] e.op = "or" -> FoldLogical(e, FoldBooleanConstant(l), FoldBooleanConstant(r), "false")
          [] e.op \in Compares -> FoldComparison(e, l, r)
          [] e.op = "contains" /\ l.op = "text" /\ r.op = "text" -> BoolLit(r.n \in {0, l.n})
          [] e.op \in IntegerOps \ {"idiv"} -> FoldArithmetic(e, l, r)
          [] OTHER -> e

(***************************************************************************)
(* The strings a condition refers to.                                      *)
(***************************************************************************)
Operands(e) == IF e.op \in Loops THEN Tail(e.a) ELSE e.a

Nodes(e) == {e} \cup UNION {Nodes(Operands(e)[i]) : i \in DOMAIN Operands(e)}

IsPlaceholder(e) == e.op \in StringQueries /\ e.n = 0

\* detectDeadStrings, of the folded condition: a dead rule has no live string.
Mentions(e) == IF e.op \in StringQueries THEN {e.n} ELSE e.ids
LiveStrings(folded) ==
    IF folded.op = "false" THEN {} ELSE UNION {Mentions(e) : e \in Nodes(folded)}

\* deriveFixedOffsets, of the condition as written: a string that is only asked
\* for at one constant offset is only looked for there.
AtConstant(e) == e.op = "at" /\ Fold(e.a[1]).op = "int"
AtOffset(e) == Fold(e.a[1]).n

FixedOffsets(cond, strings) ==
    LET nodes == Nodes(cond)
        at == {e \in nodes : AtConstant(e)}
        seen == UNION {Mentions(e) : e \in nodes \ at}
        Of(id) == {AtOffset(e) : e \in {x \in at : x.n \in {id, 0}}}
        Eligible(id) == Cardinality(Of(id)) = 1 /\ seen \cap {id, 0} = {}
    IN  [id \in {s \in strings : Eligible(s)} |-> CHOOSE k \in Of(id) : TRUE]

\* conditionObservesMatchOccurrences: without it the first match of a string is enough.
ObservesOccurrences(cond) ==
    \E e \in Nodes(cond) :
        \/ e.op \in {"count", "offset", "length", "at", "in", "countin"}
        \/ e.op = "countof" \/ (e.op \in {"of", "pct"} /\ Len(e.a) > 1)
        \/ e.op = "forstr" /\ Len(e.a) > 2

(***************************************************************************)
(* deriveStringPresenceBounds: strings that have to be there, and strings  *)
(* that must not, for a condition made of nothing but presence.            *)
(***************************************************************************)
Bounds(required, forbidden, sufficient) ==
    [safe |-> TRUE, required |-> required, forbidden |-> forbidden, sufficient |-> sufficient]
Unsafe == [Bounds({}, {}, {}) EXCEPT !.safe = FALSE]

If(cond, s) == IF cond THEN s ELSE {}

SetPresence(quantifier, ids) ==
    LET single == Cardinality(ids) = 1
    IN  CASE quantifier = "all" -> Bounds(ids, {}, If(single, ids))
          [] quantifier = "any" -> Bounds(If(single, ids), {}, ids)
          [] quantifier = "none" -> Bounds({}, ids, {})
          [] OTHER -> Unsafe

Presence(e) ==
    CASE e.op = "str" /\ e.n # 0 -> Bounds({e.n}, {}, {e.n})
      [] IsBoolLit(e) -> Bounds({}, {}, {})
      [] e.op \in Logic ->
            LET l == Presence(e.a[1])
                r == Presence(e.a[2])
            IN  CASE ~(l.safe /\ r.safe) -> Unsafe
                  [] e.op = "and" -> Bounds(l.required \cup r.required, l.forbidden \cup r.forbidden,
                                            l.sufficient \cap r.sufficient)
                  [] OTHER -> Bounds(l.required \cap r.required, l.forbidden \cap r.forbidden,
                                     l.sufficient \cup r.sufficient)
      [] e.op = "not" -> LET inner == Presence(e.a[1])
                         IN  IF inner.safe THEN Bounds({}, inner.sufficient, inner.forbidden) ELSE Unsafe
      [] e.op = "of" /\ Len(e.a) = 1 -> SetPresence(e.a[1].op, e.ids)
      [] OTHER -> Unsafe

(***************************************************************************)
(* deriveHeaderConstraints: reads and string offsets that have to agree.   *)
(***************************************************************************)
ReadConstraint(read, value) ==
    {<<"read", read.n, read.a[1].n, value.n>> :
        x \in {y \in {0} : /\ read.op = "read" /\ read.a[1].op = "int" /\ value.op = "int"
                           /\ read.a[1].n >= 0 /\ value.n >= 0 /\ value.n < 4^read.n}}

HeaderOf(e) ==
    CASE e.op = "at" /\ e.n # 0 /\ e.a[1].op = "int" -> If(e.a[1].n >= 0, {<<"at", e.n, e.a[1].n>>})
      [] e.op = "eq" -> LET straight == ReadConstraint(e.a[1], e.a[2])
                        IN  IF straight # {} THEN straight ELSE ReadConstraint(e.a[2], e.a[1])
      [] OTHER -> {}

\* Error: either operand of an "or" is binding.
HeadersOfEither(e) ==
    CASE HeaderOf(e) # {} -> HeaderOf(e)
      [] e.op \in Logic -> HeaderOf(e.a[1]) \cup HeaderOf(e.a[2])
      [] OTHER -> {}

Headers(e) ==
    CASE HeaderOf(e) # {} -> HeaderOf(e)
      [] e.op = "and" -> Headers(e.a[1]) \cup Headers(e.a[2])
      [] e.op = "or" -> Headers(e.a[1]) \cap Headers(e.a[2])
      [] OTHER -> {}

(***************************************************************************)
(* conditionRequiresStringMatch: the truth values a condition may have     *)
(* when no string matches, TRUE not being one of them.                     *)
(***************************************************************************)
\* The value of an integer expression when no string matches, if it has one.
IntegerWithout(e) ==
    CASE e.op = "int" -> {e.n}
      [] IsBoolLit(e) -> {IF e.op = "true" THEN 1 ELSE 0}
      [] e.op = "count" -> {0}
      [] e.op \in {"neg", "bnot"} ->
            {Wrap(IF e.op = "neg" THEN -v ELSE -v - 1) : v \in IntegerWithout(e.a[1])}
      [] e.op \in IntegerOps \ {"div"} ->
            LET l == IntegerWithout(e.a[1])
                r == {v \in IntegerWithout(e.a[2]) :
                        /\ e.op \in {"mod", "idiv"} => v # 0
                        /\ e.op \in {"shl", "shr"} => v \in 0 .. Width - 1}
            IN  {Wrap(IntegerOp(e.op, v, w)) : v \in l, w \in r}
      [] OTHER -> {}

Static(es) == \A i \in DOMAIN es : IntegerWithout(es[i]) # {}

SetWithoutMatches(e) ==
    LET count == IntegerWithout(e.a[1])
        Is(b) == {b}
    IN  CASE e.op = "countof" \/ ~Static(Tail(e.a)) -> BOOLEAN
          [] e.op = "of" /\ e.a[1].op = "any" -> Is(FALSE)
          [] e.op = "of" /\ e.a[1].op = "none" -> Is(TRUE)
          [] e.op = "of" /\ e.a[1].op = "all" -> IF e.ids # {} THEN Is(FALSE) ELSE BOOLEAN
          [] count = {} -> BOOLEAN
          [] e.op = "pct" /\ (\E v \in count : v > 0) /\ e.ids = {} -> BOOLEAN
          [] OTHER -> Is(\E v \in count : v <= 0)

WithoutMatches(e) ==
    CASE e.op \in {"int", "dbl", "text"} -> {e.n # 0}
      [] IsBoolLit(e) -> {e.op = "true"}
      [] e.op \in {"str", "count"} -> {FALSE}
      [] e.op \in {"offset", "length", "at", "in"} -> IF Static(e.a) THEN {FALSE} ELSE BOOLEAN
      [] e.op = "not" -> {~b : b \in WithoutMatches(e.a[1])}
      [] e.op = "and" -> {b /\ c : b \in WithoutMatches(e.a[1]), c \in WithoutMatches(e.a[2])}
      [] e.op = "or" -> {b \/ c : b \in WithoutMatches(e.a[1]), c \in WithoutMatches(e.a[2])}
      [] e.op \in SetQueries -> SetWithoutMatches(e)
      [] e.op \in Compares /\ Static(e.a) ->
            {Order(e.op, v, w) : v \in IntegerWithout(e.a[1]), w \in IntegerWithout(e.a[2])}
      [] e.op \in IntegerOps /\ IntegerWithout(e) # {} -> {v # 0 : v \in IntegerWithout(e)}
      [] OTHER -> BOOLEAN

\* Nothing that may fail is skipped, unless the left operand decides.
SafeWithout(e) ==
    CASE e.a = <<>> -> TRUE
      [] e.op \in {"offset", "length", "at", "in"} -> Static(e.a)
      [] e.op = "not" -> SafeWithout(e.a[1])
      [] e.op \in Logic ->
            /\ SafeWithout(e.a[1])
            /\ WithoutMatches(e.a[1]) = {e.op = "or"} \/ SafeWithout(e.a[2])
      [] e.op \in SetQueries -> SetWithoutMatches(e) # BOOLEAN
      [] e.op \in Compares \cup IntegerOps -> SafeWithout(e.a[1]) /\ Static(e.a)
      [] OTHER -> FALSE

RequiresStringMatch(cond) == TRUE \notin WithoutMatches(cond) /\ SafeWithout(cond)

(***************************************************************************)
(* Assertions: comparisons of the input with a constant, one instruction   *)
(* each; a condition of nothing else is evaluated without the stack.       *)
(* shadowed: the loop variables in scope.                                  *)
(***************************************************************************)
Reversed(op) ==
    CASE op = "lt" -> "gt" [] op = "gt" -> "lt" [] op = "le" -> "ge" [] op = "ge" -> "le" [] OTHER -> op

AssertThat(kind, cmp, id, at, value) == [kind |-> kind, cmp |-> cmp, id |-> id, at |-> at, value |-> value]
NoAssertion == AssertThat("no", "eq", 0, 0, Undefined)

Against(x, cmp, c) ==
    CASE x.op = "filesize" -> AssertThat("filesize", cmp, 0, 0, Whole(c))
      [] x.op = "count" /\ x.n # 0 -> AssertThat("count", cmp, x.n, 0, Whole(c))
      [] x.op = "read" /\ x.n \in {2, 4} /\ cmp = "eq" /\ x.a[1].op = "int" ->
            AssertThat("read", cmp, x.n, x.a[1].n, Whole(c))
      [] OTHER -> NoAssertion

External(x, cmp, c, shadowed) ==
    IF x.op = "name" /\ x.n \in Externals \ shadowed /\ (c.op \in {"int", "text"} \/ IsBoolLit(c))
    THEN AssertThat("external", cmp, x.n, 0,
                CASE c.op = "int" -> Whole(c.n) [] c.op = "text" -> Value("str", c.n)
                  [] OTHER -> Bool(c.op = "true"))
    ELSE NoAssertion

AssertionOf(e, shadowed) ==
    CASE e.op = "at" -> IF e.n # 0 /\ e.a[1].op = "int" THEN AssertThat("at", "eq", e.n, e.a[1].n, Undefined)
                        ELSE NoAssertion
      [] e.op \in Compares ->
            LET l == e.a[1]
                r == e.a[2]
                input == CASE r.op = "int" -> Against(l, e.op, r.n)
                           [] l.op = "int" -> Against(r, Reversed(e.op), l.n)
                           [] OTHER -> NoAssertion
            IN  CASE input # NoAssertion -> input
                  [] l.op = "name" -> External(l, e.op, r, shadowed)
                  [] OTHER -> External(r, Reversed(e.op), l, shadowed)
      [] OTHER -> NoAssertion

IsAssertion(e, shadowed) == AssertionOf(e, shadowed) # NoAssertion

\* compileAssertionProgram
IsAssertionTree(e, shadowed) ==
    \/ IsAssertion(e, shadowed)
    \/ e.op \in Logic \cup {"not"} /\ \A i \in DOMAIN e.a : IsAssertionTree(e.a[i], shadowed)

\* mandatoryAssertionIndices: what may be asked of the input before anything else.
Prunable(e, headers) ==
    LET x == AssertionOf(e, {})
    IN  CASE x.kind = "read" -> HeaderOf(e) # {} /\ HeaderOf(e) \subseteq headers
          [] x # NoAssertion -> TRUE
          [] OTHER -> \/ IsBoolLit(e) \/ e.op = "str"
                      \/ e.op \in Logic \cup {"not"} /\ \A i \in DOMAIN e.a : Prunable(e.a[i], headers)

Hoisted(e) ==
    CASE IsAssertion(e, {}) -> If(AssertionOf(e, {}).kind \in {"filesize", "external"}, {AssertionOf(e, {})})
      [] e.op = "and" -> Hoisted(e.a[1]) \cup Hoisted(e.a[2])
      [] OTHER -> {}

\* Every comparison of an external in the condition.
ExternalAssertions(cond) ==
    {x \in {AssertionOf(e, {}) : e \in Nodes(cond)} : x.kind = "external"}

MandatoryAssertions(cond) == If(Prunable(cond, Headers(cond)), Hoisted(cond))

(***************************************************************************)
(* tryParseProximityLoop: two loops over the occurrences of two strings    *)
(* that only bound how far apart they are become one instruction.          *)
(***************************************************************************)
MinInt == -(2^(Width - 1))
MaxInt == 2^(Width - 1) - 1

Clauses(e) == IF e.op = "and" THEN Clauses(e.a[1]) \cup Clauses(e.a[2]) ELSE {e}

OverOccurrences(e) ==
    /\ e.op = "forint" /\ e.a[1].op = "any"
    /\ e.a[3].op = "int" /\ e.a[3].n = 1 /\ e.a[4].op = "count"

IsOffsetOf(e, id, var) == e.op = "offset" /\ e.n = id /\ e.a[1].op = "name" /\ e.a[1].n = var

\* The distances k op allows, k - 1 and k + 1 in one word.
Span(op, k) ==
    CASE op = "lt" -> <<MinInt, Wrap(k - 1)>> [] op = "le" -> <<MinInt, k>>
      [] op = "gt" -> <<Wrap(k + 1), MaxInt>> [] op = "ge" -> <<k, MaxInt>>
      [] op = "eq" -> <<k, k>>

\* The distances a clause allows from a to b, none when it is not about them; a and b are
\* [id, var].
ClauseSpan(c, a, b) ==
    LET A(e) == IsOffsetOf(e, a.id, a.var)
        B(e) == IsOffsetOf(e, b.id, b.var)
        Distance(e) == e.op = "sub" /\ B(e.a[1]) /\ A(e.a[2])
    IN  CASE c.op \notin Compares \ {"ne"} -> <<>>
          [] Distance(c.a[1]) -> IF c.a[2].op = "int" THEN Span(c.op, c.a[2].n) ELSE <<>>
          [] Distance(c.a[2]) -> IF c.a[1].op = "int" THEN Span(Reversed(c.op), c.a[1].n) ELSE <<>>
          [] B(c.a[1]) /\ A(c.a[2]) -> Span(c.op, 0)
          [] A(c.a[1]) /\ B(c.a[2]) -> Span(Reversed(c.op), 0)
          [] OTHER -> <<>>

Meet(spans) ==
    <<CHOOSE m \in {s[1] : s \in spans} : \A s \in spans : s[1] <= m,
      CHOOSE m \in {s[2] : s \in spans} : \A s \in spans : m <= s[2]>>

ProximityPlan(e) ==
    IF ~OverOccurrences(e) \/ ~OverOccurrences(e.a[2]) \/ e.n = e.a[2].n THEN <<>>
    ELSE LET outer == [id |-> e.a[4].n, var |-> e.n]
             inner == [id |-> e.a[2].a[4].n, var |-> e.a[2].n]
             clauses == Clauses(e.a[2].a[2])
             From(a, b) == {ClauseSpan(c, a, b) : c \in clauses}
         IN  CASE <<>> \notin From(outer, inner) -> <<outer.id, inner.id>> \o Meet(From(outer, inner))
               [] <<>> \notin From(inner, outer) -> <<inner.id, outer.id>> \o Meet(From(inner, outer))
               [] OTHER -> <<>>

\* "$" is the string of a loop over strings, in the loop's own body: in the body of a loop
\* over numbers the string queries know no string "$", nor does compileProximity, and the
\* rule is a compile error.  (A bare "$" there is the variable of a loop further out, if it
\* has no other name, or the rule's anonymous strings: such conditions are left out too.)
RECURSIVE CompilesIn(_, _)
CompilesIn(e, inStringLoop) ==
    LET body == IF e.op \in Loops THEN {2} ELSE {}
    IN  /\ IsPlaceholder(e) => inStringLoop
        /\ \A i \in body : CompilesIn(e.a[i], e.op \in {"forstr", "fortext"})
        /\ \A i \in DOMAIN e.a \ body : CompilesIn(e.a[i], inStringLoop)

(***************************************************************************)
(* Code(e, s, at): the instructions for e, the first one at index at, in   *)
(* the scope s: [slot: loop variable -> memory slot, dollar: the slot "$"  *)
(* stands for or -1, next: the next free slot].                            *)
(***************************************************************************)
I(op, arg) == [op |-> op, arg |-> arg]

ExternalSlot(name) == Cardinality({m \in Externals : m < name})
NoScope == [slot |-> [k \in {} |-> 0], dollar |-> -1, next |-> 0]

\* allocateVariables: a loop variable takes no slot of an external.
Allocate(s, name) ==
    LET used == {s.slot[k] : k \in DOMAIN s.slot} \cup {ExternalSlot(x) : x \in Externals}
        free == CHOOSE k \in s.next .. s.next + Cardinality(used) :
                    k \notin used /\ \A j \in s.next .. k - 1 : j \in used
    IN  [s EXCEPT !.slot = [k \in DOMAIN s.slot \cup {name} |-> IF k = name THEN free ELSE s.slot[k]],
                  !.next = free + 1]

IsFloat(e) ==
    \/ e.op = "dbl"
    \/ e.op = "neg" /\ IsFloat(e.a[1])
    \/ e.op \in {"add", "sub", "mul", "div", "idiv"} /\ (IsFloat(e.a[1]) \/ IsFloat(e.a[2]))

StringRef(id, s) == IF id = 0 THEN I("load", s.dollar) ELSE I("push", Value("ref", id))

LeafCode(e, s) ==
    CASE e.op = "name" -> I("load", IF e.n \in DOMAIN s.slot THEN s.slot[e.n] ELSE ExternalSlot(e.n))
      [] e.op = "filesize" -> I("filesize", 0)
      [] e.op = "rule" -> I("rule", e.n)
      [] OTHER -> I("push", Leaf(e, 0, NoVariables))

\* Operands one after the other.
Chain(es, s, at) ==
    IF es = <<>> THEN <<>>
    ELSE LET first == Code(es[1], s, at) IN first \o Chain(Tail(es), s, at + Len(first))

StringCode(e, s, at) ==
    LET op == CASE e.op = "str" -> "found" [] e.op = "at" -> "foundat" [] e.op = "in" -> "foundin"
                [] OTHER -> e.op
        head == <<StringRef(e.n, s)>> \o (IF e.op = "countin" THEN <<I("count", 0)>> ELSE <<>>)
    IN  head \o Chain(e.a, s, at + Len(head)) \o <<I(op, Len(e.a))>>

SetCode(e, s, at) ==
    LET count == IF e.op = "countof" THEN <<>> ELSE Code(e.a[1], s, at)
        head == Append(count, I("push", Value("set", e.ids)))
        bounds == IF e.op = "countof" THEN e.a ELSE Tail(e.a)
    IN  head \o Chain(bounds, s, at + Len(head)) \o <<I(e.op, Len(bounds))>>

LeftFirst == Compares \cup {"contains", "shl", "shr", "mod", "sub", "div", "idiv"}

OpcodeClass(e) ==
    CASE e.op \in Logic -> "logic"
      [] e.op = "contains" \/ (e.op \in Compares /\ "text" \in {e.a[1].op, e.a[2].op}) -> "text"
      [] e.op \in Compares -> "compare"
      [] IsFloat(e.a[1]) \/ IsFloat(e.a[2]) -> "double"
      [] OTHER -> "arith"

BinaryCode(e, s, at) ==
    LET float == e.op \notin Logic /\ (IsFloat(e.a[1]) \/ IsFloat(e.a[2]))
        Promoted(x, k) ==
            Code(x, s, k) \o (IF float /\ ~IsFloat(x) THEN <<I("unary", "itod")>> ELSE <<>>)
        order == IF e.op \in LeftFirst THEN <<e.a[1], e.a[2]>> ELSE <<e.a[2], e.a[1]>>
        first == Promoted(order[1], at)
    IN  first \o Promoted(order[2], at + Len(first)) \o <<I(OpcodeClass(e), e.op)>>

UnaryCode(e, s, at) ==
    Append(Code(e.a[1], s, at),
           I("unary", IF e.op = "neg" /\ IsFloat(e.a[1]) THEN "dneg" ELSE e.op))

QuantifierCode(q) ==
    CASE q.op = "any" -> <<I("push", Whole(0)), I("compare", "gt")>>
      [] q.op = "none" -> <<I("push", Whole(0)), I("compare", "eq")>>
      [] q.op = "all" -> <<I("compare", "eq")>>
      [] OTHER -> <<I("push", Whole(q.n)), I("compare", "ge")>>

\* Error: the jump over an empty loop is not patched.
LoopBodyUnpatched(e, s, at) ==
    LET body == at + 4
        inner == Code(e.a[2], s, body)
    IN  <<I("itertotal", 0), I("jzp", at), I("push", Value("int", body)), I("iternext", 0)>>
        \o inner \o <<I("itercond", 0), I("push", Value("int", body)), I("iternext", 0)>>
        \o (IF e.a[1].op = "all" THEN <<I("itertotal", 0)>> ELSE <<>>)
        \o <<I("iterend", 0)>> \o QuantifierCode(e.a[1])

\* compileForLoopBody: an empty loop jumps over its body; each round ends in iternext,
\* which goes back to the body while there is an element left.
LoopBody(e, s, at) ==
    LET body == at + 4
        inner == Code(e.a[2], s, body)
        end == body + Len(inner) + 3
    IN  <<I("itertotal", 0), I("jzp", end), I("push", Value("int", body)), I("iternext", 0)>>
        \o inner \o <<I("itercond", 0), I("push", Value("int", body)), I("iternext", 0)>>
        \o (IF e.a[1].op = "all" THEN <<I("itertotal", 0)>> ELSE <<>>)
        \o <<I("iterend", 0)>> \o QuantifierCode(e.a[1])

\* The slot is taken before the operands are compiled.
LoopStart(e, s, at) ==
    LET operands == SubSeq(e.a, 3, Len(e.a))
        slot == s.slot[e.n]
    IN  CASE e.op = "forint" -> Chain(operands, s, at) \o <<I("iterint", slot)>>
          [] e.op = "forenum" ->
                Chain(operands, s, at) \o <<I("push", Value("int", Len(operands))), I("iterenum", slot)>>
          [] e.op = "fortext" -> <<I("itertext", <<slot, [i \in DOMAIN operands |-> Value("str", operands[i].n)]>>)>>
          [] e.op = "forstr" ->
                Chain(operands, s, at)
                \o <<I("push", Value("set", e.ids)), I("iterstr", <<slot, Len(operands)>>)>>

LoopCode(e, s, at) ==
    LET scope == Allocate(s, e.n)
        start == LoopStart(e, scope, at)
        dollar == IF e.op \in {"forstr", "fortext"} THEN scope.slot[e.n] ELSE -1
        plan == ProximityPlan(e)
    IN  IF plan # <<>>
        THEN <<I("push", Value("ref", plan[1])), I("push", Value("ref", plan[2])),
               I("push", Whole(plan[3])), I("push", Whole(plan[4])), I("proximity", 0)>>
        ELSE start \o LoopBody(e, [scope EXCEPT !.dollar = dollar], at + Len(start))

Code(e, s, at) ==
    CASE IsAssertion(e, DOMAIN s.slot) -> <<I("assert", AssertionOf(e, DOMAIN s.slot))>>
      [] e.op \in Loops -> LoopCode(e, s, at)
      [] e.op \in StringQueries -> StringCode(e, s, at)
      [] e.op \in SetQueries -> SetCode(e, s, at)
      [] e.op = "read" -> Append(Code(e.a[1], s, at), I("read", e.n))
      [] Len(e.a) = 1 -> UnaryCode(e, s, at)
      [] Len(e.a) = 2 -> BinaryCode(e, s, at)
      [] OTHER -> <<LeafCode(e, s)>>

\* compileCondition
Compile(folded) ==
    IF IsAssertionTree(folded, {}) THEN <<I("evaluate", folded), I("halt", 0)>>
    ELSE Append(Code(folded, NoScope, 1), I("halt", 0))

(***************************************************************************)
(* CompileRule, in its order: fixed offsets from the condition as written, *)
(* the rest from the folded one.                                           *)
(***************************************************************************)
CompileRule(cond, strings) ==
    LET folded == Fold(cond)
        live == LiveStrings(folded)
        offsets == FixedOffsets(cond, strings)
        presence == Presence(folded)
        bounded == Cardinality(strings) > 1 /\ presence.safe
    IN  [code |-> Compile(folded), live |-> live,
         offsets |-> [id \in DOMAIN offsets \cap live |-> offsets[id]],
         firstOnly |-> ~ObservesOccurrences(folded),
         headers |-> Headers(folded), mandatory |-> MandatoryAssertions(folded),
         externals |-> ExternalAssertions(folded),
         required |-> If(bounded, presence.required), forbidden |-> If(bounded, presence.forbidden),
         requiresMatch |-> strings # {} /\ RequiresStringMatch(folded)]
==============================================================================
