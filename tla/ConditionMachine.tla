-------------------------- MODULE ConditionMachine --------------------------
(***************************************************************************)
(* Evaluating the condition of one rule for one input: what the compiler   *)
(* derived from the condition may answer first (evaluateRuleCondition), or *)
(* the interpreter runs its bytecode, an instruction a step.               *)
(***************************************************************************)
EXTENDS ConditionCompiler

CONSTANTS
    Conditions,  \* conditions as the parser leaves them
    Inputs       \* what the scan found out about an input (ConditionLanguage)

VARIABLES
    cond,        \* the condition, and what CompileRule made of it
    rule,
    input,       \* the whole input, and what the interpreter sees of it
    context,
    fast,        \* the scanner keeps the first match of a string where that is enough
    phase,       \* "ready", "run", "pruned", "done", "error", "limit"
    ip, stack, iters, memory, iterations,
    verdict

given == <<cond, rule, input, fast>>
machine == <<ip, stack, iters, memory, iterations>>
vars == <<given, context, phase, machine, verdict>>

Slots == 0 .. 2 * Cardinality(Externals) + 4

Init ==
    /\ cond \in Conditions /\ CompilesIn(Fold(cond), FALSE)
    /\ rule = CompileRule(cond, Strings)
    /\ input \in Inputs
    /\ fast \in BOOLEAN
    /\ context = input
    /\ phase = "ready"
    /\ ip = 1 /\ stack = <<>> /\ iters = <<>> /\ iterations = 0
    /\ memory = [k \in Slots |-> Value("int", 0)]
    /\ verdict = FALSE

(***************************************************************************)
(* Before the interpreter: the gates on the input, the required strings,   *)
(* the matches of the rule, the forbidden strings, any match at all.       *)
(***************************************************************************)
Holds(assertion) ==
    LET x == assertion
        actual == IF x.kind = "filesize" THEN Whole(Len(input.data)) ELSE input.externals[x.id]
    IN  Comparison(x.cmp, actual, x.value)

\* An external of another type than it is compared with rejects nothing.
RejectedByAssertion ==
    /\ \A x \in rule.externals : Holds(x) # Fault
    /\ \E x \in rule.mandatory : Holds(x) # Bool(TRUE)

HeaderHolds(h) ==
    IF h[1] = "at" THEN FoundIn(input, h[2], h[3], h[3])
    ELSE Readable(input, h[3], h[2]) /\ Little(input, h[3], h[2]) = h[4]

\* filterFixedOffsets, dead strings, and the first match alone.
Narrow(id) ==
    LET spans == input.spans[id]
        kept == IF id \in DOMAIN rule.offsets
                THEN {i \in 1 .. Len(spans) : spans[i] = rule.offsets[id]}
                ELSE IF fast /\ rule.firstOnly THEN {i \in 1 .. Len(spans) : i = 1}
                ELSE 1 .. Len(spans)
        order == SetToSortSeq(IF id \in rule.live THEN kept ELSE {}, <)
    IN  order

RuleContext ==
    [input EXCEPT !.spans = [id \in Strings |-> [i \in DOMAIN Narrow(id) |-> input.spans[id][Narrow(id)[i]]]],
                  !.lens = [id \in Strings |-> [i \in DOMAIN Narrow(id) |-> input.lens[id][Narrow(id)[i]]]]]

Pruned ==
    \/ RejectedByAssertion
    \/ \E h \in rule.headers : ~HeaderHolds(h)
    \/ \E id \in rule.required : ~Found(input, id)
    \/ \E id \in rule.forbidden : Found(input, id)
    \/ rule.requiresMatch /\ \A id \in Strings : ~Found(RuleContext, id)

Prune ==
    /\ phase = "ready" /\ Pruned
    /\ phase' = "pruned"
    /\ UNCHANGED <<given, context, machine, verdict>>

\* prepareInterpreter: the externals take their slots, the loop variables keep what the
\* rule before left there.
Prepare ==
    /\ phase = "ready" /\ ~Pruned
    /\ phase' = "run"
    /\ context' = RuleContext
    /\ memory' = [k \in Slots |->
          IF \E x \in Externals : ExternalSlot(x) = k
          THEN input.externals[CHOOSE x \in Externals : ExternalSlot(x) = k] ELSE memory[k]]
    /\ UNCHANGED <<given, ip, stack, iters, iterations, verdict>>

(***************************************************************************)
(* The interpreter.                                                        *)
(***************************************************************************)
Instr == rule.code[ip]
At(ops) == phase = "run" /\ Instr.op \in ops

Top(k) == SubSeq(stack, Len(stack) - k + 1, Len(stack))
Popped(k) == SubSeq(stack, 1, Len(stack) - k)

\* Take k operands off the stack and put x there, or fail.
Replace(k, x) ==
    /\ IF x.t = "err" THEN phase' = "error" /\ UNCHANGED <<stack, ip>>
       ELSE /\ stack' = Append(Popped(k), x)
            /\ ip' = ip + 1
            /\ UNCHANGED phase
    /\ UNCHANGED <<given, context, iters, memory, iterations, verdict>>

Push ==
    /\ At({"push", "load", "filesize", "rule"})
    /\ Replace(0, CASE Instr.op = "push" -> Instr.arg
                    [] Instr.op = "load" -> memory[Instr.arg]
                    [] Instr.op = "filesize" -> Whole(Len(context.data))
                    [] Instr.op = "rule" -> Bool(context.rules[Instr.arg]))

\* Two-pointer scan of ascending offsets (hasProximitySpans).
RECURSIVE Near(_, _, _, _)
Near(as, bs, low, high) ==
    /\ as # <<>> /\ bs # <<>>
    /\ CASE bs[1] - as[1] < low -> Near(as, Tail(bs), low, high)
         [] bs[1] - as[1] > high -> Near(Tail(as), bs, low, high)
         [] OTHER -> TRUE

Ref(x) == x.v
Answer(op, v) ==
    CASE op \in {"found", "count", "foundat", "foundin", "offset", "length"} /\ v[1].t # "ref" -> Fault
      [] op = "found" -> Bool(Found(context, Ref(v[1])))
      [] op = "count" -> Whole(Len(context.spans[Ref(v[1])]))
      [] op = "foundat" ->
            Within(Tail(v), Bool(v[2].t = "int" /\ FoundIn(context, Ref(v[1]), v[2].v, v[2].v)))
      [] op = "foundin" ->
            Within(Tail(v), Bool(AreInts(v[2], v[3]) /\ FoundIn(context, Ref(v[1]), v[2].v, v[3].v)))
      [] op \in {"offset", "length"} ->
            CASE v[2].t = "undef" -> Undefined
              [] v[2].t # "int" -> Fault
              [] OTHER -> LET x == Occurrence(context, Ref(v[1]), v[2].v)
                          IN  IF op = "offset" \/ x.t = "undef" THEN x
                              ELSE Whole(context.lens[Ref(v[1])][v[2].v])
      [] op = "countin" ->
            IF \A i \in 1 .. 3 : v[i].t = "int" THEN Bool(v[1].v \in v[2].v .. v[3].v) ELSE Fault
      [] op = "proximity" ->
            Bool(v[3].v <= v[4].v
                 /\ Near(context.spans[Ref(v[1])], context.spans[Ref(v[2])], v[3].v, v[4].v))

Ask ==
    /\ At({"found", "count", "foundat", "foundin", "offset", "length", "countin", "proximity"})
    /\ LET k == CASE Instr.op \in {"found", "count"} -> 1 [] Instr.op \in {"foundat", "offset", "length"} -> 2
                  [] Instr.op = "proximity" -> 4 [] OTHER -> 3
       IN  Replace(k, Answer(Instr.op, Top(k)))

\* evaluateStringSetCount: stop as soon as the outcome is decided.
RECURSIVE CountUp(_, _, _, _)
CountUp(ids, matched, target, bounds) ==
    IF ids = <<>> THEN matched >= target
    ELSE LET hit == Hits(context, {Head(ids)}, bounds)
         IN  CASE hit = 1 /\ matched + 1 >= target -> TRUE
               [] matched + hit + Len(ids) - 1 < target -> FALSE
               [] OTHER -> CountUp(Tail(ids), matched + hit, target, bounds)

SetCount(ids, count, bounds) ==
    CASE count.t # "int" -> FALSE
      [] count.v = All -> ids # {} /\ \A id \in ids : Hits(context, {id}, bounds) = 1
      [] count.v = 0 -> \A id \in ids : Hits(context, {id}, bounds) = 0
      [] count.v < 0 -> FALSE
      [] OTHER -> CountUp(SetToSortSeq(ids, <), 0, count.v, bounds)

AnswerOf(op, ids, count, bounds) ==
    CASE op = "of" -> Within(bounds, Bool(SetCount(ids, count, bounds)))
      [] op = "pct" /\ (\E i \in DOMAIN bounds : bounds[i].t # "int") -> Fault
      [] op = "pct" -> Bool(Share(count, Hits(context, ids, bounds), Cardinality(ids)))
      [] op = "countof" ->
            IF AreInts(bounds[1], bounds[2])
            THEN Bool(Hits(context, ids, <<>>) \in bounds[1].v .. bounds[2].v) ELSE Fault

\* The operands: a count (not for countof), the set, the bounds.
AskSet ==
    /\ At({"of", "pct", "countof"})
    /\ LET bounds == Top(Instr.arg)
           k == Instr.arg + (IF Instr.op = "countof" THEN 1 ELSE 2)
       IN  Replace(k, AnswerOf(Instr.op, stack[Len(stack) - Instr.arg].v, Top(k)[1], bounds))

\* popTwo: the operand compiled last is on top.
Compute ==
    /\ At({"arith", "double", "compare", "text", "logic", "unary", "read"})
    /\ LET x == Top(2)[1]
           y == Top(2)[2]
       IN  CASE Instr.op = "arith" -> Replace(2, Arithmetic(Instr.arg, x, y))
             [] Instr.op = "double" -> Replace(2, DoubleOp(Instr.arg, x, y))
             [] Instr.op = "compare" -> Replace(2, Comparison(Instr.arg, x, y))
             [] Instr.op = "text" -> Replace(2, TextOp(Instr.arg, x, y))
             [] Instr.op = "logic" -> Replace(2, LogicOp(Instr.arg, x, y))
             [] Instr.op = "unary" -> Replace(1, Unary(Instr.arg, Top(1)[1]))
             [] Instr.op = "read" -> Replace(1, Read(context, Top(1)[1], Instr.arg))

(***************************************************************************)
(* Loops.  An iterator: the slot of its variable, its elements, the index  *)
(* of the next one, how many were true.                                    *)
(***************************************************************************)
Iterator(slot, elements) == [slot |-> slot, elements |-> elements, index |-> 1, count |-> 0]

StartLoop(k, ok, slot, elements) ==
    /\ IF ok
       THEN /\ iters' = Append(iters, Iterator(slot, elements))
            /\ stack' = Popped(k)
            /\ ip' = ip + 1
            /\ UNCHANGED phase
       ELSE phase' = "error" /\ UNCHANGED <<iters, stack, ip>>
    /\ UNCHANGED <<given, context, memory, iterations, verdict>>

AllInts(v) == \A i \in DOMAIN v : v[i].t = "int"

IterStart ==
    /\ At({"iterint", "iterenum", "itertext", "iterstr"})
    /\ CASE Instr.op = "iterint" ->
              StartLoop(2, AllInts(Top(2)), Instr.arg, IntRange(Top(2)[1].v, Top(2)[2].v))
         [] Instr.op = "iterenum" ->
              LET n == Top(1)[1].v
                  v == SubSeq(Top(n + 1), 1, n)
              IN  StartLoop(n + 1, AllInts(v), Instr.arg, v)
         [] Instr.op = "itertext" -> StartLoop(0, TRUE, Instr.arg[1], Instr.arg[2])
         [] Instr.op = "iterstr" ->
              LET n == Instr.arg[2]
                  bounds == SubSeq(Top(n + 1), 1, n)
                  ids == Among(context, Top(1)[1].v, bounds)
              IN  StartLoop(n + 1, AllInts(bounds), Instr.arg[1],
                            [i \in DOMAIN ids |-> Value("ref", ids[i])])

Iter == iters[Len(iters)]
Depth == Len(iters)

\* The target is on the stack; without an element left execution goes on.
IterNext ==
    /\ At({"iternext"})
    /\ CASE Iter.index > Len(Iter.elements) ->
              /\ stack' = Popped(1) /\ ip' = ip + 1
              /\ UNCHANGED <<iters, memory, iterations, phase>>
         [] IterLimit > 0 /\ iterations + 1 > IterLimit ->
              /\ phase' = "limit" /\ UNCHANGED <<stack, ip, iters, memory, iterations>>
         [] OTHER ->
              /\ memory' = [memory EXCEPT ![Iter.slot] = Iter.elements[Iter.index]]
              /\ iters' = [iters EXCEPT ![Depth].index = @ + 1]
              /\ iterations' = iterations + 1
              /\ ip' = Top(1)[1].v
              /\ stack' = Popped(1)
              /\ UNCHANGED phase
    /\ UNCHANGED <<given, context, verdict>>

IterCondition ==
    /\ At({"itercond"})
    /\ iters' = [iters EXCEPT ![Depth].count = @ + (IF IsTruthy(Top(1)[1]) THEN 1 ELSE 0)]
    /\ stack' = Popped(1) /\ ip' = ip + 1
    /\ UNCHANGED <<given, context, phase, memory, iterations, verdict>>

IterTotal == At({"itertotal"}) /\ Replace(0, Value("int", Len(Iter.elements)))

IterEnd ==
    /\ At({"iterend"})
    /\ stack' = Append(stack, Value("int", Iter.count))
    /\ iters' = SubSeq(iters, 1, Depth - 1)
    /\ ip' = ip + 1
    /\ UNCHANGED <<given, context, phase, memory, iterations, verdict>>

JumpIfZero ==
    /\ At({"jzp"})
    /\ ip' = IF IsTruthy(Top(1)[1]) THEN ip + 1 ELSE Instr.arg
    /\ stack' = Popped(1)
    /\ UNCHANGED <<given, context, phase, iters, memory, iterations, verdict>>

(***************************************************************************)
(* Assertions and their programs.                                          *)
(***************************************************************************)
EvaluateAssertion(x) ==
    CASE x.kind = "at" -> Bool(FoundIn(context, x.id, x.at, x.at))
      [] x.kind = "count" -> Bool(Order(x.cmp, Len(context.spans[x.id]), x.value.v))
      [] x.kind = "filesize" -> Bool(Order(x.cmp, Len(context.data), x.value.v))
      [] x.kind = "read" -> IF ~Readable(context, x.at, x.id) THEN Undefined
                            ELSE Bool(Order(x.cmp, Little(context, x.at, x.id), x.value.v))
      [] x.kind = "external" -> Comparison(x.cmp, context.externals[x.id], x.value)

\* executeEvalAssertions: the registers hold true, false, undefined or a failure.
RECURSIVE Evaluated(_)
Evaluated(e) ==
    IF IsAssertion(e, {}) THEN EvaluateAssertion(AssertionOf(e, {}))
    ELSE LET r == [i \in DOMAIN e.a |-> Evaluated(e.a[i])]
         IN  CASE \E i \in DOMAIN r : r[i] = Fault -> Fault
               [] e.op = "and" -> Bool(r[1] = Bool(TRUE) /\ r[2] = Bool(TRUE))
               [] e.op = "or" -> Bool(r[1] = Bool(TRUE) \/ r[2] = Bool(TRUE))
               [] e.op = "not" -> IF r[1] = Undefined THEN Undefined ELSE Bool(r[1] # Bool(TRUE))

Assertions ==
    /\ At({"assert", "evaluate"})
    /\ Replace(0, IF Instr.op = "assert" THEN EvaluateAssertion(Instr.arg) ELSE Evaluated(Instr.arg))

\* storeExecutionResult: only an integer that is not zero matches.
Halt ==
    /\ At({"halt"})
    /\ phase' = "done"
    /\ verdict' = Matches(stack[Len(stack)])
    /\ UNCHANGED <<given, context, machine>>

Next ==
    \/ Prune \/ Prepare
    \/ Push \/ Ask \/ AskSet \/ Compute
    \/ IterStart \/ IterNext \/ IterCondition \/ IterTotal \/ IterEnd \/ JumpIfZero
    \/ Assertions \/ Halt

\* The main loop takes the next instruction as long as there is one.
Spec == Init /\ [][Next]_vars /\ WF_vars(Next)

(***************************************************************************)
(* Properties                                                              *)
(***************************************************************************)
Truth == Meaning(cond, input, NoVariables)

\* The machine stays within its code and its slots, and a run that ends leaves one value
\* and no iterator behind: every loop, operand order and jump of the compiler balances.
TypeOK ==
    /\ phase \in {"ready", "run", "pruned", "done", "error", "limit"}
    /\ ip \in DOMAIN rule.code
    /\ \A i \in DOMAIN iters : iters[i].slot \in Slots /\ iters[i].index \in 1 .. Len(iters[i].elements) + 1
    /\ phase = "done" => Len(stack) = 1 /\ iters = <<>>

\* Folding, assertions, fusion of loops, fixed offsets, dead strings, keeping first matches
\* only and the interpreter do not change what a condition says of an input; a run fails
\* only where the condition has no value, or at the limit of iterations.
VerdictIsMeaning ==
    /\ phase = "done" => verdict = Matches(Truth)
    /\ phase = "error" => Truth = Fault
    /\ phase = "limit" => iterations = IterLimit

\* A rule that is answered without running its condition is one that does not match.
PruningIsSound == phase = "pruned" => ~Matches(Truth)

\* Every evaluation ends: no jump of a loop leads back without an element taken.
EvaluationEnds == <>(phase \in {"pruned", "done", "error", "limit"})
==============================================================================
