--------------------------- MODULE MCStreamEarly ----------------------------
EXTENDS MCStreamScan

(* early: monotonic rules only, one behind a header constraint.
     private A: $t      B: $x and A      C: $y and uint8(3) == ..
     D: A and filesize > 2                                                *)

EarlyRules ==
    << Private({Needs(t)}),
       Public({[Needs(x) EXCEPT !.rules = {1}]}),
       [Public({Needs(y)}) EXCEPT !.headerEnd = 4],
       Public({[Always EXCEPT !.rules = {1}, !.size = 3]}) >>

EarlyPatterns ==
    [p \in {t, x, y} |-> CASE p = t -> Text(1, 2, 1)
                           [] p = x -> Regex(2, 2)
                           [] p = y -> Text(3, 1, 0)]

EarlyInputs ==
    InputsOver(6, Both(AtMostOne(SpansOf(t, 6, {2})),
                       Both(AtMostOne(SpansOf(x, 6, {1})), AtMostOne(SpansOf(y, 6, {1})))))

\* private A: $t      B: $x and not A
NegatedReferenceRules ==
    << Private({Needs(t)}), Public({[Needs(x) EXCEPT !.notRules = {1}]}) >>

\* private A: $t      B: $x and A
PrivateReferenceRules ==
    << Private({Needs(t)}), Public({[Needs(x) EXCEPT !.rules = {1}]}) >>

TwoRulePatterns == [p \in {t, x} |-> IF p = t THEN Text(1, 1, 0) ELSE Text(2, 1, 0)]

TwoRuleInputs ==
    {Input(4, o, o) : o \in Both(AtMostOne(SpansOf(t, 4, {1})), AtMostOne(SpansOf(x, 4, {1})))}
=============================================================================
