---------------------------- MODULE MCStreamCore ----------------------------
EXTENDS MCStreamScan

(* core: strings, counts, header reads, filesize, references, negation, a global
   rule, and a hook that stops or skips.
     private A: $t      B: $x and A or #x > 1
     C: not $y and not B and filesize > 2 or $y and uint8(1) == ..     D: A
     global G: not B or uint8(2) == ..                                           *)

CoreRules ==
    << Private({Needs(t)}),
       Public({[Needs(x) EXCEPT !.rules = {1}], [Always EXCEPT !.twice = {x}]}),
       [Public({[Always EXCEPT !.absent = {y}, !.notRules = {2}, !.size = 3],
                [Needs(y) EXCEPT !.bytes = 2]}) EXCEPT !.hook = "stop"],
       [Public({[Always EXCEPT !.rules = {1}]}) EXCEPT !.hook = "skip"],
       [Public({[Always EXCEPT !.notRules = {2}],
                [Always EXCEPT !.bytes = 3]}) EXCEPT !.global = TRUE] >>

CorePatterns ==
    [p \in {t, x, y} |-> CASE p = t -> Text(1, 2, 1)
                           [] p = x -> Regex(2, 1)
                           [] p = y -> Hex(3, 2)]

CoreInputs ==
    UNION {InputsOver(n, Both(Both(AtMostOne(SpansOf(t, n, {2})), AtMostTwo(SpansOf(x, n, {0, 1}))),
                              {{}, [pat : {y}, start : {n - 3}, len : {2}]})) :
           n \in {3, 5}}
    \cup {Input(0, {}, {})}
    \cup {[i EXCEPT !.fault = "other", !.faultAt = f] :
              i \in InputsOver(6, AtMostOne(SpansOf(x, 6, {1}))), f \in 0 .. 6}
    \cup FaultyInputs(6, {"unexpectedEOF"}, 1 .. 6)
=============================================================================
