-------------------------- MODULE MCStreamFiltered --------------------------
EXTENDS MCStreamScan

(* filtered: a tag filter that selects B, C, D and, through C, A; an unbounded
   regex that raises an explicit overlap; chunks of one byte; a gated rule; one
   occurrence per string, except where the condition counts; a second scan with
   the same Scanner.  A text string with a fullword test is left out: fast scan
   loses occurrences of it (see the README).
     private A: $t      B (tagged): #y > 1      C (tagged): $x and A
     D (tagged, gated): uint8(0) == ..      global G: A or uint8(1) == ..         *)

Untagged(rule) == [rule EXCEPT !.tagged = FALSE]

FilteredRules ==
    << Untagged(Private({Needs(t)})),
       Public({[Always EXCEPT !.twice = {y}]}),
       Public({[Needs(x) EXCEPT !.rules = {1}]}),
       [Public({[Always EXCEPT !.bytes = 1]}) EXCEPT !.gated = TRUE],
       Untagged([Public({[Always EXCEPT !.bytes = 2], [Always EXCEPT !.rules = {1}]})
                    EXCEPT !.global = TRUE]) >>

FilteredPatterns ==
    [p \in {t, x, y} |->
        CASE p = t -> Text(1, 2, 0)
          [] p = x -> [Regex(3, -1) EXCEPT !.verify = "forward"]
          [] p = y -> Hex(2, 2)]

\* Text and hex candidates are real; a regex candidate may be refuted by later bytes.
FilteredInputs ==
    {Input(1, {}, {}), Input(1, [pat : {x}, start : {0}, len : {1}], {})}
    \cup UNION {{Input(6, a \cup b \cup c, a \cup b \cup o) : o \in SUBSET c} :
                a \in AtMostTwo([pat : {t}, start : {0, 2, 4}, len : {2}]),
                b \in {{}, [pat : {y}, start : {1, 4}, len : {2}]},
                c \in AtMostOne([pat : {x}, start : {0, 2, 4}, len : {1, 2}])}
=============================================================================
