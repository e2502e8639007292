---------------------------- MODULE MCBlockScan ----------------------------
(***************************************************************************)
(* Instances of BlockScan for TLC: address spaces of four bytes and blocks *)
(* that abut, overlap, leave gaps, repeat or hold nothing.                 *)
(***************************************************************************)
EXTENDS BlockScan

CONSTANTS t, x, y   \* string identifiers

Always ==
    [need |-> {}, twice |-> {}, absent |-> {}, rules |-> {}, notRules |-> {},
     bytes |-> 0, noBytes |-> 0, size |-> 0]
Public(clauses) ==
    [private |-> FALSE, global |-> FALSE, tagged |-> TRUE, gated |-> FALSE,
     usesModule |-> FALSE, headerEnd |-> 0, hook |-> "continue", clauses |-> clauses]
Needs(p) == [Always EXCEPT !.need = {p}]
Owned == [p \in {t, x, y} |-> [rule |-> CASE p = t -> 1 [] p = x -> 2 [] p = y -> 3]]

(* core:  private A: $t      B: #x > 1 and not A
          C: not $y and filesize >= 4 or $y and uint16(1) == ..
             or $y and not defined uint16(2)                      (the hook stops)
          global D: A or B or uint16(0) == ..      gated E: true                  *)
CoreRules ==
    << [Public({Needs(t)}) EXCEPT !.private = TRUE],
       Public({[Always EXCEPT !.twice = {x}, !.notRules = {1}]}),
       [Public({[Always EXCEPT !.absent = {y}, !.size = 4],
                [Needs(y) EXCEPT !.bytes = 3],
                [Needs(y) EXCEPT !.noBytes = 4]}) EXCEPT !.hook = "stop"],
       [Public({[Always EXCEPT !.rules = {1}], [Always EXCEPT !.rules = {2}],
                [Always EXCEPT !.bytes = 2]}) EXCEPT !.global = TRUE],
       [Public({Always}) EXCEPT !.gated = TRUE] >>

Span(p, a, n, v) == [pat |-> p, start |-> a, len |-> n, veto |-> v]
Space(spans) == [length |-> 4, spans |-> spans]

\* A string that is there twice or not, one over a boundary of some blocks, two
\* occurrences to count, and fullword strings that are or are not vetoed.
CoreSpaces ==
    LET twice == {Span(t, 0, 1, -1), Span(t, 2, 2, -1)}
        counted == {Span(x, 1, 1, -1), Span(x, 2, 1, -1)}
        words == {Span(y, 1, 1, -1), Span(y, 2, 1, -1)}
        vetoed == {Span(y, 1, 1, 2), Span(y, 2, 1, 1)}
    IN {Space(counted \cup words), Space(counted \cup twice \cup words),
        Space(counted \cup twice \cup vetoed)}

Block(a, n) == [base |-> a, length |-> n]
CoreBlocks == {Block(0, 2), Block(1, 3), Block(2, 2)}
=============================================================================
