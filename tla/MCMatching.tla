----------------------------- MODULE MCMatching -----------------------------
(***************************************************************************)
(* Instances for TLC of the three engines that find strings in an input:   *)
(* PatternAutomaton for text, HexMatching and RegexMachine.  A behaviour   *)
(* is one search by one of them; the variables of the others stay as they  *)
(* are.                                                                    *)
(***************************************************************************)
EXTENDS PatternAutomaton, HexMatching, RegexMachine

SequencesOf(alphabet, n) == UNION {[1 .. k -> alphabet] : k \in 0 .. n}

(***************************************************************************)
(* Text strings.  The letters are A, B, a and b, with a stop between words *)
(* and the two bytes a wide or xored letter leaves.                        *)
(***************************************************************************)
TextBytes == {0, 3, 46, 65, 66, 97, 98}
Text(id, text) ==
    [id |-> id, text |-> text, ascii |-> FALSE, wide |-> FALSE, nocase |-> FALSE, fullword |-> FALSE,
     keys |-> <<>>]

\* One string; one that is folded; strings that end in each other and one given twice;
\* both encodings and a word; wide words and keys; keys of a folded wide string; and two
\* mixtures of strings of one case with folded ones.
TextJobs ==
    {<<Text(1, <<65, 66>>)>>,
     <<[Text(1, <<97, 66>>) EXCEPT !.nocase = TRUE]>>,
     <<Text(1, <<65>>), Text(2, <<65, 66, 65>>), Text(3, <<66, 65>>), Text(4, <<65, 66, 65>>)>>,
     <<[Text(1, <<65, 66>>) EXCEPT !.nocase = TRUE, !.wide = TRUE, !.ascii = TRUE],
       [Text(2, <<66, 66>>) EXCEPT !.nocase = TRUE, !.fullword = TRUE]>>,
     <<[Text(1, <<65, 66>>) EXCEPT !.wide = TRUE, !.fullword = TRUE], [Text(2, <<66>>) EXCEPT !.keys = <<0, 3>>]>>,
     <<[Text(1, <<97, 66>>) EXCEPT !.nocase = TRUE, !.keys = <<3>>, !.wide = TRUE]>>,
     <<[Text(1, <<65, 66>>) EXCEPT !.nocase = TRUE], Text(2, <<97, 66, 66>>)>>,
     <<Text(1, <<65, 65>>), Text(2, <<97, 98>>), [Text(3, <<97, 66>>) EXCEPT !.nocase = TRUE]>>}
TextInputs ==
    SequencesOf({65, 66, 98, 46}, 5)
    \cup {p \o q : p \in SequencesOf({65, 98, 0}, 4), q \in SequencesOf({65, 66, 3}, 2)}
    \cup {p \o <<46, 46, 46, 46>> \o q : p \in SequencesOf({65, 46}, 2), q \in SequencesOf({97, 66}, 3)}

(***************************************************************************)
(* Hex strings: plain, with wildcards and nibbles, with jumps, with        *)
(* alternatives, and the odd ones the parser takes or refuses.             *)
(***************************************************************************)
Byte(v) == One(v, 3, FALSE)
AnyByte == One(0, 0, FALSE)
LowNibble(v) == One(v, 1, FALSE)
HighNibble(v) == One(v, 2, FALSE)
NotByte(v) == One(v, 3, TRUE)
NoByte == One(0, 0, TRUE)
MCHexStrings ==
    {<<Byte(1), Byte(2)>>, <<Byte(1), AnyByte, Byte(2)>>, <<LowNibble(1), Byte(2), Byte(2)>>,
     <<NotByte(1), HighNibble(2)>>, <<NoByte, Byte(1)>>,
     <<Byte(1), Jump(0, 2), Byte(2), Byte(3)>>, <<Jump(1, 2), Byte(1), Byte(2)>>,
     <<Byte(1), Jump(0, Unbounded), Byte(2), Byte(2), Byte(1)>>,
     <<Byte(1), Jump(2, 1), Byte(2)>>, <<Byte(1), Jump(0, 2)>>,
     <<Alt(<< <<Byte(1)>>, <<Byte(2), Byte(1)>> >>), Byte(2), Byte(3)>>,
     <<Byte(1), Alt(<< <<Byte(2), Jump(0, 1), Byte(2)>>, <<Alt(<< <<Byte(1)>>, <<AnyByte, LowNibble(1)>> >>)>> >>)>>,
     <<AnyByte, Alt(<< <<Byte(1), Byte(1)>>, <<Byte(2)>> >>), Jump(1, Unbounded), Byte(3)>>,
     <<Byte(1), Alt(<< <<Jump(1, 1), Byte(1)>>, <<Byte(2)>> >>)>>,
     <<Byte(1), Alt(<< <<Byte(1), Jump(1, Unbounded), Byte(1)>>, <<Byte(2)>> >>)>>,
     <<Byte(1), Alt(<< <<>>, <<Byte(2)>> >>)>>}
MCKeySets == {{}, {0, 1}, {2}, {1, 3}}
MCHexInputs ==
    UNION {[1 .. n -> {0, 1, 2, 3}] : n \in 1 .. 4} \cup {p \o <<2, 3, 2>> : p \in [1 .. 3 -> {1, 2}]}

(***************************************************************************)
(* Regexes, each with the tree it stands for.                              *)
(***************************************************************************)
LexemeBytes ==
    "a" :> 97 @@ "b" :> 98 @@ "c" :> 99 @@ "x" :> 120 @@ "A" :> 65 @@ "B" :> 66 @@ "1" :> 49 @@ "2" :> 50
    @@ "," :> 44 @@ "-" :> 45 @@ "." :> 46 @@ "]" :> 93 @@ "^" :> 94 @@ "{" :> 123 @@ "}" :> 125
    @@ "*" :> 42 @@ "\\." :> 46 @@ "|" :> 124 @@ "?" :> 63

La == Literal(97)
Lb == Literal(98)
Lc == Literal(99)
AB == {97, 98}
ABC == {97, 98, 99}
Wides == {97, 98, 0}
Options(node, greedy) == Repeat(node, 0, 1, greedy)
\* A regex string without modifiers, and one that is refused.
Rx(source, tree, alphabet, length) ==
    [source |-> source, tree |-> tree, nocase |-> FALSE, dotall |-> FALSE, wide |-> FALSE, ascii |-> TRUE,
     fullword |-> FALSE, alphabet |-> alphabet, length |-> length]
Bad(source) == Rx(source, Malformed, {97}, 1)
Class(set) == ClassNode(set, FALSE)
Capture(node) == Group(node, 1)

MCRegexStrings ==
    {Bad(<<"*", "a">>), Bad(<<"a", "*", "*">>), Bad(<<"(", "a">>), Bad(<<"a", ")">>), Bad(<<>>), Bad(<<"[", "a">>),
     Bad(<<"[", "b", "-", "a", "]">>), Bad(<<"[", "[:", "foo", ":]", "]">>), Bad(<<"a", "{", "2", ",", "1", "}">>)}
    \cup
    {Rx(<<"a", "b">>, Concat(<<La, Lb>>), ABC, 3),
     Rx(<<"a", "b", "*", "c", "?">>, Concat(<<La, Star(Lb, TRUE), Options(Lc, TRUE)>>), ABC, 4),
     Rx(<<"a", "b", "*", "?", "c">>, Concat(<<La, Star(Lb, FALSE), Lc>>), ABC, 4),
     Rx(<<"(", "a", "|", "b", ")", "+", "?", "c">>, Concat(<<PlusNode(Capture(Either(La, Lb)), FALSE), Lc>>), ABC, 4),
     Rx(<<"a", "{", "2", "}", "b", "{", ",", "2", "}", "c">>,
        Concat(<<Repeat(La, 2, 2, TRUE), Repeat(Lb, 0, 2, TRUE), Lc>>), ABC, 5),
     Rx(<<"a", "{", "x">>, Concat(<<La, Literal(123), Literal(120)>>), {97, 123, 120}, 4),
     Rx(<<"^", "a", "b", "|", "c">>, Either(Concat(<<Leaf("^"), La, Lb>>), Lc), ABC, 4),
     Rx(<<"^", "a", "+", "$">>, Concat(<<Leaf("^"), PlusNode(La, TRUE), Leaf("$")>>), AB, 4),
     Rx(<<"\\b", "a", "|", "b", "\\B">>, Either(Concat(<<Leaf("\\b"), La>>), Concat(<<Lb, Leaf("\\B")>>)),
        {97, 98, 46, 95}, 4),
     Rx(<<"[", "^", "a", "-", "b", "]", "c">>, Concat(<<ClassNode(AB, TRUE), Lc>>), ABC, 3),
     Rx(<<"[", "]", "a", "]", "b", "|">>, Either(Concat(<<Class({93, 97}), Lb>>), Empty), {93, 97, 98}, 3),
     Rx(<<"[", "[:", "^", "lower", ":]", "\\d", "]", "+", "a">>,
        Concat(<<PlusNode(Class(AllBytes \ Lowercase), TRUE), La>>), {97, 65, 49}, 4),
     Rx(<<"(", "a", "b", "|", "c", "a", ")", "b">>,
        Concat(<<Capture(Either(Concat(<<La, Lb>>), Concat(<<Lc, La>>))), Lb>>), ABC, 5),
     Rx(<<"[", "a", "b", "]", "c", "+">>, Concat(<<Class(AB), PlusNode(Lc, TRUE)>>), ABC, 4),
     Rx(<<"[", "a", "b", "]", "c", "*", "b", "a">>, Concat(<<Class(AB), Star(Lc, TRUE), Lb, La>>), ABC, 5),
     Rx(<<"[", "A", "a", "]", "[", "B", "b", "]", "a", "*">>,
        Concat(<<Class({65, 97}), Class({66, 98}), Star(La, TRUE)>>), {97, 65, 66, 98}, 4),
     Rx(<<"(", "a", "a", ")", "+", "$">>,
        Concat(<<PlusNode(Capture(Concat(<<La, La>>)), TRUE), Leaf("$")>>), AB, 7),
     Rx(<<"c", "[", "a", "b", "]", "{", "1", ",", "2", "}", "b", "b">>,
        Concat(<<Lc, Repeat(Class(AB), 1, 2, TRUE), Lb, Lb>>), ABC, 6),
     Rx(<<"a", ".", "*", "b", "c">>, Concat(<<La, Star(Leaf("."), TRUE), Lb, Lc>>), {97, 98, 99, 10}, 5),
     [Rx(<<"a", ".", "*", "?", "b">>, Concat(<<La, Star(Leaf("."), FALSE), Lb>>), {97, 98, 10}, 4)
        EXCEPT !.dotall = TRUE],
     [Rx(<<"a", "b", "?">>, Concat(<<La, Options(Lb, TRUE)>>), Wides, 5) EXCEPT !.wide = TRUE],
     [Rx(<<"a", "b", "?", "?">>, Concat(<<La, Options(Lb, FALSE)>>), Wides, 5) EXCEPT !.wide = TRUE],
     [Rx(<<"A", "[", "b", "]">>, Concat(<<Literal(65), Class({98})>>), {97, 66, 0}, 5)
        EXCEPT !.wide = TRUE, !.ascii = FALSE, !.nocase = TRUE],
     [Rx(<<"\\w", "+">>, PlusNode(Leaf("\\w"), TRUE), Wides, 5) EXCEPT !.wide = TRUE, !.fullword = TRUE],
     [Rx(<<"(", "?", ":", "a", "b", ")", "+", "?">>, PlusNode(Group(Concat(<<La, Lb>>), 0), FALSE),
        {97, 98, 46}, 5) EXCEPT !.fullword = TRUE],
     [Rx(<<"a", "b", "*">>, Concat(<<La, Star(Lb, TRUE)>>), {97, 98, 46}, 4) EXCEPT !.fullword = TRUE],
     Rx(<<"(", "[", "a", "b", "]", "?", "[", "b", "c", "]", ")", "+">>,
        PlusNode(Capture(Concat(<<Options(Class(AB), TRUE), Class({98, 99})>>)), TRUE), ABC, 4),
     Rx(<<"(", "[", "a", "b", "]", "?", "?", "[", "b", "c", "]", ")", "+", "?", "$">>,
        Concat(<<PlusNode(Capture(Concat(<<Options(Class(AB), FALSE), Class({98, 99})>>)), FALSE), Leaf("$")>>), ABC, 4),
     Rx(<<"(", "a", "?", "?", ")", "+", "b">>, Concat(<<PlusNode(Capture(Options(La, FALSE)), TRUE), Lb>>), ABC, 3),
     Rx(<<"(", "a", "|", "b", ")", "+", "c">>, Concat(<<PlusNode(Capture(Either(La, Lb)), TRUE), Lc>>), ABC, 6),
     Rx(<<"a", ".", "*", "b", "$">>, Concat(<<La, Star(Leaf("."), TRUE), Lb, Leaf("$")>>), {97, 98, 99}, 6)}

MCCompiled ==
    LET all == [rx \in MCRegexStrings |-> Compilations(rx)] IN all

(***************************************************************************)
(* One engine at work.                                                     *)
(***************************************************************************)
TextIdle ==
    /\ textPhase = "idle" /\ job = <<>> /\ patterns = <<>> /\ nodes = <<>> /\ pending = <<>> /\ queue = <<>>
    /\ lanes = {} /\ input = <<>> /\ window = 0 /\ at = 0 /\ state = Root /\ linearUntil = 0
    /\ cursor = <<>> /\ found = {}
HexIdle ==
    /\ hexPhase = "idle" /\ written = <<>> /\ keys = {} /\ tokens = <<>> /\ hexInput = <<>>
    /\ candidates = {} /\ trying = Candidate(0, 0) /\ worklist = <<>> /\ hexFound = {}
RegexIdle ==
    /\ regexPhase = "idle" /\ string = Bad(<<>>) /\ compiled = Nothing /\ regexInput = <<>> /\ encodings = <<>>
    /\ starts = {} /\ start = 0 /\ region = [from |-> 0, to |-> 0] /\ frontier = <<>> /\ head = 0
    /\ bestEnd = -1 /\ work = 0 /\ reuse = NoReuse /\ regexFound = {}

MatchingInit ==
    \/ TextInit /\ HexIdle /\ RegexIdle
    \/ TextIdle /\ HexInit /\ RegexIdle
    \/ TextIdle /\ HexIdle /\ RegexInit

MatchingNext ==
    \/ TextNext /\ UNCHANGED <<hexVars, regexVars>>
    \/ HexNext /\ UNCHANGED <<textVars, regexVars>>
    \/ RegexNext /\ UNCHANGED <<textVars, hexVars>>

MatchingSpec == MatchingInit /\ [][MatchingNext]_<<textVars, hexVars, regexVars>>
=============================================================================
