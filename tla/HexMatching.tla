---------------------------- MODULE HexMatching ----------------------------
(***************************************************************************)
(* Hex strings: parseHexTokens reads a hex string into tokens,             *)
(* FindHexMatches picks starts where an anchor of the pattern may stand    *)
(* and tries the tokens there, linearly or, when there are jumps or        *)
(* alternatives, with a worklist of branches.  An action is the parse, the *)
(* choice of a search path, a candidate start, or an item of the worklist. *)
(*                                                                         *)
(* A byte has two nibbles of one bit here, so bytes are 0 .. 3 and masks   *)
(* are 0 (??), 1 (?A), 2 (A?) and 3 (AA).  A token for one byte, whatever  *)
(* its kind, is a value, a mask and a negation: a wildcard is mask 0.      *)
(* A search without keys is a search with the key 0.                       *)
(***************************************************************************)
EXTENDS Integers, Sequences, FiniteSets, FiniteSetsExt, SequencesExt, Bitwise

CONSTANTS
    HexStrings,   \* the hex strings that are written, as trees of tokens
    KeySets,      \* the keys of their xor modifiers; {} without one
    HexInputs,    \* the inputs to search
    AtomWidth     \* maxPrefilterAtomLength (8)

FullMask == 3
Unbounded == -1
NoMatch == -1
Reject == <<[kind |-> "error"]>>

ASSUME HexConstants ==
    /\ AtomWidth \in Nat \ {0, 1}
    /\ \A input \in HexInputs : \A i \in DOMAIN input : input[i] \in 0 .. FullMask

VARIABLES
    hexPhase,    \* parsing, rejected, compiled, matching, matched
    written,     \* the hex string
    keys,        \* XorKeys
    tokens,      \* HexPattern.Tokens
    hexInput,    \* data
    candidates,  \* the starts still to be tried, with the key to try them under
    trying,      \* candidateStart and key of the match under way
    worklist,    \* hexMatchScratch.worklist
    hexFound     \* the matches reported: start and end

hexVars == <<hexPhase, written, keys, tokens, hexInput, candidates, trying, worklist, hexFound>>

One(value, mask, negated) == [kind |-> "one", value |-> value, mask |-> mask, negated |-> negated]
Jump(min, max) == [kind |-> "jump", min |-> min, max |-> max]
Alt(alternatives) == [kind |-> "alt", alternatives |-> alternatives]

IsOne(token) == token.kind = "one"
Definite(token) == IsOne(token) /\ token.mask = FullMask /\ ~token.negated

(***************************************************************************)
(* The parser.  A hex string is a sequence of items: bytes, jumps, "~",    *)
(* "(", "|" and ")".                                                       *)
(***************************************************************************)
RECURSIVE Items(_)
Items(tree) ==
    FlattenSeq([i \in DOMAIN tree |->
        LET token == tree[i]
            joined == FlattenSeq([a \in DOMAIN token.alternatives |->
                         (IF a = 1 THEN <<>> ELSE <<[kind |-> "|"]>>)
                             \o Items(token.alternatives[a])])
        IN CASE token.kind = "alt" -> <<[kind |-> "("]>> \o joined \o <<[kind |-> ")"]>>
             [] token.kind = "one" /\ token.negated ->
                    <<[kind |-> "~"], [token EXCEPT !.negated = FALSE]>>
             [] OTHER -> <<token>>])

Depth(items, i) ==
    Cardinality({j \in 1 .. i : items[j].kind = "("})
        - Cardinality({j \in 1 .. i : items[j].kind = ")"})

\* extractHexGroup: where the group that opens at i ends, or none.
GroupEnd(items, i) ==
    LET ends == {j \in i .. Len(items) : Depth(items, j) < Depth(items, i)}
    IN IF ends = {} THEN NoMatch ELSE Min(ends)

\* splitHexAlternatives, at the bars that are in no group of their own.
SplitHexAlternatives(items) ==
    LET bars == {i \in DOMAIN items : items[i].kind = "|" /\ Depth(items, i) = 0}
        cuts == SetToSortSeq(bars \cup {0, Len(items) + 1}, LAMBDA a, b : a < b)
    IN [k \in 1 .. Len(cuts) - 1 |-> SubSeq(items, cuts[k] + 1, cuts[k + 1] - 1)]

RECURSIVE HasUnboundedJump(_)
HasUnboundedJump(branch) ==
    \E i \in DOMAIN branch :
        \/ branch[i].kind = "jump" /\ branch[i].max = Unbounded
        \/ branch[i].kind = "alt" /\ \E a \in Range(branch[i].alternatives) : HasUnboundedJump(a)

BranchAllowed(branch) ==
    /\ branch \notin {Reject, <<>>}
    /\ Head(branch).kind # "jump" /\ branch[Len(branch)].kind # "jump"
    /\ ~HasUnboundedJump(branch)

RECURSIVE ParseHexTokens(_)
ParseHexTokens(items) ==
    IF items = <<>> THEN <<>>
    ELSE LET first == Head(items)
             Then(token, consumed) ==
                 LET rest == ParseHexTokens(SubSeq(items, consumed + 1, Len(items)))
                 IN IF rest = Reject THEN Reject ELSE <<token>> \o rest
         IN CASE first.kind = "(" ->
                     LET end == GroupEnd(items, 1)
                         segments == SplitHexAlternatives(SubSeq(items, 2, end - 1))
                         branches == [s \in DOMAIN segments |-> ParseHexTokens(segments[s])]
                     IN IF end # NoMatch /\ \A b \in Range(branches) : BranchAllowed(b)
                        THEN Then(Alt(branches), end) ELSE Reject
              [] first.kind = "~" ->
                     IF Len(items) > 1 /\ IsOne(items[2])
                     THEN Then([items[2] EXCEPT !.negated = TRUE], 2) ELSE Reject
              [] first.kind \in {"one", "jump"} -> Then(first, 1)
              [] OTHER -> Reject

(***************************************************************************)
(* Lengths, anchors and atoms.  An upper bound is Unbounded once a jump    *)
(* without one has been passed.                                            *)
(***************************************************************************)
Plus(a, b) == IF a = Unbounded \/ b = Unbounded THEN Unbounded ELSE a + b
Longest(lengths) == IF Unbounded \in lengths THEN Unbounded ELSE Max(lengths)

RECURSIVE LengthRange(_)
LengthRange(sequence) ==
    LET Of(token) ==
            CASE token.kind = "one" -> [min |-> 1, max |-> 1]
              [] token.kind = "jump" -> [min |-> token.min, max |-> token.max]
              [] token.kind = "alt" ->
                     LET ranges == {LengthRange(a) : a \in Range(token.alternatives)}
                     IN [min |-> Min({r.min : r \in ranges}),
                         max |-> Longest({r.max : r \in ranges})]
    IN FoldLeft(LAMBDA sum, token : [min |-> sum.min + Of(token).min,
                                     max |-> Plus(sum.max, Of(token).max)],
                [min |-> 0, max |-> 0], sequence)

\* Error: an alternative is taken to be as long as the first of its branches.
FirstBranchOffset(i) ==
    LengthRange([j \in 1 .. i - 1 |->
        IF tokens[j].kind = "alt" THEN Alt(<<Head(tokens[j].alternatives)>>) ELSE tokens[j]])

\* The offsets, from the start of a match, at which token i may stand.
OffsetOf(i) == LengthRange(SubSeq(tokens, 1, i - 1))

FirstDefinite == {i \in DOMAIN tokens : Definite(tokens[i])
                                        /\ \A j \in 1 .. i - 1 : ~Definite(tokens[j])}

\* Maximal runs of definite tokens, as their first and last index.
Runs ==
    {r \in (DOMAIN tokens) \X (DOMAIN tokens) :
        /\ \A i \in r[1] .. r[2] : Definite(tokens[i])
        /\ r[1] <= r[2]
        /\ r[1] = 1 \/ ~Definite(tokens[r[1] - 1])
        /\ r[2] = Len(tokens) \/ ~Definite(tokens[r[2] + 1])}
RunLength(r) == r[2] - r[1] + 1

\* findXorDiffAnchor: the first of the longest runs, when it has two bytes.
DiffRuns ==
    {r \in Runs :
        /\ RunLength(r) >= 2
        /\ \A q \in Runs : RunLength(q) < RunLength(r)
                           \/ (RunLength(q) = RunLength(r) /\ q[1] >= r[1])}

\* selectHexAtom ranks atoms by length, by a bounded window, then by how much they tell:
\* any of those equal in the first two may be the one.
Atoms ==
    UNION {LET width == Min({RunLength(r), AtomWidth})
           IN {[bytes |-> [k \in 1 .. width |-> tokens[i + k - 1].value],
                min |-> OffsetOf(r[1]).min + (i - r[1]),
                max |-> Plus(OffsetOf(r[1]).max, i - r[1])] :
                   i \in r[1] .. r[2] - width + 1} : r \in {q \in Runs : RunLength(q) >= 2}}

SelectHexAtom ==
    {a \in Atoms : \A b \in Atoms :
        \/ Len(b.bytes) < Len(a.bytes)
        \/ Len(b.bytes) = Len(a.bytes) /\ (a.max # Unbounded \/ b.max = Unbounded)}

(***************************************************************************)
(* Search paths: the starts that are tried, each with its key.             *)
(***************************************************************************)
HexAt(offset) == hexInput[offset + 1]
Keys == IF keys = {} THEN {0} ELSE keys
Candidate(start, key) == [start |-> start, key |-> key]

BruteForce(data) == {Candidate(s, k) : s \in 0 .. Len(data) - 1, k \in Keys}

Anchored(data, i) ==
    LET range == OffsetOf(i)
    IN UNION {{Candidate(s, k) : s \in Max({0, m - range.max}) .. Min({Len(data), m - range.min})} :
                 <<m, k>> \in {p \in (0 .. Len(data) - 1) \X Keys :
                                  data[p[1] + 1] = tokens[i].value ^^ p[2]}}

\* The differences of adjacent bytes do not depend on the key; the key follows from the
\* first byte.  The run is looked for at the index of its first token.
Differential(data, r) ==
    LET stands(d) == \A j \in 0 .. r[2] - r[1] - 1 :
            data[d + j + 1] ^^ data[d + j + 2] = tokens[r[1] + j].value ^^ tokens[r[1] + j + 1].value
    IN {Candidate(d - (r[1] - 1), data[d + 1] ^^ tokens[r[1]].value) :
           d \in {d \in 0 .. Len(data) - RunLength(r) :
                    /\ stands(d) /\ d >= r[1] - 1
                    /\ data[d + 1] ^^ tokens[r[1]].value \in Keys}}

Starts(data) ==
    IF Cardinality(keys) > 1 /\ DiffRuns # {} THEN UNION {Differential(data, r) : r \in DiffRuns}
    ELSE IF \E i \in FirstDefinite : OffsetOf(i).max # Unbounded
    THEN UNION {Anchored(data, i) : i \in FirstDefinite}
    ELSE BruteForce(data)

(***************************************************************************)
(* Matching at a start.                                                    *)
(***************************************************************************)
ByteMatches(token, offset, key) ==
    /\ offset < Len(hexInput)
    /\ ((HexAt(offset) & token.mask) = ((token.value ^^ key) & token.mask)) # token.negated

Linear == \A i \in DOMAIN tokens : IsOne(tokens[i])

\* How many tokens for one byte a branch begins with.
Plain(sequence) ==
    Max({n \in 0 .. Len(sequence) : \A i \in 1 .. n : IsOne(sequence[i])})

PlainMatches(sequence, offset) ==
    \A i \in 1 .. Plain(sequence) : ByteMatches(sequence[i], offset + i - 1, trying.key)

\* The branches of a jump or an alternative, the first to be tried last.
Branches(sequence, offset) ==
    LET head == Head(sequence)
        max == IF head.max = Unbounded THEN Len(hexInput) - offset ELSE head.max
    IN CASE offset > Len(hexInput) -> <<>>
         [] head.kind = "jump" /\ offset = Len(hexInput) /\ head.min > 0 -> <<>>
         [] head.kind = "jump" /\ (offset < Len(hexInput) \/ head.min = 0) ->
                [n \in 1 .. max - head.min + 1 |->
                    [tokens |-> Tail(sequence), offset |-> offset + max - n + 1]]
         [] head.kind = "alt" /\ offset <= Len(hexInput) ->
                [a \in DOMAIN head.alternatives |->
                    [tokens |-> head.alternatives[a] \o Tail(sequence), offset |-> offset]]

HexInit ==
    /\ hexPhase = "parsing" /\ written \in HexStrings /\ keys \in KeySets
    /\ tokens = <<>> /\ hexInput = <<>> /\ candidates = {} /\ trying = Candidate(0, 0)
    /\ worklist = <<>> /\ hexFound = {}

ParseHexPattern ==
    /\ hexPhase = "parsing"
    /\ LET parsed == ParseHexTokens(Items(written))
       IN IF parsed \in {Reject, <<>>} THEN hexPhase' = "rejected" /\ UNCHANGED tokens
          ELSE hexPhase' = "compiled" /\ tokens' = parsed
    /\ UNCHANGED <<written, keys, hexInput, candidates, trying, worklist, hexFound>>

FindHexMatches ==
    /\ hexPhase = "compiled" /\ hexInput' \in HexInputs
    /\ candidates' = Starts(hexInput') /\ hexPhase' = "matching"
    /\ UNCHANGED <<written, keys, tokens, trying, worklist, hexFound>>

\* The next start: tried at once when it is linear, with the worklist when it branches.
TakeCandidate ==
    /\ hexPhase = "matching" /\ worklist = <<>> /\ candidates # {}
    /\ trying' = CHOOSE c \in candidates : \A d \in candidates :
                     c.start < d.start \/ (c.start = d.start /\ c.key <= d.key)
    /\ candidates' = candidates \ {trying'}
    /\ IF Linear
       THEN /\ UNCHANGED worklist
            /\ LET s == trying'.start
                   matches == \A i \in DOMAIN tokens : ByteMatches(tokens[i], s + i - 1, trying'.key)
               IN hexFound' = IF matches THEN hexFound \cup {<<s, s + Len(tokens)>>} ELSE hexFound
       ELSE worklist' = <<[tokens |-> tokens, offset |-> trying'.start]>> /\ UNCHANGED hexFound
    /\ UNCHANGED <<hexPhase, written, keys, tokens, hexInput>>

\* One item: the bytes it begins with, then its end or its branches.
MatchItem ==
    /\ hexPhase = "matching" /\ worklist # <<>>
    /\ LET item == worklist[Len(worklist)]
           n == Plain(item.tokens)
           end == item.offset + n
           rest == SubSeq(item.tokens, n + 1, Len(item.tokens))
           stands == PlainMatches(item.tokens, item.offset)
       IN /\ worklist' = Front(worklist) \o
                 (IF stands /\ rest # <<>> THEN Branches(rest, end) ELSE <<>>)
          /\ hexFound' = IF stands /\ rest = <<>> /\ end > trying.start
                         THEN hexFound \cup {<<trying.start, end>>} ELSE hexFound
    /\ UNCHANGED <<hexPhase, written, keys, tokens, hexInput, candidates, trying>>

MatchesFound ==
    /\ hexPhase = "matching" /\ worklist = <<>> /\ candidates = {} /\ hexPhase' = "matched"
    /\ UNCHANGED <<written, keys, tokens, hexInput, candidates, trying, worklist, hexFound>>

HexNext == ParseHexPattern \/ FindHexMatches \/ TakeCandidate \/ MatchItem \/ MatchesFound

HexSpec == HexInit /\ [][HexNext]_hexVars /\ WF_hexVars(HexNext)

(***************************************************************************)
(* Properties.                                                             *)
(***************************************************************************)

\* Where a sequence of the written tree that begins at start may end.
RECURSIVE Ends(_, _, _)
Ends(tree, start, key) ==
    IF tree = <<>> THEN {start}
    ELSE LET token == Head(tree)
             after == CASE token.kind = "one" -> IF ByteMatches(token, start, key) THEN {start + 1} ELSE {}
                        [] token.kind = "jump" ->
                               {e \in start .. Len(hexInput) :
                                    /\ e - start >= token.min
                                    /\ token.max = Unbounded \/ e - start <= token.max}
                        [] token.kind = "alt" ->
                               UNION {Ends(a, start, key) : a \in Range(token.alternatives)}
         IN UNION {Ends(Tail(tree), e, key) : e \in after}

Meant ==
    UNION {UNION {{<<s, e>> : e \in Ends(written, s, k) \ {s}} : k \in Keys} :
              s \in 0 .. Len(hexInput) - 1}

\* A run that does not stand at a fixed offset is looked for at the wrong one.
RunIsShifted ==
    Cardinality(keys) > 1 /\ \E r \in DiffRuns : OffsetOf(r[1]) # [min |-> r[1] - 1, max |-> r[1] - 1]
EndsInJump == Len(tokens) > 0 /\ tokens[Len(tokens)].kind = "jump"

\* Whichever path a search takes it reports the ends of every match at every start, and
\* nothing else.  Excepted are a xor with several keys whose longest run of bytes follows
\* a jump or an alternative, of which EveryHexMatchIsFound speaks, and a hex string that
\* ends in a jump, whose matches may end behind the input.
HexIsMeaning ==
    hexPhase = "matched" =>
        /\ ~EndsInJump => hexFound \subseteq Meant
        /\ RunIsShifted \/ Meant \subseteq hexFound

\* Any atom a search of the shared automaton may look for stands in every match, inside
\* the window that is stored with it.
HexAtomIsMandatory ==
    hexPhase = "matched" /\ keys = {} =>
        \A match \in Meant, atom \in SelectHexAtom :
            \E o \in atom.min .. (IF atom.max = Unbounded THEN Len(hexInput) ELSE atom.max) :
                \A i \in DOMAIN atom.bytes :
                    /\ match[1] + o + i <= match[2]
                    /\ hexInput[match[1] + o + i] = atom.bytes[i]

\* All matches of a pattern are returned, as the comment of FindHexMatches says
\* (hex_pattern.go:226).
EveryHexMatchIsFound == hexPhase = "matched" => Meant \subseteq hexFound
=============================================================================
