------------------------- MODULE PatternAutomaton -------------------------
(***************************************************************************)
(* Text strings: EncodeTextPatterns turns the strings of the rules into    *)
(* byte patterns, one Aho-Corasick automaton is built from all of them     *)
(* (addStringToAutomaton, Compile), and a search walks it over the input   *)
(* and verifies what it reports.  An action is one call of AddString, one  *)
(* state taken from a queue of Compile, or one turn of the loop of Search. *)
(*                                                                         *)
(* Bytes are the numbers of their ASCII codes; of the 256 only Bytes occur *)
(* here.  A transition table is a function from Bytes to states, None for  *)
(* no transition; the output ranges, flattened in the code, are sequences. *)
(* This is the portable build: newTeddyPrefilter returns nil.              *)
(***************************************************************************)
EXTENDS Integers, Sequences, FiniteSets, FiniteSetsExt, SequencesExt, Bitwise

CONSTANTS
    Bytes,           \* the bytes that occur
    Jobs,            \* sequences of strings, in the order of the rules
    Inputs,          \* the inputs to search
    LongInput,       \* 256: a sparse root is skipped, and sampled, over this much
    DenseRoot,       \* 16 bytes of the sample that leave the root: it is dense
    DenseSingle,     \* 8 matches in the sample: a single pattern is dense
    NearCandidate,   \* 64: after a candidate this near, the walk is linear
    MaxSparseRoot,   \* 4 root lanes
    SearchWindow     \* cancelableSearchWindow

ASSUME TextConstants ==
    /\ Bytes \subseteq 0 .. 255
    /\ {LongInput, DenseRoot, DenseSingle, NearCandidate, MaxSparseRoot, SearchWindow}
           \subseteq Nat \ {0}

VARIABLES
    textPhase,    \* adding, linking, closing, ready, or a path of Search, or done
    job,          \* the strings whose patterns are added
    pending,      \* patterns still to be added
    patterns,     \* ac.strings
    nodes,        \* ac.states
    queue,        \* the queue of buildFailureLinks, then of closeTransitions
    lanes,        \* ac.rootLanes, each the set of its bytes
    input,        \* the data of Search
    window,       \* the window of a search that may be cancelled, or the whole input
    at,           \* i (pos, with a single pattern)
    state,        \* currentState
    linearUntil,
    cursor,       \* rootCandidateCursor.positions
    found         \* the occurrences added to the match context

textVars == <<textPhase, job, pending, patterns, nodes, queue, lanes, input, window, at,
              state, linearUntil, cursor, found>>

None == -1
Unsearched == -2
Exhausted == -1
At(data, offset) == data[offset + 1]
Offsets(data) == 0 .. Len(data) - 1
MinOf(S, default) == IF S = {} THEN default ELSE Min(S)

(***************************************************************************)
(* Bytes and encoding.                                                     *)
(***************************************************************************)
IsUpper(b) == b \in 65 .. 90
IsLower(b) == b \in 97 .. 122
FlipASCIICase(b) == IF IsUpper(b) THEN b + 32 ELSE IF IsLower(b) THEN b - 32 ELSE b
ToLower(b) == IF IsUpper(b) THEN b + 32 ELSE b
IsWordChar(b) == IsUpper(b) \/ IsLower(b) \/ b \in 48 .. 57

EncodeTextBytes(text, wide) ==
    IF wide THEN FlattenSeq([i \in DOMAIN text |-> <<text[i], 0>>]) ELSE text

\* The encodings of a string, ASCII first; ASCII alone when neither is asked for.
Encodings(s) ==
    IF ~s.wide THEN <<FALSE>> ELSE IF s.ascii THEN <<FALSE, TRUE>> ELSE <<TRUE>>

\* A nocase pattern is folded before its bytes are combined with a key.
EncodeTextPattern(s, wide, key) ==
    LET bytes == EncodeTextBytes(s.text, wide)
    IN [id |-> s.id, wide |-> wide, nocase |-> s.nocase, fullword |-> s.fullword,
        data |-> [i \in DOMAIN bytes |->
                     (IF s.nocase THEN ToLower(bytes[i]) ELSE bytes[i]) ^^ key]]

EncodeTextPatterns(s) ==
    LET keys == IF s.keys = <<>> THEN <<0>> ELSE s.keys
        all == FlattenSeq([e \in DOMAIN Encodings(s) |->
                   [k \in DOMAIN keys |-> EncodeTextPattern(s, Encodings(s)[e], keys[k])]])
    IN FoldLeft(LAMBDA out, p : IF Contains(out, p) THEN out ELSE Append(out, p), <<>>, all)

(***************************************************************************)
(* Verification of a candidate (match_modifiers.go).                       *)
(***************************************************************************)
VerifyTextMatch(data, offset, p) ==
    /\ offset >= 0 /\ offset + Len(p.data) <= Len(data)
    /\ \A i \in Offsets(p.data) :
           IF p.nocase THEN ToLower(At(data, offset + i)) = ToLower(At(p.data, i))
           ELSE At(data, offset + i) = At(p.data, i)

IsWideWordChar(data, pos) ==
    /\ pos >= 0 /\ pos + 1 < Len(data)
    /\ At(data, pos + 1) = 0 /\ IsWordChar(At(data, pos))

IsFullwordMatch(data, offset, length, wide) ==
    LET end == offset + length
    IN IF wide /\ length > 0
       THEN /\ offset < 2 \/ ~IsWideWordChar(data, offset - 2)
            /\ end + 1 >= Len(data) \/ ~IsWideWordChar(data, end)
       ELSE /\ offset = 0 \/ ~IsWordChar(At(data, offset - 1))
            /\ end >= Len(data) \/ ~IsWordChar(At(data, end))

AcceptAutomatonMatch(data, offset, p) ==
    /\ VerifyTextMatch(data, offset, p)
    /\ p.fullword => IsFullwordMatch(data, offset, Len(p.data), p.wide)

Occurrence(p, offset) == [id |-> p.id, offset |-> offset, length |-> Len(p.data)]

(***************************************************************************)
(* addStringToAutomaton.  A nocase string takes the first of the two cases *)
(* of a letter that has a transition, and binds those that have none.      *)
(***************************************************************************)
NewState == [next |-> [b \in Bytes |-> None], failure |-> None, out |-> <<>>]
Root == 0
NewAutomaton == Root :> NewState

Variants(b, nocase) ==
    IF nocase /\ FlipASCIICase(b) # b THEN <<b, FlipASCIICase(b)>> ELSE <<b>>

\* One byte of a pattern, from the state that the bytes before it reached.
AddByte(walk, b, nocase) ==
    LET variants == Variants(b, nocase)
        next == walk.nodes[walk.current].next
        bound == SelectSeq(variants, LAMBDA v : next[v] # None)
        target == IF bound = <<>> THEN Cardinality(DOMAIN walk.nodes) ELSE next[Head(bound)]
        grown == IF bound = <<>> THEN walk.nodes @@ (target :> NewState) ELSE walk.nodes
    IN [current |-> target,
        nodes |-> [grown EXCEPT ![walk.current].next =
            [v \in Bytes |-> IF next[v] = None /\ Contains(variants, v)
                              THEN target ELSE next[v]]]]

WithPattern(automaton, p, index) ==
    LET walk == FoldLeft(LAMBDA w, b : AddByte(w, b, p.nocase),
                         [current |-> Root, nodes |-> automaton], p.data)
    IN [walk.nodes EXCEPT ![walk.current].out = Append(@, index)]

TextInit ==
    /\ textPhase = "adding" /\ job \in Jobs /\ patterns = <<>> /\ nodes = NewAutomaton
    /\ pending = FlattenSeq([i \in DOMAIN job |-> EncodeTextPatterns(job[i])])
    /\ queue = <<>> /\ lanes = {} /\ input = <<>> /\ window = 0 /\ at = 0 /\ state = Root
    /\ linearUntil = 0 /\ cursor = <<>> /\ found = {}

AddString ==
    /\ textPhase = "adding" /\ pending # <<>>
    /\ patterns' = Append(patterns, Head(pending)) /\ pending' = Tail(pending)
    /\ nodes' = WithPattern(nodes, Head(pending), Len(patterns'))
    /\ UNCHANGED <<textPhase, job, queue, lanes, input, window, at, state, linearUntil,
                   cursor, found>>

(***************************************************************************)
(* Compile: the lanes of the root, failure links breadth first, then the   *)
(* closed table, in which every byte has a transition.                     *)
(***************************************************************************)
\* States in the order of the bytes that lead to them, each once.
Targets(automaton, from) ==
    LET bytes == SetToSortSeq({b \in Bytes : automaton[from].next[b] # None},
                              LAMBDA a, b : a < b)
    IN FoldLeft(LAMBDA out, b : IF Contains(out, automaton[from].next[b]) THEN out
                                ELSE Append(out, automaton[from].next[b]), <<>>, bytes)

RootBytes == {b \in Bytes : nodes[Root].next[b] # None}

Compile ==
    /\ textPhase = "adding" /\ pending = <<>>
    /\ lanes' = {{b, FlipASCIICase(b)} \cap RootBytes : b \in RootBytes}
    /\ queue' = Targets(nodes, Root)
    /\ nodes' = [n \in DOMAIN nodes |->
           IF Contains(queue', n) THEN [nodes[n] EXCEPT !.failure = Root] ELSE nodes[n]]
    /\ textPhase' = "linking"
    /\ UNCHANGED <<job, pending, patterns, input, window, at, state, linearUntil, cursor, found>>

RECURSIVE FailureFrom(_, _)
FailureFrom(failure, b) ==
    IF failure = None THEN Root
    ELSE IF nodes[failure].next[b] # None THEN nodes[failure].next[b]
    ELSE FailureFrom(nodes[failure].failure, b)

FailureState(current, b) == FailureFrom(nodes[current].failure, b)

MergedOutputs(current) == nodes[current].out \o nodes[nodes[current].failure].out

\* The bytes that lead from current to a child; the link is that of the last of them.
LinkNode ==
    /\ textPhase = "linking" /\ queue # <<>>
    /\ LET current == Head(queue)
           children == Targets(nodes, current)
           last(n) == Max({b \in Bytes : nodes[current].next[b] = n})
       IN /\ nodes' = [n \in DOMAIN nodes |->
                 IF n = current THEN [nodes[n] EXCEPT !.out = MergedOutputs(current)]
                 ELSE IF Contains(children, n)
                 THEN [nodes[n] EXCEPT !.failure = FailureState(current, last(n))]
                 ELSE nodes[n]]
          /\ queue' = Tail(queue) \o children
    /\ UNCHANGED <<textPhase, job, pending, patterns, lanes, input, window, at, state,
                   linearUntil, cursor, found>>

CloseRoot ==
    /\ textPhase = "linking" /\ queue = <<>>
    /\ textPhase' = "closing" /\ queue' = Targets(nodes, Root)
    /\ nodes' = [nodes EXCEPT ![Root].next =
           [b \in Bytes |-> IF @[b] = None THEN Root ELSE @[b]]]
    /\ UNCHANGED <<job, pending, patterns, lanes, input, window, at, state, linearUntil,
                   cursor, found>>

\* Error: a byte without a transition returns to the root.
RestartAtRoot(current) ==
    [b \in Bytes |-> IF nodes[current].next[b] = None THEN Root ELSE nodes[current].next[b]]

ClosedTransitions(current) ==
    LET failure == nodes[nodes[current].failure]
    IN [b \in Bytes |-> IF nodes[current].next[b] = None THEN failure.next[b]
                        ELSE nodes[current].next[b]]

CloseNode ==
    /\ textPhase = "closing"
    /\ IF queue = <<>> THEN textPhase' = "ready" /\ UNCHANGED <<nodes, queue>>
       ELSE /\ nodes' = [nodes EXCEPT ![Head(queue)].next = ClosedTransitions(Head(queue))]
            /\ queue' = Tail(queue) \o Targets(nodes, Head(queue))
            /\ UNCHANGED textPhase
    /\ UNCHANGED <<job, pending, patterns, lanes, input, window, at, state, linearUntil,
                   cursor, found>>

(***************************************************************************)
(* Search and SearchWithCancel.                                            *)
(***************************************************************************)
Sample(data) == SubSeq(data, 1, Min({LongInput, Len(data)}))

RootIsDense(data) ==
    Cardinality({i \in DOMAIN Sample(data) : nodes[Root].next[Sample(data)[i]] # Root})
        > DenseRoot

\* Where the one pattern begins, at or after from: indexSinglePattern.
SingleStarts(data, from) ==
    {o \in from .. Len(data) - Len(patterns[1].data) : VerifyTextMatch(data, o, patterns[1])}

SinglePatternIsDense(data) == Cardinality(SingleStarts(Sample(data), 0)) >= DenseSingle

\* Windows of starts: the bytes looked at reach one pattern further.
WindowedStarts(from) ==
    LET last == Len(input) - Len(patterns[1].data)
        begins == {from + k * window : k \in 0 .. Len(input)} \cap (0 .. last)
        ends(w) == Min({w + window, last + 1}) + Len(patterns[1].data) - 1
    IN {o \in SingleStarts(input, from) :
           \E w \in begins : o >= w /\ o + Len(patterns[1].data) <= ends(w)}

SparseRoot(data) ==
    Len(data) >= LongInput /\ lanes # {} /\ Cardinality(lanes) <= MaxSparseRoot /\ ~RootIsDense(data)

Search ==
    /\ textPhase = "ready"
    /\ input' \in Inputs \ {<<>>} /\ window' \in {SearchWindow, Len(input')}
    /\ at' = 0 /\ state' = Root /\ linearUntil' = 0 /\ found' = {}
    /\ cursor' = [lane \in lanes |-> Unsearched]
    /\ textPhase' = IF Len(patterns) = 1 /\ ~SinglePatternIsDense(input') THEN "single"
                    ELSE IF SparseRoot(input') THEN "sparse" ELSE "general"
    /\ UNCHANGED <<job, pending, patterns, nodes, queue, lanes>>

SingleStep ==
    /\ textPhase = "single"
    /\ LET start == MinOf(WindowedStarts(at), None)
       IN IF start = None THEN textPhase' = "done" /\ UNCHANGED <<at, found>>
          ELSE /\ at' = start + 1
               /\ found' = IF AcceptAutomatonMatch(input, start, patterns[1])
                           THEN found \cup {Occurrence(patterns[1], start)} ELSE found
               /\ UNCHANGED textPhase
    /\ UNCHANGED <<job, pending, patterns, nodes, queue, lanes, input, window, state,
                   linearUntil, cursor>>

\* The next byte of each lane at or after from; a lane that has none is not searched again.
Advance(from) ==
    [lane \in lanes |->
        IF cursor[lane] = Exhausted \/ cursor[lane] >= from THEN cursor[lane]
        ELSE MinOf({o \in from .. Len(input) - 1 : At(input, o) \in lane}, Exhausted)]

\* Walk one byte and report what ends there: the rest of a turn of the loop.
Consume(i) ==
    LET next == nodes[state].next[At(input, i)]
        ending == {patterns[s] : s \in Range(nodes[next].out)}
        start(p) == i + 1 - Len(p.data)
    IN /\ state' = next /\ at' = i + 1
       /\ found' = found \cup {Occurrence(p, start(p)) :
                                p \in {q \in ending : AcceptAutomatonMatch(input, start(q), q)}}

Skips == textPhase = "sparse" /\ state = Root /\ at >= linearUntil /\ Len(input) - at >= LongInput

WalkStep ==
    /\ textPhase \in {"general", "sparse"} /\ at < Len(input)
    /\ IF Skips
       THEN LET candidate == MinOf({Advance(at)[lane] : lane \in lanes} \ {Exhausted}, None)
            IN /\ cursor' = Advance(at)
               /\ IF candidate = None
                  THEN textPhase' = "done" /\ UNCHANGED <<at, state, linearUntil, found>>
                  ELSE /\ linearUntil' = IF candidate - at < NearCandidate
                                         THEN candidate + LongInput ELSE linearUntil
                       /\ Consume(candidate) /\ UNCHANGED textPhase
       ELSE Consume(at) /\ UNCHANGED <<textPhase, linearUntil, cursor>>
    /\ UNCHANGED <<job, pending, patterns, nodes, queue, lanes, input, window>>

WalkEnds ==
    /\ textPhase \in {"general", "sparse"} /\ at = Len(input) /\ textPhase' = "done"
    /\ UNCHANGED <<job, pending, patterns, nodes, queue, lanes, input, window, at, state,
                   linearUntil, cursor, found>>

TextNext ==
    \/ AddString \/ Compile \/ LinkNode \/ CloseRoot \/ CloseNode
    \/ Search \/ SingleStep \/ WalkStep \/ WalkEnds

TextSpec == TextInit /\ [][TextNext]_textVars /\ WF_textVars(TextNext)

(***************************************************************************)
(* Properties.                                                             *)
(***************************************************************************)

\* What a string of the source means: the offsets at which one of its encodings, under
\* one of its keys, stands in the input, as a word of its own if it asks for that.
Meaning(s) ==
    LET length(wide) == Len(s.text) * (IF wide THEN 2 ELSE 1)
        plain(wide, i) == IF ~wide THEN s.text[i + 1]
                          ELSE IF i % 2 = 0 THEN s.text[i \div 2 + 1] ELSE 0
        same(a, b) == IF s.nocase THEN ToLower(a) = ToLower(b) ELSE a = b
        folded(b) == IF s.nocase THEN ToLower(b) ELSE b
        stands(wide, key, o) ==
            /\ \A i \in 0 .. length(wide) - 1 :
                   same(At(input, o + i), folded(plain(wide, i)) ^^ key)
            /\ s.fullword => IsFullwordMatch(input, o, length(wide), wide)
        wides == (IF s.wide THEN {TRUE} ELSE {}) \cup (IF s.ascii \/ ~s.wide THEN {FALSE} ELSE {})
        keys == IF s.keys = <<>> THEN {0} ELSE Range(s.keys)
    IN UNION {{[id |-> s.id, offset |-> o, length |-> length(w)] :
                  o \in {o \in 0 .. Len(input) - length(w) : \E k \in keys : stands(w, k, o)}} :
              w \in wides}

Expected == UNION {Meaning(job[i]) : i \in DOMAIN job}
OneCase == \A i, j \in DOMAIN job : job[i].nocase = job[j].nocase

\* A search of the automaton all strings share reports occurrences of the strings only,
\* and every one of them when the strings are nocase or case sensitive alike, whichever
\* path the input takes.  Of a mixture see EveryOccurrenceIsFound.
TextIsMeaning ==
    textPhase = "done" => /\ found \subseteq Expected
                          /\ OneCase => Expected \subseteq found

\* A search reports every occurrence: the shared automaton fires on any case, says the
\* comment of addStringToAutomaton (ahocorasick.go:145), and the strings that fire on a
\* case they do not have are sorted out afterwards.
EveryOccurrenceIsFound == textPhase = "done" => Expected \subseteq found
=============================================================================
