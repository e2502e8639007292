---------------------------- MODULE RegexMachine ----------------------------
(***************************************************************************)
(* The search for a regex string in some data.  For each encoding the      *)
(* string may stand in, the places where a match may start are found by    *)
(* what the compiler knows of the regex; at each of them the machine runs  *)
(* over a window of the data, a list of threads by priority, one step per  *)
(* byte; and runs that failed are remembered, so that a later one that can *)
(* only fail in the same way is cut short.                                 *)
(*                                                                         *)
(* A step of this module is a step of the machine.  Left out: a scan that  *)
(* is cancelled, matches longer than the verification distance (4096), the *)
(* fallback for data with a thousand candidates, the search by a byte set  *)
(* of few values (64 bytes of data and more) and the shared search of      *)
(* several strings.                                                        *)
(***************************************************************************)
EXTENDS RegexCompiler

CONSTANTS
    RegexStrings,   \* strings: source, modifiers, and the bytes and length of the inputs
    Compiled,       \* what each string may be compiled to
    MarginASCII,    \* regexWindowMarginASCII (16)
    MarginWide,     \* regexWindowMarginWide (32)
    ReuseWork,      \* the steps of a failed run worth remembering (128)
    ReuseInput      \* the shortest window for which runs are remembered (128)

ReuseCode == 64   \* the longest code for which runs are remembered, in bytes

ASSUME RegexBounds ==
    /\ MarginASCII \in Nat \ {0} /\ MarginWide \in Nat \ {0}
    /\ ReuseWork \in Nat \ {0} /\ ReuseInput \in Nat \ {0}
    /\ \A s \in RegexStrings : s.wide \/ s.ascii

ASSUME CompiledStrings == \A s \in RegexStrings : Compiled[s] = Compilations(s)

VARIABLES
    regexPhase,    \* written, refused, encoding, choosing, running, ended, done
    string,        \* the string: its source and its modifiers
    compiled,      \* RegexPattern
    regexInput,    \* data
    encodings,     \* the encodings still to be searched; the first is the current one
    starts,        \* the candidate starts still to be tried
    start,         \* the start of the run
    region,        \* boundedRegexWindow: from and to
    frontier,      \* cur, the places in the code the threads stand at
    head,          \* pos
    bestEnd,       \* bestEnd, -1 without one
    work,          \* the generations the run has used
    reuse,         \* failureReuse: its mode and the masks
    regexFound     \* the matches: start and end

regexVars == <<regexPhase, string, compiled, regexInput, encodings, starts, start, region, frontier, head,
               bestEnd, work, reuse, regexFound>>

NoReuse == [mode |-> "off", masks |-> <<>>]
Nothing == [code |-> <<>>]

RegexInit ==
    /\ regexPhase = "written" /\ string \in RegexStrings /\ compiled = Nothing /\ regexInput = <<>>
    /\ encodings = <<>> /\ starts = {} /\ start = 0 /\ region = [from |-> 0, to |-> 0]
    /\ frontier = <<>> /\ head = 0 /\ bestEnd = -1 /\ work = 0 /\ reuse = NoReuse /\ regexFound = {}

(***************************************************************************)
(* The data: offsets count from 0; a character of the wide encoding is a   *)
(* byte and a zero.                                                        *)
(***************************************************************************)
Size == Len(regexInput)
ByteAt(p) == regexInput[p + 1]
Wide == encodings[1]
StepOf(wide) == IF wide THEN 2 ELSE 1
Widened(data) == FlattenSeq([i \in DOMAIN data |-> <<data[i], 0>>])

\* Where a literal occurs in the data, with or without regard to case.
Occurrences(literal, wide, nocase) ==
    LET bytes == IF wide THEN Widened(literal) ELSE literal
        Same(a, b) == IF nocase THEN Lowered(a) = Lowered(b) ELSE a = b
    IN {p \in 0 .. Size - Len(bytes) : \A i \in DOMAIN bytes : Same(ByteAt(p + i - 1), bytes[i])}

Positions(set, wide) ==
    {p \in 0 .. Size - 1 : ByteAt(p) \in set /\ (wide => p + 1 < Size /\ ByteAt(p + 1) = 0)}

\* fullword counts letters and digits; the underscore is no part of a word.  The end is
\* looked at in the data up to a place.
IsAlnum(p, wide, to) ==
    /\ p \in 0 .. to - 1 /\ ByteAt(p) \in WordBytes \ {95}
    /\ wide => p + 1 < to /\ ByteAt(p + 1) = 0
FullwordStart(p, wide) == ~IsAlnum(p - StepOf(wide), wide, Size)
FullwordEnd(p, wide, to) == ~IsAlnum(p, wide, to)
IsFullword(from, end, wide) ==
    FullwordStart(from, wide /\ from # end) /\ FullwordEnd(end, wide /\ from # end, Size)

\* Reading a byte at a place of the code.
Reads(node, b) ==
    CASE node.kind = "literal" -> b = node.value \/ (string.nocase /\ Lowered(b) = Lowered(node.value))
      [] node.kind = "class" ->
             (\E c \in IF string.nocase THEN CasesOf(b) ELSE {b} : c \in node.set) # node.negated
      [] node.kind = "." -> string.dotall \/ b # Newline
      [] OTHER -> b \in Shorthands[node.kind]

\* Whether an assertion holds at a place of a part of the data.
Holds(assertion, p, from, to, wide) ==
    LET IsWord(q) == /\ q >= from /\ q < to /\ ByteAt(q) \in WordBytes
                     /\ wide => q + 1 < to /\ ByteAt(q + 1) = 0
        boundary == IsWord(p - StepOf(wide)) # IsWord(p)
    IN CASE assertion = "^" -> p = from
         [] assertion = "$" -> p = to
         [] assertion = "\\b" -> boundary
         [] assertion = "\\B" -> ~boundary

(***************************************************************************)
(* The parser and the compiler.                                            *)
(***************************************************************************)
RefuseRegex ==
    /\ regexPhase = "written" /\ Compiled[string] = {}
    /\ regexPhase' = "refused"
    /\ UNCHANGED <<string, compiled, regexInput, encodings, starts, start, region, frontier, head, bestEnd,
                   work, reuse, regexFound>>

\* The encoding whose occurrence is preferred comes first.
EncodingOrder(greedy) ==
    IF string.wide /\ string.ascii THEN <<greedy, ~greedy>> ELSE <<string.wide>>

BuildRegex ==
    /\ regexPhase = "written"
    /\ compiled' \in Compiled[string]
    /\ encodings' = EncodingOrder(compiled'.greedy)
    /\ regexInput' \in UNION {[1 .. n -> string.alphabet] : n \in 0 .. string.length}
    /\ regexPhase' = IF regexInput' = <<>> THEN "done" ELSE "encoding"
    /\ UNCHANGED <<string, starts, start, region, frontier, head, bestEnd, work, reuse, regexFound>>

(***************************************************************************)
(* The starts of one encoding.                                             *)
(***************************************************************************)
FirstByteFits(p, wide) == \A set \in compiled.first : p \in Positions(set, wide)

\* An occurrence of the atom: what stands before it, and the bound on its distance.
AtomStarts(occurrence, wide) ==
    LET atom == compiled.atom
        step == StepOf(wide)
        prefix == compiled.reverse.exact
        from == occurrence - step * Len(prefix)
        \* The characters of the repeated class that end before a place.
        Backward(repeat) == CHOOSE n \in 0 .. Size :
            /\ \A i \in 1 .. n : from - step * i \in Positions(repeat.class, wide)
            /\ \/ n = repeat.max
               \/ from - step * (n + 1) \notin Positions(repeat.class, wide)
        valid == /\ from >= 0
                 /\ from \in Occurrences(prefix, wide, string.nocase \/ atom.folded)
                 /\ atom.min > 0 =>
                        \A set \in compiled.reverse.preceding : occurrence - step \in Positions(set, wide)
                 /\ \A repeat \in compiled.reverse.repeat : Backward(repeat) >= repeat.min
        Bound(repeat) == IF repeat.max >= 0 THEN Max({atom.min, atom.max - (repeat.max - Backward(repeat))})
                         ELSE atom.max
        bound == IF compiled.reverse.repeat = {} THEN atom.max ELSE Bound(TheOne(compiled.reverse.repeat))
    IN IF ~valid THEN {}
       ELSE {p \in {occurrence - step * offset : offset \in atom.min .. bound} :
                 p >= 0 /\ FirstByteFits(p, wide)}

\* An alternative's occurrences give ranges of starts, at every offset also when wide.
AlternativeStarts(atoms, wide) ==
    UNION {UNION {Max({0, p - StepOf(wide) * atom.max}) .. p - StepOf(wide) * atom.min :
                      p \in Occurrences(atom.data, wide, string.nocase)} :
               atom \in {a \in atoms : a.max >= 0}}

\* The starts from which the gap is followed back from one of its atoms.
GapStarts(plan) ==
    {p \in Positions(plan.leading, FALSE) :
        \E atom \in plan.atoms : \E occurrence \in Occurrences(atom.data, FALSE, string.nocase) :
            \E offset \in atom.min .. atom.max :
                LET length == occurrence - offset - p - 1
                IN /\ length >= plan.gap.min /\ (plan.gap.max >= 0 => length <= plan.gap.max)
                   /\ \A q \in p + 1 .. p + length : ByteAt(q) \in plan.gap.class}

ByteStarts(byteAtom, wide) ==
    UNION {{p - StepOf(wide) * offset : offset \in byteAtom.min .. byteAtom.max} :
               p \in Positions(byteAtom.set, wide)}
        \cap 0 .. Size

\* What the search comes to when no atom has given it starts.
RemainingStarts(wide) ==
    LET missed == compiled.atom.data # <<>>   \* its distance has no bound
        bytes == {b \in compiled.byteAtom : missed => b.max >= 0}
        linear == 0 .. Size - 1
    IN CASE ~wide /\ compiled.gap # {} -> GapStarts(TheOne(compiled.gap))
         [] ~(~wide /\ compiled.gap # {}) /\ bytes = {} -> linear
         [] OTHER ->
                LET byteAtom == TheOne(bytes)
                IN CASE byteAtom.max >= 0 -> ByteStarts(byteAtom, wide)
                     [] byteAtom.max < 0 /\ Positions(byteAtom.set, wide) = {} -> {}
                     [] OTHER -> linear

\* Alternatives decide where all their distances are bounded, or those that are not do
\* not occur.
AlternativesDecide(wide) ==
    /\ compiled.alternatives # {}
    /\ \A atom \in compiled.alternatives : atom.max >= 0 \/ Occurrences(atom.data, wide, string.nocase) = {}

OtherStarts(wide) ==
    IF AlternativesDecide(wide) THEN AlternativeStarts(compiled.alternatives, wide) ELSE RemainingStarts(wide)

AllStarts(wide) ==
    LET atom == compiled.atom
        prefix == compiled.prefix
        occurrences == Occurrences(atom.data, wide, string.nocase \/ atom.folded)
    IN CASE compiled.anchored -> {0}
         [] ~compiled.anchored /\ prefix # <<>> /\ (Len(prefix) >= MinAtomLength \/ atom.data = <<>>) ->
                Occurrences(prefix, wide, string.nocase)
         [] OTHER ->
                IF atom.data # <<>> /\ occurrences = {} THEN {}
                ELSE IF atom.data # <<>> /\ atom.max >= 0 THEN UNION {AtomStarts(p, wide) : p \in occurrences}
                ELSE OtherStarts(wide)

Reusing ==
    compiled.maxLength < 0 /\ CodeSize(compiled.code) <= ReuseCode /\ compiled.fixed = {}

FindStarts ==
    /\ regexPhase = "encoding" /\ encodings # <<>>
    /\ starts' = AllStarts(Wide)
    /\ reuse' = IF Reusing THEN [NoReuse EXCEPT !.mode = "watching"] ELSE NoReuse
    /\ regexPhase' = "choosing"
    /\ UNCHANGED <<string, compiled, regexInput, encodings, start, region, frontier, head, bestEnd, work,
                   regexFound>>

EndSearch ==
    /\ regexPhase = "encoding" /\ encodings = <<>>
    /\ regexPhase' = "done"
    /\ UNCHANGED <<string, compiled, regexInput, encodings, starts, start, region, frontier, head, bestEnd,
                   work, reuse, regexFound>>

(***************************************************************************)
(* A run: one start after the other, in order.                             *)
(***************************************************************************)
\* boundedRegexWindow: as far as a match from the start can reach, and a margin that the
\* assertions look at.
Window(from) ==
    LET atom == compiled.atom
        step == StepOf(Wide)
        margin == IF Wide THEN MarginWide ELSE MarginASCII
        low == Max({0, from - margin})
        span == CASE atom.max >= 0 /\ atom.suffix >= 0 ->
                         step * (atom.max + Len(atom.data) + atom.suffix) + margin
                  [] ~(atom.max >= 0 /\ atom.suffix >= 0) /\ compiled.maxLength >= 0 ->
                         step * compiled.maxLength + margin
                  [] OTHER -> Size
    IN IF from >= Size THEN [from |-> 0, to |-> Size]
       ELSE [from |-> IF Wide /\ (from - low) % 2 = 1 THEN Max({0, low - 1}) ELSE low,
             to |-> Min({Size, from + span})]

\* addThread: the reading places reached from a place without reading, by priority, until
\* one of the ways accepts.
RECURSIVE AddThread(_, _, _, _)
AddThread(closure, pc, at, window) ==
    LET here == [closure EXCEPT !.seen = @ \cup {pc}]
        op == compiled.code[pc].op
        target == compiled.code[pc].target
        Follow(next) == AddThread(here, next, at, window)
        Try(first, second) ==
            IF Follow(first).accepted THEN Follow(first) ELSE AddThread(Follow(first), second, at, window)
    IN IF pc \in closure.seen THEN closure
       ELSE CASE op = "read" -> [here EXCEPT !.list = Append(@, pc)]
              [] op = "jump" -> Follow(target)
              [] op = "splitA" -> Try(pc + 1, target)
              [] op = "splitB" -> Try(target, pc + 1)
              [] op = "match" ->
                     [here EXCEPT !.accepted = ~compiled.retriesEnds \/ FullwordEnd(at, Wide, window.to)]
              [] OTHER -> IF Holds(op, at, window.from, window.to, Wide) THEN Follow(pc + 1) ELSE here

NoThreads == [list |-> <<>>, seen |-> {}, accepted |-> FALSE]

\* prepareFailureReuse: the memory of failures is kept for long windows only, and filled
\* by the run after one that failed slowly.
Prepared(window) ==
    CASE reuse.mode = "off" -> reuse
      [] reuse.mode \in {"watching", "armed"} /\ window.to - window.from < ReuseInput ->
             [NoReuse EXCEPT !.mode = "watching"]
      [] reuse.mode = "armed" /\ window.to - window.from >= ReuseInput ->
             [mode |-> "learning", masks |-> [p \in 0 .. Size - 1 |-> {}]]
      [] OTHER -> reuse

CanStart(from) ==
    /\ FirstByteFits(from, Wide)
    /\ compiled.retriesEnds => FullwordStart(from, Wide)

Report(from, end) ==
    IF /\ string.fullword => IsFullword(from, end, Wide /\ ~compiled.asciiBoundary)
       /\ \A match \in regexFound : match.start # from
    THEN regexFound' = regexFound \cup {[start |-> from, end |-> end]}
    ELSE regexFound' = regexFound

SkipStart ==
    /\ regexPhase = "choosing" /\ starts # {} /\ ~CanStart(Min(starts))
    /\ starts' = starts \ {Min(starts)}
    /\ UNCHANGED <<regexPhase, string, compiled, regexInput, encodings, start, region, frontier, head,
                   bestEnd, work, reuse, regexFound>>

\* fixedRegexMatchAt: a sequence of single bytes is compared without the machine.
CompareFixed ==
    /\ regexPhase = "choosing" /\ starts # {} /\ CanStart(Min(starts)) /\ compiled.fixed # {}
    /\ LET sets == TheOne(compiled.fixed)
           step == StepOf(Wide)
           from == Min(starts)
           end == from + step * Len(sets)
       IN IF end <= Size /\ \A i \in DOMAIN sets : from + step * (i - 1) \in Positions(sets[i], Wide)
          THEN Report(from, end) ELSE UNCHANGED regexFound
    /\ starts' = starts \ {Min(starts)}
    /\ UNCHANGED <<regexPhase, string, compiled, regexInput, encodings, start, region, frontier, head,
                   bestEnd, work, reuse>>

BeginRun ==
    /\ regexPhase = "choosing" /\ starts # {} /\ CanStart(Min(starts)) /\ compiled.fixed = {}
    /\ start' = Min(starts) /\ starts' = starts \ {Min(starts)}
    /\ region' = Window(start')
    /\ LET closure == AddThread(NoThreads, 1, start', region')
       IN frontier' = closure.list /\ bestEnd' = IF closure.accepted THEN start' ELSE -1
    /\ head' = start' /\ work' = 1 /\ reuse' = Prepared(region')
    /\ regexPhase' = "running"
    /\ UNCHANGED <<string, compiled, regexInput, encodings, regexFound>>

NextEncoding ==
    /\ regexPhase = "choosing" /\ starts = {}
    /\ encodings' = Tail(encodings) /\ regexPhase' = "encoding"
    /\ UNCHANGED <<string, compiled, regexInput, starts, start, region, frontier, head, bestEnd, work,
                   reuse, regexFound>>

(***************************************************************************)
(* The steps of a run.                                                     *)
(***************************************************************************)
DataLeft == IF Wide THEN head + 1 < region.to ELSE head < region.to
FailsAsBefore == reuse.mode = "ready" /\ frontier # <<>> /\ Range(frontier) \subseteq reuse.masks[head]
Remember == reuse' = IF reuse.mode = "learning" THEN [reuse EXCEPT !.masks[head] = Range(frontier)] ELSE reuse

\* fastForwardGreedyTerminalLoop: one thread in a greedy loop behind which the match ends.
InLastLoop ==
    /\ ~Wide /\ ~compiled.retriesEnds /\ Len(frontier) = 1
    /\ LET pc == frontier[1]
       IN compiled.code[pc + 1] = SplitB(pc) /\ compiled.code[pc + 2].op = "match"

\* The threads by priority, until one has accepted: what it leaves behind it is dropped.
Stepped(threads, next) ==
    FoldLeft(LAMBDA closure, pc :
                 IF closure.accepted \/ ~Reads(compiled.code[pc].node, ByteAt(head)) THEN closure
                 ELSE AddThread(closure, pc + 1, next, region),
             NoThreads, threads)

\* The run stops for want of data, because it is known to fail, or at a byte that is no
\* character of the wide encoding.
StopRun ==
    /\ regexPhase = "running"
    /\ \/ ~DataLeft /\ UNCHANGED reuse
       \/ DataLeft /\ FailsAsBefore /\ UNCHANGED reuse
       \/ DataLeft /\ ~FailsAsBefore /\ Wide /\ ByteAt(head + 1) # 0 /\ Remember
    /\ regexPhase' = "ended"
    /\ UNCHANGED <<string, compiled, regexInput, encodings, starts, start, region, frontier, head, bestEnd,
                   work, regexFound>>

ScanLoop ==
    /\ regexPhase = "running" /\ DataLeft /\ ~FailsAsBefore /\ InLastLoop
    /\ LET node == compiled.code[frontier[1]].node
       IN head' = Min({p \in head .. region.to : p = region.to \/ ~Reads(node, ByteAt(p))})
    /\ bestEnd' = IF head' > head THEN head' ELSE bestEnd
    /\ Remember
    /\ frontier' = <<>> /\ regexPhase' = "ended"
    /\ UNCHANGED <<string, compiled, regexInput, encodings, starts, start, region, work, regexFound>>

StepThreads ==
    /\ regexPhase = "running" /\ DataLeft /\ ~FailsAsBefore /\ ~InLastLoop
    /\ Wide => ByteAt(head + 1) = 0
    /\ head' = head + StepOf(Wide)
    /\ LET stepped == Stepped(frontier, head')
       IN frontier' = stepped.list /\ bestEnd' = IF stepped.accepted THEN head' ELSE bestEnd
    /\ work' = work + 1
    /\ Remember
    /\ regexPhase' = IF frontier' = <<>> \/ (bestEnd' >= 0 /\ ~compiled.greedy /\ ~compiled.priority)
                     THEN "ended" ELSE "running"
    /\ UNCHANGED <<string, compiled, regexInput, encodings, starts, start, region, regexFound>>

\* finishFailureReuse, and the match.
FinishRun ==
    /\ regexPhase = "ended"
    /\ IF bestEnd >= start THEN Report(start, bestEnd) ELSE UNCHANGED regexFound
    /\ reuse' = CASE reuse.mode = "learning" ->
                         IF bestEnd >= 0 THEN NoReuse ELSE [reuse EXCEPT !.mode = "ready"]
                  [] reuse.mode = "watching" /\ bestEnd < 0 /\ work >= ReuseWork
                         /\ region.to - region.from >= ReuseInput -> [reuse EXCEPT !.mode = "armed"]
                  [] OTHER -> reuse
    /\ regexPhase' = "choosing"
    /\ UNCHANGED <<string, compiled, regexInput, encodings, starts, start, region, frontier, head, bestEnd,
                   work>>

RegexNext ==
    \/ RefuseRegex \/ BuildRegex \/ FindStarts \/ EndSearch \/ SkipStart \/ CompareFixed \/ BeginRun
    \/ NextEncoding \/ StopRun \/ ScanLoop \/ StepThreads \/ FinishRun

RegexSpec == RegexInit /\ [][RegexNext]_regexVars

(***************************************************************************)
(* What a regex means: the ends a node's matches from a place may have, by *)
(* priority.  It is read off the tree the string was written with.         *)
(***************************************************************************)
\* The part of a node a repeated plus is entered at again, where it is compiled forward.
RECURSIVE Mandatory(_)
Mandatory(node) ==
    LET first == Mandatory(node.nodes[1])
    IN CASE node.kind \in {"group", "plus"} -> Mandatory(node.nodes[1])
         [] node.kind = "concat" -> Concat(<<first>> \o Tail(node.nodes))
         [] node.kind = "range" /\ node.start > 0 ->
                Concat(<<first, Repeat(node.nodes[1], node.start - 1,
                                       IF node.end = NoEnd THEN NoEnd ELSE node.end - 1, node.greedy)>>)
         [] node.kind = "range" /\ node.start = 0 /\ node.end = 1 -> first
         [] OTHER -> node

RECURSIVE BeginsOptional(_)
BeginsOptional(node) ==
    CASE node.kind \in {"group", "plus", "concat"} -> BeginsOptional(node.nodes[1])
      [] node.kind = "range" -> (node.start = 0 /\ node.end = 1) \/ (node.start > 0 /\ BeginsOptional(node.nodes[1]))
      [] OTHER -> FALSE

RECURSIVE EndsOf(_, _, _)
EndsOf(node, p, wide) ==
    LET child == node.nodes[1]
        Then(ends, Ends(_)) == FlattenSeq([i \in DOMAIN ends |-> Ends(ends[i])])
        Moved(ends) == SelectSeq(ends, LAMBDA q : q > p)
        again == IF compiled.forward /\ BeginsOptional(child) THEN Mandatory(child) ELSE child
        Again(q) == IF q > p \/ again # child THEN EndsOf(PlusNode(again, node.greedy), q, wide) ELSE <<>>
        rest == Repeat(child, Max({0, node.start - 1}), IF node.end = NoEnd THEN NoEnd ELSE node.end - 1,
                       node.greedy)
        more == Then(IF node.start = 0 /\ node.end = NoEnd THEN Moved(EndsOf(child, p, wide))
                     ELSE EndsOf(child, p, wide),
                     LAMBDA q : EndsOf(rest, q, wide))
    IN CASE ReadsByte(node) ->
                IF p < Size /\ (wide => p + 1 < Size /\ ByteAt(p + 1) = 0) /\ Reads(node, ByteAt(p))
                THEN <<p + StepOf(wide)>> ELSE <<>>
         [] node.kind = "empty" -> <<p>>
         [] node.kind \in Assertions -> IF Holds(node.kind, p, 0, Size, wide) THEN <<p>> ELSE <<>>
         [] node.kind = "group" -> EndsOf(child, p, wide)
         [] node.kind = "concat" ->
                FoldLeft(LAMBDA ends, part : Then(ends, LAMBDA q : EndsOf(part, q, wide)), <<p>>, node.nodes)
         [] node.kind = "alternation" -> EndsOf(child, p, wide) \o EndsOf(node.nodes[2], p, wide)
         [] node.kind = "star" ->
                LET longer == Then(Moved(EndsOf(child, p, wide)), LAMBDA q : EndsOf(node, q, wide))
                IN IF node.greedy THEN longer \o <<p>> ELSE <<p>> \o longer
         [] node.kind = "plus" ->
                Then(EndsOf(child, p, wide),
                     LAMBDA q : IF node.greedy THEN Again(q) \o <<q>> ELSE <<q>> \o Again(q))
         [] node.kind = "range" ->
                CASE node.end = 0 -> <<p>>
                  [] node.end > 0 /\ node.start > 0 -> more
                  [] OTHER -> IF node.greedy THEN more \o <<p>> ELSE <<p>> \o more

\* The match of one encoding from a place, if there is one.
MatchesFrom(p, wide) ==
    LET ends == SelectSeq(EndsOf(string.tree, p, wide),
                          LAMBDA q : compiled.retriesEnds => FullwordEnd(q, wide, Size))
        end == IF HasGreedyQuantifier(string.tree) \/ ~HasLiteralAtom(string.tree) THEN ends[1]
               ELSE Min(Range(ends))
    IN IF ends # <<>> /\ (string.fullword => IsFullword(p, end, wide /\ ~compiled.asciiBoundary))
       THEN {[start |-> p, end |-> end]} ELSE {}

RegexMeaning ==
    LET order == EncodingOrder(HasGreedyQuantifier(string.tree))
        Preferred(p) == LET given == SelectSeq(order, LAMBDA wide : MatchesFrom(p, wide) # {})
                        IN IF given = <<>> THEN {} ELSE MatchesFrom(p, given[1])
    IN UNION {Preferred(p) : p \in 0 .. Size - 1}

\* Whatever a regex is searched by, from wherever the machine is started, and whatever it
\* remembers of its failures, what is found in the end are the matches of the regex as it
\* is written, each with the end its quantifiers prefer; and only what is no regex is
\* refused (regex_match.go addRegexMatchesFromPattern, vm.go runAtMatchBatchWithCancel).
RegexIsMeaning ==
    /\ regexPhase = "refused" => string.tree = Malformed
    /\ regexPhase = "done" => string.tree # Malformed /\ regexFound = RegexMeaning
=============================================================================
