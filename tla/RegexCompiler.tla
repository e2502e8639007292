--------------------------- MODULE RegexCompiler ---------------------------
(***************************************************************************)
(* Regexes compiled: the code the machine of RegexMachine runs, and what   *)
(* is known of a regex beside its code, for the search to start a machine  *)
(* only where a match may start: literals and sets of bytes every match    *)
(* contains with the bounds of their distance from its start, what stands  *)
(* before such a literal, and how long a match may be.                     *)
(*                                                                         *)
(* Left out: the size limits, the save instructions of captures, the score *)
(* that chooses between literals equally long (any of them may be chosen), *)
(* the plans for alternations of literals one of which begins another, and *)
(* the tables for classes repeated sixteen times and more.                 *)
(***************************************************************************)
EXTENDS RegexLanguage

Endless == -1   \* no bound

(***************************************************************************)
(* Code: a sequence of instructions whose targets are places in it.        *)
(***************************************************************************)
Op(name) == [op |-> name]
Read(node) == [op |-> "read", node |-> node]
\* SplitA tries the next instruction first, SplitB the target.
SplitA(target) == [op |-> "splitA", target |-> target]
SplitB(target) == [op |-> "splitB", target |-> target]
Goto(target) == [op |-> "jump", target |-> target]
Split(greedy, target) == IF greedy THEN SplitA(target) ELSE SplitB(target)

\* The bytes of an instruction, which count where the code must be short.
SizeOf(instruction) ==
    CASE instruction.op \in {"splitA", "splitB", "jump"} -> 3
      [] instruction.op = "read" /\ instruction.node.kind = "literal" -> 2
      [] instruction.op = "read" /\ instruction.node.kind = "class" -> 34
      [] OTHER -> 1

CodeSize(code) == FoldLeft(LAMBDA size, instruction : size + SizeOf(instruction), 0, code)

\* Where a plus enters its body again: behind the splits of the optional parts it begins
\* with, if it begins with any.
RECURSIVE PlusEntry(_, _, _, _)
PlusEntry(node, start, entry, skipped) ==
    CASE node.kind \in {"group", "concat", "plus"} -> PlusEntry(node.nodes[1], start, entry, skipped)
      [] node.kind = "range" /\ node.start > 0 -> PlusEntry(node.nodes[1], start, entry, skipped)
      [] node.kind = "range" /\ node.start = 0 /\ node.end = 1 ->
             PlusEntry(node.nodes[1], start, entry + 1, TRUE)
      [] OTHER -> IF skipped THEN entry ELSE start

\* The code of a node that starts at a place; forward chooses the entries of repeats.
RECURSIVE Emit(_, _, _)
Emit(node, at, forward) ==
    LET child == node.nodes[1]
        EmitAll(nodes, from) == FoldLeft(LAMBDA code, each : code \o Emit(each, from + Len(code), forward),
                                         <<>>, nodes)
        Optional(code) ==
            LET body == Emit(child, at + Len(code) + 1, forward)
            IN code \o <<Split(node.greedy, at + Len(code) + 1 + Len(body))>> \o body
    IN CASE node.kind = "empty" -> <<>>
         [] ReadsByte(node) -> <<Read(node)>>
         [] node.kind \in Assertions -> <<Op(node.kind)>>
         [] node.kind = "group" -> Emit(child, at, forward)
         [] node.kind = "concat" -> EmitAll(node.nodes, at)
         [] node.kind = "alternation" ->
                LET left == Emit(node.nodes[1], at + 1, forward)
                    rightStart == at + Len(left) + 2
                    right == Emit(node.nodes[2], rightStart, forward)
                IN <<SplitA(rightStart)>> \o left \o <<Goto(rightStart + Len(right))>> \o right
         [] node.kind = "star" ->
                LET body == Emit(child, at + 1, forward)
                IN <<Split(node.greedy, at + Len(body) + 2)>> \o body \o <<Goto(at)>>
         [] node.kind = "plus" ->
                LET entry == IF forward THEN PlusEntry(child, at, at, FALSE) ELSE at
                IN Emit(child, at, forward) \o <<Split(~node.greedy, entry)>>
         [] node.kind = "range" ->
                LET copies == EmitAll([i \in 1 .. node.start |-> child], at)
                IN CASE node.end = node.start -> copies
                     [] node.end = NoEnd ->
                            copies \o Emit(Star(child, node.greedy), at + Len(copies), forward)
                     [] OTHER -> FoldLeft(LAMBDA code, i : Optional(code), copies,
                                          [i \in 1 .. node.end - node.start |-> i])

RegexCode(root, forward) == Emit(root, 1, forward) \o <<Op("match")>>

\* Whether a regex has a literal every match contains, as libyara counts them: a class of
\* one byte does not count.  One that has none is compiled with forward entries.
RECURSIVE HasLiteralAtom(_)
HasLiteralAtom(node) ==
    CASE node.kind = "literal" -> TRUE
      [] node.kind = "concat" -> \E i \in DOMAIN node.nodes : HasLiteralAtom(node.nodes[i])
      [] node.kind = "alternation" -> \A i \in DOMAIN node.nodes : HasLiteralAtom(node.nodes[i])
      [] node.kind \in {"group", "plus"} -> HasLiteralAtom(node.nodes[1])
      [] node.kind = "range" -> node.start > 0 /\ HasLiteralAtom(node.nodes[1])
      [] OTHER -> FALSE

RECURSIVE Ungrouped(_)
Ungrouped(node) == IF node.kind = "group" THEN Ungrouped(node.nodes[1]) ELSE node

RECURSIVE IsLiteralNode(_), IsLiteralAlternation(_), LiteralBytes(_)
IsLiteralNode(node) ==
    LET bare == Ungrouped(node)
    IN \/ bare.kind = "literal"
       \/ bare.kind = "concat" /\ \A i \in DOMAIN bare.nodes : IsLiteralNode(bare.nodes[i])

IsLiteralAlternation(node) ==
    LET bare == Ungrouped(node)
    IN /\ bare.kind = "alternation"
       /\ \A i \in DOMAIN bare.nodes : IsLiteralNode(bare.nodes[i]) \/ IsLiteralAlternation(bare.nodes[i])

LiteralBytes(node) ==
    IF node.kind = "literal" THEN {node.value}
    ELSE UNION {LiteralBytes(node.nodes[i]) : i \in DOMAIN node.nodes}

\* Where fullword drops the ends of a match and not the match: an end may be tried again.
LazyFullwordPlus(root) ==
    LET plus == Ungrouped(root)
    IN /\ plus.kind = "plus" /\ ~plus.greedy
       /\ \/ IsLiteralNode(plus.nodes[1])
          \/ IsLiteralAlternation(plus.nodes[1]) /\ LiteralBytes(plus.nodes[1]) \subseteq WordBytes \ {95}

RetriesEnds(root, fullword) == fullword /\ (IsLiteralAlternation(root) \/ LazyFullwordPlus(root))

(***************************************************************************)
(* Lengths of what a node matches; Endless where it has no bound.          *)
(***************************************************************************)
AddLength(left, right) == IF left < 0 \/ right < 0 THEN Endless ELSE left + right
MaxLength(left, right) == IF left < 0 \/ right < 0 THEN Endless ELSE Max({left, right})
MultiplyLength(length, count) == IF length < 0 THEN Endless ELSE length * count

RECURSIVE NodeMinLength(_), NodeMaxLength(_)
NodeMinLength(node) ==
    CASE ReadsByte(node) -> 1
      [] node.kind = "concat" -> FoldLeft(LAMBDA sum, each : sum + NodeMinLength(each), 0, node.nodes)
      [] node.kind = "alternation" -> Min({NodeMinLength(node.nodes[i]) : i \in DOMAIN node.nodes})
      [] node.kind \in {"group", "plus"} -> NodeMinLength(node.nodes[1])
      [] node.kind = "range" -> NodeMinLength(node.nodes[1]) * node.start
      [] OTHER -> 0

NodeMaxLength(node) ==
    LET child == NodeMaxLength(node.nodes[1])
    IN CASE ReadsByte(node) -> 1
         [] node.kind = "concat" ->
                FoldLeft(LAMBDA sum, each : AddLength(sum, NodeMaxLength(each)), 0, node.nodes)
         [] node.kind = "alternation" -> MaxLength(child, NodeMaxLength(node.nodes[2]))
         [] node.kind = "group" -> child
         [] node.kind \in {"star", "plus"} -> IF child = 0 THEN 0 ELSE Endless
         [] node.kind = "range" ->
                IF node.end = NoEnd /\ child > 0 THEN Endless ELSE MultiplyLength(child, node.end)
         [] OTHER -> 0

LeastOf(nodes) == FoldLeft(LAMBDA sum, each : sum + NodeMinLength(each), 0, nodes)
MostOf(nodes) == FoldLeft(LAMBDA sum, each : AddLength(sum, NodeMaxLength(each)), 0, nodes)

\* What the copies behind the first ones of a repeat may add.
RepeatTailLength(node, copies) ==
    LET child == NodeMaxLength(node.nodes[1])
    IN CASE child = 0 -> 0
         [] node.kind = "plus" -> Endless
         [] node.end = NoEnd /\ node.start # node.end -> Endless
         [] node.end <= copies -> 0
         [] OTHER -> MultiplyLength(child, node.end - copies)

(***************************************************************************)
(* Atoms: literals every match contains, between min and max bytes behind  *)
(* its start and at most suffix bytes before its end.                      *)
(***************************************************************************)
MaxUsefulSet == 96
MaxAtomLength == 8
MinAtomLength == 2

Folded(set) == UNION {CasesOf(b) : b \in set}

\* The bytes a node of one byte reads.
ByteSet(node, nocase, dotall) ==
    LET Cases(set) == IF nocase THEN Folded(set) ELSE set
    IN CASE node.kind = "literal" -> Cases({node.value})
         [] node.kind = "class" -> IF node.negated THEN AllBytes \ Cases(node.set) ELSE Cases(node.set)
         [] node.kind = "." -> IF dotall THEN AllBytes ELSE AllBytes \ {Newline}
         [] OTHER -> Shorthands[node.kind]

Atom(data, min, max, suffix) == [data |-> data, min |-> min, max |-> max, suffix |-> suffix]

\* Error: the bound of the distance is shifted by the least length of what stands before.
ShiftByLeast(atom, nodesBefore, nodesAfter) ==
    [atom EXCEPT !.min = LeastOf(nodesBefore) + @, !.max = AddLength(LeastOf(nodesBefore), @),
                 !.suffix = AddLength(@, MostOf(nodesAfter))]

Shift(atom, nodesBefore, nodesAfter) ==
    [atom EXCEPT !.min = LeastOf(nodesBefore) + @, !.max = AddLength(MostOf(nodesBefore), @),
                 !.suffix = AddLength(@, MostOf(nodesAfter))]

Before(nodes, i) == SubSeq(nodes, 1, i - 1)
After(nodes, i) == SubSeq(nodes, i + 1, Len(nodes))
Map(sequence, F(_)) == [i \in DOMAIN sequence |-> F(sequence[i])]
WithSuffix(atoms, suffix) == Map(atoms, LAMBDA atom : [atom EXCEPT !.suffix = AddLength(@, suffix)])

\* The windows of one width in some atoms: of two with the same data the one whose
\* distance is known better, and of these the first.
Windows(atoms, width) ==
    LET Cut(atom, from) == [data |-> SubSeq(atom.data, from + 1, from + width), min |-> atom.min + from,
                            max |-> AddLength(atom.max, from),
                            suffix |-> AddLength(atom.suffix, Len(atom.data) - from - width)]
        all == FlattenSeq(Map(atoms, LAMBDA atom :
                   [i \in 1 .. Max({0, Len(atom.data) - width + 1}) |-> Cut(atom, i - 1)]))
        Spread(i) == IF all[i].max < 0 THEN NoEnd ELSE all[i].max - all[i].min
        Narrowest(data) == CHOOSE i \in DOMAIN all :
            /\ all[i].data = data
            /\ \A j \in DOMAIN all : all[j].data = data =>
                   Spread(i) < Spread(j) \/ (Spread(i) = Spread(j) /\ i <= j)
    IN [data \in {all[i].data : i \in DOMAIN all} |-> all[Narrowest(data)]]

\* What both branches of an alternation contain: the widest windows they share.
CommonAtoms(left, right) ==
    LET Shared(width) == DOMAIN Windows(left, width) \cap DOMAIN Windows(right, width)
        widths == {width \in MinAtomLength .. MaxAtomLength : Shared(width) # {}}
        Covering(l, r) == Atom(l.data, Min({l.min, r.min}), MaxLength(l.max, r.max),
                              MaxLength(l.suffix, r.suffix))
    IN IF widths = {} THEN <<>>
       ELSE LET width == Max(widths)
            IN Map(SetToSeq(Shared(width)),
                   LAMBDA data : Covering(Windows(left, width)[data], Windows(right, width)[data]))

BetterByteAtom(candidate, best) ==
    LET bounded == candidate.max >= 0
        size == Cardinality(candidate.set)
        bestSize == Cardinality(best.set)
        width == candidate.max - candidate.min
        bestWidth == best.max - best.min
    IN IF bounded # (best.max >= 0) THEN bounded
       ELSE IF size # bestSize THEN size < bestSize
       ELSE IF bounded /\ width # bestWidth THEN width < bestWidth
       ELSE TRUE

BestByteAtom(atoms) ==
    FoldLeft(LAMBDA best, atom : IF BetterByteAtom(atom, best) THEN atom ELSE best, atoms[1], atoms)

MergedByteAtoms(left, right) ==
    IF left = <<>> \/ right = <<>> THEN <<>>
    ELSE LET l == BestByteAtom(left)
             r == BestByteAtom(right)
         IN IF Cardinality(l.set \cup r.set) > MaxUsefulSet THEN <<>>
            ELSE <<[set |-> l.set \cup r.set, min |-> Min({l.min, r.min}), max |-> MaxLength(l.max, r.max),
                    suffix |-> 0]>>

\* What is known of a node: its atoms, the same with sets of bytes for literals, and, when
\* it matches one string only, that string as the one member of exact.
Known(atoms, byteAtoms, exact) == [atoms |-> atoms, byteAtoms |-> byteAtoms, exact |-> exact]
Times(data, count) == FlattenSeq([i \in 1 .. count |-> data])
NonEmpty(exact) == exact \notin {{}, {<<>>}}
TheOne(exact) == CHOOSE data \in exact : TRUE

OneByteKnown(set) ==
    LET exact == IF Cardinality(set) = 1 THEN {<<b>> : b \in set} ELSE {}
    IN Known(IF exact = {} THEN <<>> ELSE <<Atom(TheOne(exact), 0, 0, 0)>>,
             IF Cardinality(set) \in 1 .. MaxUsefulSet THEN <<[set |-> set, min |-> 0, max |-> 0, suffix |-> 0]>> ELSE <<>>,
             exact)

RECURSIVE AnalyzeAtoms(_)
AnalyzeAtoms(node) ==
    LET nodes == node.nodes
        child == AnalyzeAtoms(nodes[1])
        right == AnalyzeAtoms(nodes[2])
        \* A concat: the atoms of its parts, and the runs of its exact parts.
        parts == Map(nodes, AnalyzeAtoms)
        Exact(i) == i \in DOMAIN parts /\ parts[i].exact # {}
        Run(last) ==
            LET first == CHOOSE i \in 1 .. last : ~Exact(i - 1) /\ \A j \in i .. last : Exact(j)
                data == FlattenSeq([j \in 1 .. last - first + 1 |-> TheOne(parts[first + j - 1].exact)])
            IN IF ~Exact(last) \/ data = <<>> THEN <<>>
               ELSE <<Atom(data, LeastOf(Before(nodes, first)), MostOf(Before(nodes, first)),
                           MostOf(After(nodes, last)))>>
        AtomsOf(i) ==
            IF i > Len(nodes) THEN Run(Len(nodes))
            ELSE Map(parts[i].atoms, LAMBDA atom : Shift(atom, Before(nodes, i), After(nodes, i)))
                     \o (IF Exact(i) THEN <<>> ELSE Run(i - 1))
        ByteAtomsOf(i) ==
            Map(parts[i].byteAtoms, LAMBDA atom : Shift(atom, Before(nodes, i), After(nodes, i)))
        allExact == \A i \in DOMAIN parts : Exact(i)
        \* A repeat: what its body contains, and the copies it must have.
        least == IF node.kind = "plus" THEN 1 ELSE node.start
        required == NonEmpty(child.exact)
        copies == IF required
                  THEN <<Atom(Times(TheOne(child.exact), least), 0, 0, RepeatTailLength(node, least))>>
                  ELSE <<>>
        fixed == CASE node.kind = "plus" -> NodeMaxLength(nodes[1]) = 0
                   [] node.kind = "range" -> node.start = node.end
    IN CASE node.kind \in Assertions \cup {"empty"} -> Known(<<>>, <<>>, {<<>>})
         [] ReadsByte(node) -> OneByteKnown(ByteSet(node, FALSE, TRUE))
         [] node.kind = "group" -> child
         [] node.kind = "concat" ->
                Known(FlattenSeq([i \in 1 .. Len(nodes) + 1 |-> AtomsOf(i)]),
                      FlattenSeq([i \in DOMAIN nodes |-> ByteAtomsOf(i)]),
                      IF allExact THEN {FlattenSeq([i \in DOMAIN nodes |-> TheOne(parts[i].exact)])} ELSE {})
         [] node.kind = "alternation" ->
                LET exact == IF child.exact = right.exact THEN child.exact ELSE {}
                IN Known(IF NonEmpty(exact) THEN <<Atom(TheOne(exact), 0, 0, 0)>>
                         ELSE CommonAtoms(child.atoms, right.atoms),
                         MergedByteAtoms(child.byteAtoms, right.byteAtoms), exact)
         [] node.kind = "star" ->
                Known(<<>>, <<>>, IF NodeMaxLength(nodes[1]) = 0 THEN {<<>>} ELSE {})
         [] node.kind \in {"plus", "range"} ->
                Known(IF least = 0 THEN <<>>
                      ELSE WithSuffix(child.atoms, RepeatTailLength(node, 1)) \o copies,
                      IF least = 0 THEN <<>> ELSE child.byteAtoms,
                      IF fixed THEN {Times(data, least) : data \in child.exact} ELSE {})

\* Runs of classes that hold both cases of one letter, as literals in lower case.
CasePair(node) ==
    LET set == ByteSet(Ungrouped(node), FALSE, TRUE)
    IN {b \in Lowercase : set = CasesOf(b)}

RECURSIVE FoldedAtoms(_)
FoldedAtoms(node) ==
    LET bare == Ungrouped(node)
        nodes == bare.nodes
        IsClass(i) == i \in DOMAIN nodes /\ Ungrouped(nodes[i]).kind = "class"
        Run(first, last) ==
            [i \in 1 .. last - first + 1 |-> CHOOSE b \in Lowercase : b \in CasePair(nodes[first + i - 1])]
        runs == {r \in (DOMAIN nodes) \X (DOMAIN nodes) :
                    /\ r[1] <= r[2] /\ ~IsClass(r[1] - 1) /\ ~IsClass(r[2] + 1)
                    /\ \A i \in r[1] .. r[2] : IsClass(i) /\ CasePair(nodes[i]) # {}}
        FoldedRun(r) == Shift(Atom(Run(r[1], r[2]), 0, 0, 0), Before(nodes, r[1]), After(nodes, r[2]))
    IN CASE bare.kind = "concat" ->
                FlattenSeq([i \in DOMAIN nodes |->
                    IF IsClass(i) THEN <<>>
                    ELSE Map(FoldedAtoms(nodes[i]), LAMBDA atom : Shift(atom, Before(nodes, i), After(nodes, i)))])
                \o Map(SetToSeq(runs), FoldedRun)
         [] bare.kind = "alternation" -> CommonAtoms(FoldedAtoms(nodes[1]), FoldedAtoms(nodes[2]))
         [] bare.kind = "plus" \/ (bare.kind = "range" /\ bare.start > 0) ->
                WithSuffix(FoldedAtoms(nodes[1]), RepeatTailLength(bare, 1))
         [] OTHER -> <<>>

\* The windows of an atom that may stand for it, and the best of several atoms: the
\* longest, and of these the ones whose distance has a bound.
AtomWindows(atom) ==
    LET width == Min({Len(atom.data), MaxAtomLength})
    IN IF Len(atom.data) < MinAtomLength THEN {}
       ELSE {Atom(SubSeq(atom.data, from + 1, from + width), atom.min + from, AddLength(atom.max, from),
                  AddLength(atom.suffix, Len(atom.data) - from - width)) :
                from \in 0 .. Len(atom.data) - width}

Best(windows) ==
    LET longest == {w \in windows : \A v \in windows : Len(w.data) >= Len(v.data)}
        bounded == {w \in longest : w.max >= 0}
    IN IF bounded # {} THEN bounded ELSE longest

NoAtom == [data |-> <<>>, min |-> 0, max |-> Endless, suffix |-> Endless, folded |-> FALSE]
MarkFolded(atom, folded) == [data |-> atom.data, min |-> atom.min, max |-> atom.max,
                             suffix |-> atom.suffix, folded |-> folded]

\* The atoms a regex may be searched by.
AtomChoices(root) ==
    LET Marked(atoms, folded) == {MarkFolded(w, folded) : w \in UNION {AtomWindows(atoms[i]) : i \in DOMAIN atoms}}
        choices == Best(Marked(AnalyzeAtoms(root).atoms, FALSE) \cup Marked(FoldedAtoms(root), TRUE))
    IN IF choices = {} THEN {NoAtom} ELSE choices

(***************************************************************************)
(* What stands before an atom: a literal, the bytes of the one byte before *)
(* it, a class repeated before both.  What is not known is an empty set.   *)
(***************************************************************************)
RECURSIVE FlattenConcat(_)
FlattenConcat(node) ==
    LET bare == Ungrouped(node)
    IN IF bare.kind # "concat" THEN <<bare>> ELSE FlattenSeq(Map(bare.nodes, FlattenConcat))

RepeatInfo(node, nocase, dotall) ==
    LET body == Ungrouped(node.nodes[1])
        class == ByteSet(body, nocase, dotall)
    IN IF node.kind \notin {"star", "plus", "range"} \/ ~ReadsByte(body) THEN {}
       ELSE CASE node.kind = "star" -> {[class |-> class, min |-> 0, max |-> Endless]}
              [] node.kind = "plus" -> {[class |-> class, min |-> 1, max |-> Endless]}
              [] OTHER -> {[class |-> class, min |-> node.start,
                            max |-> IF node.end = NoEnd THEN Endless ELSE node.end]}

ReversePrefix(root, atom, withCase, dotall) ==
    LET nodes == FlattenConcat(root)
        nocase == withCase \/ atom.folded
        BytesOf(node) == IF nocase THEN Folded(ByteSet(node, FALSE, dotall)) ELSE ByteSet(node, FALSE, dotall)
        ByteFits(node, b) == node.kind \in {"literal", "class"} /\ b \in BytesOf(node)
        Fits(i) == /\ \A k \in DOMAIN atom.data : ByteFits(nodes[i + k - 1], atom.data[k])
                   /\ LeastOf(Before(nodes, i)) = atom.min
        places == {i \in 1 .. Len(nodes) - Len(atom.data) + 1 : Fits(i)}
        at == Min(places)
        from == Min({i \in 1 .. at : \A j \in i .. at - 1 : nodes[j].kind = "literal"})
        exact == [i \in 1 .. at - from |-> IF nocase THEN Lowered(nodes[from + i - 1].value)
                                           ELSE nodes[from + i - 1].value]
        repeat == IF from = 1 THEN {} ELSE RepeatInfo(nodes[from - 1], nocase, dotall)
        preceding ==
            CASE exact # <<>> -> {IF nocase THEN CasesOf(exact[Len(exact)]) ELSE {exact[Len(exact)]}}
              [] from = 1 -> {}
              [] repeat # {} -> {r.class : r \in {r \in repeat : r.min > 0}}
              [] ReadsByte(nodes[from - 1]) -> {ByteSet(nodes[from - 1], nocase, dotall)}
              [] OTHER -> {}
    IN IF atom.data = <<>> \/ places = {} THEN [exact |-> <<>>, preceding |-> {}, repeat |-> {}]
       ELSE [exact |-> exact, preceding |-> preceding, repeat |-> repeat]

\* The bytes a match may begin with, and whether it may be empty.
RECURSIVE FirstBytes(_, _, _)
FirstBytes(node, nocase, dotall) ==
    LET Of(i) == FirstBytes(node.nodes[i], nocase, dotall)
        reached == {i \in DOMAIN node.nodes : \A j \in 1 .. i - 1 : Of(j).nullable}
    IN CASE ReadsByte(node) -> [set |-> ByteSet(node, nocase, dotall), nullable |-> FALSE]
         [] node.kind = "concat" ->
                [set |-> UNION {Of(i).set : i \in reached}, nullable |-> \A i \in DOMAIN node.nodes : Of(i).nullable]
         [] node.kind = "alternation" ->
                [set |-> Of(1).set \cup Of(2).set, nullable |-> Of(1).nullable \/ Of(2).nullable]
         [] node.kind \in {"group", "plus"} -> Of(1)
         [] node.kind = "star" -> [set |-> Of(1).set, nullable |-> TRUE]
         [] node.kind = "range" -> [set |-> Of(1).set, nullable |-> Of(1).nullable \/ node.start = 0]
         [] OTHER -> [set |-> {}, nullable |-> TRUE]

FirstByteSet(root, nocase, dotall) ==
    LET first == FirstBytes(root, nocase, dotall)
    IN IF first.nullable \/ Cardinality(first.set) \notin 1 .. MaxUsefulSet THEN {} ELSE {first.set}

\* A regex that is a sequence of single bytes needs no machine: its sets, when it is one.
RECURSIVE FixedByteSets(_, _, _)
FixedByteSets(node, nocase, dotall) ==
    LET Of(i) == FixedByteSets(node.nodes[i], nocase, dotall)
    IN CASE ReadsByte(node) -> {<<ByteSet(node, nocase, dotall)>>}
         [] node.kind = "empty" -> {<<>>}
         [] node.kind = "group" -> Of(1)
         [] node.kind = "concat" ->
                IF \A i \in DOMAIN node.nodes : Of(i) # {}
                THEN {FlattenSeq([i \in DOMAIN node.nodes |-> TheOne(Of(i))])} ELSE {}
         [] node.kind = "range" ->
                IF node.start = node.end THEN {Times(sets, node.start) : sets \in Of(1)} ELSE {}
         [] OTHER -> {}

(***************************************************************************)
(* Covers: groups of atoms of which a match contains one of some group, for *)
(* a regex whose branches share no literal.  Which of several covers is     *)
(* better is left out.                                                      *)
(***************************************************************************)
Long(atoms) == SelectSeq(atoms, LAMBDA atom : Len(atom.data) >= MinAtomLength)
ShiftCover(cover, nodes, i) ==
    Map(cover, LAMBDA group : Map(group, LAMBDA atom : Shift(atom, Before(nodes, i), After(nodes, i))))
SuffixCover(cover, suffix) == Map(cover, LAMBDA group : WithSuffix(group, suffix))
Joined(lefts, rights) == {pair[1] \o pair[2] : pair \in lefts \X rights}

RECURSIVE Leaves(_), AtomCovers(_), AlternationCovers(_)
Leaves(node) ==
    LET bare == Ungrouped(node)
    IN IF bare.kind # "alternation" THEN <<bare>> ELSE Leaves(bare.nodes[1]) \o Leaves(bare.nodes[2])

AtomCovers(node) ==
    LET long == Long(AnalyzeAtoms(node).atoms)
        Of(i) == AtomCovers(node.nodes[i])
    IN IF long # <<>> THEN {<<long>>}
       ELSE CASE node.kind = "group" -> Of(1)
              [] node.kind = "concat" ->
                     UNION {{ShiftCover(cover, node.nodes, i) : cover \in Of(i)} : i \in DOMAIN node.nodes}
              [] node.kind = "alternation" -> Joined(Of(1), Of(2))
              [] node.kind = "plus" \/ (node.kind = "range" /\ node.start > 0) ->
                     {SuffixCover(cover, RepeatTailLength(node, 1)) : cover \in Of(1)}
              [] OTHER -> {}

\* The strings a part of a concat stands for, when they are few and short.
MaxBranches == 16
MaxClassBytes == 8
ExactBranches(node) ==
    LET bare == Ungrouped(node)
        set == ByteSet(bare, FALSE, TRUE)
        strings == Map(Leaves(bare), LAMBDA leaf : AnalyzeAtoms(leaf).exact)
    IN CASE AnalyzeAtoms(node).exact # {} -> AnalyzeAtoms(node).exact
         [] bare.kind = "range" /\ bare.start = 0 /\ bare.end = 1 ->
                LET inner == AnalyzeAtoms(bare.nodes[1]).exact
                IN IF NonEmpty(inner) THEN {<<>>} \cup inner ELSE {}
         [] bare.kind = "class" -> IF Cardinality(set) \in 2 .. MaxClassBytes THEN {<<b>> : b \in set} ELSE {}
         [] bare.kind = "alternation" ->
                IF /\ Len(strings) <= MaxBranches
                   /\ \A i \in DOMAIN strings : NonEmpty(strings[i]) /\ Len(TheOne(strings[i])) <= 2
                THEN UNION Range(strings) ELSE {}
         [] OTHER -> {}

\* The runs of such parts, multiplied out.
ExpandedCovers(nodes) ==
    LET branches == Map(nodes, ExactBranches)
        Has(i) == i \in DOMAIN nodes /\ branches[i] # {}
        runs == {r \in (DOMAIN nodes) \X (DOMAIN nodes) :
                    /\ r[1] <= r[2] /\ ~Has(r[1] - 1) /\ ~Has(r[2] + 1) /\ \A i \in r[1] .. r[2] : Has(i)}
        Strings(r) == FoldLeft(LAMBDA all, i : Joined(all, branches[i]), {<<>>},
                               [i \in 1 .. r[2] - r[1] + 1 |-> r[1] + i - 1])
        Several(i) == Cardinality(branches[i]) > 1
        \* The run has a part of several strings and ends in a literal.
        Usable(r) == /\ \E i \in r[1] .. r[2] : /\ Several(i) /\ \A j \in i + 1 .. r[2] : ~Several(j)
                                                /\ \E j \in i + 1 .. r[2] : TheOne(branches[j]) # <<>>
                     /\ Cardinality(Strings(r)) <= MaxBranches
                     /\ \A data \in Strings(r) : Len(data) >= MinAtomLength
        AtomGroup(r, data) == <<Atom(data, LeastOf(Before(nodes, r[1])), MostOf(Before(nodes, r[1])),
                                     MostOf(After(nodes, r[2])))>>
    IN {Map(SetToSeq(Strings(r)), LAMBDA data : AtomGroup(r, data)) : r \in {r \in runs : Usable(r)}}

AlternationCovers(node) ==
    LET bare == Ungrouped(node)
    IN CASE bare.kind = "alternation" ->
                FoldLeft(LAMBDA covers, leaf : Joined(covers, AtomCovers(leaf)), {<<>>}, Leaves(bare))
         [] bare.kind = "concat" ->
                ExpandedCovers(bare.nodes) \cup
                UNION {{ShiftCover(cover, bare.nodes, i) : cover \in AlternationCovers(bare.nodes[i])} :
                           i \in DOMAIN bare.nodes}
         [] bare.kind = "plus" \/ (bare.kind = "range" /\ bare.start > 0) ->
                {SuffixCover(cover, RepeatTailLength(bare, 1)) : cover \in AlternationCovers(bare.nodes[1])}
         [] OTHER -> {}

\* One atom for every group, one with a bound where the group has one.
GroupChoices(group) ==
    LET windows == UNION {AtomWindows(group[i]) : i \in DOMAIN group}
        bounded == {w \in windows : w.max >= 0}
    IN IF bounded # {} THEN Best(bounded) ELSE Best(windows)

ChosenAtoms(groups) ==
    FoldLeft(LAMBDA chosen, group : {set \cup {w} : set \in chosen, w \in GroupChoices(group)}, {{}}, groups)

AlternativeChoices(root) ==
    UNION {ChosenAtoms(cover) : cover \in {c \in AlternationCovers(root) : Len(c) >= 2}}

(***************************************************************************)
(* A regex that begins with one byte and a repeated byte: the atoms behind *)
(* them, from which the repeated byte is followed back.                    *)
(***************************************************************************)
MaxGapSpread == 64
AlternativeLeaves(root) ==
    LET bare == Ungrouped(root)
        consuming == SelectSeq(bare.nodes, LAMBDA node : NodeMaxLength(node) # 0)
        body == IF bare.kind = "concat" THEN Ungrouped(consuming[1]) ELSE bare
    IN IF (bare.kind = "concat" /\ Len(consuming) # 1) \/ body.kind # "alternation" THEN <<>> ELSE Leaves(body)

GapPlans(root, nocase, dotall) ==
    LET nodes == Ungrouped(root).nodes
        leading == Ungrouped(nodes[1])
        gap == RepeatInfo(Ungrouped(nodes[2]), nocase, dotall)
        suffix == IF Len(nodes) = 3 THEN nodes[3] ELSE Concat(SubSeq(nodes, 3, Len(nodes)))
        leaves == IF AlternativeLeaves(suffix) = <<>> THEN <<suffix>> ELSE AlternativeLeaves(suffix)
        Bounded(leaf) == SelectSeq(Long(AnalyzeAtoms(leaf).atoms), LAMBDA atom : atom.max >= 0)
        plans == {[leading |-> ByteSet(leading, nocase, dotall), gap |-> TheOne(gap), atoms |-> atoms] :
                      atoms \in ChosenAtoms(Map(leaves, Bounded))}
    IN IF \/ Ungrouped(root).kind # "concat" \/ Len(nodes) < 3
       THEN {}
       ELSE IF \/ ~ReadsByte(leading) \/ gap = {}
               \/ \E i \in DOMAIN leaves : Bounded(leaves[i]) = <<>>
            THEN {}
            ELSE IF Cardinality(TheOne(gap).class) > MaxUsefulSet THEN {}
                 ELSE {plan \in plans : \A atom \in plan.atoms : atom.max - atom.min <= MaxGapSpread}

\* The set of bytes chosen for the search: one with a bound, then the smallest.
ByteAtomChoice(root, nocase) ==
    LET WithCases(atom) == IF nocase THEN [atom EXCEPT !.set = Folded(@)] ELSE atom
        usable == SelectSeq(Map(AnalyzeAtoms(root).byteAtoms, WithCases),
                            LAMBDA atom : Cardinality(atom.set) <= MaxUsefulSet)
    IN IF usable = <<>> THEN {} ELSE {BestByteAtom(usable)}

(***************************************************************************)
(* A regex string compiled: everything that does not depend on the data.   *)
(***************************************************************************)
LiteralPrefix(code) ==
    LET anchored == code[1].op = "^"
        from == IF anchored THEN 2 ELSE 1
        IsLiteral(i) == code[i].op = "read" /\ code[i].node.kind = "literal"
        to == Min({i \in from .. Len(code) : ~IsLiteral(i)})
    IN [anchored |-> anchored, data |-> [i \in 1 .. to - from |-> code[from + i - 1].node.value]]

\* A string is written with modifiers: nocase, dotall, wide, ascii and fullword.  Every
\* choice the score of a literal decides is left open.
CompileRegex(root, string, atom, alternatives, gap, forward) ==
    LET code == RegexCode(root, forward)
        literal == HasLiteralAtom(root)
        prefix == LiteralPrefix(code)
    IN [code |-> code, prefix |-> prefix.data, anchored |-> prefix.anchored,
        atom |-> atom, maxLength |-> NodeMaxLength(root),
        reverse |-> ReversePrefix(root, atom, string.nocase, string.dotall),
        alternatives |-> IF Len(prefix.data) < MinAtomLength THEN alternatives ELSE {},
        gap |-> gap, byteAtom |-> ByteAtomChoice(root, string.nocase),
        first |-> FirstByteSet(root, string.nocase, string.dotall),
        fixed |-> {sets \in FixedByteSets(root, string.nocase, string.dotall) : sets # <<>>},
        greedy |-> HasGreedyQuantifier(root), priority |-> ~literal, forward |-> forward,
        retriesEnds |-> RetriesEnds(root, string.fullword), asciiBoundary |-> ~literal /\ string.fullword]

\* A regex without a literal is compiled forward; one that may match endlessly and has one
\* is too, if its verification starts where a match does, which is left open here.
ForwardChoices(root) ==
    CASE ~HasLiteralAtom(root) -> {TRUE}
      [] NodeMaxLength(root) = Endless /\ ~IsLiteralNode(root) -> BOOLEAN
      [] OTHER -> {FALSE}

\* One of some choices, as the one member of a set, or none if there are none.
OneOf(choices) == IF choices = {} THEN {{}} ELSE {{choice} : choice \in choices}

\* What a string may be compiled to; nothing, if it is refused.
Compilations(string) ==
    LET root == ParseRegex(string.source)
        alternatives == AlternativeChoices(root)
    IN IF root = Malformed THEN {}
       ELSE {CompileRegex(root, string, choice[1], choice[2], choice[3], choice[4]) :
                choice \in AtomChoices(root) \X (IF alternatives = {} THEN {{}} ELSE alternatives)
                               \X OneOf(GapPlans(root, string.nocase, string.dotall)) \X ForwardChoices(root)}
=============================================================================
