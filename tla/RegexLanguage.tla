--------------------------- MODULE RegexLanguage ---------------------------
(***************************************************************************)
(* The language of regexes: the nodes of a parsed regex and the parser     *)
(* that reads them.  A regex is written as a sequence of lexemes, the      *)
(* characters and escapes of its source; ByteOf gives the byte a lexeme    *)
(* stands for where it stands for a byte, and what it means elsewhere the  *)
(* parser says, for "*" in a class is a byte.  Where the parser returns an *)
(* error the node it returns here is Malformed.  Strict escapes and the    *)
(* check of incomplete \x escapes are left out.                            *)
(***************************************************************************)
EXTENDS Integers, Sequences, FiniteSets, FiniteSetsExt, SequencesExt

CONSTANT ByteOf   \* the byte of each lexeme that can stand for one

AllBytes == 0 .. 255
NoEnd == 65535   \* Node.End of a repeat without a bound

ASSUME RegexLexemes == \A lexeme \in DOMAIN ByteOf : ByteOf[lexeme] \in AllBytes

(***************************************************************************)
(* Sets of bytes.                                                          *)
(***************************************************************************)
Lowercase == 97 .. 122
Uppercase == 65 .. 90
Digits == 48 .. 57
WordBytes == Lowercase \cup Uppercase \cup Digits \cup {95}
Spaces == {32} \cup 9 .. 13
Newline == 10

Lowered(b) == IF b \in Uppercase THEN b + 32 ELSE b
CasesOf(b) == {b, Lowered(b)} \cup (IF b \in Lowercase THEN {b - 32} ELSE {})

\* isWord, isSpace, isDigit and their complements, by the escape that names them.
Shorthands ==
    [shorthand \in {"\\w", "\\W", "\\s", "\\S", "\\d", "\\D"} |->
        CASE shorthand = "\\w" -> WordBytes [] shorthand = "\\W" -> AllBytes \ WordBytes
          [] shorthand = "\\s" -> Spaces    [] shorthand = "\\S" -> AllBytes \ Spaces
          [] shorthand = "\\d" -> Digits    [] shorthand = "\\D" -> AllBytes \ Digits]

Posix ==
    LET visible == 33 .. 126
    IN [alnum |-> WordBytes \ {95}, alpha |-> Lowercase \cup Uppercase, ascii |-> 0 .. 127,
        blank |-> {32, 9}, cntrl |-> 0 .. 31 \cup {127}, digit |-> Digits, graph |-> visible,
        lower |-> Lowercase, print |-> 32 .. 126, punct |-> visible \ (WordBytes \ {95}),
        space |-> Spaces, upper |-> Uppercase, word |-> WordBytes,
        xdigit |-> Digits \cup 65 .. 70 \cup 97 .. 102]

(***************************************************************************)
(* Nodes.  A node that reads one byte is a literal, any byte, a class or a *)
(* shorthand; "^", "$", "\\b" and "\\B" read none.                         *)
(***************************************************************************)
Leaf(kind) == [kind |-> kind, nodes |-> <<>>]
Empty == Leaf("empty")
Malformed == Leaf("malformed")
Literal(b) == [kind |-> "literal", nodes |-> <<>>, value |-> b]
ClassNode(set, negated) == [kind |-> "class", nodes |-> <<>>, set |-> set, negated |-> negated]
Concat(nodes) == [kind |-> "concat", nodes |-> nodes]
Either(left, right) == [kind |-> "alternation", nodes |-> <<left, right>>]
Star(node, greedy) == [kind |-> "star", nodes |-> <<node>>, greedy |-> greedy]
PlusNode(node, greedy) == [kind |-> "plus", nodes |-> <<node>>, greedy |-> greedy]
Repeat(node, start, end, greedy) ==
    [kind |-> "range", nodes |-> <<node>>, start |-> start, end |-> end, greedy |-> greedy]
Group(node, number) == [kind |-> "group", nodes |-> <<node>>, number |-> number]

Assertions == {"^", "$", "\\b", "\\B"}
ReadsByte(node) == node.kind \in {"literal", ".", "class"} \cup DOMAIN Shorthands

RECURSIVE HasGreedyQuantifier(_)
HasGreedyQuantifier(node) ==
    \/ node.kind \in {"star", "plus", "range"} /\ node.greedy
    \/ \E i \in DOMAIN node.nodes : HasGreedyQuantifier(node.nodes[i])

(***************************************************************************)
(* Parsing.  What a function of the parser returns is its node, the place  *)
(* it has come to and the number of groups so far.                         *)
(***************************************************************************)
Parsed(node, at, groups) == [node |-> node, at |-> at, groups |-> groups]
Fails(parsed) == parsed.node = Malformed
LexemeAt(source, i) == IF i \in DOMAIN source THEN source[i] ELSE "end"

Quantifiers == {"*", "+", "?", "{"}
OneToken == {".", "^", "$", "\\b", "\\B"} \cup DOMAIN Shorthands
PrimaryStart(lexeme) == lexeme \notin {"end", "*", "+", "?", "|", ")"}

\* A class: what its items add to the set, and the place behind its "]".
RECURSIVE ParseClassContent(_, _, _)
ParseClassContent(source, i, set) ==
    LET first == LexemeAt(source, i)
        last == LexemeAt(source, i + 2)
        negated == LexemeAt(source, i + 1) = "^"
        name == IF negated THEN i + 2 ELSE i + 1
    IN CASE first = "end" -> Parsed(Malformed, i, 0)
         [] first = "]" -> [node |-> Empty, at |-> i + 1, set |-> set]
         [] first = "[:" ->
                IF LexemeAt(source, name) \in DOMAIN Posix /\ LexemeAt(source, name + 1) = ":]"
                THEN LET members == Posix[source[name]]
                     IN ParseClassContent(source, name + 2,
                            set \cup (IF negated THEN AllBytes \ members ELSE members))
                ELSE Parsed(Malformed, i, 0)
         [] first \in DOMAIN Shorthands ->
                ParseClassContent(source, i + 1, set \cup Shorthands[first])
         [] OTHER ->
                IF LexemeAt(source, i + 1) = "-" /\ last \notin {"]", "end"}
                THEN IF ByteOf[first] > ByteOf[last] THEN Parsed(Malformed, i, 0)
                     ELSE ParseClassContent(source, i + 3, set \cup ByteOf[first] .. ByteOf[last])
                ELSE ParseClassContent(source, i + 1, set \cup {ByteOf[first]})

ParseClass(source, i, groups) ==
    LET negated == LexemeAt(source, i) = "^"
        from == IF negated THEN i + 1 ELSE i
        opens == LexemeAt(source, from) \in {"]", "-"}
        content == IF opens THEN ParseClassContent(source, from + 1, {ByteOf[source[from]]})
                   ELSE ParseClassContent(source, from, {})
    IN IF Fails(content) THEN Parsed(Malformed, i, groups)
       ELSE Parsed(ClassNode(content.set, negated), content.at, groups)

\* A bound, behind its "{": the numbers and the place behind its "}", or at |-> 0.
ParseBound(source, i) ==
    LET IsDigit(j) == LexemeAt(source, j) \in DOMAIN ByteOf /\ ByteOf[source[j]] \in Digits
        AfterDigits(j) == CHOOSE k \in j .. Len(source) + 1 :
                              ~IsDigit(k) /\ \A l \in j .. k - 1 : IsDigit(l)
        Number(j) == FoldLeft(LAMBDA value, lexeme : Min({10 * value + ByteOf[lexeme] - 48, NoEnd}),
                              0, SubSeq(source, j, AfterDigits(j) - 1))
        low == LexemeAt(source, i) # ","
        comma == IF low THEN AfterDigits(i) ELSE i
        min == IF low THEN Number(i) ELSE 0
        two == LexemeAt(source, comma) = ","
        open == two /\ LexemeAt(source, comma + 1) = "}"
        close == IF ~two THEN comma ELSE AfterDigits(comma + 1)
        max == IF ~two THEN min ELSE IF open THEN NoEnd ELSE Number(comma + 1)
    IN IF (low /\ ~IsDigit(i)) \/ (two /\ ~open /\ ~IsDigit(comma + 1)) \/ LexemeAt(source, close) # "}"
       THEN [at |-> 0, min |-> 0, max |-> 0]
       ELSE [at |-> close + 1, min |-> min, max |-> max]

RECURSIVE ParseAlternative(_, _, _), ParseConcat(_, _, _), ParsePrimary(_, _, _), ParseBase(_, _, _)

ParseBase(source, i, groups) ==
    LET lexeme == LexemeAt(source, i)
        plain == LexemeAt(source, i + 1) = "?" /\ LexemeAt(source, i + 2) = ":"
        number == IF plain THEN 0 ELSE groups + 1
        inner == ParseAlternative(source, IF plain THEN i + 3 ELSE i + 1, IF plain THEN groups ELSE groups + 1)
    IN CASE lexeme = "(" ->
                IF Fails(inner) \/ LexemeAt(source, inner.at) # ")" THEN Parsed(Malformed, i, groups)
                ELSE Parsed(Group(inner.node, number), inner.at + 1, inner.groups)
         [] lexeme = "[" -> ParseClass(source, i + 1, groups)
         [] lexeme \in OneToken -> Parsed(Leaf(lexeme), i + 1, groups)
         [] OTHER -> Parsed(Literal(ByteOf[lexeme]), i + 1, groups)

\* A quantifier and the "?" that makes it lazy; what looks like a bound and is none is
\* read again as literals.
ParsePrimary(source, i, groups) ==
    LET base == ParseBase(source, i, groups)
        quantifier == LexemeAt(source, base.at)
        bound == ParseBound(source, base.at + 1)
        behind == IF quantifier = "{" THEN bound.at ELSE base.at + 1
        lazy == LexemeAt(source, behind) = "?"
        end == IF lazy THEN behind + 1 ELSE behind
        node == CASE quantifier = "*" -> Star(base.node, ~lazy)
                  [] quantifier = "+" -> PlusNode(base.node, ~lazy)
                  [] quantifier = "?" -> Repeat(base.node, 0, 1, ~lazy)
                  [] quantifier = "{" -> Repeat(base.node, bound.min, bound.max, ~lazy)
    IN IF Fails(base) \/ quantifier \notin Quantifiers THEN base
       ELSE IF quantifier = "{" /\ bound.at = 0 THEN base
       ELSE IF (quantifier = "{" /\ bound.min > bound.max) \/ LexemeAt(source, end) \in Quantifiers
       THEN Parsed(Malformed, i, groups)
       ELSE Parsed(node, end, base.groups)

ParseConcat(source, i, groups) ==
    LET RECURSIVE Gather(_, _, _)
        Gather(nodes, at, number) ==
            IF PrimaryStart(LexemeAt(source, at))
            THEN LET primary == ParsePrimary(source, at, number)
                 IN IF Fails(primary) THEN primary
                    ELSE Gather(Append(nodes, primary.node), primary.at, primary.groups)
            ELSE Parsed(CASE nodes = <<>> -> Empty [] Len(nodes) = 1 -> nodes[1] [] OTHER -> Concat(nodes),
                        at, number)
    IN Gather(<<>>, i, groups)

ParseAlternative(source, i, groups) ==
    LET RECURSIVE More(_)
        More(left) ==
            IF Fails(left) \/ LexemeAt(source, left.at) # "|" THEN left
            ELSE LET right == ParseConcat(source, left.at + 1, left.groups)
                 IN IF Fails(right) THEN right
                    ELSE More(Parsed(Either(left.node, right.node), right.at, right.groups))
    IN More(ParseConcat(source, i, groups))

\* The root; nothing may follow it, and an empty one cannot be compiled.
ParseRegex(source) ==
    LET parsed == ParseAlternative(source, 1, 0)
    IN IF parsed.at # Len(source) + 1 \/ parsed.node = Empty THEN Malformed ELSE parsed.node
=============================================================================
