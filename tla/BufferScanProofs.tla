--------------------------- MODULE BufferScanProofs ---------------------------
(***************************************************************************)
(* Theorems about BufferScan, for any rules, inputs and options, and for a *)
(* counter of any width: the runs wrap it after a few calls, the code      *)
(* after 2^32 - 1.                                                         *)
(***************************************************************************)
EXTENDS BufferScan, RuleSetFacts, TLAPS

---------------------------------------------------------------------------
(* The candidate marks. *)

\* No mark is ahead of the counter.
MarksBehind ==
    /\ epoch \in 0 .. EpochLimit
    /\ marks \in [RuleIds -> 0 .. EpochLimit]
    /\ \A r \in RuleIds : marks[r] <= epoch

IInv == MarksBehind /\ MarksAreFresh

\* Marking rules with the counter leaves no mark ahead of it.
LEMMA MarkStaysBehind ==
    ASSUME NEW old, NEW e \in 0 .. EpochLimit, NEW S,
           old \in [RuleIds -> 0 .. EpochLimit], \A r \in RuleIds : old[r] <= e
    PROVE  /\ Mark(old, e, S) \in [RuleIds -> 0 .. EpochLimit]
           /\ \A r \in RuleIds : Mark(old, e, S)[r] <= e
BY BufferAssumption DEF Mark

\* The counter that begins a scan is ahead of every mark, also when it wraps.
LEMMA NextEpochIsAhead ==
    ASSUME MarksBehind
    PROVE  /\ NextEpoch[1] \in 1 .. EpochLimit
           /\ NextEpoch[2] \in [RuleIds -> 0 .. EpochLimit]
           /\ \A r \in RuleIds : NextEpoch[2][r] < NextEpoch[1]
BY BufferAssumption DEF MarksBehind, NextEpoch

LEMMA InitIsFresh == Init => IInv
BY BufferAssumption DEF Init, IInv, MarksBehind, MarksAreFresh

LEMMA StepIsFresh == IInv /\ [Next]_vars => IInv'
<1> SUFFICES ASSUME IInv, [Next]_vars PROVE IInv'
    OBVIOUS
<1> USE DEF matching, ruling, call
<1>1. CASE UNCHANGED <<epoch, marks>> /\ pc' # "search"
    BY <1>1 DEF IInv, MarksBehind, MarksAreFresh
<1>2. CASE FixedRegexes
    <2>1. epoch' = NextEpoch[1] /\ marks' = Mark(NextEpoch[2], epoch', AlwaysEvaluated)
        BY <1>2 DEF FixedRegexes
    <2>2. /\ epoch' \in 1 .. EpochLimit /\ NextEpoch[2] \in [RuleIds -> 0 .. EpochLimit]
          /\ \A r \in RuleIds : NextEpoch[2][r] < epoch'
        BY <2>1, NextEpochIsAhead DEF IInv
    <2>3. MarksBehind'
        <3>1. epoch' \in 0 .. EpochLimit /\ \A r \in RuleIds : NextEpoch[2][r] <= epoch'
            BY <2>2, BufferAssumption
        <3> HIDE DEF NextEpoch
        <3> QED BY <2>1, <2>2, <3>1, MarkStaysBehind DEF MarksBehind
    <2>4. \A r \in RuleIds : marks'[r] = epoch' => r \in AlwaysEvaluated
        <3> HIDE DEF NextEpoch, AlwaysEvaluated
        <3> QED BY <2>1, <2>2 DEF Mark
    <2>5. AlwaysEvaluated' = AlwaysEvaluated
        BY DEF AlwaysEvaluated
    <2> QED BY <2>3, <2>4, <2>5 DEF IInv, MarksAreFresh, IsCandidate
<1>3. ASSUME NEW S, marks' = Mark(marks, epoch, S), epoch' = epoch, pc' # "search" PROVE IInv'
    <2>1. MarksBehind'
        BY <1>3, MarkStaysBehind DEF IInv, MarksBehind
    <2> QED BY <1>3, <2>1 DEF IInv, MarksAreFresh
<1>4. CASE SharedSearch
    <2> DEFINE hit(p) == \E h \in {g \in input.hits : \E q \in Patterns :
                                      IsText(q) /\ Pattern[q].key = g.key} : h.key = Pattern[p].key
               S == {Pattern[p].rule : p \in
                        {q \in Patterns : hit(q) /\ (options.profiled \/ CanTriggerRule(q))}}
    <2>1. marks' = Mark(marks, epoch, S) /\ epoch' = epoch /\ pc' = "verify"
        BY <1>4 DEF SharedSearch
    <2> QED BY <1>3, <2>1
<1>5. CASE VerifyEntry
    <2>1. epoch' = epoch /\ pc' = "verify"
        BY <1>5 DEF VerifyEntry
    <2>2. CASE marks' = marks
        BY <1>1, <2>1, <2>2
    <2>3. CASE marks' # marks
        <3>1. marks' = Mark(marks, epoch, {Pattern[p].rule : p \in
                           {q \in Patterns : Pattern[q].key = KeyOf(at) /\ CanTriggerRule(q)}})
            BY <1>5, <2>3 DEF VerifyEntry
        <3> QED BY <1>3, <2>1, <3>1
    <2> QED BY <2>2, <2>3
<1>6. CASE SelectRules
    <2>1. marks' = Mark(marks, epoch, AlsoSelected) /\ epoch' = epoch /\ pc' = "rule"
        BY <1>6 DEF SelectRules
    <2> QED BY <1>3, <2>1
<1>7. CASE Cancel \/ UNCHANGED vars
    <2>1. epoch' = epoch /\ marks' = marks /\ pc' = pc
        BY <1>7 DEF Cancel, vars
    <2> QED BY <2>1 DEF IInv, MarksBehind, MarksAreFresh, IsCandidate, AlwaysEvaluated
<1>8. CASE Start \/ Abort \/ RejectCompact \/ PreparePatternScan \/ VerifyDone
    BY <1>1, <1>8 DEF Start, Abort, RejectCompact, PreparePatternScan, VerifyDone
<1>9. CASE Evaluating
    <2>1. ASSUME NEW r \in RuleIds,
                 PassOver(r) \/ Prune(r) \/ AddTexts(r) \/ Conclude(r) \/ ConditionFails(r)
          PROVE  UNCHANGED <<epoch, marks>> /\ pc' # "search"
        BY <2>1 DEF PassOver, Looking, Prune, AddTexts, Conclude, ConditionFails, Decide
    <2>2. ASSUME NEW r \in RuleIds, NEW p \in PatternsOf(r), AddString(r, p)
          PROVE  UNCHANGED <<epoch, marks>> /\ pc' # "search"
        BY <2>2 DEF AddString
    <2>3. CASE RulesDone \/ Report
        BY <1>1, <2>3 DEF RulesDone, Report
    <2> QED BY <1>1, <1>9, <2>1, <2>2, <2>3 DEF Evaluating
<1> QED BY <1>2, <1>4, <1>5, <1>6, <1>7, <1>8, <1>9 DEF Next, Matching

\* A candidate mark of an earlier scan never counts in a later one, for a counter of any
\* width and any number of calls (resetCandidateRules, scanner.go).
THEOREM MarksNeverStale == Spec => []MarksAreFresh
<1>1. IInv => MarksAreFresh
    BY DEF IInv
<1> QED BY <1>1, InitIsFresh, StepIsFresh, PTL DEF Spec

---------------------------------------------------------------------------
(* What a call knows. *)

\* Left out: a cancelled fixed-offset dispatch, which leaves slots that nothing empties;
\* a required regex with two encodings, whose second is skipped when the first has none;
\* and a hex string whose first occurrence is enough for one rule and that another counts.
DispatchUncancelled == \A o \in OptionSets : o.dispatch => o.background
OneEntryIfRequired ==
    \A i, j \in DOMAIN Lookup : i # j /\ KeyOf(i) = KeyOf(j) =>
        \A r \in RuleIds : \A p \in RequiredStrings(r) : Pattern[p].key # KeyOf(i)
UncountedIfShort ==
    "matches" \in Ops =>
        \A p, q \in Patterns :
            /\ Pattern[p].kind = "hex" /\ Pattern[p].key = Pattern[q].key
            /\ ConditionMonotonic(Pattern[p].rule)
            => FastScanSafe(Pattern[q].rule)

Facts == FactsOf(input, op)
M == Meaning(input, op)
Found(k) == Occurrences(input, k)

FrameInv ==
    /\ options \in OptionSets
    /\ pc # "idle" => input \in Inputs /\ op \in Ops
    /\ cancelled => ~options.background
    /\ block.on = (pc # "idle" /\ op = "block")
    /\ block.on => block.base = input.base /\ block.size = input.size

\* A slot that is not listed is empty.
SlotsListed ==
    /\ DOMAIN nonText = {"at", "ready", "touched"} /\ DOMAIN nonText.at = Keys
    /\ nonText.ready \subseteq nonText.touched /\ nonText.touched \subseteq Keys
    /\ \A k \in Keys : k \notin nonText.touched => nonText.at[k] = {}

HeadersKnown ==
    /\ DOMAIN asserts = DOMAIN NoAsserts
    /\ pc # "idle" =>
          \A b \in DOMAIN asserts :
              asserts[b] # "unknown" => (asserts[b] = "true" <=> {b} \ {0} \subseteq Facts.readable)

TextFound == {h \in input.hits : \E p \in Patterns : IsText(p) /\ Pattern[p].key = h.key}

\* A slot that the prefilter emptied because its one rule cannot match.
Skipped(k) ==
    /\ nonText.at[k] = {}
    /\ options.prefilter /\ SkipsUnmatched /\ ~options.profiled /\ input.sparse
    /\ Cardinality(RulesOfKey(k)) = 1
    /\ \A r \in RulesOfKey(k) : ~M[r] /\ RejectedBeforeNonText(r)

SafeKey(k) == \A p \in Patterns : Pattern[p].key = k => FastScanSafe(Pattern[p].rule)

BeforeInv ==
    /\ pc = "fixed" => nonText.ready = {} /\ \A k \in Keys : nonText.at[k] = {}
    /\ pc \in {"prefilter", "fixed", "search", "verify", "select"} => globals = TRUE /\ dense = NoResults
    /\ pc \in {"search", "verify"} => input.sparse
    /\ pc = "search" =>
          \A k \in Keys : nonText.at[k] = IF k \in nonText.ready THEN Found(k) ELSE {}
    /\ pc = "search" => nonText.ready \subseteq FixedRegex

Passed(k) ==
    {h \in input.hits :
        h.key = k /\ \E j \in 1 .. (at - 1) : KeyOf(j) = k /\ Lookup[j].wide = h.wide}

VerifyInv ==
    pc = "verify" =>
        /\ at \in 1 .. (Len(Lookup) + 1)
        /\ texts = TextFound
        /\ \A k \in Keys \ Covered :
              nonText.at[k] = IF k \in nonText.ready THEN Found(k) ELSE {}
        /\ \A k \in Covered :
              /\ k \notin nonText.ready => nonText.at[k] = {} /\ Passed(k) = {}
              /\ k \in nonText.ready =>
                    /\ \E j \in 1 .. (at - 1) : KeyOf(j) = k
                    /\ nonText.at[k] = Offsets(Passed(k)) \/ Skipped(k)

MarksInv ==
    /\ pc \in {"search", "verify"} => \A r \in AlwaysEvaluated : IsCandidate(r)
    /\ pc = "verify" =>
          \A p \in Patterns : CanTriggerRule(p) =>
              \/ IsCandidate(Pattern[p].rule)
              \/ IF IsText(p) THEN Found(Pattern[p].key) = {}
                 ELSE Pattern[p].key \in Covered => nonText.at[Pattern[p].key] = {}
    /\ pc \in {"select", "rule", "strings"} /\ input.sparse =>
          \A r \in RuleIds : M[r] => IsCandidate(r)

SlotRight(k) ==
    \/ nonText.at[k] = Found(k)
    \/ FirstOnly(k) /\ SafeKey(k)
    \/ Skipped(k)
SlotsInv ==
    pc \in {"select", "rule", "strings"} =>
        /\ \A k \in nonText.ready : SlotRight(k)
        /\ input.sparse => /\ texts = TextFound
                           /\ \A k \in Covered \ nonText.ready : Found(k) = {}

LoopInv ==
    /\ pc \in {"rule", "strings", "report"} => DOMAIN dense = RuleIds
    /\ pc \in {"rule", "strings"} =>
          /\ at \in 1 .. (NumRules + 1) /\ (pc = "strings" => at \in RuleIds)
          /\ \A q \in RuleIds : dense[q] = IF q < at THEN M[q] ELSE FALSE
          /\ globals = /\ UsesCandidates => \A g \in EvaluatedGlobalRules : IsCandidate(g)
                       /\ \A g \in EvaluatedGlobalRules : g < at => M[g]

\* An occurrence that a skipped slot does not show.
Lost(p) ==
    LET k == Pattern[p].key
    IN k \in nonText.ready /\ nonText.at[k] = {} /\ Found(k) # {}
Barred(r) ==
    /\ options.prefilter /\ SkipsUnmatched
    /\ \E p \in ForbiddenStrings(r) : IsText(p) /\ spans[p] # {}
Enough(r, p) ==
    /\ spans[p] = {} <=> Found(Pattern[p].key) = {}
    /\ FastScanSafe(r) \/ spans[p] = Found(Pattern[p].key)

StringsInv ==
    pc = "strings" =>
        /\ ShouldEvaluateRule(at)
        /\ todo \subseteq NonTextOf(at)
        /\ DOMAIN spans = Patterns
        /\ \A p \in Patterns : spans[p] \subseteq Found(Pattern[p].key)
        /\ \A p \in Patterns \ PatternsOf(at) : spans[p] = {}
        /\ (\E p \in NonTextOf(at) : Lost(p)) => Barred(at)
        /\ \/ \A p \in PatternsOf(at) \ todo : Enough(at, p) \/ (~IsText(p) /\ Lost(p))
           \/ /\ todo = {} /\ ConditionMonotonic(at)
              /\ Satisfied(at, spans) /\ \E p \in Patterns : spans[p] # {}
           \/ todo = {} /\ options.prefilter /\ SkipsUnmatched /\ HasForbidden(at, spans)

ReportInv ==
    pc = "report" =>
        /\ \A r \in RuleIds : dense[r] = M[r]
        /\ \/ \A r \in RuleIds : ~M[r]
           \/ globals = AllGlobalMatched(M)

CallInv ==
    /\ FrameInv /\ SlotsListed /\ HeadersKnown /\ BeforeInv /\ VerifyInv /\ MarksInv
    /\ SlotsInv /\ LoopInv /\ StringsInv /\ ReportInv /\ AnswersAgree

---------------------------------------------------------------------------
(* What a rule that matches says of the input. *)

LEMMA OccurrencesAreFinite ==
    ASSUME NEW i \in Inputs, NEW k
    PROVE  /\ IsFiniteSet(Occurrences(i, k)) /\ Occurrences(i, k) \subseteq Nat
           /\ Cardinality(Occurrences(i, k)) \in Nat
           /\ Cardinality(Occurrences(i, k)) > 0 <=> Occurrences(i, k) # {}
<1> DEFINE real == {h \in {x \in i.hits : x.key = k} : h.real}
<1>1. IsFiniteSet(real)
    BY BufferAssumption, FS_Subset
<1>2. Occurrences(i, k) = {h.at : h \in real}
    BY DEF Occurrences, Offsets
<1>3. IsFiniteSet({h.at : h \in real})
    <2> HIDE DEF real
    <2> DEFINE f == [h \in real |-> h.at]
    <2>1. {h.at : h \in real} = {f[h] : h \in real}
        OBVIOUS
    <2>2. DOMAIN f = real /\ f \in [real -> {f[h] : h \in real}]
        OBVIOUS
    <2> HIDE DEF f
    <2> QED BY <1>1, <2>1, <2>2, FiniteImage
<1>4. Occurrences(i, k) \subseteq Nat
    BY <1>2, BufferAssumption
<1> QED BY <1>2, <1>3, <1>4, FS_CardinalityType, FS_EmptySet

\* It is evaluated, its header is there, and a clause of it has its strings.
LEMMA WhatMatches ==
    ASSUME NEW i \in Inputs, NEW o, NEW r \in RuleIds, Meaning(i, o)[r]
    PROVE  /\ ShouldEvaluateRule(r)
           /\ {Rule[r].headerEnd} \ {0} \subseteq FactsOf(i, o).readable
           /\ \E c \in Rule[r].clauses :
                 /\ \A p \in c.need \cup c.twice : Occurrences(i, Pattern[p].key) # {}
                 /\ \A p \in c.absent : Occurrences(i, Pattern[p].key) = {}
<1> DEFINE f == [q \in 1 .. (r - 1) |-> Meaning(i, o)[q]]
<1>1. ShouldEvaluateRule(r) /\ Holds(r, FactsOf(i, o), f)
    BY ResultsUnfold DEF Meaning, ResultOf
<1> HIDE DEF f
<1>2. PICK c \in Rule[r].clauses : /\ \A p \in c.need : FactsOf(i, o).count[p] > 0
                                   /\ \A p \in c.twice : FactsOf(i, o).count[p] > 1
                                   /\ \A p \in c.absent : FactsOf(i, o).count[p] = 0
    BY <1>1 DEF Holds
<1>3. \A p \in c.need \cup c.twice \cup c.absent :
        FactsOf(i, o).count[p] = Cardinality(Occurrences(i, Pattern[p].key))
    BY RuleSetAssumption DEF Clause, FactsOf
<1>4. ASSUME NEW p \in c.need \cup c.twice PROVE Occurrences(i, Pattern[p].key) # {}
    BY <1>2, <1>3, <1>4, OccurrencesAreFinite
<1>5. ASSUME NEW p \in c.absent PROVE Occurrences(i, Pattern[p].key) = {}
    BY <1>2, <1>3, <1>5, OccurrencesAreFinite
<1> QED BY <1>1, <1>4, <1>5 DEF Holds

LEMMA StringsOfRule ==
    ASSUME NEW r \in RuleIds
    PROVE  /\ RequiredStrings(r) \subseteq PatternsOf(r)
           /\ ForbiddenStrings(r) \subseteq PatternsOf(r)
           /\ PatternsOf(r) \subseteq Patterns
BY BufferAssumption DEF RequiredStrings, ForbiddenStrings, IntersectionOf, PatternsOf

\* The required strings of a rule that matches are there, the forbidden ones are not.
LEMMA BoundsAreSound ==
    ASSUME NEW i \in Inputs, NEW o, NEW r \in RuleIds, Meaning(i, o)[r]
    PROVE  /\ \A p \in RequiredStrings(r) : Occurrences(i, Pattern[p].key) # {}
           /\ \A p \in ForbiddenStrings(r) : Occurrences(i, Pattern[p].key) = {}
<1>1. PICK c \in Rule[r].clauses :
                 /\ \A p \in c.need \cup c.twice : Occurrences(i, Pattern[p].key) # {}
                 /\ \A p \in c.absent : Occurrences(i, Pattern[p].key) = {}
    BY WhatMatches
<1>2. RequiredStrings(r) \subseteq c.need
    BY DEF RequiredStrings, IntersectionOf
<1>3. ForbiddenStrings(r) \subseteq c.absent
    BY DEF ForbiddenStrings, IntersectionOf
<1> QED BY <1>1, <1>2, <1>3

LEMMA SomeStringIsThere ==
    ASSUME NEW i \in Inputs, NEW o, NEW r \in RuleIds, Meaning(i, o)[r],
           RequiresStringMatch(r)
    PROVE  \E p \in PatternsOf(r) : Occurrences(i, Pattern[p].key) # {}
<1>1. PICK c \in Rule[r].clauses :
                 \A p \in c.need \cup c.twice : Occurrences(i, Pattern[p].key) # {}
    BY WhatMatches
<1>2. PICK p \in c.need \cup c.twice : TRUE
    BY DEF RequiresStringMatch
<1>3. p \in PatternsOf(r)
    BY BufferAssumption
<1> QED BY <1>1, <1>3

\* Among strings of a finite range of scores there is a best one.
LEMMA BestExists ==
    ASSUME NEW S, S # {}, NEW score \in [S -> 0 .. 9]
    PROVE  \E p \in S : \A q \in S : score[q] <= score[p]
<1> DEFINE T == {9 - score[p] : p \in S}
<1>1. T \subseteq Nat /\ T # {}
    OBVIOUS
<1>2. PICK n \in T : \A m \in T : n <= m
    <2> HIDE DEF T
    <2> QED BY <1>1, LeastNumber
<1>3. PICK p \in S : n = 9 - score[p]
    OBVIOUS
<1>4. ASSUME NEW q \in S PROVE score[q] <= score[p]
    <2>1. n <= 9 - score[q]
        BY <1>2
    <2> QED BY <1>3, <2>1
<1> QED BY <1>4

\* A rule that matches and whose strings the shared search covers has a string there that
\* selects it.
LEMMA MatchIsTriggered ==
    ASSUME NEW i \in Inputs, NEW o, NEW r \in RuleIds, Meaning(i, o)[r],
           CompleteSharedPrefilter(r)
    PROVE  \E p \in PatternsOf(r) : /\ CanTriggerRule(p)
                                    /\ IsText(p) \/ Pattern[p].key \in Covered
                                    /\ Occurrences(i, Pattern[p].key) # {}
<1>1. CASE BestRequired(r) # {}
    <2>1. PICK p \in BestRequired(r) : TRUE
        BY <1>1
    <2>2. p \in RequiredStrings(r) /\ (IsText(p) \/ Pattern[p].key \in Covered)
        BY <2>1 DEF BestRequired, Selectors
    <2>3. p \in PatternsOf(r) /\ Pattern[p].rule = r
        BY <2>2, StringsOfRule DEF PatternsOf
    <2> QED BY <2>1, <2>2, <2>3, BoundsAreSound DEF CanTriggerRule
<1>2. CASE BestRequired(r) = {}
    <2>1. AllStringsShared(r)
        BY <1>2 DEF CompleteSharedPrefilter
    <2>2. PICK p \in PatternsOf(r) : Occurrences(i, Pattern[p].key) # {}
        BY <2>1, SomeStringIsThere DEF AllStringsShared
    <2>3. CanTriggerRule(p)
        BY <1>2 DEF CanTriggerRule, PatternsOf
    <2>4. IsText(p) \/ Pattern[p].key \in Covered
        BY <2>1 DEF AllStringsShared, NonTextOf
    <2> QED BY <2>2, <2>3, <2>4
<1> QED BY <1>1, <1>2

\* Where no anchor is found no rule matches.
LEMMA AnchorsCover ==
    ASSUME NEW i \in Inputs, NEW o, HasCompactPrefilter,
           \A h \in i.hits : h.key \notin AnchorKeys, NEW r \in RuleIds
    PROVE  ~Meaning(i, o)[r]
<1> SUFFICES ASSUME Meaning(i, o)[r] PROVE FALSE
    OBVIOUS
<1>1. \A k : Occurrences(i, k) # {} => k \notin AnchorKeys
    BY DEF Occurrences, Offsets
<1> DEFINE Watched == IF Anchors(r) # {} THEN Anchor(r) ELSE PatternsOf(r)
<1>2. \A p \in Watched : IsText(p) \/ Pattern[p].key \in Covered => Pattern[p].key \in AnchorKeys
    <2>1. ASSUME NEW p \in Watched, IsText(p) \/ Pattern[p].key \in Covered
          PROVE  Pattern[p].key \in AnchorKeys
        <3> DEFINE W(q) == IF Anchors(q) # {} THEN Anchor(q) ELSE PatternsOf(q)
        <3>1. p \in UNION {W(q) : q \in RuleIds}
            BY <2>1
        <3> HIDE DEF W
        <3>2. AnchorKeys = {Pattern[x].key : x \in {y \in UNION {W(q) : q \in RuleIds} :
                                                    IsText(y) \/ Pattern[y].key \in Covered}}
            BY DEF AnchorKeys, W
        <3> QED BY <2>1, <3>1, <3>2
    <2> QED BY <2>1
<1>3. CASE Anchors(r) # {}
    <2>1. Anchors(r) \subseteq RequiredStrings(r) /\ Anchors(r) \subseteq Patterns
        BY StringsOfRule DEF Anchors
    <2>2. PICK p \in Anchors(r) : \A q \in Anchors(r) : Pattern[q].score <= Pattern[p].score
        <3> DEFINE score == [p \in Anchors(r) |-> Pattern[p].score]
        <3>1. score \in [Anchors(r) -> 0 .. 9]
            BY <2>1, BufferAssumption
        <3>2. \E p \in Anchors(r) : \A q \in Anchors(r) : score[q] <= score[p]
            <4> HIDE DEF score
            <4> QED BY <1>3, <3>1, BestExists
        <3> QED BY <3>2
    <2>3. p \in Anchor(r) /\ IsText(p)
        BY <2>2 DEF Anchor, Anchors
    <2>4. Occurrences(i, Pattern[p].key) # {}
        BY <2>1, BoundsAreSound
    <2> QED BY <1>1, <1>2, <1>3, <2>3, <2>4
<1>4. CASE Anchors(r) = {}
    <2>1. CompleteSharedPrefilter(r)
        BY <1>4 DEF HasCompactPrefilter
    <2>2. PICK p \in PatternsOf(r) : /\ IsText(p) \/ Pattern[p].key \in Covered
                                     /\ Occurrences(i, Pattern[p].key) # {}
        BY <2>1, MatchIsTriggered
    <2> QED BY <1>1, <1>2, <1>4, <2>2
<1> QED BY <1>3, <1>4

---------------------------------------------------------------------------
(* The steps. *)

\* The call ends with an error.
Broken == Abort \/ \E r \in RuleIds : ConditionFails(r)

\* A step of the call under way that does not end it.
Work ==
    \/ Matching \/ RulesDone
    \/ \E r \in RuleIds : \/ PassOver(r) \/ Prune(r) \/ AddTexts(r) \/ Conclude(r)
                          \/ \E p \in PatternsOf(r) : AddString(r, p)

LEMMA KindsOfStep ==
    ASSUME [Next]_vars
    PROVE  Start \/ Cancel \/ Broken \/ Report \/ Work \/ UNCHANGED vars
BY DEF Next, Work, Evaluating, Broken

LEMMA WorkGoesOn ==
    ASSUME Work
    PROVE  /\ UNCHANGED <<options, input, op, block, calls, cancelled, result>>
           /\ pc # "idle" /\ pc' # "idle" /\ pc' # "prefilter" /\ pc # "report" /\ ~cancelled
<1> USE DEF call, matching, ruling
<1>1. CASE Matching
    BY <1>1 DEF Matching, RejectCompact, PreparePatternScan, FixedRegexes, SharedSearch,
        VerifyEntry, VerifyDone, SelectRules
<1>2. CASE RulesDone
    BY <1>2 DEF RulesDone
<1>3. ASSUME NEW r \in RuleIds, PassOver(r) \/ Prune(r) \/ AddTexts(r) \/ Conclude(r)
      PROVE  /\ UNCHANGED <<options, input, op, block, calls, cancelled, result>>
             /\ pc # "idle" /\ pc' # "idle" /\ pc' # "prefilter" /\ pc # "report" /\ ~cancelled
    BY <1>3 DEF PassOver, Evaluated, Looking, Prune, AddTexts, Conclude, Decide
<1>4. ASSUME NEW r \in RuleIds, NEW p \in PatternsOf(r), AddString(r, p)
      PROVE  /\ UNCHANGED <<options, input, op, block, calls, cancelled, result>>
             /\ pc # "idle" /\ pc' # "idle" /\ pc' # "prefilter" /\ pc # "report" /\ ~cancelled
    BY <1>4 DEF AddString
<1> QED BY <1>1, <1>2, <1>3, <1>4 DEF Work

LEMMA FrameStep == FrameInv /\ [Next]_vars => FrameInv'
<1> SUFFICES ASSUME FrameInv, [Next]_vars PROVE FrameInv'
    OBVIOUS
<1> USE DEF FrameInv, call, matching, ruling
<1>1. CASE Start
    BY <1>1 DEF Start
<1>2. CASE Cancel \/ UNCHANGED vars
    BY <1>2 DEF Cancel, vars
<1>3. CASE Broken
    <2>1. /\ pc' = "idle" /\ block' = [on |-> FALSE, base |-> 0, size |-> 0]
          /\ UNCHANGED <<options, input, op, calls, cancelled>>
        <3>1. CASE Abort
            BY <3>1 DEF Abort, ResetBlockScan, NoBlock
        <3>2. ASSUME NEW r \in RuleIds, ConditionFails(r)
              PROVE  /\ pc' = "idle" /\ block' = [on |-> FALSE, base |-> 0, size |-> 0]
                     /\ UNCHANGED <<options, input, op, calls, cancelled>>
            BY <3>2 DEF ConditionFails, ResetBlockScan, NoBlock
        <3> QED BY <1>3, <3>1, <3>2 DEF Broken
    <2> QED BY <2>1
<1>4. CASE Report
    BY <1>4 DEF Report, NoBlock
<1>5. CASE Work
    BY <1>5, WorkGoesOn
<1> QED BY <1>1, <1>2, <1>3, <1>4, <1>5, KindsOfStep

\* The facts of a call do not change while it runs.
LEMMA SameCall ==
    ASSUME UNCHANGED <<input, op>>
    PROVE  M' = M /\ Facts' = Facts /\ TextFound' = TextFound /\ (\A k : Found(k)' = Found(k))
BY DEF M, Facts, TextFound, Found

\* What the conditions read is what the input has.
LEMMA ReadsInput ==
    ASSUME FrameInv, pc # "idle"
    PROVE  /\ Readable(input, Origin) = Facts.readable
           /\ (IF block.on THEN block.size ELSE input.length) = Facts.size
BY DEF FrameInv, Origin, Facts, FactsOf

LEMMA HeaderIsRead ==
    ASSUME FrameInv, HeadersKnown, pc # "idle", NEW r \in RuleIds
    PROVE  HeaderHolds(r) <=> {Rule[r].headerEnd} \ {0} \subseteq Facts.readable
<1>1. Rule[r].headerEnd \in DOMAIN asserts
    BY DEF HeadersKnown, NoAsserts
<1>2. Readable(input, Origin) = Facts.readable
    BY ReadsInput
<1> QED BY <1>1, <1>2 DEF HeadersKnown, HeaderHolds

LEMMA HeadersStep == FrameInv /\ HeadersKnown /\ [Next]_vars => HeadersKnown'
<1> SUFFICES ASSUME FrameInv, HeadersKnown, [Next]_vars PROVE HeadersKnown'
    OBVIOUS
<1> USE DEF call, matching, ruling
<1>1. CASE Start
    BY <1>1 DEF Start, HeadersKnown, NoAsserts
<1>2. ASSUME UNCHANGED <<asserts, input, op>>, pc' # "idle" => pc # "idle" PROVE HeadersKnown'
    BY <1>2, SameCall DEF HeadersKnown, NoAsserts
<1>3. CASE Cancel \/ Broken \/ Report \/ UNCHANGED vars
    BY <1>2, <1>3 DEF Cancel, Broken, Abort, ConditionFails, Report, vars
<1>4. ASSUME NEW r \in RuleIds, NoteHeader(r), UNCHANGED <<input, op>>, pc # "idle"
      PROVE  HeadersKnown'
    <2>1. HeaderHolds(r) <=> {Rule[r].headerEnd} \ {0} \subseteq Facts.readable
        BY <1>4, HeaderIsRead
    <2>2. Facts' = Facts
        BY <1>4, SameCall
    <2>3. asserts' = [asserts EXCEPT ![Rule[r].headerEnd] = IF HeaderHolds(r) THEN "true" ELSE "false"]
        BY <1>4 DEF NoteHeader
    <2> HIDE DEF HeaderHolds
    <2> QED BY <1>4, <2>1, <2>2, <2>3 DEF HeadersKnown, NoAsserts
<1>5. CASE Work
    <2>0. UNCHANGED <<input, op>> /\ pc # "idle" /\ pc' # "idle"
        BY <1>5, WorkGoesOn
    <2>1. CASE UNCHANGED asserts
        BY <1>2, <2>0, <2>1
    <2>2. CASE \E r \in RuleIds : NoteHeader(r)
        BY <1>4, <2>0, <2>2
    <2>3. UNCHANGED asserts \/ \E r \in RuleIds : NoteHeader(r)
        <3>1. CASE Matching \/ RulesDone
            BY <3>1 DEF Matching, RejectCompact, PreparePatternScan, FixedRegexes,
                SharedSearch, VerifyEntry, VerifyDone, SelectRules, RulesDone
        <3>2. ASSUME NEW r \in RuleIds, PassOver(r) \/ Prune(r) \/ AddTexts(r) \/ Conclude(r)
              PROVE  UNCHANGED asserts \/ NoteHeader(r)
            BY <3>2 DEF PassOver, Prune, AddTexts, Conclude
        <3>3. ASSUME NEW r \in RuleIds, NEW p \in PatternsOf(r), AddString(r, p)
              PROVE  UNCHANGED asserts
            BY <3>3 DEF AddString
        <3> QED BY <1>5, <3>1, <3>2, <3>3 DEF Work
    <2> QED BY <2>1, <2>2, <2>3
<1> QED BY <1>1, <1>3, <1>5, KindsOfStep

---------------------------------------------------------------------------
(* The cache. *)

LEMMA KeysOfLookup ==
    /\ \A i \in DOMAIN Lookup : KeyOf(i) \in Keys /\ KeyOf(i) \in Covered
    /\ Covered \subseteq Keys /\ Covered \cap FixedRegex = {} /\ FixedRegex \subseteq Keys
    /\ DOMAIN Lookup = 1 .. Len(Lookup) /\ Len(Lookup) \in Nat
    /\ \A p \in Patterns : Pattern[p].key \in Keys
BY BufferAssumption DEF KeyOf, Covered, Keys

LEMMA FixedKeysAre == FixedKeys \subseteq FixedRegex
BY DEF FixedKeys

LEMMA SlotsListedStep ==
    DispatchUncancelled /\ FrameInv /\ SlotsListed /\ VerifyInv /\ [Next]_vars => SlotsListed'
<1> SUFFICES ASSUME DispatchUncancelled, FrameInv, SlotsListed, VerifyInv, [Next]_vars
              PROVE  SlotsListed'
    OBVIOUS
<1> USE DEF call, matching, ruling
<1>1. CASE UNCHANGED nonText
    BY <1>1 DEF SlotsListed
<1>2. CASE Broken
    <2>1. CASE pc = "fixed" /\ input.dense
        <3>1. cancelled /\ nonText' \in PartOfFixed
            BY <1>2, <2>1 DEF Broken, Abort, ConditionFails
        <3>2. FixedKeys = {}
            BY <3>1 DEF FrameInv, DispatchUncancelled, FixedKeys
        <3>3. PICK n \in 0 .. input.length : nonText' =
                [nonText EXCEPT !.at = [k \in Keys |->
                    @[k] \cup {a \in (IF k \in FixedKeys THEN Occurrences(input, k) ELSE {}) :
                                   a < n}]]
            BY <3>1 DEF PartOfFixed
        <3>4. /\ nonText'.ready = nonText.ready /\ nonText'.touched = nonText.touched
              /\ DOMAIN nonText' = DOMAIN nonText
            BY <3>3
        <3>5. DOMAIN nonText'.at = Keys /\ \A k \in Keys : nonText'.at[k] = nonText.at[k]
            <4> DEFINE part(k) ==
                        {a \in (IF k \in FixedKeys THEN Occurrences(input, k) ELSE {}) : a < n}
            <4>1. \A k : part(k) = {}
                BY <3>2
            <4> HIDE DEF part
            <4> DEFINE slots == [k \in Keys |-> nonText.at[k] \cup part(k)]
            <4>2. nonText' = [nonText EXCEPT !.at = slots]
                BY <3>3 DEF part
            <4>3. slots = [k \in Keys |-> nonText.at[k]]
                BY <4>1
            <4> HIDE DEF slots
            <4>4. nonText'.at = slots
                BY <4>2 DEF SlotsListed
            <4> QED BY <4>3, <4>4
        <3> QED BY <3>4, <3>5 DEF SlotsListed
    <2> QED BY <1>1, <1>2, <2>1 DEF Broken, Abort, ConditionFails
<1>3. ASSUME NEW k \in Keys, NEW offsets, nonText' = CacheSet(k, offsets) PROVE SlotsListed'
    BY <1>3 DEF CacheSet, SlotsListed
<1>4. CASE PreparePatternScan
    BY <1>4 DEF PreparePatternScan, ResetCache, SlotsListed
<1>5. CASE FixedRegexes
    <2>1. CASE ~input.dense
        BY <1>1, <1>5, <2>1 DEF FixedRegexes
    <2>2. CASE input.dense
        BY <1>5, <2>2, FixedKeysAre, KeysOfLookup DEF FixedRegexes, SlotsListed
    <2> QED BY <2>1, <2>2
<1>6. CASE VerifyEntry
    <2>1. at \in DOMAIN Lookup /\ KeyOf(at) \in Keys
        BY <1>6, KeysOfLookup DEF VerifyEntry, VerifyInv
    <2>2. \/ UNCHANGED nonText
          \/ \E offsets : nonText' = CacheSet(KeyOf(at), offsets)
        BY <1>6 DEF VerifyEntry
    <2> QED BY <1>1, <1>3, <2>1, <2>2
<1>7. ASSUME NEW r \in RuleIds, NEW p \in PatternsOf(r), AddString(r, p) PROVE SlotsListed'
    <2>1. Pattern[p].key \in Keys
        BY KeysOfLookup, StringsOfRule
    <2>2. \/ UNCHANGED nonText
          \/ \E offsets : nonText' = CacheSet(Pattern[p].key, offsets)
        BY <1>7 DEF AddString
    <2> QED BY <1>1, <1>3, <2>1, <2>2
<1>8. CASE Start \/ Cancel \/ Report \/ UNCHANGED vars \/ RulesDone
    BY <1>1, <1>8 DEF Start, Cancel, Report, vars, RulesDone
<1>9. CASE RejectCompact \/ SharedSearch \/ VerifyDone \/ SelectRules
    BY <1>1, <1>9 DEF RejectCompact, SharedSearch, VerifyDone, SelectRules
<1>10. ASSUME NEW r \in RuleIds, PassOver(r) \/ Prune(r) \/ AddTexts(r) \/ Conclude(r)
       PROVE  UNCHANGED nonText
    BY <1>10 DEF PassOver, Prune, AddTexts, Conclude, Decide
<1>11. CASE Work
    BY <1>1, <1>4, <1>5, <1>6, <1>7, <1>8, <1>9, <1>10, <1>11 DEF Work, Matching
<1> QED BY <1>2, <1>8, <1>11, KindsOfStep

\* What the fixed-offset dispatch found is all there is, in the slots it filled.
LEMMA FixedFills ==
    ASSUME SlotsListed, BeforeInv, FixedRegexes
    PROVE  /\ nonText'.ready \subseteq FixedRegex
           /\ \A k \in Keys : nonText'.at[k] = IF k \in nonText'.ready THEN Found(k) ELSE {}
<1>1. nonText.ready = {} /\ \A k \in Keys : nonText.at[k] = {}
    BY DEF FixedRegexes, BeforeInv
<1>2. CASE input.dense
    <2>1. nonText'.ready = FixedKeys
        BY <1>1, <1>2 DEF FixedRegexes
    <2>2. nonText'.at = [k \in Keys |-> IF k \in FixedKeys
                                        THEN nonText.at[k] \cup Occurrences(input, k)
                                        ELSE nonText.at[k]]
        BY <1>2 DEF FixedRegexes
    <2> QED BY <1>1, <2>1, <2>2, FixedKeysAre DEF Found
<1>3. CASE ~input.dense
    BY <1>1, <1>3 DEF FixedRegexes
<1> QED BY <1>2, <1>3

LEMMA BeforeStep == FrameInv /\ SlotsListed /\ BeforeInv /\ [Next]_vars => BeforeInv'
<1> SUFFICES ASSUME FrameInv, SlotsListed, BeforeInv, [Next]_vars PROVE BeforeInv'
    OBVIOUS
<1> USE DEF call, matching, ruling
<1>1. CASE Start
    BY <1>1 DEF Start, BeforeInv
<1>2. CASE Cancel \/ UNCHANGED vars
    <2>1. UNCHANGED <<pc, nonText, globals, dense, input, op>>
        BY <1>2 DEF Cancel, vars
    <2>2. \A k : Found(k)' = Found(k)
        BY <2>1, SameCall
    <2> QED BY <2>1, <2>2 DEF BeforeInv
<1>3. CASE Broken \/ Report
    BY <1>3 DEF Broken, Abort, ConditionFails, Report, BeforeInv
<1>4. CASE PreparePatternScan
    <2>1. nonText'.ready = {} /\ \A k \in Keys : nonText'.at[k] = {}
        BY <1>4 DEF PreparePatternScan, ResetCache, SlotsListed
    <2> QED BY <1>4, <2>1 DEF PreparePatternScan, BeforeInv
<1>5. CASE FixedRegexes
    <2>1. UNCHANGED <<globals, dense, input, op>> /\ pc = "fixed"
          /\ pc' = IF input.sparse THEN "search" ELSE "select"
        BY <1>5 DEF FixedRegexes
    <2>2. \A k : Found(k)' = Found(k)
        BY <2>1, SameCall
    <2> QED BY <1>5, <2>1, <2>2, FixedFills DEF BeforeInv
<1>6. CASE SharedSearch \/ VerifyEntry \/ VerifyDone
    BY <1>6 DEF SharedSearch, VerifyEntry, VerifyDone, BeforeInv
<1>7. CASE RejectCompact \/ SelectRules \/ RulesDone
    BY <1>7 DEF RejectCompact, SelectRules, RulesDone, BeforeInv
<1>8. ASSUME NEW r \in RuleIds, PassOver(r) \/ Prune(r) \/ AddTexts(r) \/ Conclude(r)
      PROVE  BeforeInv'
    BY <1>8 DEF PassOver, Looking, Prune, Evaluated, AddTexts, Conclude, Decide, BeforeInv
<1>9. ASSUME NEW r \in RuleIds, NEW p \in PatternsOf(r), AddString(r, p) PROVE BeforeInv'
    BY <1>9 DEF AddString, BeforeInv
<1>10. CASE Work
    BY <1>4, <1>5, <1>6, <1>7, <1>8, <1>9, <1>10 DEF Work, Matching
<1> QED BY <1>1, <1>2, <1>3, <1>10, KindsOfStep

---------------------------------------------------------------------------
(* The shared search. *)

\* The shared search finds every occurrence of a text string.
LEMMA TextHitsAreAll ==
    ASSUME texts = TextFound, NEW p \in Patterns, IsText(p)
    PROVE  /\ TextHits(p) = {h \in input.hits : h.key = Pattern[p].key}
           /\ Offsets(TextHits(p)) = Found(Pattern[p].key)
BY DEF TextHits, TextFound, Found, Occurrences

LEMMA OffsetsJoin ==
    ASSUME NEW A, NEW B
    PROVE  Offsets(A \cup B) = Offsets(A) \cup Offsets(B) /\ Offsets({}) = {}
BY DEF Offsets

\* A hit of a covered key has an entry of its encoding.
LEMMA EncodingHasEntry ==
    ASSUME input \in Inputs, NEW h \in input.hits, NEW j \in DOMAIN Lookup, KeyOf(j) = h.key
    PROVE  \E e \in DOMAIN Lookup : KeyOf(e) = h.key /\ Lookup[e].wide = h.wide
BY BufferAssumption DEF KeyOf

\* Each hit of a covered key has been passed when all entries have, or when the one entry
\* of a required key has.
LEMMA PassedAtEnd ==
    ASSUME input \in Inputs, at > Len(Lookup), at \in Nat, NEW k \in Covered
    PROVE  Offsets(Passed(k)) = Found(k)
<1>1. PICK i \in DOMAIN Lookup : KeyOf(i) = k
    BY DEF Covered
<1>2. ASSUME NEW h \in input.hits, h.key = k PROVE h \in Passed(k)
    <2>1. PICK e \in DOMAIN Lookup : KeyOf(e) = k /\ Lookup[e].wide = h.wide
        BY <1>1, <1>2, EncodingHasEntry
    <2>2. e \in 1 .. Len(Lookup) /\ Len(Lookup) \in Nat
        BY KeysOfLookup
    <2>3. e \in 1 .. (at - 1)
        BY <2>2
    <2> QED BY <1>2, <2>1, <2>3 DEF Passed
<1>3. Passed(k) = {h \in input.hits : h.key = k}
    BY <1>2 DEF Passed
<1> QED BY <1>3 DEF Found, Occurrences

LEMMA RequiredIsPassed ==
    ASSUME OneEntryIfRequired, input \in Inputs, at \in 1 .. (Len(Lookup) + 1),
           NEW r \in RuleIds, NEW p \in RequiredStrings(r),
           NEW j \in 1 .. (at - 1), KeyOf(j) = Pattern[p].key
    PROVE  Offsets(Passed(Pattern[p].key)) = Found(Pattern[p].key)
<1> DEFINE k == Pattern[p].key
<1>1. j \in DOMAIN Lookup
    BY KeysOfLookup
<1>2. ASSUME NEW h \in input.hits, h.key = k PROVE h \in Passed(k)
    <2>1. PICK e \in DOMAIN Lookup : KeyOf(e) = k /\ Lookup[e].wide = h.wide
        BY <1>1, <1>2, BufferAssumption DEF KeyOf
    <2>2. e = j
        BY <1>1, <2>1 DEF OneEntryIfRequired
    <2> QED BY <1>2, <2>1, <2>2 DEF Passed
<1>3. Passed(k) = {h \in input.hits : h.key = k}
    BY <1>2 DEF Passed
<1> QED BY <1>3 DEF Found, Occurrences

LEMMA RuleHasKey ==
    ASSUME NEW r \in RuleIds, NEW p \in PatternsOf(r)
    PROVE  r \in RulesOfKey(Pattern[p].key)
BY DEF RulesOfKey, PatternsOf

\* A rule that is rejected before its regexes are verified does not match.
LEMMA RejectionIsSound ==
    ASSUME OneEntryIfRequired, FrameInv, VerifyInv, pc = "verify", NEW r \in RuleIds,
           RejectedBeforeNonText(r)
    PROVE  ~M[r]
<1>0. input \in Inputs
    BY DEF FrameInv
<1>1. ASSUME NEW p \in RequiredStrings(r),
             IF IsText(p) THEN TextHits(p) = {}
             ELSE Pattern[p].key \in nonText.ready /\ nonText.at[Pattern[p].key] = {}
      PROVE  ~M[r]
    <2> DEFINE k == Pattern[p].key
    <2>0. p \in PatternsOf(r) /\ p \in Patterns /\ k \in Keys
        BY StringsOfRule, KeysOfLookup
    <2>1. CASE IsText(p)
        <3>1. Found(k) = {}
            BY <1>1, <2>0, <2>1, TextHitsAreAll, OffsetsJoin DEF VerifyInv
        <3> QED BY <1>0, <3>1, BoundsAreSound DEF M, Found
    <2>2. CASE ~IsText(p) /\ k \notin Covered
        <3>1. Found(k) = {}
            BY <1>1, <2>0, <2>2 DEF VerifyInv
        <3> QED BY <1>0, <3>1, BoundsAreSound DEF M, Found
    <2>3. CASE ~IsText(p) /\ k \in Covered
        <3>1. k \in nonText.ready /\ nonText.at[k] = {}
            BY <1>1, <2>3
        <3>2. PICK j \in 1 .. (at - 1) : KeyOf(j) = k
            BY <2>3, <3>1 DEF VerifyInv
        <3>3. Offsets(Passed(k)) = Found(k)
            BY <1>0, <3>2, RequiredIsPassed DEF VerifyInv
        <3>4. Found(k) = {} \/ Skipped(k)
            BY <2>3, <3>1, <3>3 DEF VerifyInv
        <3>5. Skipped(k) => ~M[r]
            BY <2>0, RuleHasKey DEF Skipped
        <3> QED BY <1>0, <3>4, <3>5, BoundsAreSound DEF M, Found
    <2> QED BY <2>1, <2>2, <2>3
<1>2. ASSUME NEW p \in ForbiddenStrings(r), IsText(p), Offsets(TextHits(p)) # {}
      PROVE  ~M[r]
    <2>1. Found(Pattern[p].key) # {}
        BY <1>2, StringsOfRule, TextHitsAreAll DEF VerifyInv
    <2> QED BY <1>0, <2>1, BoundsAreSound DEF M, Found
<1> QED BY <1>1, <1>2 DEF RejectedBeforeNonText

\* Where only slots that nobody could read change, a rejected rule stays rejected.
LEMMA RejectionStays ==
    ASSUME NEW r \in RuleIds, RejectedBeforeNonText(r), UNCHANGED texts,
           \A p \in RequiredStrings(r) :
               Pattern[p].key \in nonText.ready =>
                   /\ Pattern[p].key \in nonText'.ready
                   /\ nonText.at[Pattern[p].key] = {} => nonText'.at[Pattern[p].key] = {}
    PROVE  RejectedBeforeNonText(r)'
BY DEF RejectedBeforeNonText, TextHits

LEMMA EntryTakesSlot ==
    ASSUME SlotsListed, VerifyInv, VerifyEntry
    PROVE  /\ at \in DOMAIN Lookup /\ KeyOf(at) \in Covered /\ KeyOf(at) \in Keys
           /\ nonText.ready \subseteq nonText'.ready
           /\ \A k \in Keys : k # KeyOf(at) => /\ nonText'.at[k] = nonText.at[k]
                                               /\ k \in nonText'.ready => k \in nonText.ready
<1>1. at \in DOMAIN Lookup /\ KeyOf(at) \in Covered /\ KeyOf(at) \in Keys
    BY KeysOfLookup DEF VerifyEntry, VerifyInv
<1>2. \/ UNCHANGED nonText
      \/ \E offsets : nonText' = CacheSet(KeyOf(at), offsets)
    BY DEF VerifyEntry
<1>3. CASE UNCHANGED nonText
    BY <1>1, <1>3
<1>4. ASSUME NEW offsets, nonText' = CacheSet(KeyOf(at), offsets)
      PROVE  /\ nonText.ready \subseteq nonText'.ready
             /\ \A k \in Keys : k # KeyOf(at) => /\ nonText'.at[k] = nonText.at[k]
                                                 /\ k \in nonText'.ready => k \in nonText.ready
    BY <1>1, <1>4 DEF CacheSet, SlotsListed
<1> QED BY <1>1, <1>2, <1>3, <1>4

LEMMA EntryKeepsRejections ==
    ASSUME OneEntryIfRequired, SlotsListed, VerifyInv, VerifyEntry, NEW r \in RuleIds,
           RejectedBeforeNonText(r)
    PROVE  RejectedBeforeNonText(r)'
<1>0. pc = "verify" /\ UNCHANGED texts
    BY DEF VerifyEntry
<1>1. ASSUME NEW p \in RequiredStrings(r), Pattern[p].key \in nonText.ready
      PROVE  /\ Pattern[p].key \in nonText'.ready
             /\ nonText'.at[Pattern[p].key] = nonText.at[Pattern[p].key]
    <2>1. Pattern[p].key \in Keys
        BY StringsOfRule, KeysOfLookup
    <2>2. Pattern[p].key # KeyOf(at)
        <3> SUFFICES ASSUME Pattern[p].key = KeyOf(at) PROVE FALSE
            OBVIOUS
        <3>1. PICK j \in 1 .. (at - 1) : KeyOf(j) = KeyOf(at)
            BY <1>0, <1>1, EntryTakesSlot DEF VerifyInv
        <3>2. at \in DOMAIN Lookup /\ j \in DOMAIN Lookup /\ j # at
            BY <1>0, EntryTakesSlot, KeysOfLookup DEF VerifyInv
        <3> QED BY <3>1, <3>2 DEF OneEntryIfRequired
    <2> QED BY <1>1, <2>1, <2>2, EntryTakesSlot
<1>2. \A p \in RequiredStrings(r) :
          Pattern[p].key \in nonText.ready =>
              /\ Pattern[p].key \in nonText'.ready
              /\ nonText.at[Pattern[p].key] = {} => nonText'.at[Pattern[p].key] = {}
    BY <1>1
<1> QED BY <1>0, <1>2, RejectionStays

\* A skipped slot is still skipped while nothing it rests on changes.
LEMMA SkippedStays ==
    ASSUME UNCHANGED <<options, input, op>>, NEW k, Skipped(k), nonText'.at[k] = {},
           \A r \in RuleIds : RejectedBeforeNonText(r) => RejectedBeforeNonText(r)'
    PROVE  Skipped(k)'
<1>1. M' = M /\ RulesOfKey(k)' = RulesOfKey(k)
    BY SameCall DEF RulesOfKey
<1>2. RulesOfKey(k) \subseteq RuleIds
    BY BufferAssumption DEF RulesOfKey
<1> HIDE DEF M, RulesOfKey
<1> QED BY <1>1, <1>2 DEF Skipped, SkipsUnmatched

LEMMA ReadsTheCache ==
    ASSUME UNCHANGED <<nonText, texts>>, NEW r
    PROVE  RejectedBeforeNonText(r)' = RejectedBeforeNonText(r)
BY DEF RejectedBeforeNonText, TextHits

\* The one rule of a skipped entry cannot match.
LEMMA SkipIsSound ==
    ASSUME OneEntryIfRequired, FrameInv, BeforeInv, VerifyInv, SlotsListed, VerifyEntry,
           Touched(at), CanSkipEntry(at), NEW k, k = KeyOf(at)
    PROVE  nonText'.at[k] = {} /\ Skipped(k)' /\ k \in nonText'.ready
<1>1. k \in Keys /\ at \in DOMAIN Lookup /\ pc = "verify" /\ UNCHANGED <<options, input, op>>
    BY EntryTakesSlot DEF VerifyEntry, call
<1>2. nonText' = CacheSet(k, {})
    BY DEF VerifyEntry
<1>3. nonText'.at[k] = {} /\ k \in nonText'.ready
    BY <1>1, <1>2 DEF CacheSet, SlotsListed
<1>4. PICK r : r = Pattern[Lookup[at].owner].rule
    OBVIOUS
<1>5. r \in RulesOfKey(k) /\ r \in RuleIds
    BY <1>1, <1>4, BufferAssumption DEF RulesOfKey, KeyOf
<1>6. Cardinality(RulesOfKey(k)) = 1 /\ RejectedBeforeNonText(r)
    BY <1>4 DEF CanSkipEntry
<1>7. \A q \in RulesOfKey(k) : q = r
    <2> DEFINE R == RulesOfKey(k)
    <2>1. R \subseteq RuleIds
        BY BufferAssumption DEF RulesOfKey
    <2>2. IsFiniteSet(R)
        BY <2>1, FS_Interval, FS_Subset, RuleSetAssumption DEF RuleIds
    <2> HIDE DEF R
    <2>3. \E x : R = {x}
        BY <1>6, <2>2, FS_Singleton DEF R
    <2> QED BY <1>5, <2>3 DEF R
<1>8. ~M[r]
    BY <1>1, <1>5, <1>6, RejectionIsSound
<1>9. RejectedBeforeNonText(r)'
    BY <1>5, <1>6, EntryKeepsRejections
<1>10. options.prefilter /\ SkipsUnmatched /\ ~options.profiled /\ input.sparse
    BY <1>1 DEF BeforeInv, CanSkipEntry
<1>11. M' = M /\ RulesOfKey(k)' = RulesOfKey(k)
    BY <1>1, SameCall DEF RulesOfKey
<1>12. options'.prefilter /\ SkipsUnmatched' /\ ~options'.profiled /\ input'.sparse
    BY <1>1, <1>10 DEF SkipsUnmatched
<1> HIDE DEF M, RulesOfKey
<1> QED BY <1>3, <1>6, <1>7, <1>8, <1>9, <1>11, <1>12 DEF Skipped

\* An entry that is verified adds the occurrences of its encoding.
LEMMA VerifyAdds ==
    ASSUME FrameInv, SlotsListed, VerifyInv, VerifyEntry, NEW k, k = KeyOf(at),
           ~Skipped(k), ~Touched(at) \/ ~CanSkipEntry(at)
    PROVE  /\ nonText'.at[k] = Offsets(Passed(k)')
           /\ k \notin nonText'.ready => Passed(k)' = {}
<1>1. /\ k \in Keys /\ k \in Covered /\ at \in DOMAIN Lookup /\ pc = "verify"
      /\ UNCHANGED input /\ at' = at + 1 /\ at \in 1 .. Len(Lookup)
    BY EntryTakesSlot, KeysOfLookup DEF VerifyEntry, call, VerifyInv
<1> DEFINE new == HitsOf(input, k, Lookup[at].wide)
<1>2. Passed(k)' = Passed(k) \cup new
    <2>1. 1 .. (at' - 1) = (1 .. (at - 1)) \cup {at}
        BY <1>1
    <2>2. Passed(k)' = {h \in input.hits : h.key = k /\
                           \E j \in 1 .. (at' - 1) : KeyOf(j) = k /\ Lookup[j].wide = h.wide}
        BY <1>1 DEF Passed, KeyOf
    <2> QED BY <1>1, <2>1, <2>2 DEF Passed, HitsOf
<1>3. nonText.at[k] = Offsets(Passed(k))
    BY <1>1, OffsetsJoin DEF VerifyInv
<1>4. CASE ~Touched(at)
    <2>1. new = {} /\ UNCHANGED nonText
        BY <1>4 DEF Touched, VerifyEntry
    <2> QED BY <1>1, <1>2, <1>3, <2>1 DEF VerifyInv
<1>5. CASE Touched(at) /\ ~CanSkipEntry(at)
    <2>1. nonText' = CacheSet(k, nonText.at[k] \cup Offsets(new))
        BY <1>5 DEF VerifyEntry
    <2>2. nonText'.at[k] = nonText.at[k] \cup Offsets(new) /\ k \in nonText'.ready
        BY <1>1, <2>1 DEF CacheSet, SlotsListed
    <2> HIDE DEF new
    <2> QED BY <1>2, <1>3, <2>2, OffsetsJoin
<1> QED BY <1>4, <1>5

\* Once an entry of a key is skipped all are.
LEMMA SkippedAgain ==
    ASSUME SlotsListed, VerifyInv, VerifyEntry, Skipped(KeyOf(at))
    PROVE  CanSkipEntry(at)
<1>1. at \in DOMAIN Lookup
    BY EntryTakesSlot
<1>2. Pattern[Lookup[at].owner].rule \in RulesOfKey(KeyOf(at))
    BY <1>1, BufferAssumption DEF RulesOfKey, KeyOf
<1> QED BY <1>2 DEF Skipped, CanSkipEntry

LEMMA SearchBeginsVerify ==
    ASSUME BeforeInv, SharedSearch
    PROVE  VerifyInv'
<1>1. /\ at' = 1 /\ texts' = TextFound /\ UNCHANGED <<nonText, input, op>> /\ pc = "search"
    BY DEF SharedSearch, call, TextFound
<1>2. TextFound' = TextFound /\ \A k : Found(k)' = Found(k)
    BY <1>1, SameCall
<1>3. \A k \in Keys : nonText.at[k] = IF k \in nonText.ready THEN Found(k) ELSE {}
    BY <1>1 DEF BeforeInv
<1>4. \A k \in Covered : k \notin nonText.ready
    BY <1>1, KeysOfLookup DEF BeforeInv
<1>5. \A k : Passed(k)' = {}
    BY <1>1 DEF Passed
<1>6. Covered' = Covered /\ Keys' = Keys
    BY DEF Covered, Keys, KeyOf
<1> HIDE DEF Covered, Keys, TextFound, Found
<1>7. at' \in 1 .. (Len(Lookup) + 1)
    BY <1>1, KeysOfLookup
<1>8. \A k \in Covered : k \in Keys
    BY KeysOfLookup
<1>9. \A k \in Keys \ Covered : nonText'.at[k] = IF k \in nonText'.ready THEN Found(k)' ELSE {}
    BY <1>1, <1>2, <1>3
<1>10. \A k \in Covered : k \notin nonText'.ready /\ nonText'.at[k] = {} /\ Passed(k)' = {}
    BY <1>1, <1>3, <1>4, <1>5, <1>8
<1> QED BY <1>1, <1>2, <1>6, <1>7, <1>9, <1>10 DEF VerifyInv

\* What holds of a covered key.
SlotSoFar(k) ==
    /\ k \notin nonText.ready => nonText.at[k] = {} /\ Passed(k) = {}
    /\ k \in nonText.ready =>
          /\ \E j \in 1 .. (at - 1) : KeyOf(j) = k
          /\ nonText.at[k] = Offsets(Passed(k)) \/ Skipped(k)

LEMMA EntryKeepsSlots ==
    ASSUME OneEntryIfRequired, FrameInv, BeforeInv, VerifyInv, SlotsListed, VerifyEntry,
           NEW k \in Covered
    PROVE  SlotSoFar(k)'
<1>1. /\ k \in Keys /\ at \in DOMAIN Lookup /\ pc = "verify" /\ at' = at + 1 /\ at \in 1 .. Len(Lookup)
      /\ UNCHANGED <<options, input, op, texts>> /\ SlotSoFar(k)
    BY EntryTakesSlot, KeysOfLookup DEF VerifyEntry, call, VerifyInv, SlotSoFar
<1>2. (\E j \in 1 .. (at - 1) : KeyOf(j) = k) => \E j \in 1 .. (at' - 1) : KeyOf(j) = k
    BY <1>1
<1>3. \A r \in RuleIds : RejectedBeforeNonText(r) => RejectedBeforeNonText(r)'
    BY EntryKeepsRejections
<1>4. CASE k # KeyOf(at)
    <2>1. nonText'.at[k] = nonText.at[k] /\ (k \in nonText'.ready <=> k \in nonText.ready)
        BY <1>1, <1>4, EntryTakesSlot
    <2>2. Passed(k)' = Passed(k)
        <3>1. 1 .. (at' - 1) = (1 .. (at - 1)) \cup {at}
            BY <1>1
        <3>2. Passed(k)' = {h \in input.hits : h.key = k /\
                               \E j \in 1 .. (at' - 1) : KeyOf(j) = k /\ Lookup[j].wide = h.wide}
            BY <1>1 DEF Passed, KeyOf
        <3> QED BY <1>1, <1>4, <3>1, <3>2 DEF Passed
    <2>3. Skipped(k) => Skipped(k)'
        <3> SUFFICES ASSUME Skipped(k) PROVE Skipped(k)'
            OBVIOUS
        <3>1. nonText'.at[k] = {}
            BY <2>1 DEF Skipped
        <3> QED BY <1>1, <1>3, <3>1, SkippedStays
    <2>4. Offsets(Passed(k))' = Offsets(Passed(k))
        BY <2>2 DEF Offsets
    <2>5. k \in nonText'.ready => \E j \in 1 .. (at' - 1) : KeyOf(j)' = k
        BY <1>1, <1>2, <2>1 DEF SlotSoFar, KeyOf
    <2> QED BY <1>1, <2>1, <2>2, <2>3, <2>4, <2>5 DEF SlotSoFar
<1>5. CASE k = KeyOf(at)
    <2>1. \E j \in 1 .. (at' - 1) : KeyOf(j)' = k
        BY <1>1, <1>5 DEF KeyOf
    <2>2. CASE Touched(at) /\ CanSkipEntry(at)
        BY <1>5, <2>1, <2>2, SkipIsSound DEF SlotSoFar
    <2>3. CASE ~Touched(at) /\ Skipped(k)
        <3>1. UNCHANGED nonText
            BY <2>3 DEF VerifyEntry
        <3>2. nonText'.at[k] = {}
            BY <2>3, <3>1 DEF Skipped
        <3>3. Skipped(k)'
            BY <1>1, <1>3, <2>3, <3>2, SkippedStays
        <3>4. k \notin nonText'.ready => Passed(k)' = {}
            <4>1. HitsOf(input, k, Lookup[at].wide) = {}
                BY <1>5, <2>3 DEF Touched
            <4>2. 1 .. (at' - 1) = (1 .. (at - 1)) \cup {at}
                BY <1>1
            <4>3. Passed(k)' = {h \in input.hits : h.key = k /\
                                   \E j \in 1 .. (at' - 1) : KeyOf(j) = k /\ Lookup[j].wide = h.wide}
                BY <1>1 DEF Passed, KeyOf
            <4>4. Passed(k)' = Passed(k)
                BY <4>1, <4>2, <4>3 DEF Passed, HitsOf
            <4> QED BY <1>1, <3>1, <4>4 DEF SlotSoFar
        <3> QED BY <2>1, <3>2, <3>3, <3>4 DEF SlotSoFar
    <2>4. CASE ~Skipped(k) /\ (~Touched(at) \/ ~CanSkipEntry(at))
        <3>1. nonText'.at[k] = Offsets(Passed(k)') /\ (k \notin nonText'.ready => Passed(k)' = {})
            BY <1>5, <2>4, VerifyAdds
        <3>2. Offsets(Passed(k)') = Offsets(Passed(k))'
            BY DEF Offsets
        <3>3. k \notin nonText'.ready => nonText'.at[k] = {}
            BY <3>1, OffsetsJoin
        <3> QED BY <2>1, <3>1, <3>2, <3>3 DEF SlotSoFar
    <2>5. Skipped(k) => CanSkipEntry(at)
        BY <1>5, SkippedAgain
    <2> QED BY <2>2, <2>3, <2>4, <2>5
<1> QED BY <1>4, <1>5

LEMMA VerifyStep ==
    OneEntryIfRequired /\ FrameInv /\ SlotsListed /\ BeforeInv /\ VerifyInv /\ [Next]_vars
        => VerifyInv'
<1> SUFFICES ASSUME OneEntryIfRequired, FrameInv, SlotsListed, BeforeInv, VerifyInv, [Next]_vars
             PROVE  VerifyInv'
    OBVIOUS
<1> USE DEF call, matching, ruling
<1>1. CASE pc' # "verify"
    BY <1>1 DEF VerifyInv
<1>2. CASE SharedSearch
    BY <1>2, SearchBeginsVerify
<1>3. CASE VerifyEntry
    <2>1. /\ pc = "verify" /\ at' = at + 1 /\ at \in 1 .. Len(Lookup) /\ Len(Lookup) \in Nat
          /\ UNCHANGED <<input, op, texts>>
        BY <1>3, EntryTakesSlot, KeysOfLookup DEF VerifyEntry
    <2>2. \A k \in Covered : SlotSoFar(k)'
        BY <1>3, EntryKeepsSlots
    <2>3. \A k \in Keys \ Covered :
              nonText'.at[k] = IF k \in nonText'.ready THEN Found(k)' ELSE {}
        <3>1. \A k \in Keys \ Covered : /\ nonText'.at[k] = nonText.at[k]
                                        /\ k \in nonText'.ready <=> k \in nonText.ready
            BY <1>3, EntryTakesSlot
        <3> QED BY <2>1, <3>1, SameCall DEF VerifyInv
    <2>4. texts' = TextFound'
        BY <2>1, SameCall DEF VerifyInv
    <2>5. at' \in 1 .. (Len(Lookup) + 1) /\ Covered' = Covered /\ Keys' = Keys
        BY <2>1 DEF Covered, Keys, KeyOf
    <2> HIDE DEF Covered, Keys
    <2> QED BY <2>2, <2>3, <2>4, <2>5 DEF VerifyInv, SlotSoFar
<1>4. CASE Cancel \/ UNCHANGED vars
    <2>1. UNCHANGED <<pc, at, nonText, texts, input, op, options>>
        BY <1>4 DEF Cancel, vars
    <2>2. M' = M /\ TextFound' = TextFound /\ \A k : Found(k)' = Found(k)
        BY <2>1, SameCall
    <2>3. \A k : Passed(k)' = Passed(k) /\ Offsets(Passed(k))' = Offsets(Passed(k))
        BY <2>1 DEF Passed, KeyOf, Offsets
    <2>4. \A r : RejectedBeforeNonText(r)' = RejectedBeforeNonText(r)
        BY <2>1, ReadsTheCache
    <2>5. \A k : Skipped(k) => Skipped(k)'
        <3>1. ASSUME NEW k, Skipped(k) PROVE Skipped(k)'
            BY <2>1, <2>4, <3>1, SkippedStays DEF Skipped
        <3> QED BY <3>1
    <2>6. Covered' = Covered /\ Keys' = Keys /\ \A j : KeyOf(j)' = KeyOf(j)
        BY DEF Covered, Keys, KeyOf
    <2> HIDE DEF Covered, Keys, M, TextFound, Found, Passed, Skipped
    <2> QED BY <2>1, <2>2, <2>3, <2>5, <2>6 DEF VerifyInv
<1>5. CASE Start \/ Broken \/ Report
    BY <1>1, <1>5 DEF Start, Broken, Abort, ConditionFails, Report
<1>6. CASE Work
    <2>1. CASE RejectCompact \/ PreparePatternScan \/ FixedRegexes \/ VerifyDone \/ SelectRules
               \/ RulesDone
        BY <1>1, <2>1 DEF RejectCompact, PreparePatternScan, FixedRegexes, VerifyDone,
            SelectRules, RulesDone
    <2>2. ASSUME NEW r \in RuleIds, PassOver(r) \/ Prune(r) \/ AddTexts(r) \/ Conclude(r)
          PROVE  pc' # "verify"
        BY <2>2 DEF PassOver, Looking, Prune, AddTexts, Conclude, Decide
    <2>3. ASSUME NEW r \in RuleIds, NEW p \in PatternsOf(r), AddString(r, p)
          PROVE  pc' # "verify"
        BY <2>3 DEF AddString
    <2> QED BY <1>1, <1>2, <1>3, <1>6, <2>1, <2>2, <2>3 DEF Work, Matching
<1> QED BY <1>4, <1>5, <1>6, KindsOfStep

---------------------------------------------------------------------------
(* The candidates. *)

\* A rule that is marked is a candidate, and one that was stays one.
LEMMA MarkGrows ==
    ASSUME NEW S, marks' = Mark(marks, epoch, S) \/ marks' = marks, epoch' = epoch
    PROVE  \A r \in RuleIds : /\ IsCandidate(r) => IsCandidate(r)'
                              /\ r \in S /\ marks' = Mark(marks, epoch, S) => IsCandidate(r)'
BY DEF Mark, IsCandidate

\* The strings of a pattern that can select its rule: not there, or the rule is marked.
Triggered(p) ==
    \/ IsCandidate(Pattern[p].rule)
    \/ IF IsText(p) THEN Found(Pattern[p].key) = {}
       ELSE Pattern[p].key \in Covered => nonText.at[Pattern[p].key] = {}

LEMMA SearchTriggers ==
    ASSUME BeforeInv, SharedSearch, NEW p \in Patterns, CanTriggerRule(p)
    PROVE  Triggered(p)'
<1> DEFINE k == Pattern[p].key
           found == {h \in input.hits : \E q \in Patterns : IsText(q) /\ Pattern[q].key = h.key}
           hit(q) == \E h \in found : h.key = Pattern[q].key
           S == {Pattern[q].rule : q \in
                    {x \in Patterns : hit(x) /\ (options.profiled \/ CanTriggerRule(x))}}
<1>1. /\ marks' = Mark(marks, epoch, S) /\ epoch' = epoch /\ pc = "search"
      /\ UNCHANGED <<nonText, input, op>>
    BY DEF SharedSearch, call
<1>2. Pattern[p].rule \in RuleIds /\ k \in Keys
    BY BufferAssumption, KeysOfLookup
<1>3. CASE IsText(p)
    <2>1. CASE Found(k) = {}
        <3>1. Found(k)' = {}
            BY <1>1, <2>1, SameCall
        <3> QED BY <1>3, <3>1 DEF Triggered, IsText
    <2>2. CASE Found(k) # {}
        <3>1. hit(p)
            BY <1>3, <2>2 DEF Found, Occurrences, Offsets
        <3>2. Pattern[p].rule \in S
            BY <3>1
        <3>3. IsCandidate(Pattern[p].rule)'
            <4> HIDE DEF S
            <4> QED BY <1>1, <1>2, <3>2, MarkGrows
        <3> QED BY <3>3 DEF Triggered
    <2> QED BY <2>1, <2>2
<1>4. CASE ~IsText(p)
    <2>1. k \in Covered => nonText.at[k] = {}
        BY <1>1, <1>2, KeysOfLookup DEF BeforeInv
    <2>2. Covered' = Covered
        BY DEF Covered, KeyOf
    <2> HIDE DEF Covered
    <2> QED BY <1>1, <1>4, <2>1, <2>2 DEF Triggered, IsText
<1> QED BY <1>3, <1>4

\* An entry that is verified, and one that is not, leaves the marks larger.
LEMMA EntryMarks ==
    ASSUME VerifyEntry
    PROVE  /\ epoch' = epoch
           /\ \A r \in RuleIds : IsCandidate(r) => IsCandidate(r)'
<1>1. epoch' = epoch
    BY DEF VerifyEntry
<1>2. CASE marks' = marks
    BY <1>1, <1>2 DEF IsCandidate
<1>3. CASE marks' # marks
    <2> DEFINE S == {Pattern[p].rule :
                        p \in {q \in Patterns : Pattern[q].key = KeyOf(at) /\ CanTriggerRule(q)}}
    <2>1. marks' = Mark(marks, epoch, S)
        BY <1>3 DEF VerifyEntry
    <2> HIDE DEF S
    <2> QED BY <1>1, <2>1, MarkGrows
<1> QED BY <1>1, <1>2, <1>3

LEMMA EntryTriggers ==
    ASSUME SlotsListed, VerifyInv, VerifyEntry, NEW p \in Patterns, CanTriggerRule(p),
           Triggered(p)
    PROVE  Triggered(p)'
<1> DEFINE k == Pattern[p].key
<1>1. UNCHANGED <<input, op>> /\ epoch' = epoch
    BY DEF VerifyEntry, call
<1>2. Pattern[p].rule \in RuleIds /\ k \in Keys
    BY BufferAssumption, KeysOfLookup
<1>3. Covered' = Covered /\ Found(k)' = Found(k)
    BY <1>1, SameCall DEF Covered, KeyOf
<1>4. CASE IsCandidate(Pattern[p].rule)
    BY <1>2, <1>4, EntryMarks DEF Triggered
<1>5. CASE ~IsCandidate(Pattern[p].rule) /\ IsText(p)
    BY <1>3, <1>5 DEF Triggered, IsText
<1>6. CASE ~IsCandidate(Pattern[p].rule) /\ ~IsText(p) /\ k # KeyOf(at)
    <2>1. nonText'.at[k] = nonText.at[k]
        BY <1>2, <1>6, EntryTakesSlot
    <2> HIDE DEF Covered
    <2> QED BY <1>3, <1>6, <2>1 DEF Triggered, IsText
<1>7. CASE ~IsCandidate(Pattern[p].rule) /\ ~IsText(p) /\ k = KeyOf(at)
    <2> DEFINE S == {Pattern[q].rule :
                        q \in {x \in Patterns : Pattern[x].key = k /\ CanTriggerRule(x)}}
               verified == nonText.at[k] \cup Offsets(HitsOf(input, k, Lookup[at].wide))
    <2>1. at \in DOMAIN Lookup /\ k \in Covered
        BY <1>7, EntryTakesSlot
    <2>2. nonText.at[k] = {}
        BY <1>7, <2>1 DEF Triggered
    <2>3. CASE ~Touched(at)
        BY <1>3, <1>7, <2>2, <2>3 DEF VerifyEntry, Triggered, IsText
    <2>4. CASE Touched(at) /\ CanSkipEntry(at)
        <3>1. nonText'.at[k] = {}
            BY <1>2, <1>7, <2>4 DEF VerifyEntry, CacheSet, SlotsListed
        <3> QED BY <1>7, <3>1 DEF Triggered, IsText
    <2>5. CASE Touched(at) /\ ~CanSkipEntry(at)
        <3>1. nonText' = CacheSet(k, verified)
              /\ marks' = IF verified # {} THEN Mark(marks, epoch, S) ELSE marks
            BY <1>7, <2>5 DEF VerifyEntry
        <3>2. CASE verified = {}
            <4>1. nonText'.at[k] = {}
                BY <1>2, <3>1, <3>2 DEF CacheSet, SlotsListed
            <4> QED BY <1>7, <4>1 DEF Triggered, IsText
        <3>3. CASE verified # {}
            <4>1. Pattern[p].rule \in S /\ marks' = Mark(marks, epoch, S)
                BY <3>1, <3>3
            <4>2. IsCandidate(Pattern[p].rule)'
                <5> HIDE DEF S
                <5> QED BY <1>1, <1>2, <4>1, MarkGrows
            <4> QED BY <4>2 DEF Triggered
        <3> QED BY <3>2, <3>3
    <2> QED BY <2>3, <2>4, <2>5
<1> QED BY <1>4, <1>5, <1>6, <1>7

\* When every entry has been passed, a rule that matches is marked.
LEMMA VerifiedCover ==
    ASSUME FrameInv, VerifyInv, MarksInv, pc = "verify", at > Len(Lookup), NEW r \in RuleIds, M[r]
    PROVE  IsCandidate(r)
<1>0. input \in Inputs /\ at \in Nat /\ ShouldEvaluateRule(r)
    BY KeysOfLookup, WhatMatches DEF FrameInv, VerifyInv, M
<1>1. CASE ~CompleteSharedPrefilter(r)
    BY <1>0, <1>1 DEF MarksInv, AlwaysEvaluated
<1>2. CASE CompleteSharedPrefilter(r)
    <2>1. PICK p \in PatternsOf(r) : /\ CanTriggerRule(p)
                                     /\ IsText(p) \/ Pattern[p].key \in Covered
                                     /\ Found(Pattern[p].key) # {}
        BY <1>0, <1>2, MatchIsTriggered DEF M, Found
    <2> DEFINE k == Pattern[p].key
    <2>2. p \in Patterns /\ Pattern[p].rule = r
        BY DEF PatternsOf
    <2>3. CASE IsText(p)
        BY <2>1, <2>2, <2>3 DEF MarksInv
    <2>4. CASE ~IsText(p)
        <3>1. k \in Covered /\ Offsets(Passed(k)) = Found(k)
            BY <1>0, <2>1, <2>4, PassedAtEnd
        <3>2. Passed(k) # {}
            BY <2>1, <3>1, OffsetsJoin
        <3>3. ~Skipped(k)
            BY <2>1, RuleHasKey DEF Skipped
        <3>4. k \in nonText.ready /\ nonText.at[k] = Found(k)
            BY <3>1, <3>2, <3>3 DEF VerifyInv
        <3> QED BY <2>1, <2>2, <2>4, <3>1, <3>4 DEF MarksInv
    <2> QED BY <2>3, <2>4
<1> QED BY <1>1, <1>2

LEMMA MarksStep ==
    FrameInv /\ SlotsListed /\ BeforeInv /\ VerifyInv /\ MarksInv /\ [Next]_vars => MarksInv'
<1> SUFFICES ASSUME FrameInv, SlotsListed, BeforeInv, VerifyInv, MarksInv, [Next]_vars
             PROVE  MarksInv'
    OBVIOUS
<1> USE DEF call, matching, ruling
<1>0. AlwaysEvaluated' = AlwaysEvaluated /\ \A p : CanTriggerRule(p)' = CanTriggerRule(p)
    BY DEF AlwaysEvaluated, CanTriggerRule
<1>1. CASE pc' \in {"idle", "prefilter", "fixed", "report"}
    BY <1>1 DEF MarksInv
<1>2. CASE FixedRegexes
    <2>1. marks' = Mark(NextEpoch[2], epoch', AlwaysEvaluated) /\ UNCHANGED input
          /\ pc' = IF input.sparse THEN "search" ELSE "select"
        BY <1>2 DEF FixedRegexes
    <2>2. \A r \in AlwaysEvaluated : r \in RuleIds
        BY DEF AlwaysEvaluated
    <2>3. \A r \in AlwaysEvaluated : marks'[r] = epoch'
        <3> HIDE DEF AlwaysEvaluated, NextEpoch
        <3> QED BY <2>1, <2>2 DEF Mark
    <2>4. \A r \in AlwaysEvaluated' : IsCandidate(r)'
        BY <1>0, <2>3 DEF IsCandidate
    <2> QED BY <2>1, <2>4 DEF MarksInv
<1>3. CASE SharedSearch
    <2>1. /\ epoch' = epoch /\ pc = "search" /\ pc' = "verify"
          /\ \E S : marks' = Mark(marks, epoch, S)
        BY <1>3 DEF SharedSearch
    <2>2. \A r \in RuleIds : IsCandidate(r) => IsCandidate(r)'
        BY <2>1, MarkGrows
    <2>3. \A r \in AlwaysEvaluated : IsCandidate(r)'
        BY <2>1, <2>2 DEF MarksInv, AlwaysEvaluated
    <2>4. \A p \in Patterns : CanTriggerRule(p) => Triggered(p)'
        BY <1>3, SearchTriggers
    <2> HIDE DEF AlwaysEvaluated
    <2> QED BY <1>0, <2>1, <2>3, <2>4 DEF MarksInv, Triggered
<1>4. CASE VerifyEntry
    <2>1. pc = "verify" /\ pc' = "verify"
        BY <1>4 DEF VerifyEntry
    <2>2. \A r \in AlwaysEvaluated : IsCandidate(r)'
        BY <1>4, <2>1, EntryMarks DEF MarksInv, AlwaysEvaluated
    <2>3. \A p \in Patterns : CanTriggerRule(p) => Triggered(p)'
        <3>1. ASSUME NEW p \in Patterns, CanTriggerRule(p) PROVE Triggered(p)
            BY <2>1, <3>1 DEF MarksInv, Triggered
        <3> QED BY <1>4, <3>1, EntryTriggers
    <2> HIDE DEF AlwaysEvaluated
    <2> QED BY <1>0, <2>1, <2>2, <2>3 DEF MarksInv, Triggered
<1>5. CASE VerifyDone
    <2>1. pc = "verify" /\ at > Len(Lookup) /\ pc' = "select" /\ UNCHANGED <<marks, epoch, input, op>>
        BY <1>5 DEF VerifyDone
    <2>2. \A r \in RuleIds : M[r] => IsCandidate(r)
        BY <2>1, VerifiedCover
    <2>3. \A r \in RuleIds : M'[r] => IsCandidate(r)'
        BY <2>1, <2>2, SameCall DEF IsCandidate
    <2> QED BY <2>1, <2>3 DEF MarksInv
<1>6. ASSUME pc \in {"select", "rule", "strings"}, pc' \in {"rule", "strings"},
             UNCHANGED <<input, op, epoch>>,
             marks' = marks \/ \E S : marks' = Mark(marks, epoch, S)
      PROVE  MarksInv'
    <2>1. \A r \in RuleIds : IsCandidate(r) => IsCandidate(r)'
        <3>1. CASE marks' = marks
            BY <1>6, <3>1 DEF IsCandidate
        <3>2. ASSUME NEW S, marks' = Mark(marks, epoch, S)
              PROVE  \A r \in RuleIds : IsCandidate(r) => IsCandidate(r)'
            BY <1>6, <3>2, MarkGrows
        <3> QED BY <1>6, <3>1, <3>2
    <2>2. M' = M
        BY <1>6, SameCall
    <2> HIDE DEF M
    <2> QED BY <1>6, <2>1, <2>2 DEF MarksInv
<1>7. CASE Cancel \/ UNCHANGED vars
    <2>1. UNCHANGED <<pc, nonText, marks, epoch, input, op, options>>
        BY <1>7 DEF Cancel, vars
    <2>2. M' = M /\ \A k : Found(k)' = Found(k)
        BY <2>1, SameCall
    <2>3. Covered' = Covered /\ \A p : IsText(p)' = IsText(p)
        BY DEF Covered, KeyOf, IsText
    <2>4. \A r : IsCandidate(r)' = IsCandidate(r)
        BY <2>1 DEF IsCandidate
    <2> HIDE DEF Covered, M, Found, AlwaysEvaluated, IsCandidate
    <2> QED BY <1>0, <2>1, <2>2, <2>3, <2>4 DEF MarksInv
<1>8. CASE Start \/ Broken \/ Report
    BY <1>1, <1>8 DEF Start, Broken, Abort, ConditionFails, Report
<1>9. CASE Work
    <2>1. CASE RejectCompact \/ PreparePatternScan \/ RulesDone
        BY <1>1, <2>1 DEF RejectCompact, PreparePatternScan, RulesDone
    <2>2. CASE SelectRules
        <3>1. /\ pc = "select" /\ pc' = "rule" /\ UNCHANGED <<input, op, epoch>>
              /\ \E S : marks' = Mark(marks, epoch, S)
            BY <2>2 DEF SelectRules
        <3> QED BY <1>6, <3>1
    <2>3. ASSUME NEW r \in RuleIds, PassOver(r) \/ Prune(r) \/ AddTexts(r) \/ Conclude(r)
          PROVE  MarksInv'
        <3>1. /\ pc \in {"rule", "strings"} /\ pc' \in {"rule", "strings"}
              /\ UNCHANGED <<input, op, epoch, marks>>
            BY <2>3 DEF PassOver, Looking, Prune, Evaluated, AddTexts, Conclude, Decide
        <3> QED BY <1>6, <3>1
    <2>4. ASSUME NEW r \in RuleIds, NEW p \in PatternsOf(r), AddString(r, p)
          PROVE  MarksInv'
        <3>1. pc = "strings" /\ pc' = "strings" /\ UNCHANGED <<input, op, epoch, marks>>
            BY <2>4 DEF AddString
        <3> QED BY <1>6, <3>1
    <2> QED BY <1>2, <1>3, <1>4, <1>5, <1>9, <2>1, <2>2, <2>3, <2>4 DEF Work, Matching
<1> QED BY <1>7, <1>8, <1>9, KindsOfStep

---------------------------------------------------------------------------
(* The slots that the rules read. *)

LEMMA MinIs ==
    ASSUME NEW S, S \subseteq Nat, S # {}
    PROVE  Min(S) \in S /\ \A n \in S : Min(S) <= n
BY LeastNumber DEF Min

\* A slot is right while it and what it rests on stay.
LEMMA SlotStays ==
    ASSUME UNCHANGED <<options, input, op>>, NEW k, SlotRight(k), nonText'.at[k] = nonText.at[k],
           \A r \in RuleIds : RejectedBeforeNonText(r) => RejectedBeforeNonText(r)'
    PROVE  SlotRight(k)'
<1>1. Found(k)' = Found(k)
    BY SameCall
<1>2. CASE nonText.at[k] = Found(k)
    BY <1>1, <1>2 DEF SlotRight
<1>3. CASE FirstOnly(k) /\ SafeKey(k)
    <2>1. FirstOnly(k)'
        BY <1>3 DEF FirstOnly
    <2>2. SafeKey(k)'
        BY <1>3 DEF SafeKey
    <2> QED BY <2>1, <2>2 DEF SlotRight
<1>4. CASE Skipped(k)
    <2>1. nonText'.at[k] = {}
        BY <1>4 DEF Skipped
    <2> QED BY <1>4, <2>1, SkippedStays DEF SlotRight
<1> QED BY <1>2, <1>3, <1>4 DEF SlotRight

LEMMA SlotsUntouched ==
    ASSUME UNCHANGED <<options, input, op, nonText, texts>>, SlotsInv,
           pc' \in {"select", "rule", "strings"} => pc \in {"select", "rule", "strings"}
    PROVE  SlotsInv'
<1>1. \A r : RejectedBeforeNonText(r)' = RejectedBeforeNonText(r)
    BY ReadsTheCache
<1>2. \A k : SlotRight(k) => SlotRight(k)'
    <2>1. ASSUME NEW k, SlotRight(k) PROVE SlotRight(k)'
        BY <1>1, <2>1, SlotStays
    <2> QED BY <2>1
<1>3. TextFound' = TextFound /\ (\A k : Found(k)' = Found(k)) /\ Covered' = Covered
    BY SameCall DEF Covered, KeyOf
<1> HIDE DEF TextFound, Found, Covered, SlotRight
<1> QED BY <1>2, <1>3 DEF SlotsInv

LEMMA VerifiedSlots ==
    ASSUME FrameInv, SlotsListed, VerifyInv, VerifyDone
    PROVE  SlotsInv'
<1>1. /\ pc = "verify" /\ at > Len(Lookup) /\ UNCHANGED <<options, input, op, nonText, texts>>
      /\ input \in Inputs /\ at \in Nat
    BY KeysOfLookup DEF VerifyDone, call, matching, FrameInv, VerifyInv
<1>2. \A k \in Covered : Offsets(Passed(k)) = Found(k)
    BY <1>1, PassedAtEnd
<1>3. \A k \in nonText.ready : SlotRight(k)
    <2>1. ASSUME NEW k \in nonText.ready PROVE SlotRight(k)
        <3>1. k \in Keys
            BY DEF SlotsListed
        <3>2. CASE k \in Covered
            BY <1>1, <1>2, <3>2 DEF VerifyInv, SlotRight
        <3>3. CASE k \notin Covered
            BY <1>1, <3>1, <3>3 DEF VerifyInv, SlotRight
        <3> QED BY <3>2, <3>3
    <2> QED BY <2>1
<1>4. \A k \in Covered \ nonText.ready : Found(k) = {}
    BY <1>1, <1>2, OffsetsJoin DEF VerifyInv
<1>5. texts = TextFound
    BY <1>1 DEF VerifyInv
<1>6. \A r : RejectedBeforeNonText(r)' = RejectedBeforeNonText(r)
    BY <1>1, ReadsTheCache
<1>7. \A k : SlotRight(k) => SlotRight(k)'
    <2>1. ASSUME NEW k, SlotRight(k) PROVE SlotRight(k)'
        BY <1>1, <1>6, <2>1, SlotStays
    <2> QED BY <2>1
<1>8. TextFound' = TextFound /\ (\A k : Found(k)' = Found(k)) /\ Covered' = Covered
    BY <1>1, SameCall DEF Covered, KeyOf
<1> HIDE DEF TextFound, Found, Covered, SlotRight
<1> QED BY <1>1, <1>3, <1>4, <1>5, <1>7, <1>8 DEF SlotsInv

\* What a search of the rule's own finds is all there is, or the first for a rule that
\* counts nothing.
LEMMA OwnSearch ==
    ASSUME UncountedIfShort, FrameInv, pc # "idle", NEW r \in RuleIds, NEW p \in PatternsOf(r),
           NEW fails,
           NEW found, found = FirstOfHex(r, p, Found(Pattern[p].key), fails)
    PROVE  \/ found = Found(Pattern[p].key)
           \/ /\ op = "matches" /\ SafeKey(Pattern[p].key)
              /\ \A q \in Patterns : Pattern[q].key = Pattern[p].key => Pattern[q].kind = "hex"
              /\ Found(Pattern[p].key) # {}
              /\ found = {Min(Found(Pattern[p].key))}
<1>1. p \in Patterns /\ Pattern[p].rule = r /\ op \in Ops
    BY DEF PatternsOf, FrameInv
<1>2. CASE found # Found(Pattern[p].key)
    <2>1. /\ CanShortCircuit(r) /\ Pattern[p].kind = "hex" /\ Found(Pattern[p].key) # {}
          /\ found = {Min(Found(Pattern[p].key))}
        BY <1>2 DEF FirstOfHex
    <2>2. op = "matches" /\ ConditionMonotonic(r)
        BY <2>1 DEF CanShortCircuit
    <2>3. SafeKey(Pattern[p].key)
        BY <1>1, <2>1, <2>2 DEF UncountedIfShort, SafeKey
    <2>4. \A q \in Patterns : Pattern[q].key = Pattern[p].key => Pattern[q].kind = "hex"
        BY <1>1, <2>1, BufferAssumption
    <2> QED BY <2>1, <2>2, <2>3, <2>4
<1> QED BY <1>2

LEMMA AddStringSlots ==
    ASSUME UncountedIfShort, FrameInv, SlotsListed, SlotsInv, NEW r \in RuleIds, NEW p \in PatternsOf(r),
           AddString(r, p)
    PROVE  SlotsInv'
<1> DEFINE k == Pattern[p].key
<1>1. /\ pc = "strings" /\ pc' = "strings" /\ UNCHANGED <<options, input, op, texts>>
      /\ k \in Keys /\ input \in Inputs
    BY KeysOfLookup, StringsOfRule DEF AddString, call, FrameInv
<1>4. PICK fails \in MayFail(r) :
          \/ UNCHANGED nonText
          \/ ~Known(p) /\ nonText' = CacheSet(k, FirstOfHex(r, p, Found(k), fails))
    BY DEF AddString, Found
<1>2. CASE UNCHANGED nonText
    BY <1>1, <1>2, SlotsUntouched
<1>3. CASE ~UNCHANGED nonText
    <2> DEFINE found == FirstOfHex(r, p, Found(k), fails)
    <2>1. ~Known(p) /\ nonText' = CacheSet(k, found)
        BY <1>3, <1>4
    <2>2. k \notin nonText.ready
        BY <2>1 DEF Known
    <2>3. nonText'.ready = nonText.ready \cup {k} /\ nonText'.at = [nonText.at EXCEPT ![k] = found]
        <3> HIDE DEF found
        <3> QED BY <2>1 DEF CacheSet
    <2>4. nonText'.at[k] = found
        <3> HIDE DEF found
        <3> QED BY <1>1, <2>3 DEF SlotsListed
    <2>5. \A j \in nonText.ready : j # k /\ nonText'.at[j] = nonText.at[j]
        <3> HIDE DEF found
        <3> QED BY <1>1, <2>2, <2>3 DEF SlotsListed
    <2>6. \A q \in RuleIds : RejectedBeforeNonText(q) => RejectedBeforeNonText(q)'
        <3>1. \A j : j \in nonText.ready => j \in nonText'.ready /\ nonText'.at[j] = nonText.at[j]
            BY <2>3, <2>5
        <3>2. ASSUME NEW q \in RuleIds, RejectedBeforeNonText(q) PROVE RejectedBeforeNonText(q)'
            <4>1. \A x \in RequiredStrings(q) :
                      Pattern[x].key \in nonText.ready =>
                          /\ Pattern[x].key \in nonText'.ready
                          /\ nonText.at[Pattern[x].key] = {} => nonText'.at[Pattern[x].key] = {}
                BY <3>1
            <4> QED BY <1>1, <3>2, <4>1, RejectionStays
        <3> QED BY <3>2
    <2>7. SlotRight(k)'
        <3>1. Found(k)' = Found(k)
            BY <1>1, SameCall
        <3>2. CASE found = Found(k)
            BY <2>4, <3>1, <3>2 DEF SlotRight
        <3>3. CASE found # Found(k)
            <4>1. /\ op = "matches" /\ SafeKey(k) /\ Found(k) # {} /\ found = {Min(Found(k))}
                  /\ \A q \in Patterns : Pattern[q].key = k => Pattern[q].kind = "hex"
                BY <1>1, <3>3, OwnSearch
            <4>2. Min(Found(k)) \in Found(k) /\ \A b \in Found(k) : Min(Found(k)) <= b
                BY <1>1, <4>1, OccurrencesAreFinite, MinIs DEF Found
            <4>3. FirstOnly(k)'
                <5> DEFINE m == Min(Found(k))
                <5>1. nonText'.at[k] = {m} /\ m \in Found(k) /\ \A b \in Found(k) : m <= b
                    BY <2>4, <4>1, <4>2
                <5>2. op' = "matches" /\ Found(k) = Occurrences(input', k)
                    BY <1>1, <4>1 DEF Found
                <5> HIDE DEF m
                <5> QED BY <4>1, <5>1, <5>2 DEF FirstOnly
            <4> QED BY <4>1, <4>3 DEF SlotRight, SafeKey
        <3> QED BY <3>2, <3>3
    <2>8. \A j \in nonText'.ready : SlotRight(j)'
        <3>1. ASSUME NEW j \in nonText.ready PROVE SlotRight(j)'
            BY <1>1, <2>5, <2>6, <3>1, SlotStays DEF SlotsInv
        <3> QED BY <2>3, <2>7, <3>1
    <2>9. TextFound' = TextFound /\ (\A j : Found(j)' = Found(j)) /\ Covered' = Covered
        BY <1>1, SameCall DEF Covered, KeyOf
    <2> HIDE DEF TextFound, Found, Covered, SlotRight, found
    <2> QED BY <1>1, <2>3, <2>8, <2>9 DEF SlotsInv
<1> QED BY <1>2, <1>3

LEMMA SlotsStep ==
    UncountedIfShort /\ FrameInv /\ SlotsListed /\ BeforeInv /\ VerifyInv /\ SlotsInv /\ [Next]_vars
        => SlotsInv'
<1> SUFFICES ASSUME UncountedIfShort, FrameInv, SlotsListed, BeforeInv, VerifyInv, SlotsInv,
                    [Next]_vars
             PROVE  SlotsInv'
    OBVIOUS
<1> USE DEF call, matching, ruling
<1>1. CASE pc' \notin {"select", "rule", "strings"}
    BY <1>1 DEF SlotsInv
<1>2. CASE FixedRegexes
    <2>1. /\ pc' = IF input.sparse THEN "search" ELSE "select"
          /\ UNCHANGED <<input, op>>
        BY <1>2 DEF FixedRegexes
    <2>2. /\ nonText'.ready \subseteq FixedRegex
          /\ \A k \in Keys : nonText'.at[k] = IF k \in nonText'.ready THEN Found(k) ELSE {}
        BY <1>2, FixedFills
    <2>3. \A k \in nonText'.ready : nonText'.at[k] = Found(k)'
        BY <2>1, <2>2, KeysOfLookup, SameCall
    <2>4. \A k \in nonText'.ready : SlotRight(k)'
        BY <2>3 DEF SlotRight
    <2> QED BY <1>1, <2>1, <2>4 DEF SlotsInv
<1>3. CASE VerifyDone
    BY <1>3, VerifiedSlots
<1>4. CASE Cancel \/ UNCHANGED vars \/ SelectRules
    <2>1. /\ UNCHANGED <<options, input, op, nonText, texts>>
          /\ pc' \in {"select", "rule", "strings"} => pc \in {"select", "rule", "strings"}
        BY <1>4 DEF Cancel, vars, SelectRules
    <2> QED BY <2>1, SlotsUntouched
<1>5. CASE Start \/ Broken \/ Report
    BY <1>1, <1>5 DEF Start, Broken, Abort, ConditionFails, Report
<1>6. CASE RejectCompact \/ PreparePatternScan \/ RulesDone \/ SharedSearch \/ VerifyEntry
    BY <1>1, <1>6 DEF RejectCompact, PreparePatternScan, RulesDone, SharedSearch, VerifyEntry
<1>7. ASSUME NEW r \in RuleIds, PassOver(r) \/ Prune(r) \/ AddTexts(r) \/ Conclude(r)
      PROVE  SlotsInv'
    <2>1. /\ UNCHANGED <<options, input, op, nonText, texts>>
          /\ pc \in {"select", "rule", "strings"}
        BY <1>7 DEF PassOver, Looking, Prune, Evaluated, AddTexts, Conclude, Decide
    <2> QED BY <2>1, SlotsUntouched
<1>8. ASSUME NEW r \in RuleIds, NEW p \in PatternsOf(r), AddString(r, p) PROVE SlotsInv'
    BY <1>8, AddStringSlots
<1>9. CASE Work
    BY <1>2, <1>3, <1>4, <1>6, <1>7, <1>8, <1>9 DEF Work, Matching
<1> QED BY <1>4, <1>5, <1>9, KindsOfStep

---------------------------------------------------------------------------
(* The strings of the rule under evaluation. *)

\* What the cache says of a string it knows.
LEMMA CachedIsFound ==
    ASSUME FrameInv, SlotsInv, pc \in {"rule", "strings"}, NEW p \in Patterns, Known(p)
    PROVE  LET k == Pattern[p].key
           IN /\ CachedAt(p) \subseteq Found(k)
              /\ \/ CachedAt(p) = Found(k)
                 \/ CachedAt(p) # {} /\ SafeKey(k)
                 \/ CachedAt(p) = {} /\ Skipped(k) /\ k \in nonText.ready
<1> DEFINE k == Pattern[p].key
<1>1. CASE k \in nonText.ready
    <2>1. CachedAt(p) = nonText.at[k] /\ SlotRight(k)
        BY <1>1 DEF CachedAt, SlotsInv
    <2>2. FirstOnly(k) => nonText.at[k] \subseteq Found(k) /\ nonText.at[k] # {}
        BY DEF FirstOnly, Found
    <2>3. Skipped(k) => nonText.at[k] = {}
        BY DEF Skipped
    <2> QED BY <1>1, <2>1, <2>2, <2>3 DEF SlotRight
<1>2. CASE k \notin nonText.ready
    BY <1>2 DEF CachedAt, Known, SlotsInv
<1> QED BY <1>1, <1>2

LEMMA KeptOf ==
    ASSUME NEW r, NEW offsets, offsets \subseteq Nat
    PROVE  /\ Kept(r, offsets) \subseteq offsets
           /\ Kept(r, offsets) = {} <=> offsets = {}
           /\ FastScanSafe(r) \/ Kept(r, offsets) = offsets
<1>1. CASE OnePerString(r) /\ offsets # {}
    BY <1>1, MinIs DEF Kept, OnePerString
<1>2. CASE ~(OnePerString(r) /\ offsets # {})
    BY <1>2 DEF Kept
<1> QED BY <1>1, <1>2

\* A rule with a forbidden string does not match, nor one without a required string.
LEMMA ForbiddenIsSound ==
    ASSUME FrameInv, SlotsInv, pc \in {"rule", "strings"}, NEW r \in RuleIds, NEW now,
           \A p \in Patterns : now[p] \subseteq Found(Pattern[p].key), HasForbidden(r, now)
    PROVE  ~M[r]
<1>1. PICK p \in ForbiddenStrings(r) :
            now[p] # {} \/ (~IsText(p) /\ Known(p) /\ CachedAt(p) # {})
    BY DEF HasForbidden
<1>2. p \in Patterns /\ input \in Inputs
    BY StringsOfRule DEF FrameInv
<1>3. Found(Pattern[p].key) # {}
    BY <1>1, <1>2, CachedIsFound
<1> QED BY <1>2, <1>3, BoundsAreSound DEF M, Found

LEMMA MissingIsSound ==
    ASSUME FrameInv, SlotsInv, pc \in {"rule", "strings"}, NEW r \in RuleIds, UsesCandidates,
           MissingRequired(r)
    PROVE  ~M[r]
<1>1. PICK p \in RequiredStrings(r) :
            IF IsText(p) THEN TextHits(p) = {} ELSE Known(p) /\ CachedAt(p) = {}
    BY DEF MissingRequired
<1>2. p \in Patterns /\ input \in Inputs /\ p \in PatternsOf(r) /\ input.sparse
    BY StringsOfRule DEF FrameInv, UsesCandidates
<1>3. CASE IsText(p)
    <2>1. Found(Pattern[p].key) = {}
        BY <1>1, <1>2, <1>3, TextHitsAreAll, OffsetsJoin DEF SlotsInv
    <2> QED BY <1>2, <2>1, BoundsAreSound DEF M, Found
<1>4. CASE ~IsText(p)
    <2>1. Known(p) /\ CachedAt(p) = {}
        BY <1>1, <1>4
    <2>2. Found(Pattern[p].key) = {} \/ Skipped(Pattern[p].key)
        BY <1>2, <2>1, CachedIsFound
    <2>3. Skipped(Pattern[p].key) => ~M[r]
        BY <1>2, RuleHasKey DEF Skipped
    <2> QED BY <1>2, <2>2, <2>3, BoundsAreSound DEF M, Found
<1> QED BY <1>3, <1>4

\* A rule with a lost occurrence that the gate lets through has a forbidden text string.
LEMMA LostIsBarred ==
    ASSUME FrameInv, SlotsInv, pc = "rule", NEW r \in RuleIds, AddTexts(r),
           NEW p \in NonTextOf(r), Lost(p)
    PROVE  Barred(r)'
<1> DEFINE k == Pattern[p].key
<1>0. /\ p \in PatternsOf(r) /\ UNCHANGED <<options, input, op>> /\ spans' = TextSpans(r)
      /\ ~GateRejects(r)
    BY DEF NonTextOf, AddTexts, call
<1>1. Skipped(k)
    <2>1. k \in nonText.ready /\ nonText.at[k] = {} /\ Found(k) # {}
        BY DEF Lost
    <2>2. SlotRight(k)
        BY <2>1 DEF SlotsInv
    <2> QED BY <2>1, <2>2 DEF SlotRight, FirstOnly
<1>2. options.prefilter /\ SkipsUnmatched /\ input.sparse /\ RejectedBeforeNonText(r)
    BY <1>0, <1>1, RuleHasKey DEF Skipped
<1>3. ~MissingRequired(r)
    BY <1>0, <1>2 DEF GateRejects, UsesCandidates
<1>4. PICK q \in ForbiddenStrings(r) : IsText(q) /\ Offsets(TextHits(q)) # {}
    BY <1>2, <1>3 DEF RejectedBeforeNonText, MissingRequired, Known, CachedAt
<1>5. q \in Patterns /\ q \in PatternsOf(r)
    BY StringsOfRule
<1>6. Offsets(TextHits(q)) \subseteq Nat
    <2>1. Offsets(TextHits(q)) = Found(Pattern[q].key)
        BY <1>2, <1>4, <1>5, TextHitsAreAll DEF SlotsInv
    <2> QED BY <2>1, OccurrencesAreFinite DEF Found, FrameInv
<1>7. spans'[q] = Kept(r, Offsets(TextHits(q)))
    BY <1>0, <1>2, <1>4, <1>5 DEF TextSpans
<1>8. spans'[q] # {}
    BY <1>4, <1>6, <1>7, KeptOf
<1> QED BY <1>0, <1>2, <1>4, <1>8 DEF Barred, SkipsUnmatched, IsText

LEMMA TextsAreAll ==
    ASSUME FrameInv, SlotsInv, pc = "rule", NEW r \in RuleIds, NEW p \in Patterns
    PROVE  /\ TextSpans(r)[p] \subseteq Found(Pattern[p].key)
           /\ p \notin PatternsOf(r) => TextSpans(r)[p] = {}
           /\ p \in PatternsOf(r) /\ IsText(p) =>
                 /\ TextSpans(r)[p] = {} <=> Found(Pattern[p].key) = {}
                 /\ FastScanSafe(r) \/ TextSpans(r)[p] = Found(Pattern[p].key)
<1>1. CASE p \in PatternsOf(r) /\ IsText(p)
    <2>1. TextSpans(r)[p] = Kept(r, Found(Pattern[p].key))
        BY <1>1, TextHitsAreAll DEF TextSpans, SlotsInv, Found
    <2>2. Found(Pattern[p].key) \subseteq Nat
        BY OccurrencesAreFinite DEF Found, FrameInv
    <2> HIDE DEF Found, Kept, FastScanSafe
    <2>3. /\ Kept(r, Found(Pattern[p].key)) \subseteq Found(Pattern[p].key)
          /\ Kept(r, Found(Pattern[p].key)) = {} <=> Found(Pattern[p].key) = {}
          /\ FastScanSafe(r) \/ Kept(r, Found(Pattern[p].key)) = Found(Pattern[p].key)
        BY <2>2, KeptOf
    <2> QED BY <1>1, <2>1, <2>3
<1>2. CASE ~(p \in PatternsOf(r) /\ IsText(p))
    <2>1. TextSpans(r)[p] = {}
        BY <1>2 DEF TextSpans
    <2> QED BY <1>2, <2>1
<1> QED BY <1>1, <1>2

LEMMA AddTextsStrings ==
    ASSUME FrameInv, SlotsInv, NEW r \in RuleIds, AddTexts(r)
    PROVE  StringsInv'
<1>1. /\ pc = "rule" /\ at = r /\ pc' = "strings" /\ at' = r /\ ShouldEvaluateRule(r)
      /\ UNCHANGED <<options, input, op, block, nonText, texts, dense>>
      /\ spans' = TextSpans(r)
    BY DEF AddTexts, Evaluated, Looking, call, matching
<1>2. \A k : Found(k)' = Found(k)
    BY <1>1, SameCall
<1>3. \A p \in Patterns :
        /\ spans'[p] \subseteq Found(Pattern[p].key)
        /\ p \notin PatternsOf(r) => spans'[p] = {}
        /\ p \in PatternsOf(r) /\ IsText(p) =>
              /\ spans'[p] = {} <=> Found(Pattern[p].key) = {}
              /\ FastScanSafe(r) \/ spans'[p] = Found(Pattern[p].key)
    BY <1>1, TextsAreAll
<1>4. \A p : Lost(p)' = Lost(p)
    BY <1>1, <1>2 DEF Lost
<1>5. (\E p \in NonTextOf(r) : Lost(p)') => Barred(r)'
    BY <1>1, <1>4, LostIsBarred
<1>6. todo' = NonTextOf(r) \/ todo' = {}
    BY DEF AddTexts
<1>7. DOMAIN spans' = Patterns
    BY <1>1 DEF TextSpans
<1>8. \/ \A p \in PatternsOf(r) \ todo' : Enough(r, p)'
      \/ todo' = {} /\ ConditionMonotonic(r) /\ Satisfied(r, spans)' /\ \E p \in Patterns : spans'[p] # {}
      \/ todo' = {} /\ options'.prefilter /\ SkipsUnmatched' /\ HasForbidden(r, spans)'
    <2>1. CASE options.prefilter /\ SkipsUnmatched /\ HasForbidden(r, spans')
        <3>1. HasForbidden(r, spans)'
            BY <1>1, <2>1 DEF HasForbidden, Known, CachedAt, IsText, Covered, KeyOf
        <3>2. todo' = {}
            BY <2>1 DEF AddTexts
        <3> QED BY <1>1, <2>1, <3>1, <3>2 DEF SkipsUnmatched
    <2>2. CASE /\ CanShortCircuit(r) /\ (\E p \in Patterns : spans'[p] # {}) /\ Satisfied(r, spans')
               /\ todo' = {}
        <3>1. Satisfied(r, spans)'
            BY <1>1, <2>2 DEF Satisfied, FactsNow, Readable, Origin
        <3> QED BY <2>2, <3>1 DEF CanShortCircuit
    <2>3. CASE todo' = NonTextOf(r)
        <3>1. \A p \in PatternsOf(r) \ todo' : Enough(r, p)'
            <4>1. ASSUME NEW p \in PatternsOf(r) \ todo' PROVE Enough(r, p)'
                <5>1. p \in Patterns /\ IsText(p)
                    BY <2>3, <4>1, StringsOfRule DEF NonTextOf
                <5> QED BY <1>2, <1>3, <4>1, <5>1 DEF Enough
            <4> QED BY <4>1
        <3> QED BY <3>1
    <2>4. \/ options.prefilter /\ SkipsUnmatched /\ HasForbidden(r, spans')
          \/ /\ CanShortCircuit(r) /\ (\E p \in Patterns : spans'[p] # {}) /\ Satisfied(r, spans')
             /\ todo' = {}
          \/ todo' = NonTextOf(r)
        BY DEF AddTexts
    <2> QED BY <2>1, <2>2, <2>3, <2>4
<1>9. todo' \subseteq NonTextOf(r) /\ PatternsOf(r)' = PatternsOf(r) /\ NonTextOf(r)' = NonTextOf(r)
    BY <1>6 DEF PatternsOf, NonTextOf, IsText
<1> HIDE DEF Found, Lost, Barred, Enough, Satisfied, HasForbidden
<1>10. PatternsOf(at)' = PatternsOf(r) /\ NonTextOf(at)' = NonTextOf(r)
    BY <1>1, <1>9 DEF PatternsOf, NonTextOf, IsText
<1>11. /\ ShouldEvaluateRule(at)' /\ ConditionMonotonic(at)' = ConditionMonotonic(r)
       /\ Barred(at)' = Barred(r)' /\ Satisfied(at, spans)' = Satisfied(r, spans)'
       /\ HasForbidden(at, spans)' = HasForbidden(r, spans)' /\ \A p : Enough(at, p)' = Enough(r, p)'
    BY <1>1
<1> QED BY <1>1, <1>2, <1>3, <1>5, <1>7, <1>8, <1>9, <1>10, <1>11 DEF StringsInv

\* What a rule gets of one string: as much as its condition can tell, unless the slot was
\* emptied.
LEMMA StringIsEnough ==
    ASSUME UncountedIfShort, FrameInv, SlotsInv, pc = "strings", NEW r \in RuleIds,
           NEW p \in PatternsOf(r), NEW found,
           NEW fails,
           found = IF Known(p) THEN CachedAt(p) ELSE FirstOfHex(r, p, Found(Pattern[p].key), fails)
    PROVE  /\ found \subseteq Found(Pattern[p].key)
           /\ \/ /\ found = {} <=> Found(Pattern[p].key) = {}
                 /\ FastScanSafe(r) \/ found = Found(Pattern[p].key)
              \/ found = {} /\ Lost(p) /\ Known(p)
<1> DEFINE k == Pattern[p].key
<1>1. p \in Patterns /\ Pattern[p].rule = r /\ input \in Inputs
    BY DEF PatternsOf, FrameInv
<1>2. SafeKey(k) => FastScanSafe(r)
    BY <1>1 DEF SafeKey
<1>3. CASE Known(p)
    <2>1. /\ CachedAt(p) \subseteq Found(k)
          /\ \/ CachedAt(p) = Found(k)
             \/ CachedAt(p) # {} /\ SafeKey(k)
             \/ CachedAt(p) = {} /\ Skipped(k) /\ k \in nonText.ready
        BY <1>1, <1>3, CachedIsFound
    <2>2. Skipped(k) /\ k \in nonText.ready => Found(k) = {} \/ Lost(p)
        BY DEF Skipped, Lost
    <2> HIDE DEF Found, FastScanSafe, SafeKey, Lost
    <2> QED BY <1>2, <1>3, <2>1, <2>2
<1>4. CASE ~Known(p)
    <2>1. \/ found = Found(k)
          \/ SafeKey(k) /\ Found(k) # {} /\ found = {Min(Found(k))}
        BY <1>4, OwnSearch
    <2>2. Found(k) # {} => Min(Found(k)) \in Found(k)
        BY <1>1, OccurrencesAreFinite, MinIs DEF Found
    <2> HIDE DEF Found, FastScanSafe, SafeKey, Lost
    <2> QED BY <1>2, <2>1, <2>2
<1> QED BY <1>3, <1>4

LEMMA AddStringStrings ==
    ASSUME UncountedIfShort, FrameInv, SlotsListed, SlotsInv, StringsInv, NEW r \in RuleIds,
           NEW p \in PatternsOf(r), AddString(r, p)
    PROVE  StringsInv'
<1> DEFINE k == Pattern[p].key
           got(fails) == IF Known(p) THEN CachedAt(p) ELSE FirstOfHex(r, p, Found(k), fails)
<1>0. PICK fails \in MayFail(r) :
          /\ spans' = [spans EXCEPT ![p] = Kept(r, got(fails))]
          /\ nonText' = IF Known(p) \/ OnePerString(r) THEN nonText ELSE CacheSet(k, got(fails))
          /\ todo' = IF CanShortCircuit(r) /\ got(fails) # {} /\ ~fails /\ Satisfied(r, spans')
                     THEN {} ELSE todo \ {p}
    BY DEF AddString, Found
<1> DEFINE found == got(fails)
<1>1. /\ pc = "strings" /\ pc' = "strings" /\ at = r /\ at' = r /\ p \in todo
      /\ UNCHANGED <<options, input, op, block, texts, dense>>
      /\ p \in NonTextOf(r) /\ p \in Patterns /\ ~IsText(p) /\ k \in Keys
    BY StringsOfRule, KeysOfLookup DEF AddString, NextStrings, call, StringsInv, NonTextOf
<1>2. \A j : Found(j)' = Found(j)
    BY <1>1, SameCall
<1>3. /\ found \subseteq Found(k)
      /\ \/ /\ found = {} <=> Found(k) = {}
            /\ FastScanSafe(r) \/ found = Found(k)
         \/ found = {} /\ Lost(p) /\ Known(p)
    <2> HIDE DEF Found, FastScanSafe, Lost
    <2> QED BY <1>1, StringIsEnough
<1>4. /\ spans' = [spans EXCEPT ![p] = Kept(r, found)]
      /\ nonText' = IF Known(p) \/ OnePerString(r) THEN nonText ELSE CacheSet(k, found)
      /\ todo' = IF CanShortCircuit(r) /\ found # {} /\ ~fails /\ Satisfied(r, spans')
                 THEN {} ELSE todo \ {p}
    BY <1>0
<1> HIDE DEF found
<1>5. /\ DOMAIN spans' = Patterns /\ spans'[p] = Kept(r, found)
      /\ \A q \in Patterns : q # p => spans'[q] = spans[q]
    BY <1>1, <1>4 DEF StringsInv
<1>6. found \subseteq Nat
    BY <1>1, <1>3, OccurrencesAreFinite DEF Found, FrameInv
<1>7. /\ spans'[p] \subseteq found /\ (spans'[p] = {} <=> found = {})
      /\ FastScanSafe(r) \/ spans'[p] = found
    <2> HIDE DEF Kept, FastScanSafe
    <2>1. /\ Kept(r, found) \subseteq found
          /\ Kept(r, found) = {} <=> found = {}
          /\ FastScanSafe(r) \/ Kept(r, found) = found
        BY <1>6, KeptOf
    <2> QED BY <1>5, <2>1
<1>8. \A q \in Patterns : Lost(q)' <=> Lost(q)
    <2>1. CASE UNCHANGED nonText
        BY <1>2, <2>1 DEF Lost
    <2>2. CASE nonText' = CacheSet(k, found) /\ ~Known(p)
        <3>1. k \notin nonText.ready /\ (found = {} <=> Found(k) = {})
            BY <1>3, <2>2 DEF Known
        <3>2. ASSUME NEW q \in Patterns, Pattern[q].key = k PROVE ~Lost(q) /\ ~Lost(q)'
            <4>1. nonText'.at[k] = found
                BY <1>1, <2>2 DEF CacheSet, SlotsListed
            <4> QED BY <1>2, <3>1, <3>2, <4>1 DEF Lost
        <3>3. ASSUME NEW q \in Patterns, Pattern[q].key # k PROVE Lost(q)' <=> Lost(q)
            <4>1. /\ nonText'.at[Pattern[q].key] = nonText.at[Pattern[q].key]
                  /\ Pattern[q].key \in nonText'.ready <=> Pattern[q].key \in nonText.ready
                BY <2>2, <3>3, KeysOfLookup DEF CacheSet, SlotsListed
            <4> QED BY <1>2, <4>1 DEF Lost
        <3> QED BY <3>2, <3>3
    <2> QED BY <1>4, <2>1, <2>2
<1>9. Barred(r) => Barred(r)'
    <2>1. ForbiddenStrings(r)' = ForbiddenStrings(r) /\ ForbiddenStrings(r) \subseteq Patterns
        BY StringsOfRule DEF ForbiddenStrings
    <2> QED BY <1>1, <1>5, <2>1 DEF Barred, SkipsUnmatched, IsText
<1>10. Enough(r, p)' \/ Lost(p)
    BY <1>2, <1>3, <1>7 DEF Enough
<1>11. \A q \in PatternsOf(r) \ todo : q # p => (Enough(r, q) => Enough(r, q)')
    BY <1>1, <1>2, <1>5, StringsOfRule DEF Enough
<1>12. \A q \in PatternsOf(r) \ todo : Enough(r, q) \/ (~IsText(q) /\ Lost(q))
    BY <1>1 DEF StringsInv
<1>13. \/ \A q \in PatternsOf(r) \ todo' : Enough(r, q)' \/ (~IsText(q) /\ Lost(q)')
       \/ todo' = {} /\ ConditionMonotonic(r) /\ Satisfied(r, spans)' /\ \E q \in Patterns : spans'[q] # {}
    <2>1. CASE CanShortCircuit(r) /\ found # {} /\ ~fails /\ Satisfied(r, spans')
        <3>1. Satisfied(r, spans)'
            BY <1>1, <2>1 DEF Satisfied, FactsNow, Readable, Origin
        <3> QED BY <1>1, <1>4, <1>7, <2>1, <3>1 DEF CanShortCircuit
    <2>2. CASE ~(CanShortCircuit(r) /\ found # {} /\ ~fails /\ Satisfied(r, spans'))
        <3>1. todo' = todo \ {p}
            BY <1>4, <2>2
        <3>2. PatternsOf(r) \subseteq Patterns
            BY StringsOfRule
        <3> HIDE DEF Enough, Lost, IsText
        <3> QED BY <1>1, <1>8, <1>10, <1>11, <1>12, <3>1, <3>2
    <2> QED BY <2>1, <2>2
<1>14. todo' \subseteq NonTextOf(r)
    BY <1>1, <1>4 DEF StringsInv
<1>15. \A q \in Patterns : /\ spans'[q] \subseteq Found(Pattern[q].key)
                           /\ q \notin PatternsOf(r) => spans'[q] = {}
    BY <1>1, <1>3, <1>5, <1>7 DEF StringsInv
<1>16. (\E q \in NonTextOf(r) : Lost(q)') => Barred(r)'
    BY <1>1, <1>8, <1>9 DEF StringsInv, NonTextOf, PatternsOf
<1>17. PatternsOf(at)' = PatternsOf(r) /\ NonTextOf(at)' = NonTextOf(r) /\ \A q : IsText(q)' = IsText(q)
    BY <1>1 DEF PatternsOf, NonTextOf, IsText
<1> HIDE DEF Found, Lost, Barred, Enough, Satisfied, IsText
<1>18. /\ ShouldEvaluateRule(at)' /\ ConditionMonotonic(at)' = ConditionMonotonic(r)
       /\ Barred(at)' = Barred(r)' /\ Satisfied(at, spans)' = Satisfied(r, spans)'
       /\ \A q : Enough(at, q)' = Enough(r, q)'
    BY <1>1 DEF StringsInv
<1> QED BY <1>1, <1>2, <1>5, <1>13, <1>14, <1>15, <1>16, <1>17, <1>18 DEF StringsInv

LEMMA StringsStep ==
    UncountedIfShort /\ FrameInv /\ SlotsListed /\ SlotsInv /\ StringsInv /\ [Next]_vars
        => StringsInv'
<1> SUFFICES ASSUME UncountedIfShort, FrameInv, SlotsListed, SlotsInv, StringsInv, [Next]_vars
             PROVE  StringsInv'
    OBVIOUS
<1> USE DEF call, matching, ruling
<1>1. CASE pc' # "strings"
    BY <1>1 DEF StringsInv
<1>2. CASE Cancel \/ UNCHANGED vars
    <2>1. UNCHANGED <<pc, at, todo, spans, nonText, texts, input, op, options, dense, block>>
        BY <1>2 DEF Cancel, vars
    <2>2. \A k : Found(k)' = Found(k)
        BY <2>1, SameCall
    <2>3. \A p : Lost(p)' = Lost(p) /\ IsText(p)' = IsText(p)
        BY <2>1, <2>2 DEF Lost, IsText
    <2>4. PatternsOf(at)' = PatternsOf(at) /\ NonTextOf(at)' = NonTextOf(at)
        BY <2>1 DEF PatternsOf, NonTextOf, IsText
    <2>5. ShouldEvaluateRule(at)' = ShouldEvaluateRule(at)
          /\ ConditionMonotonic(at)' = ConditionMonotonic(at)
        BY <2>1
    <2>6. Barred(at)' = Barred(at)
        BY <2>1 DEF Barred, SkipsUnmatched, IsText
    <2>7. \A p : Enough(at, p)' = Enough(at, p)
        BY <2>1, <2>2 DEF Enough
    <2>8. Satisfied(at, spans)' = Satisfied(at, spans)
        BY <2>1 DEF Satisfied, FactsNow, Readable, Origin
    <2>9. HasForbidden(at, spans)' = HasForbidden(at, spans) /\ SkipsUnmatched' = SkipsUnmatched
        BY <2>1 DEF HasForbidden, Known, CachedAt, IsText, Covered, KeyOf, SkipsUnmatched
    <2> HIDE DEF Found, Lost, Barred, Enough, Satisfied, HasForbidden, IsText, PatternsOf, NonTextOf
    <2> QED BY <2>1, <2>2, <2>3, <2>4, <2>5, <2>6, <2>7, <2>8, <2>9 DEF StringsInv
<1>3. CASE Start \/ Broken \/ Report
    BY <1>1, <1>3 DEF Start, Broken, Abort, ConditionFails, Report
<1>4. CASE Work
    <2>1. CASE Matching \/ RulesDone
        BY <1>1, <2>1 DEF Matching, RejectCompact, PreparePatternScan, FixedRegexes, SharedSearch,
            VerifyEntry, VerifyDone, SelectRules, RulesDone
    <2>2. ASSUME NEW r \in RuleIds, PassOver(r) \/ Prune(r) \/ Conclude(r)
          PROVE  pc' # "strings"
        BY <2>2 DEF PassOver, Looking, Prune, Conclude, Decide
    <2>3. ASSUME NEW r \in RuleIds, AddTexts(r) PROVE StringsInv'
        BY <2>3, AddTextsStrings
    <2>4. ASSUME NEW r \in RuleIds, NEW p \in PatternsOf(r), AddString(r, p) PROVE StringsInv'
        BY <2>4, AddStringStrings
    <2> QED BY <1>1, <1>4, <2>1, <2>2, <2>3, <2>4 DEF Work
<1> QED BY <1>2, <1>3, <1>4, KindsOfStep

---------------------------------------------------------------------------
(* The verdict of a rule. *)

LEMMA CountsOf ==
    ASSUME FrameInv, StringsInv, pc = "strings", NEW p \in Patterns
    PROVE  /\ FactsNow(spans).count[p] = Cardinality(spans[p])
           /\ Facts.count[p] = Cardinality(Found(Pattern[p].key))
           /\ Cardinality(spans[p]) \in Nat /\ Cardinality(Found(Pattern[p].key)) \in Nat
           /\ Cardinality(spans[p]) > 0 <=> spans[p] # {}
           /\ Cardinality(Found(Pattern[p].key)) > 0 <=> Found(Pattern[p].key) # {}
<1>1. IsFiniteSet(Found(Pattern[p].key)) /\ spans[p] \subseteq Found(Pattern[p].key)
    BY OccurrencesAreFinite DEF Found, FrameInv, StringsInv
<1>2. IsFiniteSet(spans[p])
    BY <1>1, FS_Subset
<1>3. /\ FactsNow(spans).count[p] = Cardinality(spans[p])
      /\ Facts.count[p] = Cardinality(Found(Pattern[p].key))
    BY DEF FactsNow, Facts, FactsOf, Found
<1> HIDE DEF Found, FactsNow, Facts
<1> QED BY <1>1, <1>2, <1>3, FS_CardinalityType, FS_EmptySet

LEMMA ReadsNow ==
    ASSUME FrameInv, pc # "idle"
    PROVE  FactsNow(spans).readable = Facts.readable /\ FactsNow(spans).size = Facts.size
BY ReadsInput DEF FactsNow

\* On enough of every string the condition says what it says of the input.
LEMMA EnoughIsAll ==
    ASSUME FrameInv, StringsInv, pc = "strings", NEW r \in RuleIds, r = at,
           \A p \in PatternsOf(r) : Enough(r, p)
    PROVE  Satisfied(r, spans) <=> Holds(r, Facts, dense)
<1> DEFINE W == FactsNow(spans)
<1>1. W.readable = Facts.readable /\ W.size = Facts.size
    BY ReadsNow
<1>2. ASSUME NEW c \in Rule[r].clauses
      PROVE  /\ \A p \in c.need : W.count[p] > 0 <=> Facts.count[p] > 0
             /\ \A p \in c.twice : W.count[p] > 1 <=> Facts.count[p] > 1
             /\ \A p \in c.absent : W.count[p] = 0 <=> Facts.count[p] = 0
    <2>1. \A p \in c.need \cup c.twice \cup c.absent : p \in PatternsOf(r) /\ p \in Patterns
        BY <1>2, BufferAssumption, StringsOfRule
    <2>2. ASSUME NEW p \in c.need \cup c.twice \cup c.absent
          PROVE  /\ W.count[p] \in Nat /\ Facts.count[p] \in Nat
                 /\ W.count[p] > 0 <=> Facts.count[p] > 0
                 /\ p \in c.twice => W.count[p] = Facts.count[p]
        <3>1. Enough(r, p) /\ p \in Patterns
            BY <2>1, <2>2
        <3>2. p \in c.twice => ~FastScanSafe(r)
            BY <1>2 DEF FastScanSafe, ConditionObservesMatchOccurrences
        <3>3. /\ W.count[p] = Cardinality(spans[p])
              /\ Facts.count[p] = Cardinality(Found(Pattern[p].key))
              /\ Cardinality(spans[p]) \in Nat /\ Cardinality(Found(Pattern[p].key)) \in Nat
              /\ Cardinality(spans[p]) > 0 <=> spans[p] # {}
              /\ Cardinality(Found(Pattern[p].key)) > 0 <=> Found(Pattern[p].key) # {}
            BY <3>1, CountsOf
        <3> HIDE DEF W, Facts, FastScanSafe, Found
        <3> QED BY <3>1, <3>2, <3>3 DEF Enough
    <2> HIDE DEF W, Facts
    <2>3. \A p \in c.absent : W.count[p] = 0 <=> Facts.count[p] = 0
        BY <2>2
    <2> QED BY <2>2, <2>3
<1> HIDE DEF W, Facts
<1>3. Holds(r, W, dense) <=> Holds(r, Facts, dense)
    BY <1>1, <1>2 DEF Holds
<1> QED BY <1>3 DEF Satisfied, W

\* A monotonic condition that holds on a part of the strings holds on all of them.
LEMMA PartIsEnough ==
    ASSUME FrameInv, StringsInv, pc = "strings", NEW r \in RuleIds, r = at,
           ConditionMonotonic(r), Satisfied(r, spans)
    PROVE  Holds(r, Facts, dense)
<1> DEFINE W == FactsNow(spans)
<1>1. W.readable = Facts.readable /\ W.size = Facts.size /\ Holds(r, W, dense)
    BY ReadsNow DEF Satisfied
<1>2. ASSUME NEW c \in Rule[r].clauses
      PROVE  /\ \A p \in c.need : W.count[p] > 0 => Facts.count[p] > 0
             /\ c.twice = {} /\ c.absent = {}
    <2>1. ASSUME NEW p \in c.need PROVE W.count[p] > 0 => Facts.count[p] > 0
        <3>1. p \in Patterns
            BY <1>2, <2>1, RuleSetAssumption DEF Clause
        <3>2. spans[p] # {} => Found(Pattern[p].key) # {}
            BY <3>1 DEF StringsInv
        <3>3. /\ W.count[p] = Cardinality(spans[p])
              /\ Facts.count[p] = Cardinality(Found(Pattern[p].key))
              /\ Cardinality(spans[p]) > 0 <=> spans[p] # {}
              /\ Cardinality(Found(Pattern[p].key)) > 0 <=> Found(Pattern[p].key) # {}
            BY <3>1, CountsOf
        <3> HIDE DEF W, Facts, Found
        <3> QED BY <3>2, <3>3
    <2> QED BY <1>2, <2>1 DEF ConditionMonotonic, ConditionObservesMatchOccurrences
<1> HIDE DEF W, Facts
<1> QED BY <1>1, <1>2 DEF Holds

\* The results of the loop so far and the meaning of the next rule.
LEMMA MeaningOfNext ==
    ASSUME LoopInv, pc \in {"rule", "strings"}, NEW r \in RuleIds, r = at
    PROVE  M[r] = (ShouldEvaluateRule(r) /\ Holds(r, Facts, dense))
<1>1. \A q \in 1 .. (r - 1) : q \in RuleIds /\ q < at
    BY RuleSetAssumption DEF RuleIds
<1>2. \A q \in 1 .. (r - 1) : dense[q] = RuleResults(Facts)[q]
    BY <1>1 DEF LoopInv, M, Meaning, Facts
<1> HIDE DEF Facts
<1>3. RuleResults(Facts)[r] = (ShouldEvaluateRule(r) /\ Holds(r, Facts, dense))
    BY <1>2, LoopFollowsResults
<1> QED BY <1>3 DEF M, Meaning, Facts

LEMMA MeaningType == M \in [RuleIds -> BOOLEAN]
BY ResultsUnfold DEF M, Meaning

LEMMA VerdictIsRight ==
    ASSUME FrameInv, SlotsInv, StringsInv, LoopInv, pc = "strings", todo = {},
           NEW r \in RuleIds, r = at
    PROVE  Verdict(r) = M[r]
<1>1. \A p \in Patterns : spans[p] \subseteq Found(Pattern[p].key)
    BY DEF StringsInv
<1>2. HasForbidden(r, spans) => ~M[r]
    BY <1>1, ForbiddenIsSound
<1>3. M[r] = (ShouldEvaluateRule(r) /\ Holds(r, Facts, dense)) /\ ShouldEvaluateRule(r)
    BY MeaningOfNext DEF StringsInv
<1>4. M[r] \in BOOLEAN /\ input \in Inputs
    BY MeaningType DEF FrameInv
<1>5. CASE options.prefilter /\ SkipsUnmatched /\ HasForbidden(r, spans)
    <2>1. Verdict(r) = FALSE
        BY <1>5 DEF Verdict, Executed
    <2> HIDE DEF M
    <2> QED BY <1>2, <1>4, <1>5, <2>1
<1>6. CASE ~(options.prefilter /\ SkipsUnmatched /\ HasForbidden(r, spans))
    <2> DEFINE Seen == \E p \in Patterns : spans[p] # {}
    <2>1. Verdict(r) = ((RequiresStringMatch(r) /\ options.prefilter => Seen) /\ Satisfied(r, spans))
        BY <1>6 DEF Verdict, Executed
    <2>2. CASE ConditionMonotonic(r) /\ Satisfied(r, spans) /\ Seen
        <3>1. Holds(r, Facts, dense)
            BY <2>2, PartIsEnough
        <3>2. Verdict(r) = TRUE
            BY <2>1, <2>2
        <3> HIDE DEF M, Facts
        <3> QED BY <1>3, <1>4, <3>1, <3>2
    <2>3. CASE \A p \in PatternsOf(r) : Enough(r, p)
        <3>1. Satisfied(r, spans) <=> Holds(r, Facts, dense)
            BY <2>3, EnoughIsAll
        <3>2. M[r] /\ RequiresStringMatch(r) => Seen
            <4> SUFFICES ASSUME M[r], RequiresStringMatch(r) PROVE Seen
                OBVIOUS
            <4>1. PICK p \in PatternsOf(r) : Found(Pattern[p].key) # {}
                BY <1>4, SomeStringIsThere DEF M, Found
            <4> QED BY <2>3, <4>1, StringsOfRule DEF Enough
        <3> HIDE DEF M, Facts, Seen, Satisfied
        <3>3. Verdict(r) <=> M[r]
            BY <1>3, <2>1, <3>1, <3>2
        <3>4. Verdict(r) \in BOOLEAN
            BY <2>1
        <3> QED BY <1>4, <3>3, <3>4
    <2>4. CASE \E p \in NonTextOf(r) : Lost(p)
        <3>1. Barred(r)
            BY <2>4 DEF StringsInv
        <3>2. HasForbidden(r, spans)
            BY <3>1 DEF Barred, HasForbidden
        <3> QED BY <1>6, <3>1, <3>2 DEF Barred
    <2>5. \/ \A p \in PatternsOf(r) : Enough(r, p) \/ (~IsText(p) /\ Lost(p))
          \/ ConditionMonotonic(r) /\ Satisfied(r, spans) /\ Seen
        BY <1>6 DEF StringsInv
    <2>6. \A p \in PatternsOf(r) : ~IsText(p) => p \in NonTextOf(r)
        BY DEF NonTextOf
    <2> HIDE DEF Enough, Lost, Satisfied, M
    <2> QED BY <2>2, <2>3, <2>4, <2>5, <2>6
<1> QED BY <1>5, <1>6

\* A rule that is passed over or pruned does not match.
LEMMA PassedOver ==
    ASSUME FrameInv, MarksInv, NEW r \in RuleIds, PassOver(r)
    PROVE  ~M[r] /\ (r \in EvaluatedGlobalRules => UsesCandidates /\ ~IsCandidate(r))
<1>1. CASE ~ShouldEvaluateRule(r)
    <2>1. ~M[r]
        BY <1>1, WhatMatches DEF M, FrameInv, PassOver, Looking
    <2> QED BY <1>1, <2>1 DEF EvaluatedGlobalRules
<1>2. CASE UsesCandidates /\ ~IsCandidate(r)
    <2>1. ~M[r]
        BY <1>2 DEF MarksInv, UsesCandidates, PassOver, Looking
    <2> QED BY <1>2, <2>1
<1> QED BY <1>1, <1>2 DEF PassOver

LEMMA Pruned ==
    ASSUME FrameInv, HeadersKnown, SlotsInv, NEW r \in RuleIds, Prune(r)
    PROVE  ~M[r]
<1>1. pc = "rule" /\ input \in Inputs
    BY DEF Prune, Evaluated, Looking, FrameInv
<1>2. CASE ~HeaderHolds(r)
    <2>1. ~({Rule[r].headerEnd} \ {0} \subseteq Facts.readable)
        BY <1>1, <1>2, HeaderIsRead
    <2> QED BY <1>1, <2>1, WhatMatches DEF M, Facts
<1>3. CASE GateRejects(r)
    BY <1>1, <1>3, MissingIsSound DEF GateRejects
<1> QED BY <1>2, <1>3 DEF Prune

---------------------------------------------------------------------------
(* The rule loop and the report. *)

\* What the loop knows of the global rules.
LEMMA SameMarks ==
    ASSUME UNCHANGED <<options, input, op, marks, epoch>>
    PROVE  UsesCandidates' = UsesCandidates /\ (\A r : IsCandidate(r)' = IsCandidate(r)) /\ M' = M
BY SameCall DEF UsesCandidates, IsCandidate

LEMMA LoopUntouched ==
    ASSUME UNCHANGED <<options, input, op, marks, epoch, at, dense, globals>>, LoopInv,
           pc' \in {"rule", "strings", "report"} => pc \in {"rule", "strings", "report"},
           pc' \in {"rule", "strings"} => pc \in {"rule", "strings"},
           pc' = "strings" => at \in RuleIds
    PROVE  LoopInv'
<1>1. UsesCandidates' = UsesCandidates /\ (\A r : IsCandidate(r)' = IsCandidate(r)) /\ M' = M
    BY SameMarks
<1>2. EvaluatedGlobalRules' = EvaluatedGlobalRules
    BY DEF EvaluatedGlobalRules
<1> HIDE DEF M, UsesCandidates, IsCandidate, EvaluatedGlobalRules
<1> QED BY <1>1, <1>2 DEF LoopInv

LEMMA Decided ==
    ASSUME LoopInv, pc \in {"rule", "strings"}, NEW r \in RuleIds, r = at, ShouldEvaluateRule(r),
           NEW verdict, verdict = M[r], Decide(r, verdict)
    PROVE  LoopInv'
<1>0. UNCHANGED <<options, input, op, marks, epoch>>
    BY DEF Decide, call, matching
<1>1. UsesCandidates' = UsesCandidates /\ (\A q : IsCandidate(q)' = IsCandidate(q)) /\ M' = M
    BY <1>0, SameMarks
<1>2. /\ dense' = [dense EXCEPT ![r] = verdict] /\ at' = r + 1 /\ pc' = "rule"
      /\ globals' = (globals /\ (Rule[r].global => verdict))
    BY DEF Decide
<1>3. r \in 1 .. NumRules /\ NumRules \in Nat
    BY RuleSetAssumption DEF RuleIds
<1>4. /\ DOMAIN dense = RuleIds
      /\ \A q \in RuleIds : dense[q] = IF q < at THEN M[q] ELSE FALSE
      /\ globals = /\ UsesCandidates => \A g \in EvaluatedGlobalRules : IsCandidate(g)
                   /\ \A g \in EvaluatedGlobalRules : g < at => M[g]
    BY DEF LoopInv
<1>5. r \in EvaluatedGlobalRules <=> Rule[r].global
    BY DEF EvaluatedGlobalRules
<1>6. EvaluatedGlobalRules \subseteq RuleIds
    BY DEF EvaluatedGlobalRules
<1>7. \A q \in RuleIds : q < at' <=> (q < at \/ q = r)
    BY <1>2, <1>3 DEF RuleIds
<1> HIDE DEF M, UsesCandidates, IsCandidate, EvaluatedGlobalRules
<1>8. \A q \in RuleIds : dense'[q] = IF q < at' THEN M[q] ELSE FALSE
    <2>1. ASSUME NEW q \in RuleIds, q = r PROVE dense'[q] = IF q < at' THEN M[q] ELSE FALSE
        BY <1>2, <1>4, <1>7, <2>1
    <2>2. ASSUME NEW q \in RuleIds, q # r PROVE dense'[q] = IF q < at' THEN M[q] ELSE FALSE
        BY <1>2, <1>4, <1>7, <2>2
    <2> QED BY <2>1, <2>2
<1>9. globals' = /\ UsesCandidates => \A g \in EvaluatedGlobalRules : IsCandidate(g)
                 /\ \A g \in EvaluatedGlobalRules : g < at' => M[g]
    <2> DEFINE A == UsesCandidates => \A g \in EvaluatedGlobalRules : IsCandidate(g)
               B == \A g \in EvaluatedGlobalRules : g < at => M[g]
               C == \A g \in EvaluatedGlobalRules : g < at' => M[g]
    <2>1. C <=> B /\ (Rule[r].global => M[r])
        BY <1>5, <1>6, <1>7
    <2>2. globals = (A /\ B)
        BY <1>4
    <2>3. globals' = ((A /\ B) /\ (Rule[r].global => M[r]))
        BY <1>2, <2>2
    <2> HIDE DEF A, B, C
    <2>4. ((A /\ B) /\ (Rule[r].global => M[r])) <=> (A /\ C)
        BY <2>1
    <2>5. globals' = (A /\ C)
        BY <2>3, <2>4
    <2> QED BY <2>5 DEF A, C
<1>10. DOMAIN dense' = RuleIds /\ at' \in 1 .. (NumRules + 1)
    BY <1>2, <1>3, <1>4
<1>11. EvaluatedGlobalRules' = EvaluatedGlobalRules
    BY DEF EvaluatedGlobalRules
<1> QED BY <1>1, <1>2, <1>8, <1>9, <1>10, <1>11 DEF LoopInv

LEMMA LoopPasses ==
    ASSUME FrameInv, MarksInv, LoopInv, NEW r \in RuleIds, PassOver(r)
    PROVE  LoopInv'
<1>0. /\ UNCHANGED <<options, input, op, marks, epoch, dense, globals>> /\ pc = "rule" /\ pc' = "rule"
      /\ at = r /\ at' = r + 1
    BY DEF PassOver, Looking, call, matching, ruling
<1>1. UsesCandidates' = UsesCandidates /\ (\A q : IsCandidate(q)' = IsCandidate(q)) /\ M' = M
    BY <1>0, SameMarks
<1>2. ~M[r] /\ (r \in EvaluatedGlobalRules => UsesCandidates /\ ~IsCandidate(r))
    BY PassedOver
<1>3. r \in 1 .. NumRules /\ NumRules \in Nat
    BY RuleSetAssumption DEF RuleIds
<1>4. /\ DOMAIN dense = RuleIds
      /\ \A q \in RuleIds : dense[q] = IF q < at THEN M[q] ELSE FALSE
      /\ globals = /\ UsesCandidates => \A g \in EvaluatedGlobalRules : IsCandidate(g)
                   /\ \A g \in EvaluatedGlobalRules : g < at => M[g]
    BY <1>0 DEF LoopInv
<1>5. EvaluatedGlobalRules \subseteq RuleIds /\ EvaluatedGlobalRules' = EvaluatedGlobalRules
    BY DEF EvaluatedGlobalRules
<1>6. \A q \in RuleIds : q < at' <=> (q < at \/ q = r)
    BY <1>0, <1>3 DEF RuleIds
<1>7. M[r] = FALSE
    BY <1>2, MeaningType
<1> HIDE DEF M, UsesCandidates, IsCandidate, EvaluatedGlobalRules
<1>8. \A q \in RuleIds : dense'[q] = IF q < at' THEN M[q] ELSE FALSE
    <2>1. ASSUME NEW q \in RuleIds, q = r PROVE dense'[q] = IF q < at' THEN M[q] ELSE FALSE
        <3>1. ~(q < at) /\ q < at'
            BY <1>0, <1>3, <2>1
        <3> QED BY <1>0, <1>4, <1>7, <2>1, <3>1
    <2>2. ASSUME NEW q \in RuleIds, q # r PROVE dense'[q] = IF q < at' THEN M[q] ELSE FALSE
        BY <1>0, <1>4, <1>6, <2>2
    <2> QED BY <2>1, <2>2
<1>9. globals' = /\ UsesCandidates => \A g \in EvaluatedGlobalRules : IsCandidate(g)
                 /\ \A g \in EvaluatedGlobalRules : g < at' => M[g]
    <2> DEFINE A == UsesCandidates => \A g \in EvaluatedGlobalRules : IsCandidate(g)
               B == \A g \in EvaluatedGlobalRules : g < at => M[g]
               C == \A g \in EvaluatedGlobalRules : g < at' => M[g]
    <2>1. CASE r \in EvaluatedGlobalRules
        <3>1. ~A
            BY <1>2, <2>1
        <3> QED BY <1>0, <1>4, <3>1
    <2>2. CASE r \notin EvaluatedGlobalRules
        <3>1. B <=> C
            BY <1>5, <1>6, <2>2
        <3>2. globals' = (A /\ B)
            BY <1>0, <1>4
        <3> HIDE DEF A, B, C
        <3>3. globals' = (A /\ C)
            BY <3>1, <3>2
        <3> QED BY <3>3 DEF A, C
    <2> QED BY <2>1, <2>2
<1>10. DOMAIN dense' = RuleIds /\ at' \in 1 .. (NumRules + 1)
    BY <1>0, <1>3, <1>4
<1> QED BY <1>0, <1>1, <1>5, <1>8, <1>9, <1>10 DEF LoopInv

LEMMA LoopBegins ==
    ASSUME BeforeInv, SelectRules
    PROVE  LoopInv'
<1>1. /\ pc' = "rule" /\ at' = 1 /\ dense' = NoResults /\ epoch' = epoch /\ UNCHANGED <<options, input>>
      /\ globals' = (UsesCandidates => \A g \in EvaluatedGlobalRules : marks'[g] = epoch)
    BY DEF SelectRules, BeforeInv, call
<1>2. UsesCandidates' = UsesCandidates /\ EvaluatedGlobalRules' = EvaluatedGlobalRules
    BY <1>1 DEF UsesCandidates, EvaluatedGlobalRules
<1>3. \A g : IsCandidate(g)' = (marks'[g] = epoch)
    BY <1>1 DEF IsCandidate
<1>4. \A q \in RuleIds : ~(q < 1)
    BY RuleSetAssumption DEF RuleIds
<1>5. EvaluatedGlobalRules \subseteq RuleIds
    BY DEF EvaluatedGlobalRules
<1>6. DOMAIN dense' = RuleIds /\ \A q \in RuleIds : dense'[q] = FALSE
    BY <1>1 DEF NoResults
<1>7. at' \in 1 .. (NumRules + 1)
    BY <1>1, RuleSetAssumption
<1> HIDE DEF M, UsesCandidates, IsCandidate, EvaluatedGlobalRules
<1>8. globals' = /\ UsesCandidates' => \A g \in EvaluatedGlobalRules : IsCandidate(g)'
                 /\ \A g \in EvaluatedGlobalRules : g < at' => M'[g]
    <2> DEFINE A == UsesCandidates => \A g \in EvaluatedGlobalRules : IsCandidate(g)'
    <2>1. globals' = A
        BY <1>1, <1>3
    <2>2. \A g \in EvaluatedGlobalRules : g < at' => M'[g]
        BY <1>1, <1>4, <1>5
    <2> QED BY <1>2, <2>1, <2>2
<1> QED BY <1>1, <1>2, <1>4, <1>6, <1>7, <1>8 DEF LoopInv

LEMMA LoopStep ==
    FrameInv /\ HeadersKnown /\ BeforeInv /\ MarksInv /\ SlotsInv /\ StringsInv /\ LoopInv
        /\ [Next]_vars => LoopInv'
<1> SUFFICES ASSUME FrameInv, HeadersKnown, BeforeInv, MarksInv, SlotsInv, StringsInv, LoopInv,
                    [Next]_vars
             PROVE  LoopInv'
    OBVIOUS
<1> USE DEF call, matching, ruling
<1>1. CASE pc' \notin {"rule", "strings", "report"}
    BY <1>1 DEF LoopInv
<1>2. CASE Cancel \/ UNCHANGED vars \/ RulesDone
    <2>1. /\ UNCHANGED <<options, input, op, marks, epoch, at, dense, globals>>
          /\ pc' \in {"rule", "strings", "report"} => pc \in {"rule", "strings", "report"}
          /\ pc' \in {"rule", "strings"} => pc \in {"rule", "strings"}
          /\ pc' = "strings" => pc = "strings"
        BY <1>2 DEF Cancel, vars, RulesDone
    <2>2. pc = "strings" => at \in RuleIds
        BY DEF LoopInv
    <2> QED BY <2>1, <2>2, LoopUntouched
<1>3. CASE Start \/ Broken \/ Report
    BY <1>1, <1>3 DEF Start, Broken, Abort, ConditionFails, Report
<1>4. CASE Work
    <2>1. CASE RejectCompact
        BY <2>1 DEF RejectCompact, BeforeInv, NoResults, LoopInv
    <2>2. CASE PreparePatternScan \/ FixedRegexes \/ SharedSearch \/ VerifyEntry \/ VerifyDone
        BY <1>1, <2>2 DEF PreparePatternScan, FixedRegexes, SharedSearch, VerifyEntry, VerifyDone
    <2>3. CASE SelectRules
        BY <2>3, LoopBegins
    <2>4. ASSUME NEW r \in RuleIds, PassOver(r) PROVE LoopInv'
        BY <2>4, LoopPasses
    <2>5. ASSUME NEW r \in RuleIds, Prune(r) PROVE LoopInv'
        <3>1. pc = "rule" /\ r = at /\ ShouldEvaluateRule(r) /\ Decide(r, FALSE)
            BY <2>5 DEF Prune, Evaluated, Looking
        <3>2. M[r] = FALSE
            BY <2>5, Pruned, MeaningType
        <3> HIDE DEF Decide
        <3> QED BY <3>1, <3>2, Decided
    <2>6. ASSUME NEW r \in RuleIds, AddTexts(r) PROVE LoopInv'
        <3>1. /\ UNCHANGED <<options, input, op, marks, epoch, at, dense, globals>>
              /\ pc = "rule" /\ at = r
            BY <2>6 DEF AddTexts, Evaluated, Looking
        <3> QED BY <3>1, LoopUntouched
    <2>7. ASSUME NEW r \in RuleIds, Conclude(r) PROVE LoopInv'
        <3>1. pc = "strings" /\ r = at /\ todo = {} /\ Decide(r, Verdict(r))
            BY <2>7 DEF Conclude
        <3>2. Verdict(r) = M[r]
            BY <3>1, VerdictIsRight
        <3>3. ShouldEvaluateRule(r)
            BY <3>1 DEF StringsInv
        <3> HIDE DEF Decide
        <3> QED BY <3>1, <3>2, <3>3, Decided
    <2>8. ASSUME NEW r \in RuleIds, NEW p \in PatternsOf(r), AddString(r, p) PROVE LoopInv'
        <3>1. /\ UNCHANGED <<options, input, op, marks, epoch, at, dense, globals>>
              /\ pc = "strings" /\ at = r /\ pc' = "strings"
            BY <2>8 DEF AddString
        <3> QED BY <3>1, LoopUntouched
    <2> QED BY <1>2, <1>4, <2>1, <2>2, <2>3, <2>4, <2>5, <2>6, <2>7, <2>8 DEF Work, Matching
<1> QED BY <1>2, <1>3, <1>4, KindsOfStep

LEMMA ReportStep ==
    FrameInv /\ BeforeInv /\ MarksInv /\ LoopInv /\ ReportInv /\ [Next]_vars => ReportInv'
<1> SUFFICES ASSUME FrameInv, BeforeInv, MarksInv, LoopInv, ReportInv, [Next]_vars
             PROVE  ReportInv'
    OBVIOUS
<1> USE DEF call, matching, ruling
<1>1. CASE pc' # "report"
    BY <1>1 DEF ReportInv
<1>2. CASE Cancel \/ UNCHANGED vars
    <2>1. UNCHANGED <<pc, dense, globals, input, op>>
        BY <1>2 DEF Cancel, vars
    <2>2. M' = M
        BY <2>1, SameCall
    <2> HIDE DEF M
    <2>3. AllGlobalMatched(M)' = AllGlobalMatched(M)
        BY <2>2 DEF AllGlobalMatched, EvaluatedGlobalRules
    <2> QED BY <2>1, <2>2, <2>3 DEF ReportInv
<1>3. CASE Start \/ Broken \/ Report
    BY <1>1, <1>3 DEF Start, Broken, Abort, ConditionFails, Report
<1>4. CASE RejectCompact
    <2>1. /\ UNCHANGED <<input, op, dense>> /\ dense = NoResults /\ input \in Inputs
          /\ HasCompactPrefilter /\ \A h \in input.hits : h.key \notin AnchorKeys
        BY <1>4 DEF RejectCompact, CompactRejects, BeforeInv, FrameInv
    <2>2. \A r \in RuleIds : ~M[r]
        BY <2>1, AnchorsCover DEF M
    <2>3. \A r \in RuleIds : dense'[r] = M[r] /\ M' = M
        BY <2>1, <2>2, MeaningType, SameCall DEF NoResults
    <2>4. M' = M
        BY <2>1, SameCall
    <2> HIDE DEF M
    <2> QED BY <2>2, <2>3, <2>4 DEF ReportInv
<1>5. CASE RulesDone
    <2>1. /\ pc = "rule" /\ at > NumRules /\ UNCHANGED <<input, op, dense, globals>>
        BY <1>5 DEF RulesDone
    <2>2. at \in 1 .. (NumRules + 1) /\ NumRules \in Nat
        BY <2>1, RuleSetAssumption DEF LoopInv
    <2>3. \A q \in RuleIds : q < at
        BY <2>1, <2>2 DEF RuleIds
    <2>4. M' = M
        BY <2>1, SameCall
    <2>5. \A g \in RuleIds : UsesCandidates /\ M[g] => IsCandidate(g)
        BY <2>1 DEF MarksInv, UsesCandidates
    <2>6. EvaluatedGlobalRules \subseteq RuleIds
        BY DEF EvaluatedGlobalRules
    <2>7. /\ \A q \in RuleIds : dense[q] = IF q < at THEN M[q] ELSE FALSE
          /\ globals = /\ UsesCandidates => \A g \in EvaluatedGlobalRules : IsCandidate(g)
                       /\ \A g \in EvaluatedGlobalRules : g < at => M[g]
        BY <2>1 DEF LoopInv
    <2> HIDE DEF M, UsesCandidates, IsCandidate, EvaluatedGlobalRules
    <2>8. globals = AllGlobalMatched(M)
        <3> DEFINE A == UsesCandidates => \A g \in EvaluatedGlobalRules : IsCandidate(g)
                   B == \A g \in EvaluatedGlobalRules : g < at => M[g]
        <3>1. A /\ B <=> AllGlobalMatched(M)
            BY <2>3, <2>5, <2>6 DEF AllGlobalMatched
        <3>2. globals = (A /\ B)
            BY <2>7
        <3>3. AllGlobalMatched(M) \in BOOLEAN
            BY DEF AllGlobalMatched
        <3> HIDE DEF A, B, AllGlobalMatched
        <3> QED BY <3>1, <3>2, <3>3
    <2>9. \A r \in RuleIds : dense[r] = M[r]
        BY <2>3, <2>7
    <2>10. AllGlobalMatched(M)' = AllGlobalMatched(M)
        BY <2>4 DEF AllGlobalMatched, EvaluatedGlobalRules
    <2> QED BY <2>1, <2>4, <2>8, <2>9, <2>10 DEF ReportInv
<1>6. CASE Work
    <2>1. CASE PreparePatternScan \/ FixedRegexes \/ SharedSearch \/ VerifyEntry \/ VerifyDone
               \/ SelectRules
        BY <1>1, <2>1 DEF PreparePatternScan, FixedRegexes, SharedSearch, VerifyEntry, VerifyDone,
            SelectRules
    <2>2. ASSUME NEW r \in RuleIds, PassOver(r) \/ Prune(r) \/ AddTexts(r) \/ Conclude(r)
          PROVE  pc' # "report"
        BY <2>2 DEF PassOver, Looking, Prune, AddTexts, Conclude, Decide
    <2>3. ASSUME NEW r \in RuleIds, NEW p \in PatternsOf(r), AddString(r, p) PROVE pc' # "report"
        BY <2>3 DEF AddString
    <2> QED BY <1>1, <1>4, <1>5, <1>6, <2>1, <2>2, <2>3 DEF Work, Matching
<1> QED BY <1>2, <1>3, <1>6, KindsOfStep

\* Results that are the same for every rule are reported alike.
LEMMA ReportedAlike ==
    ASSUME NEW f, NEW g, \A r \in RuleIds : f[r] = g[r], NEW held
    PROVE  /\ ReportedIf(f, FALSE, held) = ReportedIf(g, FALSE, held)
           /\ AllGlobalMatched(f) = AllGlobalMatched(g)
<1>1. {r \in RuleIds : /\ ShouldEvaluateRule(r) /\ f[r] /\ ~Rule[r].private
                       /\ HasMatchingTag(r) /\ (Rule[r].global \/ held)}
        = {r \in RuleIds : /\ ShouldEvaluateRule(r) /\ g[r] /\ ~Rule[r].private
                           /\ HasMatchingTag(r) /\ (Rule[r].global \/ held)}
    OBVIOUS
<1>2. AllGlobalMatched(f) = AllGlobalMatched(g)
    BY DEF AllGlobalMatched, EvaluatedGlobalRules
<1> QED BY <1>1, <1>2 DEF ReportedIf

\* What is reported of rules none of which matched does not depend on the global rules.
LEMMA NothingReported ==
    ASSUME NEW f, \A r \in RuleIds : ~f[r], NEW held
    PROVE  ReportedIf(f, FALSE, held) = {}
BY DEF ReportedIf

LEMMA ReportAnswers ==
    ASSUME FrameInv, LoopInv, ReportInv, Report
    PROVE  AnswersAgree'
<1> DEFINE held == IF op = "scan" THEN AllGlobalMatched(dense) ELSE globals
           public == {r \in RuleIds : dense[r] /\ Public(r) /\ (Rule[r].global \/ held)}
           all == AllGlobalMatched(M)
<1>1. /\ pc = "report" /\ UNCHANGED <<input, op>>
      /\ result'.rules = (IF op = "matches" THEN {} ELSE ReportedIf(dense, FALSE, held))
      /\ result'.matches = (op = "matches" /\ public # {})
    BY DEF Report
<1>2. M' = M /\ Meaning(input, op)' = M /\ \A r \in RuleIds : dense[r] = M[r]
    BY <1>1, SameCall DEF ReportInv, M
<1>3. (\A r \in RuleIds : ~M[r]) \/ held = all
    BY <1>1, <1>2, ReportedAlike DEF ReportInv
<1> HIDE DEF M, held, all
<1>4. ReportedIf(dense, FALSE, held) = ReportedIf(M, FALSE, held)
    BY <1>2, ReportedAlike
<1>5. ReportedIf(M, FALSE, held) = ReportedIf(M, FALSE, all)
    BY <1>3, NothingReported
<1>6. Reported(M, FALSE) = ReportedIf(M, FALSE, all)
    BY DEF Reported, all
<1>7. op # "matches" => result'.rules = Reported(M, FALSE)
    BY <1>1, <1>4, <1>5, <1>6
<1>8. public # {} <=> \E r \in RuleIds : M[r] /\ Public(r) /\ (Rule[r].global \/ all)
    BY <1>2, <1>3
<1>9. op = "matches" => (result'.matches <=> \E r \in RuleIds :
                             M[r] /\ Public(r) /\ (Rule[r].global \/ all))
    BY <1>1, <1>8
<1>10. Reported(Meaning(input, op), FALSE)' = Reported(M, FALSE)
    BY <1>2 DEF Reported, ReportedIf, AllGlobalMatched, EvaluatedGlobalRules
<1>11. AllGlobalMatched(Meaning(input, op))' = all
    BY <1>2 DEF AllGlobalMatched, EvaluatedGlobalRules, all
<1>12. \A r : Public(r)' = Public(r)
    BY DEF Public
<1> HIDE DEF Public, public, Meaning
<1> QED BY <1>1, <1>2, <1>7, <1>9, <1>10, <1>11, <1>12 DEF AnswersAgree

LEMMA AnswersStep ==
    FrameInv /\ LoopInv /\ ReportInv /\ AnswersAgree /\ [Next]_vars => AnswersAgree'
<1> SUFFICES ASSUME FrameInv, LoopInv, ReportInv, AnswersAgree, [Next]_vars
             PROVE  AnswersAgree'
    OBVIOUS
<1> USE DEF call, matching, ruling
<1>1. ASSUME UNCHANGED <<result, input, op>> PROVE AnswersAgree'
    <2>1. Meaning(input, op)' = Meaning(input, op)
        BY <1>1 DEF Meaning
    <2>2. /\ Reported(Meaning(input, op), FALSE)' = Reported(Meaning(input, op), FALSE)
          /\ AllGlobalMatched(Meaning(input, op))' = AllGlobalMatched(Meaning(input, op))
        BY <2>1 DEF Reported, ReportedIf, AllGlobalMatched, EvaluatedGlobalRules
    <2>3. \A r : Public(r)' = Public(r)
        BY DEF Public
    <2> HIDE DEF Meaning, Public
    <2> QED BY <1>1, <2>1, <2>2, <2>3 DEF AnswersAgree
<1>2. CASE Start \/ Broken
    <2>1. result'.status # "done"
        BY <1>2 DEF Start, Broken, Abort, ConditionFails, Returned
    <2> QED BY <2>1 DEF AnswersAgree
<1>3. CASE Report
    BY <1>3, ReportAnswers
<1>4. CASE Work
    BY <1>1, <1>4, WorkGoesOn
<1>5. CASE Cancel \/ UNCHANGED vars
    BY <1>1, <1>5 DEF Cancel, vars
<1> QED BY <1>2, <1>3, <1>4, <1>5, KindsOfStep

LEMMA InitCall == Init => CallInv
<1> SUFFICES ASSUME Init PROVE CallInv
    OBVIOUS
<1>1. pc = "idle" /\ options \in OptionSets /\ ~cancelled /\ block.on = FALSE
    BY DEF Init, NoBlock
<1>2. FrameInv
    BY <1>1 DEF FrameInv
<1>3. SlotsListed
    BY DEF Init, EmptyCache, SlotsListed
<1>4. HeadersKnown
    BY <1>1 DEF Init, HeadersKnown
<1>5. BeforeInv /\ VerifyInv /\ MarksInv /\ SlotsInv /\ LoopInv /\ StringsInv /\ ReportInv
    BY <1>1 DEF BeforeInv, VerifyInv, MarksInv, SlotsInv, LoopInv, StringsInv, ReportInv
<1>6. AnswersAgree
    BY DEF Init, Returned, AnswersAgree
<1> QED BY <1>2, <1>3, <1>4, <1>5, <1>6 DEF CallInv

\* Everything a call knows stays true, at every step of every call.
THEOREM CallKnows ==
    ASSUME DispatchUncancelled, OneEntryIfRequired, UncountedIfShort
    PROVE  Spec => []CallInv
<1>1. CallInv /\ [Next]_vars => CallInv'
    BY FrameStep, SlotsListedStep, HeadersStep, BeforeStep, VerifyStep, MarksStep, SlotsStep,
        LoopStep, StringsStep, ReportStep, AnswersStep DEF CallInv
<1> QED BY <1>1, InitCall, PTL DEF Spec

\* Whatever was skipped, cached or left by an earlier call, Scan, Matches, MatchingRules and
\* MatchingRulesInBlock answer what the rules mean on the data.
THEOREM AnswersAreRight ==
    ASSUME DispatchUncancelled, OneEntryIfRequired, UncountedIfShort
    PROVE  Spec => []AnswersAgree
<1>1. CallInv => AnswersAgree
    BY DEF CallInv
<1> QED BY <1>1, CallKnows, PTL

\* A rule that holds on the data is a candidate of the shared search.
THEOREM CandidatesCover ==
    ASSUME DispatchUncancelled, OneEntryIfRequired, UncountedIfShort
    PROVE  Spec => []CandidatesCoverMatches
<1>1. CallInv => CandidatesCoverMatches
    BY DEF CallInv, MarksInv, CandidatesCoverMatches, UsesCandidates, M
<1> QED BY <1>1, CallKnows, PTL

\* Each rule's verdict is final and right as soon as the loop has passed it: later rules
\* read it (ruleResultsDense).
VerdictsAreRight ==
    pc \in {"rule", "strings"} =>
        \A r \in 1 .. (at - 1) : dense[r] = Meaning(input, op)[r]

\* VerdictsAreRight: skipping a rule, by whatever prefilter, gives it the verdict it has.
THEOREM VerdictsRight ==
    ASSUME DispatchUncancelled, OneEntryIfRequired, UncountedIfShort
    PROVE  Spec => []VerdictsAreRight
<1>1. CallInv => VerdictsAreRight
    <2> SUFFICES ASSUME LoopInv, pc \in {"rule", "strings"}, NEW r \in 1 .. (at - 1)
                 PROVE  dense[r] = M[r]
        BY DEF CallInv, VerdictsAreRight, M
    <2> HIDE DEF M
    <2>1. /\ at \in 1 .. (NumRules + 1) /\ NumRules \in Nat
          /\ \A q \in RuleIds : dense[q] = IF q < at THEN M[q] ELSE FALSE
        BY RuleSetAssumption DEF LoopInv
    <2>2. r \in RuleIds /\ r < at
        BY <2>1 DEF RuleIds
    <2> QED BY <2>1, <2>2
<1> QED BY <1>1, CallKnows, PTL

\* A slot that the rules read holds the occurrences of this input, the first where a search
\* stopped at it, or is that of a rule that cannot match.
THEOREM CacheIsRight ==
    ASSUME DispatchUncancelled, OneEntryIfRequired, UncountedIfShort
    PROVE  Spec => []CacheIsOfThisInput
<1>1. CallInv => CacheIsOfThisInput
    BY DEF CallInv, SlotsInv, SlotRight, Skipped, Found, M, CacheIsOfThisInput
<1> QED BY <1>1, CallKnows, PTL
=============================================================================
