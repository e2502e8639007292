----------------------------- MODULE BufferScan -----------------------------
(***************************************************************************)
(* compiler.Scanner on a buffer (compiler/scanner_exec.go, scanner_api.go, *)
(* scanner_block.go, scanner_prefilter.go, scanner_pattern.go): Scan,      *)
(* Matches, MatchingRules and MatchingRulesInBlock, called one after the   *)
(* other on one Scanner, on inputs that differ, each call cancelled        *)
(* anywhere.  What makes the calls hard is what they skip and what they    *)
(* keep: rules that cannot match are not evaluated, verified occurrences   *)
(* of regex and hex strings are cached by pattern and shared by rules, and *)
(* caches, candidate marks and rule results survive in the Scanner.        *)
(*                                                                         *)
(* A pattern is matched through its key: text strings have a key of their  *)
(* own, equal regexes or hex strings share one.  An input is the set of    *)
(* places where a search finds the atom of a key in one encoding ("hits"); *)
(* a hit is real when the whole pattern matches there.  Whether the shared *)
(* automaton and the fixed-offset dispatch are worth running is decided by *)
(* sampling the data: an input says what the samples say.                  *)
(***************************************************************************)
EXTENDS RuleSet, Sequences, SequencesExt

CONSTANTS
    Pattern,      \* the attributes of each pattern
    Lookup,       \* CompiledProgram.sharedLookup, its regex and hex entries
    FixedRegex,   \* the keys that CompiledProgram.fixedRegexScan can serve
    Compact,      \* the compact prefilter is worth building
    Inputs,       \* the buffers a caller may pass
    Ops,          \* the operations a caller may use
    OptionSets,   \* the options a scanner may be built with
    ReadWidth,    \* the width of the integer reads of conditions, in bytes
    Fallible,     \* the rules whose condition may exceed the interpreter's limits
    EpochLimit,   \* bound: the largest candidate epoch (2^32 - 1 in the code)
    MaxCalls      \* bound: calls on one scanner

Keys == {Pattern[p].key : p \in Patterns}
PatternsOf(r) == {p \in Patterns : Pattern[p].rule = r}
IsText(p) == Pattern[p].kind = "text"
NonTextOf(r) == {p \in PatternsOf(r) : ~IsText(p)}

ASSUME BufferAssumption ==
    /\ \A p \in Patterns : /\ Pattern[p].rule \in RuleIds
                           /\ Pattern[p].kind \in {"text", "regex", "hex"}
                           /\ Pattern[p].score \in 0 .. 9
    \* a key is that of one text string, or of regexes, or of hex strings
    /\ \A p, q \in Patterns :
          Pattern[p].key = Pattern[q].key =>
              p = q \/ (Pattern[p].kind = Pattern[q].kind /\ ~IsText(p))
    \* a condition observes its own rule's strings
    /\ \A r \in RuleIds : \A c \in Rule[r].clauses :
          c.need \cup c.twice \cup c.absent \subseteq PatternsOf(r)
    /\ DOMAIN Lookup = 1 .. Len(Lookup) /\ Len(Lookup) \in Nat
    /\ \A i \in DOMAIN Lookup : /\ Lookup[i].owner \in Patterns /\ ~IsText(Lookup[i].owner)
                                /\ Lookup[i].wide \in BOOLEAN
    \* a fixed-offset regex has no atom for the shared automaton
    /\ FixedRegex \subseteq Keys
    /\ \A i \in DOMAIN Lookup : Pattern[Lookup[i].owner].key \notin FixedRegex
    /\ \A i \in Inputs : /\ i.length \in Nat /\ i.base \in Nat /\ i.size \in Nat
                         /\ i.sparse \in BOOLEAN /\ i.dense \in BOOLEAN
                         /\ i.short \in BOOLEAN /\ IsFiniteSet(i.hits)
                         /\ \A h \in i.hits : h.key \in Keys /\ h.at \in Nat
                    \* a key has an entry for each encoding that may be found
                         /\ \A h \in i.hits : \A j \in DOMAIN Lookup :
                               Pattern[Lookup[j].owner].key = h.key =>
                                   \E e \in DOMAIN Lookup :
                                       /\ Pattern[Lookup[e].owner].key = h.key
                                       /\ Lookup[e].wide = h.wide
    /\ Ops \subseteq {"scan", "matches", "rules", "block"}
    /\ Fallible \subseteq RuleIds
    /\ EpochLimit \in Nat \ {0} /\ MaxCalls \in Nat

\* fast: WithFastScan; reportedOnly: WithReportedMatchesOnly; prefilter: ~prefilterDisabled
\* (the oracle of the tests); profiled: telemetry or profiling hooks; dispatch: the program
\* has enough fixed-offset regexes for a dispatch; background: no context is ever cancelled
ASSUME OptionAssumption ==
    OptionSets \subseteq [fast : BOOLEAN, reportedOnly : BOOLEAN, prefilter : BOOLEAN,
                         profiled : BOOLEAN, dispatch : BOOLEAN, background : BOOLEAN]

VARIABLES
    options,    \* how the scanner, its program and the caller's contexts are made
    input,      \* the data of the call under way, or of the last one
    op,         \* the call
    cancelled,  \* ctx.Err() # nil
    pc,         \* the stage of the call
    at,         \* the lookup entry or rule its loop is at
    nonText,    \* nonTextMatchCache: offsets by key, which slots are ready, touched
    texts,      \* globalMatches: the text candidates of the shared search
    matched,    \* sharedNonTextMatched
    epoch,      \* scanEpoch
    marks,      \* candidateRuleGen
    asserts,    \* assertionResults: what is known of a read that ends at a byte
    block,      \* blockScan, blockContext, blockFileSize
    spans,      \* matchCtx of the rule under evaluation, offsets by pattern
    todo,       \* the regex and hex strings of that rule that are left
    dense,      \* ruleResultsDense
    globals,    \* publicRuleEvaluation.allGlobalMatched
    result,     \* what the last call returned
    calls

matching == <<nonText, texts, matched, epoch, marks>>
ruling == <<spans, todo, dense, globals>>
call == <<options, input, op, block, calls>>
vars == <<call, cancelled, pc, at, matching, asserts, ruling, result>>

---------------------------------------------------------------------------
(* What the program is compiled to. *)

\* False whenever none of the rule's strings is found.
RequiresStringMatch(r) == \A c \in Rule[r].clauses : c.need \cup c.twice # {}

IntersectionOf(S) == {p \in UNION S : \A T \in S : p \in T}

\* deriveStringPresenceBounds: only conditions over the presence of strings, in a rule
\* with several.
PresenceOnly(r) ==
    /\ Cardinality(PatternsOf(r)) >= 2
    /\ \A c \in Rule[r].clauses :
          /\ c.twice = {} /\ c.rules = {} /\ c.notRules = {}
          /\ c.bytes = 0 /\ c.noBytes = 0 /\ c.size = 0

\* Error: the strings of any alternative are required.
RequiredByAny(r) == IF PresenceOnly(r) THEN UNION {c.need : c \in Rule[r].clauses} ELSE {}

RequiredStrings(r) ==
    IF PresenceOnly(r) THEN IntersectionOf({c.need : c \in Rule[r].clauses}) ELSE {}
ForbiddenStrings(r) ==
    IF PresenceOnly(r) THEN IntersectionOf({c.absent : c \in Rule[r].clauses}) ELSE {}

KeyOf(i) == Pattern[Lookup[i].owner].key
Covered == {KeyOf(i) : i \in DOMAIN Lookup}    \* sharedNonTextCaches

\* The required string that selects the rule: a verified one if there is any.
Score(p) == IF IsText(p) THEN Pattern[p].score ELSE 10 + Pattern[p].score
Selectors(r) == {p \in RequiredStrings(r) : IsText(p) \/ Pattern[p].key \in Covered}
BestRequired(r) ==
    {p \in Selectors(r) : \A q \in Selectors(r) : Score(q) <= Score(p)}

\* Error: any string of the rule may select it, but only the first is looked at.
TriggersOnBestOnly(p) == p \in BestRequired(Pattern[p].rule)

CanTriggerRule(p) ==
    LET best == BestRequired(Pattern[p].rule) IN best = {} \/ p \in best

AllStringsShared(r) ==
    /\ RequiresStringMatch(r)
    /\ PatternsOf(r) # {}
    /\ \A p \in NonTextOf(r) : Pattern[p].key \in Covered
CompleteSharedPrefilter(r) ==
    \/ RequiresStringMatch(r) /\ BestRequired(r) # {}
    \/ AllStringsShared(r)
AlwaysEvaluated == {r \in RuleIds : ShouldEvaluateRule(r) /\ ~CompleteSharedPrefilter(r)}

\* The rules whose strings have a key (cacheRuleOwner).
RulesOfKey(k) == {Pattern[p].rule : p \in {q \in Patterns : Pattern[q].key = k}}

\* buildCompactPrefilter: one required text string of each rule, or all its strings.
Anchors(r) == {p \in RequiredStrings(r) : IsText(p)}
Anchor(r) == {p \in Anchors(r) : \A q \in Anchors(r) : Pattern[q].score <= Pattern[p].score}
HasCompactPrefilter ==
    /\ Compact
    /\ \A r \in RuleIds : Anchors(r) # {} \/ CompleteSharedPrefilter(r)
    /\ \E r \in RuleIds : Anchors(r) # {}

\* Error: the anchors alone.
AnchorsOnly ==
    {Pattern[p].key : p \in UNION {Anchor(r) : r \in RuleIds}}

AnchorKeys ==
    {Pattern[p].key : p \in {q \in UNION {IF Anchors(r) # {} THEN Anchor(r) ELSE PatternsOf(r) :
                                           r \in RuleIds} :
                               IsText(q) \/ Pattern[q].key \in Covered}}

---------------------------------------------------------------------------
(* What is true of an input. *)

HitsOf(i, k, wide) == {h \in i.hits : h.key = k /\ h.wide = wide}
Offsets(hits) == {h.at : h \in {g \in hits : g.real}}
Occurrences(i, k) == Offsets({h \in i.hits : h.key = k})

\* The reads of a condition that lie in the data.
Readable(i, base) == (base + ReadWidth) .. (base + i.length)

FactsOf(i, o) ==
    [count |-> [p \in Patterns |-> Cardinality(Occurrences(i, Pattern[p].key))],
     readable |-> Readable(i, IF o = "block" THEN i.base ELSE 0),
     size |-> IF o = "block" THEN i.size ELSE i.length]

---------------------------------------------------------------------------
NoResults == [r \in RuleIds |-> FALSE]
NoSpans == [p \in Patterns |-> {}]
NoAsserts == [b \in {Rule[r].headerEnd : r \in RuleIds} |-> "unknown"]
NoBlock == [on |-> FALSE, base |-> 0, size |-> 0]
EmptyCache == [at |-> [k \in Keys |-> {}], ready |-> {}, touched |-> {}]
Returned(status) == [status |-> status, rules |-> {}, matches |-> FALSE]

Init ==
    /\ options \in OptionSets
    /\ input = (CHOOSE i \in Inputs : TRUE) /\ op = (CHOOSE o \in Ops : TRUE)
    /\ cancelled = FALSE /\ pc = "idle" /\ at = 1
    /\ nonText = EmptyCache /\ texts = {} /\ matched = FALSE
    /\ epoch = 0 /\ marks = [r \in RuleIds |-> 0]
    /\ asserts = NoAsserts /\ block = NoBlock
    /\ spans = NoSpans /\ todo = {} /\ dense = NoResults /\ globals = TRUE
    /\ result = Returned("none") /\ calls = 0

FixedKeys == IF options.dispatch THEN FixedRegex ELSE {}

\* The scan materializes only what it reports: all calls but a default Scan.
SkipsUnmatched == op # "scan" \/ options.reportedOnly

Start ==
    /\ pc = "idle" /\ calls < MaxCalls /\ calls' = calls + 1
    /\ input' \in Inputs /\ op' \in Ops
    /\ cancelled' = FALSE /\ result' = Returned("none")
    /\ asserts' = NoAsserts /\ dense' = NoResults /\ globals' = TRUE
    /\ block' = IF op' = "block"
                THEN [on |-> TRUE, base |-> input'.base, size |-> input'.size]
                ELSE block
    /\ pc' = "prefilter"
    /\ UNCHANGED <<options, at, matching, spans, todo>>

\* The caller cancels the context, or its poll hook wants the scan to end (PollAbort): the
\* call fails at its next check either way.
Cancel ==
    /\ pc # "idle" /\ ~cancelled /\ ~options.background
    /\ cancelled' = TRUE
    /\ UNCHANGED <<call, pc, at, matching, asserts, ruling, result>>

ResetBlockScan == NoBlock

\* The first regex cache slots may hold occurrences of the positions that were looked at
\* before the poll, and none of them is marked (populateFixedRegexCache).
PartOfFixed ==
    {[nonText EXCEPT !.at = [k \in Keys |->
          @[k] \cup {a \in (IF k \in FixedKeys THEN Occurrences(input, k) ELSE {}) : a < n}]] :
        n \in 0 .. input.length}

\* ctx.Err() at the top of every loop, and the polls inside the searches.
Abort ==
    /\ cancelled /\ pc # "idle"
    /\ IF pc = "fixed" /\ input.dense THEN nonText' \in PartOfFixed ELSE UNCHANGED nonText
    /\ pc' = "idle" /\ result' = Returned("error") /\ block' = ResetBlockScan
    /\ UNCHANGED <<options, input, op, calls, cancelled, at, texts, matched, epoch, marks,
                   asserts, ruling>>

---------------------------------------------------------------------------
(* Header constraints *)

Origin == IF block.on THEN block.base ELSE 0

\* cachedInputAssertion: rules with the same header share one answer.
HeaderHolds(r) ==
    IF asserts[Rule[r].headerEnd] # "unknown"
    THEN asserts[Rule[r].headerEnd] = "true"
    ELSE {Rule[r].headerEnd} \ {0} \subseteq Readable(input, Origin)

NoteHeader(r) ==
    asserts' = [asserts EXCEPT ![Rule[r].headerEnd] = IF HeaderHolds(r) THEN "true" ELSE "false"]

---------------------------------------------------------------------------
(* preparePatternScan *)

\* compactPrefilterRejects: no anchor in the data, so no rule is looked at.
CompactRejects ==
    /\ SkipsUnmatched /\ options.prefilter /\ HasCompactPrefilter /\ input.short
    /\ \A h \in input.hits : h.key \notin AnchorKeys

RejectCompact ==
    /\ pc = "prefilter" /\ ~cancelled /\ CompactRejects
    /\ pc' = "report" /\ at' = 1
    /\ UNCHANGED <<call, cancelled, matching, asserts, ruling, result>>

\* Error: the slots that were filled are trusted for the next input.
KeepReady == [nonText EXCEPT !.touched = {}]

\* nonTextMatchCache.reset empties the slots that were marked, and no other.
ResetCache ==
    [at |-> [k \in Keys |-> IF k \in nonText.touched THEN {} ELSE nonText.at[k]],
     ready |-> nonText.ready \ nonText.touched, touched |-> {}]

PreparePatternScan ==
    /\ pc = "prefilter" /\ ~cancelled /\ ~CompactRejects
    /\ nonText' = ResetCache /\ matched' = FALSE /\ pc' = "fixed"
    /\ UNCHANGED <<call, cancelled, at, texts, epoch, marks, asserts, ruling, result>>

\* Error: old marks count again when the counter wraps.
NextEpochKeepingMarks == IF epoch = EpochLimit THEN <<1, marks>> ELSE <<epoch + 1, marks>>

\* resetCandidateRules
NextEpoch == IF epoch = EpochLimit THEN <<1, [r \in RuleIds |-> 0]>> ELSE <<epoch + 1, marks>>

Mark(old, e, rules) == [r \in RuleIds |-> IF r \in rules THEN e ELSE old[r]]
IsCandidate(r) == marks[r] = epoch

\* populateFixedRegexCache, when the sample finds enough routed bytes; then the candidates
\* of the last input are dropped.
FixedRegexes ==
    /\ pc = "fixed" /\ ~cancelled
    /\ nonText' = IF input.dense
                  THEN [at |-> [k \in Keys |-> IF k \in FixedKeys
                                               THEN nonText.at[k] \cup Occurrences(input, k)
                                               ELSE nonText.at[k]],
                        ready |-> nonText.ready \cup FixedKeys,
                        touched |-> nonText.touched \cup FixedKeys]
                  ELSE nonText
    /\ texts' = {}
    /\ epoch' = NextEpoch[1] /\ marks' = Mark(NextEpoch[2], epoch', AlwaysEvaluated)
    /\ pc' = IF input.sparse THEN "search" ELSE "select"
    /\ UNCHANGED <<call, cancelled, at, matched, asserts, ruling, result>>

\* extractGlobalMatchesInt: every occurrence of an atom is routed, verified or not.
SharedSearch ==
    LET found == {h \in input.hits : \E p \in Patterns : IsText(p) /\ Pattern[p].key = h.key}
        hit(p) == \E h \in found : h.key = Pattern[p].key
    IN
    /\ pc = "search" /\ ~cancelled
    /\ texts' = found
    /\ marks' = Mark(marks, epoch, {Pattern[p].rule : p \in
                    {q \in Patterns : hit(q) /\ (options.profiled \/ CanTriggerRule(q))}})
    /\ pc' = "verify" /\ at' = 1
    /\ UNCHANGED <<call, cancelled, nonText, matched, epoch, asserts, ruling, result>>

TextHits(p) == {h \in texts : h.key = Pattern[p].key}

\* ruleRejectedBeforeNonText: a required string is known to be missing, or a forbidden
\* text string is there.
RejectedBeforeNonText(r) ==
    \/ \E p \in RequiredStrings(r) :
          IF IsText(p) THEN TextHits(p) = {}
          ELSE Pattern[p].key \in nonText.ready /\ nonText.at[Pattern[p].key] = {}
    \/ \E p \in ForbiddenStrings(r) : IsText(p) /\ Offsets(TextHits(p)) # {}

\* Error: the pattern may belong to other rules too.
SkipSharedToo(i) ==
    /\ options.prefilter /\ SkipsUnmatched /\ ~options.profiled
    /\ RejectedBeforeNonText(Pattern[Lookup[i].owner].rule)

CanSkipEntry(i) ==
    /\ options.prefilter /\ SkipsUnmatched /\ ~options.profiled
    /\ Cardinality(RulesOfKey(KeyOf(i))) = 1
    /\ RejectedBeforeNonText(Pattern[Lookup[i].owner].rule)

Touched(i) == HitsOf(input, KeyOf(i), Lookup[i].wide) # {}

CacheSet(k, offsets) ==
    [at |-> [nonText.at EXCEPT ![k] = offsets],
     ready |-> nonText.ready \cup {k}, touched |-> nonText.touched \cup {k}]

\* populateNonTextPrefilterCache: the candidates of one entry, in the order of the lookup.
VerifyEntry ==
    /\ pc = "verify" /\ ~cancelled /\ at <= Len(Lookup)
    /\ LET k == KeyOf(at)
           verified == nonText.at[k] \cup Offsets(HitsOf(input, k, Lookup[at].wide))
           selects == {Pattern[p].rule :
                          p \in {q \in Patterns : Pattern[q].key = k /\ CanTriggerRule(q)}}
       IN CASE ~Touched(at) -> UNCHANGED <<nonText, matched, marks>>
            [] Touched(at) /\ CanSkipEntry(at) ->
                  nonText' = CacheSet(k, {}) /\ UNCHANGED <<matched, marks>>
            [] Touched(at) /\ ~CanSkipEntry(at) ->
                  /\ nonText' = CacheSet(k, verified)
                  /\ matched' = (matched \/ verified # {})
                  /\ marks' = IF verified # {} THEN Mark(marks, epoch, selects) ELSE marks
    /\ at' = at + 1
    /\ UNCHANGED <<call, cancelled, pc, texts, epoch, asserts, ruling, result>>

\* Error: a skipped entry is looked at again.
VerifyAllButSkipped ==
    /\ pc = "verify" /\ ~cancelled /\ at > Len(Lookup)
    /\ \A i \in DOMAIN Lookup : Touched(i) => ~CanSkipEntry(i)
    /\ pc' = "select"
    /\ UNCHANGED <<call, cancelled, at, matching, asserts, ruling, result>>

VerifyDone ==
    /\ pc = "verify" /\ ~cancelled /\ at > Len(Lookup)
    /\ pc' = "select"
    /\ UNCHANGED <<call, cancelled, at, matching, asserts, ruling, result>>

---------------------------------------------------------------------------
(* Which rules are evaluated *)

\* ruleHasMatchedSharedNonText
HasMatchedNonText(r) ==
    \E p \in NonTextOf(r) : Pattern[p].key \in nonText.ready /\ nonText.at[Pattern[p].key] # {}

\* A default Scan also evaluates the rules some string of which was seen.
AlsoSelected ==
    IF SkipsUnmatched THEN {}
    ELSE {r \in RuleIds : \/ \E p \in PatternsOf(r) : IsText(p) /\ TextHits(p) # {}
                          \/ ShouldEvaluateRule(r) /\ ~AllStringsShared(r)
                          \/ ShouldEvaluateRule(r) /\ matched /\ HasMatchedNonText(r)}

\* Whether the rule loop looks at candidates only.
UsesCandidates == options.prefilter /\ input.sparse

\* A global rule that is no candidate fails every other rule (evaluateSharedPublicRules).
\* Without the shared search, only headers can reject all rules; the loop would do so too.
SelectRules ==
    /\ pc = "select" /\ ~cancelled
    /\ marks' = Mark(marks, epoch, AlsoSelected)
    /\ globals' = (UsesCandidates => \A g \in EvaluatedGlobalRules : marks'[g] = epoch)
    /\ pc' = "rule" /\ at' = 1
    /\ UNCHANGED <<call, cancelled, nonText, texts, matched, epoch, asserts, spans, todo,
                   dense, result>>

---------------------------------------------------------------------------
(* evaluateRuleCondition *)

\* Matches wants a yes or no, for which a monotonic condition needs no more strings.
CanShortCircuit(r) == op = "matches" /\ ConditionMonotonic(r) /\ NonTextOf(r) # {}

\* getNonTextMatches: a covered key that the shared search did not touch is absent.
Known(p) == Pattern[p].key \in nonText.ready \/ (input.sparse /\ Pattern[p].key \in Covered)
CachedAt(p) == IF Pattern[p].key \in nonText.ready THEN nonText.at[Pattern[p].key] ELSE {}

MissingRequired(r) ==
    \E p \in RequiredStrings(r) :
        IF IsText(p) THEN TextHits(p) = {} ELSE Known(p) /\ CachedAt(p) = {}

HasForbidden(r, now) ==
    \E p \in ForbiddenStrings(r) :
        now[p] # {} \/ (~IsText(p) /\ Known(p) /\ CachedAt(p) # {})

\* In fast-scan mode a condition that counts nothing gets one match per string.
OnePerString(r) == options.fast /\ FastScanSafe(r)
Kept(r, offsets) ==
    IF OnePerString(r) /\ offsets # {} THEN {Min(offsets)} ELSE offsets

FactsNow(now) ==
    [count |-> [p \in Patterns |-> Cardinality(now[p])],
     readable |-> Readable(input, Origin),
     size |-> IF block.on THEN block.size ELSE input.length]
Satisfied(r, now) == Holds(r, FactsNow(now), dense)

\* Whether an evaluation of the condition fails.
MayFail(r) == {fails \in BOOLEAN : fails => r \in Fallible}

TextSpans(r) ==
    [p \in Patterns |->
        IF p \in PatternsOf(r) /\ IsText(p)
        THEN Kept(r, IF input.sparse THEN Offsets(TextHits(p))
                     ELSE Occurrences(input, Pattern[p].key))
        ELSE {}]

Looking(r) == pc = "rule" /\ ~cancelled /\ at = r

\* The gate, the tag filter, or the candidate marks leave the rule out.
PassOver(r) ==
    /\ Looking(r)
    /\ ~ShouldEvaluateRule(r) \/ (UsesCandidates /\ ~IsCandidate(r))
    /\ at' = r + 1
    /\ UNCHANGED <<call, cancelled, pc, matching, asserts, ruling, result>>

Evaluated(r) ==
    Looking(r) /\ ShouldEvaluateRule(r) /\ (UsesCandidates => IsCandidate(r))

\* A required string is missing.
GateRejects(r) == SkipsUnmatched /\ UsesCandidates /\ MissingRequired(r)

\* The verdict of the rule, and a global rule's part in it.
Decide(r, verdict) ==
    /\ dense' = [dense EXCEPT ![r] = verdict]
    /\ globals' = (globals /\ (Rule[r].global => verdict))
    /\ pc' = "rule" /\ at' = r + 1
    /\ UNCHANGED <<call, cancelled, matching, result>>

Prune(r) ==
    /\ Evaluated(r) /\ (~HeaderHolds(r) \/ GateRejects(r))
    /\ NoteHeader(r)
    /\ Decide(r, FALSE)
    /\ UNCHANGED <<spans, todo>>

\* The text strings are added; a forbidden one, or a condition that they satisfy, makes
\* the regex and hex strings unnecessary.  A condition that fails here counts as not
\* satisfied (isRuleConditionSatisfied).
AddTexts(r) ==
    /\ Evaluated(r) /\ HeaderHolds(r) /\ ~GateRejects(r)
    /\ NoteHeader(r)
    /\ spans' = TextSpans(r)
    /\ \E fails \in MayFail(r) :
          todo' = IF \/ options.prefilter /\ SkipsUnmatched /\ HasForbidden(r, spans')
                     \/ /\ CanShortCircuit(r) /\ \E p \in Patterns : spans'[p] # {}
                        /\ ~fails /\ Satisfied(r, spans')
                  THEN {} ELSE NonTextOf(r)
    /\ pc' = "strings"
    /\ UNCHANGED <<call, cancelled, at, matching, dense, globals, result>>

\* Go ranges over a map: any order, regexes before hex strings.
NextStrings == LET regexes == {p \in todo : Pattern[p].kind = "regex"}
               IN IF regexes # {} THEN regexes ELSE todo

\* A hex search stops at the match that makes the condition hold (findHexMatchesEach).
FirstOfHex(r, p, found, fails) ==
    IF /\ CanShortCircuit(r) /\ ~fails /\ Pattern[p].kind = "hex" /\ found # {}
       /\ Satisfied(r, [spans EXCEPT ![p] = {Min(found)}])
    THEN {Min(found)} ELSE found

\* addLocalNonTextMatches, for one string: what is cached, or a search of its own, which
\* fills the slot unless matches were dropped (a search that stopped fills it too).
AddString(r, p) ==
    \E fails \in MayFail(r) :
        LET found == IF Known(p) THEN CachedAt(p)
                     ELSE FirstOfHex(r, p, Occurrences(input, Pattern[p].key), fails)
        IN
        /\ pc = "strings" /\ ~cancelled /\ at = r /\ p \in NextStrings
        /\ spans' = [spans EXCEPT ![p] = Kept(r, found)]
        /\ nonText' = IF Known(p) \/ OnePerString(r) THEN nonText
                      ELSE CacheSet(Pattern[p].key, found)
        /\ todo' = IF CanShortCircuit(r) /\ found # {} /\ ~fails /\ Satisfied(r, spans')
                   THEN {} ELSE todo \ {p}
        /\ UNCHANGED <<call, cancelled, pc, at, texts, matched, epoch, marks, asserts, dense,
                       globals, result>>

\* The condition is evaluated: no forbidden string is there, and some string is if one is
\* needed.
Executed(r) ==
    /\ ~(options.prefilter /\ SkipsUnmatched /\ HasForbidden(r, spans))
    /\ RequiresStringMatch(r) /\ options.prefilter => \E p \in Patterns : spans[p] # {}

Verdict(r) == Executed(r) /\ Satisfied(r, spans)

Conclude(r) ==
    /\ pc = "strings" /\ ~cancelled /\ at = r /\ todo = {}
    /\ Decide(r, Verdict(r))
    /\ spans' = NoSpans
    /\ UNCHANGED <<todo, asserts>>

\* A condition exceeds the limits of the interpreter: the call ends.
ConditionFails(r) ==
    /\ pc = "strings" /\ at = r /\ todo = {} /\ r \in Fallible /\ Executed(r)
    /\ pc' = "idle" /\ result' = Returned("error") /\ block' = ResetBlockScan
    /\ UNCHANGED <<options, input, op, calls, cancelled, at, matching, asserts, ruling>>

---------------------------------------------------------------------------
(* What is returned *)

Public(r) == ~Rule[r].private /\ HasMatchingTag(r)

RulesDone ==
    /\ pc = "rule" /\ ~cancelled /\ at > NumRules
    /\ pc' = "report"
    /\ UNCHANGED <<call, cancelled, at, matching, asserts, ruling, result>>

\* Scan looks the global rules up in the dense results, the other calls noted them on the
\* way.  Matches asks no hook.
Report ==
    /\ pc = "report"
    /\ LET held == IF op = "scan" THEN AllGlobalMatched(dense) ELSE globals
           public == {r \in RuleIds : dense[r] /\ Public(r) /\ (Rule[r].global \/ held)}
       IN result' = [status |-> "done",
                     rules |-> IF op = "matches" THEN {} ELSE ReportedIf(dense, FALSE, held),
                     matches |-> op = "matches" /\ public # {}]
    /\ dense' = NoResults /\ globals' = TRUE
    /\ block' = NoBlock /\ pc' = "idle"
    /\ UNCHANGED <<options, input, op, calls, cancelled, at, matching, asserts, spans, todo>>

Matching == RejectCompact \/ PreparePatternScan \/ FixedRegexes \/ SharedSearch
            \/ VerifyEntry \/ VerifyDone \/ SelectRules
Evaluating == \/ \E r \in RuleIds : \/ PassOver(r) \/ Prune(r) \/ AddTexts(r) \/ Conclude(r)
                                    \/ ConditionFails(r)
                                    \/ \E p \in PatternsOf(r) : AddString(r, p)
              \/ RulesDone \/ Report

Next == Start \/ Cancel \/ Abort \/ Matching \/ Evaluating

Spec == Init /\ [][Next]_vars

\* A call is straight-line code in the caller's goroutine.
FairSpec == Spec /\ WF_vars(Abort \/ Matching \/ Evaluating)

---------------------------------------------------------------------------
(* Properties *)

\* Every variable has its type.
TypeOK ==
    /\ options \in OptionSets /\ input \in Inputs /\ op \in Ops
    /\ cancelled \in BOOLEAN /\ calls \in 0 .. MaxCalls
    /\ pc \in {"idle", "prefilter", "fixed", "search", "verify", "select", "rule", "strings",
               "report"}
    /\ at \in 1 .. (Max({NumRules, Len(Lookup)}) + 1)
    /\ nonText.at \in [Keys -> SUBSET Nat]
    /\ nonText.ready \subseteq nonText.touched /\ nonText.touched \subseteq Keys
    /\ texts \subseteq UNION {i.hits : i \in Inputs} /\ matched \in BOOLEAN
    /\ epoch \in 0 .. EpochLimit /\ marks \in [RuleIds -> 0 .. EpochLimit]
    /\ asserts \in [DOMAIN NoAsserts -> {"unknown", "true", "false"}]
    /\ block.on \in BOOLEAN /\ block.on => op = "block" /\ pc # "idle"
    /\ spans \in [Patterns -> SUBSET Nat] /\ todo \subseteq Patterns
    /\ dense \in [RuleIds -> BOOLEAN] /\ globals \in BOOLEAN
    /\ result.rules \subseteq RuleIds

Meaning(i, o) == RuleResults(FactsOf(i, o))

\* Whatever was skipped, cached or left by an earlier call, the answer is what the rules
\* mean on the data (Scan, MatchingRules, MatchingRulesInBlock and Matches).
AnswersAgree ==
    result.status = "done" =>
        IF op = "matches"
        THEN result.matches <=> \E r \in RuleIds :
                /\ Meaning(input, op)[r] /\ Public(r)
                /\ Rule[r].global \/ AllGlobalMatched(Meaning(input, op))
        ELSE result.rules = Reported(Meaning(input, op), FALSE)

\* A rule that holds on the data is a candidate of the shared search (the triggers, the
\* verified keys and the rules without a complete prefilter cover it).
CandidatesCoverMatches ==
    pc = "rule" /\ at = 1 /\ UsesCandidates =>
        \A r \in RuleIds : Meaning(input, op)[r] => IsCandidate(r)

\* A search of Matches for a hex string stops at the first occurrence that is enough.
FirstOnly(k) ==
    /\ op = "matches" /\ \A p \in Patterns : Pattern[p].key = k => Pattern[p].kind = "hex"
    /\ \E a \in Occurrences(input, k) : /\ nonText.at[k] = {a}
                                        /\ \A b \in Occurrences(input, k) : a <= b

\* While rules are evaluated, a slot of the cache that is ready holds the occurrences of
\* this input (the first, where a search stopped at it), unless the one rule that uses it
\* cannot match.
CacheIsOfThisInput ==
    pc \in {"rule", "strings"} =>
        \A k \in nonText.ready :
            \/ nonText.at[k] = Occurrences(input, k)
            \/ FirstOnly(k)
            \/ /\ nonText.at[k] = {}
               /\ \A r \in RulesOfKey(k) : ~Meaning(input, op)[r]

\* A candidate mark of an earlier scan never counts in a later one, however often the
\* epoch counter has wrapped (resetCandidateRules).
MarksAreFresh ==
    pc = "search" => \A r \in RuleIds : IsCandidate(r) => r \in AlwaysEvaluated

\* A call returns, whenever it is cancelled.
CallReturns == pc # "idle" ~> pc = "idle"
=============================================================================
