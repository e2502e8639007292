------------------------------ MODULE RuleSet ------------------------------
(***************************************************************************)
(* A compiled rule set (compiler.CompiledProgram, compiler.CompiledRule)   *)
(* as every scanner of the package sees it: which rules are evaluated, in  *)
(* what order, what a rule's condition observes, and which of the matched  *)
(* rules are reported.                                                     *)
(*                                                                         *)
(* A condition is kept as what its bytecode can distinguish: a set of      *)
(* alternatives (disjunctive normal form over the inputs of a condition).  *)
(* A clause asks for patterns that are present (need) or present twice     *)
(* (twice: #a > 1), patterns that are absent (absent), earlier rules that  *)
(* matched (rules) or did not (notRules), an integer read that ends at     *)
(* byte number "bytes" of the input and has the wanted value, a read that  *)
(* is undefined (noBytes, 0 for none: not defined uint8(noBytes - 1)), and *)
(* a least filesize (size).                                                *)
(***************************************************************************)
EXTENDS Integers, FiniteSets, FiniteSetsExt

CONSTANTS
    Patterns,   \* the string identifiers of the whole rule set
    NumRules,   \* len(program.Rules)
    Rule,       \* the attributes of each rule, by CompiledRule.Index
    TagFilter   \* whether the scanner was given a non-empty WithTags filter

RuleIds == 1 .. NumRules

Clause ==
    [need : SUBSET Patterns, twice : SUBSET Patterns, absent : SUBSET Patterns,
     rules : SUBSET RuleIds, notRules : SUBSET RuleIds,
     bytes : Nat, noBytes : Nat, size : Nat]

HookActions == {"continue", "skip", "stop"}

\* The rules a condition refers to: compiled as OpRuleRef on the index of a rule
\* that was declared before.
DirectDependencies(r) == UNION {c.rules \cup c.notRules : c \in Rule[r].clauses}

ASSUME RuleSetAssumption ==
    /\ NumRules \in Nat
    /\ TagFilter \in BOOLEAN
    /\ DOMAIN Rule = RuleIds
    /\ \A r \in RuleIds :
        /\ Rule[r].private \in BOOLEAN
        /\ Rule[r].global \in BOOLEAN
        /\ Rule[r].tagged \in BOOLEAN        \* has a tag of the filter
        /\ Rule[r].gated \in BOOLEAN         \* the rule gate returns false
        /\ Rule[r].usesModule \in BOOLEAN    \* len(moduleAccessNames) > 0
        /\ Rule[r].headerEnd \in Nat         \* HeaderConstraints, 0 for none
        /\ Rule[r].hook \in HookActions      \* what the match hook answers
        /\ Rule[r].clauses \subseteq Clause
        /\ \A d \in DirectDependencies(r) : d < r

---------------------------------------------------------------------------
(* What a scanner evaluates. *)

HasMatchingTag(r) == ~TagFilter \/ Rule[r].tagged

\* selectEvaluatedRules: with a tag filter, the global and the tagged rules and
\* everything they refer to.  References point backwards, so the worklist of the
\* code is a recursion over the later rules.
Selected ==
    [r \in RuleIds |->
        LET reached[q \in r .. NumRules] ==
                \/ Rule[q].global \/ HasMatchingTag(q)
                \/ \E d \in (q + 1) .. NumRules :
                        reached[d] /\ q \in DirectDependencies(d)
        IN reached[r]]

ShouldEvaluateRule(r) == ~Rule[r].gated /\ (TagFilter => Selected[r])

\* Fixed when the scanner is built (computeAllEvaluatedRulesRequireSharedPatterns).
EvaluatedGlobalRules == {r \in RuleIds : ShouldEvaluateRule(r) /\ Rule[r].global}

---------------------------------------------------------------------------
(* What the compiler derives from a condition. *)

ConditionObservesMatchOccurrences(r) == \E c \in Rule[r].clauses : c.twice # {}

FastScanSafe(r) == ~ConditionObservesMatchOccurrences(r)

\* conditionIsMonotonicInStrings looks for negated strings only: an Identifier, so
\* a rule reference too, counts as monotonic, and NOT is accepted over anything
\* that names no string.
ConditionMonotonic(r) ==
    /\ ~ConditionObservesMatchOccurrences(r)
    /\ \A c \in Rule[r].clauses : c.absent = {}

RuleObservesFilesize(r) == \E c \in Rule[r].clauses : c.size # 0

\* Error: a private rule, which is never reported, ends the scan.
CanRuleEarlyTerminateUnreported(r) ==
    ConditionMonotonic(r) /\ ~Rule[r].usesModule /\ ~RuleObservesFilesize(r)

CanRuleEarlyTerminate(r) ==
    /\ ~Rule[r].private
    /\ ConditionMonotonic(r)
    /\ ~Rule[r].usesModule
    /\ ~RuleObservesFilesize(r)

\* The interpreter's verdict on rule r.  "facts" is the match context: the number
\* of retained occurrences of each pattern, the ends of the reads that are defined
\* and the filesize; "results" are the results of the rules before r.
Holds(r, facts, results) ==
    /\ {Rule[r].headerEnd} \ {0} \subseteq facts.readable
    /\ \E c \in Rule[r].clauses :
        /\ \A p \in c.need : facts.count[p] > 0
        /\ \A p \in c.twice : facts.count[p] > 1
        /\ \A p \in c.absent : facts.count[p] = 0
        /\ \A q \in c.rules : results[q]
        /\ \A q \in c.notRules : ~results[q]
        /\ {c.bytes} \ {0} \subseteq facts.readable
        /\ c.noBytes \notin facts.readable
        /\ facts.size >= c.size

---------------------------------------------------------------------------
(* The result list of one scan, and the reference semantics. *)

AllGlobalMatched(results) == \A g \in EvaluatedGlobalRules : results[g]

\* The matched rules a scan returns, in rule order: a failed global rule hides the
\* others, private and untagged rules are never returned, the match hook may skip a
\* rule or stop the list after it, and an early-terminating scan stops at the first.
ReportedIf(results, early, globalsMatched) ==
    LET candidates ==
            {r \in RuleIds : /\ ShouldEvaluateRule(r)
                             /\ results[r]
                             /\ ~Rule[r].private
                             /\ HasMatchingTag(r)
                             /\ Rule[r].global \/ globalsMatched}
        accepted == {r \in candidates : Rule[r].hook # "skip"}
        last == {r \in accepted : early \/ Rule[r].hook = "stop"}
    IN {r \in accepted : \A q \in last : r <= q}

Reported(results, early) == ReportedIf(results, early, AllGlobalMatched(results))

\* What the rules mean on a fixed set of facts: each evaluated rule in turn.
RuleResults(facts) ==
    LET result[r \in RuleIds] ==
            ShouldEvaluateRule(r) /\ Holds(r, facts, [q \in 1 .. (r - 1) |-> result[q]])
    IN result
============================================================================
