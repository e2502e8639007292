---------------------------- MODULE RuleSetFacts ----------------------------
(***************************************************************************)
(* Lemmas on the operators of RuleSet that the theorems about the scanners *)
(* rest on: what the rules mean on a set of facts, rule by rule, and when  *)
(* two sets of facts mean the same.                                        *)
(***************************************************************************)
EXTENDS RuleSet, FiniteSetFacts

---------------------------------------------------------------------------
(* The results of the rules, one after the other. *)

\* What RuleResults says of one rule, given the results of those before it.
ResultOf(f, facts, r) ==
    ShouldEvaluateRule(r) /\ Holds(r, facts, [q \in 1 .. (r - 1) |-> f[q]])

\* The recursion of RuleResults has a solution for the first n rules.
Solves(f, facts, n) == f = [r \in 1 .. n |-> ResultOf(f, facts, r)]

\* Results of the rules before r decide what is said of r.
LEMMA ResultOfEarlier ==
    ASSUME NEW f, NEW g, NEW facts, NEW r \in Nat, \A q \in 1 .. (r - 1) : f[q] = g[q]
    PROVE  ResultOf(f, facts, r) = ResultOf(g, facts, r)
<1>1. [q \in 1 .. (r - 1) |-> f[q]] = [q \in 1 .. (r - 1) |-> g[q]]
    OBVIOUS
<1> QED BY <1>1 DEF ResultOf

LEMMA SolutionExtends ==
    ASSUME NEW facts, NEW n \in Nat, NEW f, Solves(f, facts, n)
    PROVE  \E g : Solves(g, facts, n + 1)
<1> DEFINE g == [r \in 1 .. (n + 1) |-> ResultOf(f, facts, r)]
<1>1. ASSUME NEW r \in 1 .. n PROVE g[r] = f[r]
    <2>1. f[r] = ResultOf(f, facts, r)
        <3> DEFINE h == [s \in 1 .. n |-> ResultOf(f, facts, s)]
        <3>1. f = h
            BY DEF Solves
        <3>2. h[r] = ResultOf(f, facts, r)
            OBVIOUS
        <3> QED BY <3>1, <3>2
    <2>2. g[r] = ResultOf(f, facts, r)
        OBVIOUS
    <2> QED BY <2>1, <2>2
<1>2. ASSUME NEW r \in 1 .. (n + 1) PROVE ResultOf(f, facts, r) = ResultOf(g, facts, r)
    <2>1. \A q \in 1 .. (r - 1) : q \in 1 .. n
        OBVIOUS
    <2> HIDE DEF g
    <2> QED BY <1>1, <2>1, ResultOfEarlier
<1>3. g = [r \in 1 .. (n + 1) |-> ResultOf(g, facts, r)]
    <2> HIDE DEF g
    <2>1. g = [r \in 1 .. (n + 1) |-> ResultOf(f, facts, r)]
        BY DEF g
    <2> QED BY <1>2, <2>1
<1> QED BY <1>3 DEF Solves

LEMMA SolutionExists ==
    ASSUME NEW facts, NEW n \in Nat
    PROVE  \E f : Solves(f, facts, n)
<1> DEFINE Unsolved == {m \in Nat : ~\E f : Solves(f, facts, m)}
<1> SUFFICES ASSUME Unsolved # {} PROVE FALSE
    OBVIOUS
<1>1. PICK m \in Unsolved : \A k \in Unsolved : m <= k
    <2> HIDE DEF Unsolved
    <2>1. Unsolved \subseteq Nat
        BY DEF Unsolved
    <2> QED BY <2>1, LeastNumber
<1>2. CASE m = 0
    <2>1. Solves([r \in {} |-> FALSE], facts, 0)
        BY DEF Solves
    <2> QED BY <1>2, <2>1
<1>3. CASE m # 0
    <2>1. m - 1 \in Nat /\ (m - 1) + 1 = m /\ ~(m <= m - 1)
        BY <1>3
    <2>2. PICK f : Solves(f, facts, m - 1)
        BY <1>1, <2>1
    <2>3. \E g : Solves(g, facts, (m - 1) + 1)
        BY <2>1, <2>2, SolutionExtends
    <2> QED BY <2>1, <2>3
<1> QED BY <1>2, <1>3

\* RuleResults is that solution: each rule is judged on the results of those before it.
LEMMA ResultsUnfold ==
    ASSUME NEW facts
    PROVE  /\ RuleResults(facts) \in [RuleIds -> BOOLEAN]
           /\ \A r \in RuleIds :
                RuleResults(facts)[r] = ResultOf(RuleResults(facts), facts, r)
<1> DEFINE R == CHOOSE f : Solves(f, facts, NumRules)
<1>1. RuleResults(facts) = R
    BY DEF RuleResults, Solves, ResultOf, RuleIds
<1>2. Solves(R, facts, NumRules)
    BY SolutionExists, RuleSetAssumption
<1> HIDE DEF R
<1>3. R = [r \in RuleIds |-> ResultOf(R, facts, r)]
    BY <1>2 DEF Solves, RuleIds
<1>4. \A r \in RuleIds : ResultOf(R, facts, r) \in BOOLEAN
    BY DEF ResultOf
<1> QED BY <1>1, <1>3, <1>4

\* A condition refers to earlier rules only, so it cannot see the results of others.
LEMMA HoldsSeesEarlier ==
    ASSUME NEW r \in RuleIds, NEW facts, NEW f, NEW g, \A q \in 1 .. (r - 1) : f[q] = g[q]
    PROVE  Holds(r, facts, f) = Holds(r, facts, g)
<1>1. ASSUME NEW c \in Rule[r].clauses, NEW q \in c.rules \cup c.notRules
      PROVE  f[q] = g[q]
    <2>1. q \in DirectDependencies(r)
        BY <1>1 DEF DirectDependencies
    <2>2. q \in RuleIds
        BY <1>1, RuleSetAssumption DEF Clause
    <2>3. q < r
        BY <2>1, RuleSetAssumption
    <2> QED BY <2>2, <2>3, RuleSetAssumption DEF RuleIds
<1>2. ASSUME NEW c \in Rule[r].clauses
      PROVE  /\ (\A q \in c.rules : f[q]) = (\A q \in c.rules : g[q])
             /\ (\A q \in c.notRules : ~f[q]) = (\A q \in c.notRules : ~g[q])
    BY <1>1
<1> QED BY <1>2 DEF Holds

\* A loop over the rules that has followed their meaning so far goes on to follow it.
LEMMA LoopFollowsResults ==
    ASSUME NEW facts, NEW dense, NEW r \in RuleIds,
           \A q \in 1 .. (r - 1) : dense[q] = RuleResults(facts)[q]
    PROVE  RuleResults(facts)[r] = (ShouldEvaluateRule(r) /\ Holds(r, facts, dense))
<1> DEFINE earlier == [q \in 1 .. (r - 1) |-> RuleResults(facts)[q]]
<1>1. RuleResults(facts)[r] = (ShouldEvaluateRule(r) /\ Holds(r, facts, earlier))
    BY ResultsUnfold DEF ResultOf
<1>2. \A q \in 1 .. (r - 1) : earlier[q] = dense[q]
    OBVIOUS
<1> HIDE DEF earlier
<1>3. Holds(r, facts, earlier) = Holds(r, facts, dense)
    BY <1>2, HoldsSeesEarlier
<1> QED BY <1>1, <1>3

\* Two functions that agree on each rule when they agree on the rules before agree.
LEMMA AgreementSpreads ==
    ASSUME NEW f, NEW g,
           \A r \in RuleIds : (\A q \in 1 .. (r - 1) : f[q] = g[q]) => f[r] = g[r]
    PROVE  \A r \in RuleIds : f[r] = g[r]
<1> DEFINE Differ == {r \in RuleIds : f[r] # g[r]}
<1> SUFFICES ASSUME Differ # {} PROVE FALSE
    OBVIOUS
<1>1. Differ \subseteq Nat
    BY RuleSetAssumption DEF RuleIds
<1>2. PICK r \in Differ : \A q \in Differ : r <= q
    <2> HIDE DEF Differ
    <2> QED BY <1>1, LeastNumber
<1>3. \A q \in 1 .. (r - 1) : q \in RuleIds /\ ~(r <= q)
    BY RuleSetAssumption DEF RuleIds
<1>4. \A q \in 1 .. (r - 1) : f[q] = g[q]
    BY <1>2, <1>3
<1> QED BY <1>4

\* Facts on which the same conditions hold mean the same.
LEMMA SameFactsSameResults ==
    ASSUME NEW A, NEW B,
           \A r \in RuleIds : \A f \in [RuleIds -> BOOLEAN] :
               ShouldEvaluateRule(r) => Holds(r, A, f) = Holds(r, B, f)
    PROVE  RuleResults(A) = RuleResults(B)
<1>1. /\ RuleResults(A) \in [RuleIds -> BOOLEAN]
      /\ RuleResults(B) \in [RuleIds -> BOOLEAN]
    BY ResultsUnfold
<1>2. ASSUME NEW r \in RuleIds, \A q \in 1 .. (r - 1) : RuleResults(A)[q] = RuleResults(B)[q]
      PROVE  RuleResults(A)[r] = RuleResults(B)[r]
    <2>1. RuleResults(A)[r] = (ShouldEvaluateRule(r) /\ Holds(r, A, RuleResults(A)))
        BY LoopFollowsResults
    <2>2. RuleResults(B)[r] = (ShouldEvaluateRule(r) /\ Holds(r, B, RuleResults(A)))
        BY <1>2, LoopFollowsResults
    <2> QED BY <1>1, <2>1, <2>2
<1>3. \A r \in RuleIds : RuleResults(A)[r] = RuleResults(B)[r]
    BY <1>2, AgreementSpreads
<1> QED BY <1>1, <1>3

\* The bytes a rule reads, or asks for: 0 stands for none.
ReadsOf(r) == {Rule[r].headerEnd} \cup UNION {{c.bytes, c.noBytes} : c \in Rule[r].clauses}

\* Conditions ask whether a string is there, and, unless they are safe for fast scans, how
\* often, whether the bytes they read are there, and how long the input is.
LEMMA SameCountsSameResults ==
    ASSUME NEW A, NEW B, A.size = B.size,
           \A r \in RuleIds : ShouldEvaluateRule(r) =>
               /\ \A n \in ReadsOf(r) : n \in A.readable <=> n \in B.readable
               /\ \A c \in Rule[r].clauses : \A p \in c.need \cup c.twice \cup c.absent :
                     /\ A.count[p] \in Nat /\ B.count[p] \in Nat
                     /\ A.count[p] > 0 <=> B.count[p] > 0
                     /\ FastScanSafe(r) \/ A.count[p] = B.count[p]
    PROVE  RuleResults(A) = RuleResults(B)
<1>1. ASSUME NEW r \in RuleIds, NEW f, ShouldEvaluateRule(r)
      PROVE  Holds(r, A, f) = Holds(r, B, f)
    <2>1. ASSUME NEW c \in Rule[r].clauses
          PROVE  /\ (\A p \in c.need : A.count[p] > 0) = (\A p \in c.need : B.count[p] > 0)
                 /\ (\A p \in c.absent : A.count[p] = 0) = (\A p \in c.absent : B.count[p] = 0)
                 /\ (\A p \in c.twice : A.count[p] > 1) = (\A p \in c.twice : B.count[p] > 1)
                 /\ ({c.bytes} \ {0} \subseteq A.readable) = ({c.bytes} \ {0} \subseteq B.readable)
                 /\ (c.noBytes \notin A.readable) = (c.noBytes \notin B.readable)
        <3>1. \A p \in c.need : A.count[p] > 0 <=> B.count[p] > 0
            BY <1>1
        <3>2. \A p \in c.absent : A.count[p] = 0 <=> B.count[p] = 0
            BY <1>1
        <3>3. \A p \in c.twice : A.count[p] > 1 <=> B.count[p] > 1
            BY <1>1 DEF FastScanSafe, ConditionObservesMatchOccurrences
        <3>4. c.bytes \in ReadsOf(r) /\ c.noBytes \in ReadsOf(r)
            BY DEF ReadsOf
        <3>5. /\ c.bytes \in A.readable <=> c.bytes \in B.readable
              /\ c.noBytes \in A.readable <=> c.noBytes \in B.readable
            BY <1>1, <3>4
        <3> QED BY <3>1, <3>2, <3>3, <3>5
    <2>2. Rule[r].headerEnd \in A.readable <=> Rule[r].headerEnd \in B.readable
        BY <1>1 DEF ReadsOf
    <2> QED BY <2>1, <2>2 DEF Holds
<1> QED BY <1>1, SameFactsSameResults

---------------------------------------------------------------------------
(* More facts, more results. *)

\* Each condition asks for what is there and never for what is not.
OnlyPositive ==
    \A r \in RuleIds : \A c \in Rule[r].clauses :
        c.absent = {} /\ c.notRules = {} /\ c.noBytes = 0

\* B has what A has, as far as the evaluated conditions can see.
HasMore(A, B) ==
    /\ A.size \in Int /\ B.size \in Int /\ A.size <= B.size
    /\ \A n \in A.readable : n \in B.readable
    /\ 0 \notin B.readable
    /\ \A r \in RuleIds : ShouldEvaluateRule(r) =>
          \A c \in Rule[r].clauses : \A p \in c.need \cup c.twice \cup c.absent :
              A.count[p] \in Nat /\ B.count[p] \in Nat /\ A.count[p] <= B.count[p]

\* A positive condition that holds goes on to hold when there is more.
LEMMA PositiveHoldsOn ==
    ASSUME OnlyPositive, NEW A, NEW B, HasMore(A, B), NEW f, NEW g,
           NEW r \in RuleIds, ShouldEvaluateRule(r), Holds(r, A, f),
           \A q \in 1 .. (r - 1) : f[q] => g[q]
    PROVE  Holds(r, B, g)
<1>1. PICK c \in Rule[r].clauses :
          /\ \A p \in c.need : A.count[p] > 0
          /\ \A p \in c.twice : A.count[p] > 1
          /\ \A q \in c.rules : f[q]
          /\ {c.bytes} \ {0} \subseteq A.readable
          /\ A.size >= c.size
    BY DEF Holds
<1>2. c.absent = {} /\ c.notRules = {} /\ c.noBytes = 0 /\ c.size \in Nat
    BY RuleSetAssumption DEF OnlyPositive, Clause
<1>3. \A q \in c.rules : q \in 1 .. (r - 1)
    <2> SUFFICES ASSUME NEW q \in c.rules PROVE q \in 1 .. (r - 1)
        OBVIOUS
    <2>1. q \in DirectDependencies(r)
        BY DEF DirectDependencies
    <2>2. q < r
        BY <2>1, RuleSetAssumption
    <2>3. q \in RuleIds
        BY RuleSetAssumption DEF Clause
    <2> QED BY <2>2, <2>3, RuleSetAssumption DEF RuleIds
<1>4. /\ \A p \in c.need : B.count[p] > 0
      /\ \A p \in c.twice : B.count[p] > 1
    <2>1. \A p \in c.need \cup c.twice :
              A.count[p] \in Nat /\ B.count[p] \in Nat /\ A.count[p] <= B.count[p]
        BY DEF HasMore
    <2> QED BY <1>1, <2>1
<1>5. {c.bytes} \ {0} \subseteq B.readable /\ c.noBytes \notin B.readable /\ B.size >= c.size
    BY <1>1, <1>2 DEF HasMore
<1>6. {Rule[r].headerEnd} \ {0} \subseteq B.readable
    BY DEF Holds, HasMore
<1> QED BY <1>1, <1>2, <1>3, <1>4, <1>5, <1>6 DEF Holds

\* So positive rules that match a part match the whole.
LEMMA MoreFactsMoreResults ==
    ASSUME OnlyPositive, NEW A, NEW B, HasMore(A, B)
    PROVE  \A r \in RuleIds : RuleResults(A)[r] => RuleResults(B)[r]
<1> DEFINE Lost == {r \in RuleIds : RuleResults(A)[r] /\ ~RuleResults(B)[r]}
<1> SUFFICES ASSUME Lost # {} PROVE FALSE
    OBVIOUS
<1>1. Lost \subseteq Nat
    BY RuleSetAssumption DEF RuleIds
<1>2. PICK r \in Lost : \A q \in Lost : r <= q
    <2> HIDE DEF Lost
    <2> QED BY <1>1, LeastNumber
<1>3. \A q \in 1 .. (r - 1) : q \in RuleIds /\ ~(r <= q)
    BY RuleSetAssumption DEF RuleIds
<1>4. \A q \in 1 .. (r - 1) : RuleResults(A)[q] => RuleResults(B)[q]
    BY <1>2, <1>3
<1>5. ShouldEvaluateRule(r) /\ Holds(r, A, RuleResults(A))
    BY LoopFollowsResults
<1>6. Holds(r, B, RuleResults(B))
    BY <1>4, <1>5, PositiveHoldsOn
<1>7. RuleResults(B)[r] = (ShouldEvaluateRule(r) /\ Holds(r, B, RuleResults(B)))
    BY LoopFollowsResults
<1> QED BY <1>5, <1>6, <1>7

---------------------------------------------------------------------------
(* Reports *)

\* The rules that may be in a report, before the hooks stop the list.
Accepted(results, globalsMatched) ==
    {r \in RuleIds : /\ ShouldEvaluateRule(r) /\ results[r] /\ ~Rule[r].private
                     /\ HasMatchingTag(r) /\ (Rule[r].global \/ globalsMatched)
                     /\ Rule[r].hook # "skip"}

\* A report begins with the first accepted rule, whether or not it ends there.
LEMMA ReportBegins ==
    ASSUME NEW results, NEW g \in BOOLEAN
    PROVE  /\ \A early \in BOOLEAN : ReportedIf(results, early, g) \subseteq Accepted(results, g)
           /\ \A early \in BOOLEAN :
                 ReportedIf(results, early, g) = {} <=> Accepted(results, g) = {}
           /\ ReportedIf(results, TRUE, g) \subseteq ReportedIf(results, FALSE, g)
           /\ (\A r \in RuleIds : Rule[r].hook # "stop") =>
                 ReportedIf(results, FALSE, g) = Accepted(results, g)
<1> DEFINE A == Accepted(results, g)
           Last(early) == {r \in A : early \/ Rule[r].hook = "stop"}
<1>1. ASSUME NEW early \in BOOLEAN
      PROVE  ReportedIf(results, early, g) = {r \in A : \A q \in Last(early) : r <= q}
    BY DEF ReportedIf, Accepted
<1>2. A \subseteq Nat /\ A \subseteq RuleIds
    BY RuleSetAssumption DEF Accepted, RuleIds
<1> HIDE DEF A
<1>3. ASSUME NEW early \in BOOLEAN
      PROVE  ReportedIf(results, early, g) = {} <=> A = {}
    <2> SUFFICES ASSUME A # {} PROVE \E r \in A : \A q \in Last(early) : r <= q
        BY <1>1
    <2>1. PICK r \in A : \A q \in A : r <= q
        BY <1>2, LeastNumber
    <2> QED BY <2>1
<1>4. ReportedIf(results, TRUE, g) \subseteq ReportedIf(results, FALSE, g)
    BY <1>1
<1>5. (\A r \in RuleIds : Rule[r].hook # "stop") => ReportedIf(results, FALSE, g) = A
    BY <1>1, <1>2
<1> QED BY <1>1, <1>3, <1>4, <1>5 DEF A

---------------------------------------------------------------------------
(* Selection *)

\* What Selected says of rule q, given what it says of the rules behind it.
Reaches(f, q) ==
    \/ Rule[q].global \/ HasMatchingTag(q)
    \/ \E d \in (q + 1) .. NumRules : f[d] /\ q \in DirectDependencies(d)

Closes(f, lo) == f = [q \in lo .. NumRules |-> Reaches(f, q)]

LEMMA ClosureExtends ==
    ASSUME NEW lo \in Nat, NEW f, Closes(f, lo + 1)
    PROVE  \E g : Closes(g, lo)
<1> DEFINE g == [q \in lo .. NumRules |-> Reaches(f, q)]
<1>1. ASSUME NEW q \in (lo + 1) .. NumRules PROVE g[q] = f[q]
    <2> DEFINE h == [s \in (lo + 1) .. NumRules |-> Reaches(f, s)]
    <2>1. f = h
        BY DEF Closes
    <2>2. h[q] = Reaches(f, q)
        OBVIOUS
    <2>3. g[q] = Reaches(f, q)
        BY RuleSetAssumption
    <2> QED BY <2>1, <2>2, <2>3
<1>2. ASSUME NEW q \in lo .. NumRules PROVE Reaches(f, q) = Reaches(g, q)
    <2>1. \A d \in (q + 1) .. NumRules : d \in (lo + 1) .. NumRules
        BY RuleSetAssumption
    <2> HIDE DEF g
    <2>2. \A d \in (q + 1) .. NumRules : g[d] = f[d]
        BY <1>1, <2>1
    <2> QED BY <2>2 DEF Reaches
<1>3. g = [q \in lo .. NumRules |-> Reaches(g, q)]
    <2> HIDE DEF g
    <2>1. g = [q \in lo .. NumRules |-> Reaches(f, q)]
        BY DEF g
    <2> QED BY <1>2, <2>1
<1> QED BY <1>3 DEF Closes

LEMMA ClosureExists ==
    ASSUME NEW r \in RuleIds
    PROVE  \E f : Closes(f, r)
<1> DEFINE Open == {k \in Nat : k <= NumRules /\ ~\E f : Closes(f, NumRules - k)}
<1>0. NumRules \in Nat /\ r \in Nat /\ 1 <= r /\ r <= NumRules
    BY RuleSetAssumption DEF RuleIds
<1>1. ASSUME Open # {} PROVE FALSE
    <2>1. PICK k \in Open : \A l \in Open : k <= l
        <3>1. Open \subseteq Nat
            OBVIOUS
        <3> HIDE DEF Open
        <3> QED BY <1>1, <3>1, LeastNumber
    <2>2. \E f : Closes(f, NumRules - k + 1)
        <3>1. CASE k = 0
            <4>1. (NumRules - k + 1) .. NumRules = {}
                BY <1>0, <3>1
            <4>2. Closes([q \in {} |-> FALSE], NumRules - k + 1)
                BY <4>1 DEF Closes
            <4> QED BY <4>2
        <3>2. CASE k # 0
            <4>1. k - 1 \in Nat /\ k - 1 <= NumRules /\ ~(k <= k - 1)
                BY <1>0, <3>2
            <4>2. NumRules - (k - 1) = NumRules - k + 1
                BY <1>0
            <4> QED BY <2>1, <4>1, <4>2
        <3> QED BY <3>1, <3>2
    <2>3. NumRules - k \in Nat
        BY <1>0
    <2>4. \E f : Closes(f, NumRules - k)
        BY <2>2, <2>3, ClosureExtends
    <2> QED BY <2>4
<1>2. NumRules - r \in Nat /\ NumRules - r <= NumRules /\ NumRules - (NumRules - r) = r
    BY <1>0
<1> QED BY <1>1, <1>2

\* A global rule and a rule with a tag of the filter are selected.
LEMMA SelectedRules ==
    ASSUME NEW r \in RuleIds, Rule[r].global \/ HasMatchingTag(r)
    PROVE  Selected[r]
<1> DEFINE R == CHOOSE f : Closes(f, r)
<1>1. Selected[r] = R[r]
    BY DEF Selected, Closes, Reaches
<1>2. Closes(R, r)
    BY ClosureExists
<1> HIDE DEF R
<1>3. R = [q \in r .. NumRules |-> Reaches(R, q)]
    BY <1>2 DEF Closes
<1>4. r \in r .. NumRules
    BY RuleSetAssumption DEF RuleIds
<1>5. Reaches(R, r)
    BY DEF Reaches
<1> QED BY <1>1, <1>3, <1>4, <1>5

\* Without a rule gate every global rule is evaluated, so both ways to ask whether the
\* global rules matched agree.
LEMMA GlobalsAreEvaluated ==
    ASSUME \A r \in RuleIds : Rule[r].global => ~Rule[r].gated
    PROVE  EvaluatedGlobalRules = {r \in RuleIds : Rule[r].global}
BY SelectedRules DEF EvaluatedGlobalRules, ShouldEvaluateRule
=============================================================================
